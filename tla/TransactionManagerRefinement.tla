---------------------- MODULE TransactionManagerRefinement ----------------------
(***************************************************************************)
(* The transaction manager implements TransactionLifecycle: whatever        *)
(* interleaves, fails or restarts between its statements, the table moves   *)
(* by the lifecycle's steps.  That module is instantiated with its own copy *)
(* of the table's operators, so the steps are first stated with ours.       *)
(***************************************************************************)
EXTENDS TransactionManagerProofs

-----------------------------------------------------------------------------
(* The lifecycle's steps. *)

LEMMA TableSteps ==
  ASSUME NEW t \in TxId
  PROVE  /\ (/\ RetryAncestorsSafe(tx, t) /\ Claimable(tx[t])
             /\ tx' = [tx EXCEPT ![t] = ClaimedRow(@)] /\ Paid' = Paid) => Promise!Claim(t)
         /\ (/\ Releasable(tx[t])
             /\ tx' = [tx EXCEPT ![t] = ReleasedRow(@)] /\ Paid' = Paid) => Promise!Release(t)
         /\ (/\ tx[t].status = "broadcasting"
             /\ tx' = [tx EXCEPT ![t] = MarkedSentRow(@)] /\ Paid' = Paid)
                => Promise!Acknowledge(t)
         /\ (/\ tx[t].status = "sent" /\ t \in Paid
             /\ tx' = [tx EXCEPT ![t] = MarkedConfirmedRow(@)] /\ Paid' = Paid)
                => Promise!Confirm(t)
         /\ (/\ CanMarkDelayed(tx[t])
             /\ tx' = [tx EXCEPT ![t] = MarkedDelayedRow(@)] /\ Paid' = Paid)
                => Promise!Delay(t)
         /\ (/\ CancellationRequestable(tx[t])
             /\ tx' = [tx EXCEPT ![t] = CancellationRequestedRow(@)] /\ Paid' = Paid)
                => Promise!AskToCancel(t)
         /\ (/\ Cancellable(tx[t])
             /\ tx' = [tx EXCEPT ![t] = CancelledRow(@)] /\ Paid' = Paid)
                => Promise!Cancel(t)
<1>1. (/\ RetryAncestorsSafe(tx, t) /\ Claimable(tx[t])
       /\ tx' = [tx EXCEPT ![t] = ClaimedRow(@)] /\ Paid' = Paid) => Promise!Claim(t)
  BY DEF Promise!Claim, Promise!RetryAncestorsSafe, Promise!Claimable, Promise!ClaimedRow,
         Promise!Chain, Promise!IsProvenOnChainFailure, Promise!IsReceiptTimeoutFailure,
         Promise!Exists, Promise!TxId, Promise!NoRoot, Promise!NoPayload,
         RetryAncestorsSafe, Claimable, ClaimedRow, Chain, IsProvenOnChainFailure,
         IsReceiptTimeoutFailure, Exists, TxId, NoRoot, NoPayload
<1>2. (/\ Releasable(tx[t])
       /\ tx' = [tx EXCEPT ![t] = ReleasedRow(@)] /\ Paid' = Paid) => Promise!Release(t)
  BY DEF Promise!Release, Promise!Releasable, Promise!ReleasedRow, Promise!NoPayload,
         Releasable, ReleasedRow, NoPayload
<1>3. (/\ tx[t].status = "broadcasting"
       /\ tx' = [tx EXCEPT ![t] = MarkedSentRow(@)] /\ Paid' = Paid)
          => Promise!Acknowledge(t)
  BY DEF Promise!Acknowledge, Promise!MarkedSentRow, Promise!NoPayload, MarkedSentRow,
         NoPayload
<1>4. (/\ tx[t].status = "sent" /\ t \in Paid
       /\ tx' = [tx EXCEPT ![t] = MarkedConfirmedRow(@)] /\ Paid' = Paid)
          => Promise!Confirm(t)
  BY DEF Promise!Confirm, Promise!MarkedConfirmedRow, MarkedConfirmedRow
<1>5. (/\ CanMarkDelayed(tx[t])
       /\ tx' = [tx EXCEPT ![t] = MarkedDelayedRow(@)] /\ Paid' = Paid)
          => Promise!Delay(t)
  BY DEF Promise!Delay, Promise!MarkedDelayedRow, Promise!CanMarkDelayed,
         MarkedDelayedRow, CanMarkDelayed
<1>6. (/\ CancellationRequestable(tx[t])
       /\ tx' = [tx EXCEPT ![t] = CancellationRequestedRow(@)] /\ Paid' = Paid)
          => Promise!AskToCancel(t)
  BY DEF Promise!AskToCancel, Promise!CancellationRequestable,
         Promise!CancellationRequestedRow, Promise!NoPayload, CancellationRequestable,
         CancellationRequestedRow, NoPayload
<1>7. (/\ Cancellable(tx[t])
       /\ tx' = [tx EXCEPT ![t] = CancelledRow(@)] /\ Paid' = Paid)
          => Promise!Cancel(t)
  BY DEF Promise!Cancel, Promise!Cancellable, Promise!CancelledRow, Promise!NoPayload,
         Cancellable, CancelledRow, NoPayload
<1>8. QED
  BY <1>1, <1>2, <1>3, <1>4, <1>5, <1>6, <1>7

\* The steps with an argument besides the row.
LEMMA PrepareIs ==
  ASSUME NEW t \in TxId, NEW nonce \in 0 .. MaxTx, Preparable(tx[t]),
         tx' = [tx EXCEPT ![t] = PreparedRow(@, nonce)], Paid' = Paid
  PROVE  Promise!Prepare(t)
  BY DEF Promise!Prepare, Promise!Preparable, Promise!PreparedRow, Promise!NoPayload,
         Preparable, PreparedRow, NoPayload

LEMMA QueueIs ==
  ASSUME NEW n \in Network, NEW t \in TxId, Cardinality(Roots) < MaxRoots, IsNextId(tx, t),
         tx' = [tx EXCEPT ![t] = NewTransaction(n)], Paid' = Paid
  PROVE  Promise!Queue(n)
<1>1. Roots = {u \in Promise!TxId : Promise!Exists(tx[u]) /\ tx[u].root = Promise!NoRoot}
  BY DEF Roots, Promise!TxId, Promise!Exists, Promise!NoRoot, TxId, Exists, NoRoot
<1>2. Promise!IsNextId(tx, t) /\ t \in Promise!TxId
  BY DEF Promise!IsNextId, IsNextId, Promise!TxId, TxId
<1>3. NewTransaction(n) = Promise!NewTransaction(n)
  BY DEF NewTransaction, Promise!NewTransaction, AbsentRow, Promise!AbsentRow,
         NoRoot, Promise!NoRoot, NoPayload, Promise!NoPayload
<1>4. \A S : Promise!Cardinality(S) = Cardinality(S)
  BY DEF Promise!Cardinality, Cardinality
<1>5. QED
  BY <1>1, <1>2, <1>3, <1>4 DEF Promise!Queue

LEMMA FailIs ==
  ASSUME NEW t \in TxId, CanFailFromSent(tx[t]), t \notin Paid, FailAndRetry(t), Paid' = Paid
  PROVE  Promise!Fail(t)
<1>1. /\ Promise!CanFailFromSent(tx[t])
      /\ Promise!FailedFromSentRow(tx[t]) = FailedFromSentRow(tx[t])
  BY DEF Promise!CanFailFromSent, CanFailFromSent, Promise!FailedFromSentRow,
         FailedFromSentRow, Promise!NoPayload, NoPayload
<1>2. Promise!RetryOf(tx, t) = RetryOf(tx, t)
  BY DEF RetryOf, Promise!RetryOf, NewTransaction, Promise!NewTransaction, AbsentRow,
         Promise!AbsentRow, NoRoot, Promise!NoRoot, NoPayload, Promise!NoPayload,
         RootTransactionID, Promise!RootTransactionID
<1>3. \A u \in TxId : IsNextId(tx, u) => u \in Promise!TxId /\ Promise!IsNextId(tx, u)
  BY DEF Promise!IsNextId, IsNextId, Promise!TxId, TxId
<1>4. CASE tx[t].retryCount < MaxRetries
  <2>1. PICK u \in TxId : /\ IsNextId(tx, u)
                          /\ tx' = [tx EXCEPT ![t] = FailedFromSentRow(@),
                                              ![u] = RetryOf(tx, t)]
    BY <1>4 DEF FailAndRetry
  <2>2. tx' = [tx EXCEPT ![t] = Promise!FailedFromSentRow(@), ![u] = Promise!RetryOf(tx, t)]
    BY <1>1, <1>2, <2>1
  <2>3. QED
    BY <1>1, <1>3, <1>4, <2>1, <2>2 DEF Promise!Fail
<1>5. CASE ~(tx[t].retryCount < MaxRetries)
  <2>1. tx' = [tx EXCEPT ![t] = Promise!FailedFromSentRow(@)]
    BY <1>1, <1>5 DEF FailAndRetry
  <2>2. QED
    BY <1>1, <1>5, <2>1 DEF Promise!Fail
<1>6. QED
  BY <1>4, <1>5

LEMMA RepairIs ==
  ASSUME tx' = RecoveredTable(tx), Paid' = Paid
  PROVE  Promise!Repair
  BY DEF Promise!Repair, Promise!RecoveredTable, RecoveredTable, Promise!TxId, TxId,
         Promise!NoPayload, NoPayload

\* Blocks that come and go leave alone the payouts with a recorded outcome.
LEMMA ChainMovesIs ==
  ASSUME tx' = tx,
         \A t \in TxId : ~(t \in Paid' <=> t \in Paid) =>
                             tx[t].payload # NoPayload /\ ~tx[t].hasBlock
  PROVE  Promise!ChainMoves
<1> DEFINE S == {t \in TxId : t \in Paid' /\ tx[t].payload # NoPayload /\ ~tx[t].hasBlock}
<1>1. S \in SUBSET Promise!Open
  BY DEF Promise!Open, Promise!TxId, TxId, Promise!NoPayload, NoPayload
<1>2. Paid' = (Paid \ Promise!Open) \cup S
  BY DEF Promise!Open, Promise!TxId, TxId, Promise!NoPayload, NoPayload, Paid
<1>3. QED
  BY <1>1, <1>2 DEF Promise!ChainMoves

-----------------------------------------------------------------------------
(* The manager's. *)

Kept == [Promise!LifecycleNext]_(Promise!lifecycleVars)

LEMMA KeptBy ==
  /\ Promise!ManagerMoves => Kept
  /\ \A n \in Network : Promise!Queue(n) => Kept
  /\ \A t \in TxId : Promise!AskToCancel(t) \/ Promise!Cancel(t) => Kept
  /\ tx' = tx /\ Paid' = Paid => Kept
  BY DEF Kept, Promise!LifecycleNext, Promise!ClientMoves, Promise!lifecycleVars,
         Promise!TxId, TxId

LEMMA MovesBy ==
  ASSUME NEW t \in TxId,
         \/ Promise!Claim(t) \/ Promise!Release(t) \/ Promise!Prepare(t)
         \/ Promise!Acknowledge(t) \/ Promise!Confirm(t) \/ Promise!Fail(t)
         \/ Promise!Delay(t)
  PROVE  Kept
  BY KeptBy DEF Promise!ManagerMoves, Promise!TxId, TxId

LEMMA SamePaid == chain' = chain => Paid' = Paid
  BY DEF Paid

\* An update of a row whose condition does not hold changes nothing.
LEMMA NoUpdate ==
  ASSUME TypeOK, NEW t \in TxId
  PROVE  /\ ~Releasable(tx[t]) => [tx EXCEPT ![t] = ReleasedRow(@)] = tx
         /\ tx[t].status # "broadcasting" => [tx EXCEPT ![t] = MarkedSentRow(@)] = tx
         /\ tx[t].status # "sent" => [tx EXCEPT ![t] = MarkedConfirmedRow(@)] = tx
         /\ ~CanFailFromSent(tx[t]) => [tx EXCEPT ![t] = FailedFromSentRow(@)] = tx
         /\ ~CanMarkDelayed(tx[t]) => [tx EXCEPT ![t] = MarkedDelayedRow(@)] = tx
<1>1. /\ ~Releasable(tx[t]) => ReleasedRow(tx[t]) = tx[t]
      /\ tx[t].status # "broadcasting" => MarkedSentRow(tx[t]) = tx[t]
      /\ tx[t].status # "sent" => MarkedConfirmedRow(tx[t]) = tx[t]
      /\ ~CanFailFromSent(tx[t]) => FailedFromSentRow(tx[t]) = tx[t]
      /\ ~CanMarkDelayed(tx[t]) => MarkedDelayedRow(tx[t]) = tx[t]
  BY DEF ReleasedRow, MarkedSentRow, MarkedConfirmedRow, FailedFromSentRow,
         MarkedDelayedRow
<1>2. ASSUME NEW r, r = tx[t] PROVE [tx EXCEPT ![t] = r] = tx
  BY <1>2 DEF TypeOK
<1>3. QED
  BY <1>1, <1>2

\* Steps of the network: only payouts that the node has seen and whose outcome is not
\* recorded change sides.
LEMMA ChainKeeps ==
  ASSUME ReceiptsFresh, ManagerInv, ChainNext
  PROVE  Kept
<1>1. TypeOK /\ PayloadFirst /\ Settled
  BY ChainSettles DEF ManagerInv, TableInv
<1>2. tx' = tx
  BY DEF ChainNext, EmptyBlock, MineTransaction, Reorg, DropFromPool
<1>3. ASSUME NEW t \in TxId, ~Visible(t) PROVE chain'[t].st # "ok"
  <2>1. chain[t].st = "unseen" /\ ~Mined(t)
    BY <1>3 DEF Visible, Mined
  <2>2. ASSUME NEW n PROVE Deepened(n)[t] = chain[t]
    BY <2>1 DEF Deepened
  <2>3. ASSUME NEW n \in Network, EmptyBlock(n) PROVE chain'[t] = chain[t]
    BY <2>2, <2>3 DEF EmptyBlock
  <2>4. ASSUME NEW n \in Network, NEW u \in TxId, NEW o, MineTransaction(n, u, o)
        PROVE  chain'[t] = chain[t]
    BY <2>1, <2>2, <2>4 DEF MineTransaction, NextToMine
  <2>5. ASSUME NEW n \in Network, NEW d \in 1 .. MaxReorg, Reorg(n, d)
        PROVE  chain'[t] = chain[t]
    BY <2>1, <2>5 DEF Reorg
  <2>6. ASSUME NEW u \in TxId, DropFromPool(u) PROVE chain'[t] = chain[t]
    BY <1>1, <2>1, <2>6 DEF DropFromPool, TypeOK
  <2>7. chain'[t] = chain[t]
    BY <2>3, <2>4, <2>5, <2>6 DEF ChainNext
  <2>8. QED
    BY <2>1, <2>7
<1>4. ASSUME NEW t \in TxId, ~(t \in Paid' <=> t \in Paid)
      PROVE  tx[t].payload # NoPayload /\ ~tx[t].hasBlock
  <2>1. Visible(t)
    BY <1>3, <1>4 DEF Paid, Visible
  <2>2. ~tx[t].hasBlock
    BY <1>1, <1>4 DEF Settled, Paid
  <2>3. QED
    BY <1>1, <2>1, <2>2 DEF PayloadFirst
<1>5. Promise!ChainMoves
  BY <1>2, <1>4, ChainMovesIs
<1>6. QED
  BY <1>5, KeptBy DEF Promise!ManagerMoves

LEMMA ProcessorKeeps ==
  ASSUME ProcessorNext
  PROVE  Kept
<1>1. ASSUME NEW n \in Network, QueueTransaction(n) PROVE Kept
  BY <1>1, QueueIs, KeptBy, SamePaid DEF QueueTransaction
<1>2. ASSUME NEW t \in TxId, RequestCancellation(t) PROVE Kept
  BY <1>2, TableSteps, KeptBy, SamePaid DEF RequestCancellation
<1>3. ASSUME NEW t \in TxId, CancelRequestedUnbroadcasted(t) PROVE Kept
  BY <1>3, TableSteps, KeptBy, SamePaid DEF CancelRequestedUnbroadcasted
<1>4. QED
  BY <1>1, <1>2, <1>3 DEF ProcessorNext

\* The sender: a payload that is refused or replaced was not executed.
LEMMA SenderKeeps ==
  ASSUME TypeOK, Sender
  PROVE  Kept
<1>1. CASE \/ \E t \in TxId : SenderSync(t)
           \/ SenderGate \/ SenderLimit \/ SenderBuild \/ SenderCheck \/ SenderLook
  <2>1. tx' = tx /\ chain' = chain
    BY <1>1 DEF SenderSync, SenderGate, SenderLimit, SenderBuild, SenderCheck, SenderLook
  <2>2. QED
    BY <2>1, KeptBy, SamePaid
<1>2. CASE SenderClaim
  <2>1. Current \in TxId /\ Paid' = Paid
    BY <1>2, SamePaid DEF SenderClaim, TypeOK, Current
  <2>2. \/ tx' = tx
        \/ /\ RetryAncestorsSafe(tx, Current) /\ Claimable(tx[Current])
           /\ tx' = [tx EXCEPT ![Current] = ClaimedRow(@)]
    BY <1>2 DEF SenderClaim
  <2>3. QED
    BY <2>1, <2>2, TableSteps, MovesBy, KeptBy
<1>3. CASE SenderPrepare
  <2>1. Current \in TxId /\ sender.nonce \in 0 .. MaxTx /\ Paid' = Paid
    BY <1>3, SamePaid DEF SenderPrepare, TypeOK, Current
  <2>2. \/ tx' = tx
        \/ /\ Preparable(tx[Current])
           /\ tx' = [tx EXCEPT ![Current] = PreparedRow(@, sender.nonce)]
    BY <1>3 DEF SenderPrepare
  <2>3. QED
    BY <2>1, <2>2, PrepareIs, MovesBy, KeptBy
<1>4. CASE SenderRelease
  <2>1. Current \in TxId /\ Paid' = Paid
    BY <1>4, SamePaid DEF SenderRelease, TypeOK, Current
  <2>2. tx' = tx \/ tx' = [tx EXCEPT ![Current] = ReleasedRow(@)]
    BY <1>4 DEF SenderRelease
  <2>3. QED
    BY <2>1, <2>2, TableSteps, MovesBy, KeptBy, NoUpdate
<1>5. CASE SenderSend
  <2>1. tx' = tx
    BY <1>5 DEF SenderSend
  <2>2. ASSUME NEW t \in TxId PROVE chain'[t].st = "ok" <=> chain[t].st = "ok"
    <3>1. CASE chain' = chain
      BY <3>1
    <3>2. CASE /\ ~Visible(Current) /\ ~NonceMined(Current)
               /\ chain' = [u \in TxId |->
                      IF u = Current THEN InPool
                      ELSE IF SameNonce(Current, u) THEN Unseen ELSE chain[u]]
      <4>1. t = Current \/ SameNonce(Current, t) =>
               chain[t].st # "ok" /\ chain'[t].st # "ok"
        BY <3>2 DEF NonceMined, Mined, InPool, Unseen
      <4>2. ~(t = Current \/ SameNonce(Current, t)) => chain'[t] = chain[t]
        BY <3>2
      <4>3. QED
        BY <4>1, <4>2
    <3>3. QED
      BY <1>5, <3>1, <3>2 DEF SenderSend
  <2>3. Paid' = Paid
    BY <2>2 DEF Paid
  <2>4. QED
    BY <2>1, <2>3, KeptBy
<1>6. CASE SenderMark
  <2>1. Current \in TxId /\ Paid' = Paid
    BY <1>6, SamePaid DEF SenderMark, TypeOK, Current
  <2>2. tx' = tx \/ tx' = [tx EXCEPT ![Current] = MarkedSentRow(@)]
    BY <1>6 DEF SenderMark
  <2>3. QED
    BY <2>1, <2>2, TableSteps, MovesBy, KeptBy, NoUpdate
<1>7. QED
  BY <1>1, <1>2, <1>3, <1>4, <1>5, <1>6 DEF Sender

\* The confirmer: the receipt that a check applies is the one the chain has, and final.
LEMMA ConfirmerKeeps ==
  ASSUME ManagerInv, Confirmer
  PROVE  Kept
<1>1. TypeOK /\ ChecksCurrent
  BY DEF ManagerInv, TableInv
<1>2. Paid' = Paid
  BY SamePaid DEF Confirmer, ConfirmerPoll, ConfirmerEnqueue, ConfirmerReceipt,
                  ConfirmerHeader, ConfirmerApply, ConfirmerDelayed
<1>3. ASSUME NEW t \in TxId, ConfirmerApply(t) PROVE Kept
  <2>1. check[t].ok <=> t \in Paid
    BY <1>1, <1>3 DEF ConfirmerApply, ChecksCurrent, Paid
  <2>2. CASE tx' = tx
    BY <1>2, <2>2, KeptBy
  <2>3. CASE check[t].ok /\ tx' = [tx EXCEPT ![t] = MarkedConfirmedRow(@)]
    BY <1>1, <1>2, <2>1, <2>3, TableSteps, MovesBy, KeptBy, NoUpdate
  <2>4. CASE ~check[t].ok /\ FailAndRetry(t)
    <3>1. CASE CanFailFromSent(tx[t])
      BY <1>2, <2>1, <2>4, <3>1, FailIs, MovesBy
    <3>2. CASE ~CanFailFromSent(tx[t])
      <4>1. tx' = [tx EXCEPT ![t] = FailedFromSentRow(@)]
        BY <2>4, <3>2 DEF FailAndRetry
      <4>2. QED
        BY <1>1, <1>2, <3>2, <4>1, NoUpdate, KeptBy
    <3>3. QED
      BY <3>1, <3>2
  <2>5. QED
    BY <1>3, <2>2, <2>3, <2>4 DEF ConfirmerApply
<1>4. ASSUME NEW t \in TxId, ConfirmerDelayed(t) PROVE Kept
  <2>1. tx' = tx \/ tx' = [tx EXCEPT ![t] = MarkedDelayedRow(@)]
    BY <1>4 DEF ConfirmerDelayed
  <2>2. QED
    BY <1>1, <1>2, <2>1, TableSteps, MovesBy, KeptBy, NoUpdate
<1>5. CASE \/ ConfirmerPoll
           \/ \E t \in TxId : ConfirmerEnqueue(t) \/ ConfirmerReceipt(t) \/ ConfirmerHeader(t)
  <2>1. tx' = tx
    BY <1>5 DEF ConfirmerPoll, ConfirmerEnqueue, ConfirmerReceipt, ConfirmerHeader
  <2>2. QED
    BY <1>2, <2>1, KeptBy
<1>6. QED
  BY <1>3, <1>4, <1>5 DEF Confirmer

LEMMA ProcessKeeps ==
  ASSUME Crash \/ Start
  PROVE  Kept
<1>1. CASE Crash
  BY <1>1, KeptBy, SamePaid DEF Crash
<1>2. CASE Start
  BY <1>2, RepairIs, KeptBy, SamePaid DEF Start, Promise!ManagerMoves
<1>3. QED
  BY <1>1, <1>2

-----------------------------------------------------------------------------
\* The sender, the confirmer and the start-up repair, with crashes, lost answers, node
\* errors and reorganisations between their statements, keep what TransactionLifecycle
\* promises the withdrawal processor, provided no reorganisation falls between the receipt
\* and the header that one check reads (confirmTransaction).
THEOREM ImplementsLifecycle ==
  ASSUME ReceiptsFresh
  PROVE  Spec => LifecycleSpec
<1>1. Init => Promise!LifecycleInit
  <2> SUFFICES ASSUME Init PROVE Promise!LifecycleInit
    OBVIOUS
  <2>1. Paid = {}
    BY DEF Init, Paid, Unseen, InPool
  <2>2. AbsentRow = Promise!AbsentRow
    BY DEF AbsentRow, Promise!AbsentRow, NoRoot, Promise!NoRoot, NoPayload,
           Promise!NoPayload
  <2>3. TxId = Promise!TxId
    BY DEF TxId, Promise!TxId
  <2>4. ASSUME NEW n PROVE LegacyTable(n) = Promise!LegacyTable(n)
    BY <2>2, <2>3 DEF LegacyTable, Promise!LegacyTable, NewTransaction,
                      Promise!NewTransaction
  <2>5. QED
    BY <2>1, <2>2, <2>3, <2>4 DEF Init, Promise!LifecycleInit
<1>2. ManagerInv /\ [Next]_vars => [Promise!LifecycleNext]_(Promise!lifecycleVars)
  <2> SUFFICES ASSUME ManagerInv, [Next]_vars PROVE Kept
    BY DEF Kept
  <2>1. TypeOK
    BY DEF ManagerInv, TableInv
  <2>2. CASE UNCHANGED vars
    BY <2>2, KeptBy, SamePaid DEF vars
  <2>3. QED
    BY <2>1, <2>2, ChainKeeps, ProcessorKeeps, SenderKeeps, ConfirmerKeeps, ProcessKeeps
    DEF Next
<1>3. QED
  BY <1>1, <1>2, ManagerInvariant, PTL DEF Spec, LifecycleSpec, Promise!Lifecycle

=============================================================================
