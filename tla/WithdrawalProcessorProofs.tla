------------------------ MODULE WithdrawalProcessorProofs ------------------------
(***************************************************************************)
(* Theorems about the withdrawal processor (WithdrawalProcessor), for every *)
(* table, every history, any retries, nonces, faults and balances, and all  *)
(* interleavings with the transaction manager.                              *)
(***************************************************************************)
EXTENDS WithdrawalProcessor, FiniteSetTheorems, WellFoundedInduction,
        NaturalsInduction, TLAPS

-----------------------------------------------------------------------------
(* Operators. *)

\* A set of ids has a last one.
LEMMA LastId ==
  ASSUME NEW S \in SUBSET TxId, S # {}
  PROVE  Max(S) \in S
<1> DEFINE R == {p \in Nat \X Nat : p[1] < p[2]}
           D == {MaxTx - i : i \in S}
<1>1. IsWellFoundedOn(R, Nat)
  BY NatLessThanWellFounded DEF OpToRel
<1>2. D \in SUBSET Nat /\ D # {}
  BY TableAssumption DEF TxId
<1>3. PICK d \in D : \A e \in D : ~ (<<e, d>> \in R)
  <2> HIDE DEF R, D
  <2> QED BY <1>1, <1>2, WFMin
<1>4. PICK m \in S : d = MaxTx - m
  OBVIOUS
<1>5. ASSUME NEW i \in S PROVE m >= i
  <2>1. MaxTx - i \in D /\ MaxTx - i \in Nat /\ MaxTx - m \in Nat
    BY TableAssumption DEF TxId
  <2>2. ~ (MaxTx - i < MaxTx - m)
    BY <1>3, <1>4, <2>1
  <2>3. QED
    BY <2>2, TableAssumption DEF TxId
<1>6. QED
  BY <1>5 DEF Max

\* A set with one member, by its cardinality.
LEMMA OneMember ==
  ASSUME NEW S, IsFiniteSet(S)
  PROVE  Cardinality(S) = 1 <=> \E x : S = {x}
  BY FS_Singleton

LEMMA TxIdFinite == IsFiniteSet(TxId)
  BY FS_Interval, TableAssumption DEF TxId

-----------------------------------------------------------------------------
(* Rows. *)

\* A row with an outcome.
Terminal(r) == r.status \in {"confirmed", "failed", "cancelled"}

\* An update of a row that exists: it stays in its chain, and as it is once it has an
\* outcome.
Updates(r, s, executed) ==
    /\ s \in Row
    /\ s.root = r.root
    /\ Exists(r) <=> Exists(s)
    /\ Terminal(r) => s = r
    /\ RowFits(s, executed)

LEMMA AbsentRowType ==
  /\ AbsentRow \in Row
  /\ AbsentRow.status = "absent" /\ AbsentRow.payload = NoPayload
  /\ AbsentRow.hasBlock = FALSE /\ AbsentRow.root = NoRoot
<1>1. (CHOOSE n \in Network : TRUE) \in Network
  BY TableAssumption
<1>2. QED
  BY <1>1 DEF AbsentRow, Row, Status, Message, NoRoot, NoPayload

LEMMA NewRowType ==
  ASSUME NEW n \in Network
  PROVE  /\ NewTransaction(n) \in Row
         /\ NewTransaction(n).status = "pending" /\ NewTransaction(n).payload = NoPayload
         /\ NewTransaction(n).hasBlock = FALSE /\ NewTransaction(n).root = NoRoot
  BY AbsentRowType DEF NewTransaction, Row, Status

\* Every conditional update of the table is one, whatever its row is.
LEMMA ConditionalUpdates ==
  ASSUME NEW r \in Row, NEW e \in BOOLEAN, RowFits(r, e)
  PROVE  /\ Updates(r, ReleasedRow(r), e)
         /\ Updates(r, MarkedSentRow(r), e)
         /\ Updates(r, MarkedDelayedRow(r), e)
         /\ Updates(r, CancellationRequestedRow(r), e)
         /\ Updates(r, CancelledRow(r), e)
         /\ e => Updates(r, MarkedConfirmedRow(r), e)
         /\ ~e => Updates(r, FailedFromSentRow(r), e)
         /\ Claimable(r) => Updates(r, ClaimedRow(r), e)
         /\ Preparable(r) => \A nonce \in Nat : Updates(r, PreparedRow(r, nonce), e)
<1>1. Updates(r, ReleasedRow(r), e)
  BY DEF Updates, ReleasedRow, Releasable, RowFits, Row, Status, Message, Exists, Terminal
<1>2. Updates(r, MarkedSentRow(r), e)
  BY DEF Updates, MarkedSentRow, RowFits, Row, Status, Exists, Terminal
<1>3. Updates(r, MarkedDelayedRow(r), e)
  BY DEF Updates, MarkedDelayedRow, CanMarkDelayed, RowFits, Row, Message, Exists, Terminal
<1>4. Updates(r, CancellationRequestedRow(r), e)
  BY DEF Updates, CancellationRequestedRow, CancellationRequestable, RowFits, Row, Message,
         Exists, Terminal
<1>5. Updates(r, CancelledRow(r), e)
  BY DEF Updates, CancelledRow, Cancellable, RowFits, Row, Status, Exists, Terminal
<1>6. e => Updates(r, MarkedConfirmedRow(r), e)
  BY DEF Updates, MarkedConfirmedRow, RowFits, Row, Status, Exists, Terminal
<1>7. ~e => Updates(r, FailedFromSentRow(r), e)
  BY DEF Updates, FailedFromSentRow, CanFailFromSent, RowFits, Row, Status, Message, Exists,
         Terminal
<1>8. Claimable(r) => Updates(r, ClaimedRow(r), e)
  BY DEF Updates, Claimable, ClaimedRow, RowFits, Row, Status, Exists, Terminal
<1>9. Preparable(r) => \A nonce \in Nat : Updates(r, PreparedRow(r, nonce), e)
  <2> SUFFICES ASSUME Preparable(r), NEW nonce \in Nat
               PROVE  Updates(r, PreparedRow(r, nonce), e)
    OBVIOUS
  <2>1. /\ PreparedRow(r, nonce) \in Row /\ PreparedRow(r, nonce).root = r.root
        /\ PreparedRow(r, nonce).status = "broadcasting" /\ r.status = "sending"
        /\ PreparedRow(r, nonce).payload = nonce
        /\ PreparedRow(r, nonce).hasBlock = r.hasBlock
    BY DEF Preparable, PreparedRow, Row, Status
  <2>2. nonce # NoPayload
    BY DEF NoPayload
  <2>3. QED
    BY <2>1, <2>2 DEF Updates, RowFits, Exists, Terminal
<1>10. QED
  BY <1>1, <1>2, <1>3, <1>4, <1>5, <1>6, <1>7, <1>8, <1>9

-----------------------------------------------------------------------------
(* The table. *)

\* What a step of the manager does to the table, and what the processor does while no
\* payout is queued: rows with an outcome stay, rows stay in their chain, and a new row
\* is the retry of a row that was sent.
Follows(old, new) ==
    \A t \in TxId :
        /\ Terminal(old[t]) => new[t] = old[t]
        /\ Exists(old[t]) => Exists(new[t]) /\ new[t].root = old[t].root
        /\ ~Exists(old[t]) /\ Exists(new[t]) =>
              \E s \in TxId : old[s].status = "sent" /\ new[t].root = RootTransactionID(old, s)

TableOK == LifecycleTypeOK /\ TableInv

LEMMA SameTable ==
  ASSUME TableOK, UNCHANGED <<tx, paid>>
  PROVE  TableOK' /\ Follows(tx, tx')
  BY DEF TableOK, LifecycleTypeOK, TableInv, RowFits, Follows

\* One row is updated.
LEMMA RowUpdated ==
  ASSUME TableOK, UNCHANGED paid, NEW t \in TxId, NEW s,
         tx' = [tx EXCEPT ![t] = s], Updates(tx[t], s, t \in paid)
  PROVE  TableOK' /\ Follows(tx, tx')
<1>1. tx'[t] = s /\ \A u \in TxId : u # t => tx'[u] = tx[u]
  BY DEF TableOK, LifecycleTypeOK
<1>2. LifecycleTypeOK'
  BY DEF TableOK, LifecycleTypeOK, Updates
<1>3. TableInv'
  <2> SUFFICES ASSUME NEW u \in TxId PROVE RowFits(tx'[u], u \in paid')
    BY DEF TableInv
  <2>1. CASE u = t
    BY <1>1, <2>1 DEF Updates
  <2>2. CASE u # t
    BY <1>1, <2>2 DEF TableOK, TableInv
  <2>3. QED
    BY <2>1, <2>2
<1>4. Follows(tx, tx')
  BY <1>1 DEF Follows, Updates
<1>5. QED
  BY <1>2, <1>3, <1>4 DEF TableOK

LEMMA RetryType ==
  ASSUME TableOK, NEW t \in TxId
  PROVE  /\ RetryOf(tx, t) \in Row
         /\ RetryOf(tx, t).root = RootTransactionID(tx, t)
         /\ RetryOf(tx, t).status = "pending" /\ RetryOf(tx, t).payload = NoPayload
         /\ RetryOf(tx, t).hasBlock = FALSE
<1>1. tx[t] \in Row
  BY DEF TableOK, LifecycleTypeOK
<1>2. /\ tx[t].network \in Network /\ tx[t].retryCount + 1 \in Nat
      /\ RootTransactionID(tx, t) \in TxId \cup {NoRoot}
  BY <1>1 DEF Row, RootTransactionID
<1>3. NewTransaction(tx[t].network) \in Row
  BY <1>2, NewRowType
<1>4. RetryOf(tx, t) = [NewTransaction(tx[t].network) EXCEPT
                           !.root = RootTransactionID(tx, t),
                           !.retryCount = tx[t].retryCount + 1]
  BY DEF RetryOf
<1>5. /\ RetryOf(tx, t) \in Row
      /\ RetryOf(tx, t).root = RootTransactionID(tx, t)
      /\ RetryOf(tx, t).status = NewTransaction(tx[t].network).status
      /\ RetryOf(tx, t).payload = NewTransaction(tx[t].network).payload
      /\ RetryOf(tx, t).hasBlock = NewTransaction(tx[t].network).hasBlock
  BY <1>2, <1>3, <1>4 DEF Row
<1>6. QED
  BY <1>2, <1>5, NewRowType

\* The failure of a row and its retry.
LEMMA FailFollows ==
  ASSUME TableOK, NEW t \in TxId, Fail(t)
  PROVE  TableOK' /\ Follows(tx, tx')
<1>1. /\ tx[t].status = "sent" /\ t \notin paid /\ paid' = paid /\ tx[t] \in Row
      /\ RowFits(tx[t], t \in paid) /\ (t \in paid) \in BOOLEAN
  BY DEF Fail, CanFailFromSent, TableOK, LifecycleTypeOK, TableInv
<1>2. Updates(tx[t], FailedFromSentRow(tx[t]), t \in paid)
  BY <1>1, ConditionalUpdates
<1>3. CASE tx' = [tx EXCEPT ![t] = FailedFromSentRow(tx[t])]
  BY <1>1, <1>2, <1>3, RowUpdated
<1>4. ASSUME NEW u \in TxId, IsNextId(tx, u),
             tx' = [tx EXCEPT ![t] = FailedFromSentRow(tx[t]), ![u] = RetryOf(tx, t)]
      PROVE  TableOK' /\ Follows(tx, tx')
  <2>1. tx[u].status = "absent" /\ u # t
    BY <1>1, <1>4 DEF IsNextId
  <2>2. /\ tx'[t] = FailedFromSentRow(tx[t]) /\ tx'[u] = RetryOf(tx, t)
        /\ \A v \in TxId : v # t /\ v # u => tx'[v] = tx[v]
        /\ tx' \in [TxId -> Row]
    BY <1>2, <1>4, <2>1, RetryType DEF TableOK, LifecycleTypeOK, Updates
  <2>3. LifecycleTypeOK'
    BY <1>1, <2>2 DEF TableOK, LifecycleTypeOK
  <2>4. u \notin paid
    BY <2>1 DEF TableOK, TableInv, RowFits
  <2>5. TableInv'
    <3> SUFFICES ASSUME NEW v \in TxId PROVE RowFits(tx'[v], v \in paid')
      BY DEF TableInv
    <3>1. CASE v = t
      BY <1>1, <1>2, <2>2, <3>1 DEF Updates
    <3>2. CASE v = u
      BY <1>1, <2>2, <2>4, <3>2, RetryType DEF RowFits
    <3>3. CASE v # t /\ v # u
      BY <1>1, <2>2, <3>3 DEF TableOK, TableInv
    <3>4. QED
      BY <3>1, <3>2, <3>3
  <2>6. Follows(tx, tx')
    <3>1. tx'[u].root = RootTransactionID(tx, t) /\ ~Terminal(tx[u]) /\ ~Exists(tx[u])
      BY <2>1, <2>2, RetryType DEF Terminal, Exists
    <3>2. QED
      BY <1>1, <1>2, <2>2, <3>1 DEF Follows, Updates
  <2>7. QED
    BY <2>3, <2>5, <2>6 DEF TableOK
<1>5. QED
  BY <1>3, <1>4 DEF Fail

LEMMA RepairFollows ==
  ASSUME TableOK, Repair
  PROVE  TableOK' /\ Follows(tx, tx')
<1>1. tx' = RecoveredTable(tx) /\ paid' = paid /\ tx \in [TxId -> Row] /\ paid \subseteq TxId
  BY DEF Repair, TableOK, LifecycleTypeOK
<1>2. ASSUME NEW t \in TxId
      PROVE  Updates(tx[t], tx'[t], t \in paid)
  <2>1. tx[t] \in Row /\ RowFits(tx[t], t \in paid)
    BY <1>1 DEF TableOK, TableInv
  <2>2. CASE tx'[t] = tx[t]
    BY <2>1, <2>2 DEF Updates
  <2>3. CASE /\ tx[t].status = "sending" /\ tx[t].payload = NoPayload
             /\ tx'[t] = [tx[t] EXCEPT !.status =
                              IF tx[t].cancelRequested THEN "cancelled" ELSE "pending"]
    BY <2>1, <2>3 DEF Updates, RowFits, Row, Status, Exists, Terminal
  <2>4. QED
    BY <1>1, <2>2, <2>3 DEF RecoveredTable
<1>3. tx' \in [TxId -> Row]
  BY <1>1, <1>2 DEF Updates, RecoveredTable
<1>4. QED
  BY <1>1, <1>2, <1>3 DEF TableOK, LifecycleTypeOK, TableInv, Follows, Updates

\* Blocks come and go, below rows without an outcome.
LEMMA ChainFollows ==
  ASSUME TableOK, ChainMoves
  PROVE  TableOK' /\ Follows(tx, tx')
<1>1. PICK S \in SUBSET Open : paid' = (paid \ Open) \cup S
  BY DEF ChainMoves
<1>2. tx' = tx /\ paid' \subseteq TxId
  BY <1>1 DEF ChainMoves, Open, TableOK, LifecycleTypeOK
<1>3. TableInv'
  <2> SUFFICES ASSUME NEW t \in TxId PROVE RowFits(tx[t], t \in paid')
    BY <1>2 DEF TableInv
  <2>1. RowFits(tx[t], t \in paid)
    BY DEF TableOK, TableInv
  <2>2. CASE t \in Open
    BY <2>1, <2>2 DEF RowFits, Open
  <2>3. CASE t \notin Open
    <3>1. t \in paid' <=> t \in paid
      BY <1>1, <2>3
    <3>2. QED
      BY <2>1, <3>1 DEF RowFits
  <2>4. QED
    BY <2>2, <2>3
<1>4. QED
  BY <1>2, <1>3 DEF TableOK, LifecycleTypeOK, Follows

LEMMA ManagerFollows ==
  ASSUME TableOK, ManagerMoves
  PROVE  TableOK' /\ Follows(tx, tx')
<1>1. ASSUME NEW t \in TxId,
             Claim(t) \/ Release(t) \/ Prepare(t) \/ Acknowledge(t) \/ Confirm(t) \/ Delay(t)
      PROVE  TableOK' /\ Follows(tx, tx')
  <2>1. tx[t] \in Row /\ RowFits(tx[t], t \in paid) /\ (t \in paid) \in BOOLEAN
    BY DEF TableOK, LifecycleTypeOK, TableInv
  <2>2. CASE Claim(t)
    BY <2>1, <2>2, ConditionalUpdates, RowUpdated DEF Claim
  <2>3. CASE Release(t)
    BY <2>1, <2>3, ConditionalUpdates, RowUpdated DEF Release
  <2>4. CASE Prepare(t)
    <3>1. PICK nonce \in Nonces : tx' = [tx EXCEPT ![t] = PreparedRow(tx[t], nonce)]
      BY <2>4 DEF Prepare
    <3>2. nonce \in Nat
      BY LifecycleAssumption
    <3>3. QED
      BY <2>1, <2>4, <3>1, <3>2, ConditionalUpdates, RowUpdated DEF Prepare
  <2>5. CASE Acknowledge(t)
    BY <2>1, <2>5, ConditionalUpdates, RowUpdated DEF Acknowledge
  <2>6. CASE Confirm(t)
    BY <2>1, <2>6, ConditionalUpdates, RowUpdated DEF Confirm
  <2>7. CASE Delay(t)
    BY <2>1, <2>7, ConditionalUpdates, RowUpdated DEF Delay
  <2>8. QED
    BY <1>1, <2>2, <2>3, <2>4, <2>5, <2>6, <2>7
<1>2. QED
  BY <1>1, FailFollows, RepairFollows, ChainFollows DEF ManagerMoves

-----------------------------------------------------------------------------
(* What stays true of the table. *)

Inv == ProcessorInv /\ OnePayout

\* A transfer that is proven to have failed or been cancelled has not been executed.
LEMMA NeverPaidIs ==
  ASSUME TableOK, NeverPaid
  PROVE  paid = {} /\ ~IsPaidForGood /\ \A t \in TxId : Exists(tx[t]) => t \notin paid
<1>1. ASSUME NEW t \in TxId, t \in paid PROVE FALSE
  <2>1. RowFits(tx[t], TRUE)
    BY <1>1 DEF TableOK, TableInv, RowFits
  <2>2. Exists(tx[t]) /\ tx[t].payload # NoPayload
    BY <2>1 DEF RowFits, Exists
  <2>3. IsProvenTerminalFailure(tx[t])
    BY <2>2 DEF NeverPaid
  <2>4. QED
    BY <2>1, <2>2, <2>3 DEF RowFits, IsProvenTerminalFailure, HasCommittedBroadcast,
                            IsProvenUnbroadcastedCancellation, IsProvenOnChainFailure
<1>2. paid = {}
  BY <1>1 DEF TableOK, LifecycleTypeOK
<1>3. ~IsPaidForGood
  BY <1>2 DEF IsPaidForGood, TableOK, TableInv, RowFits
<1>4. QED
  BY <1>2, <1>3

LEMMA PaidForGoodIs ==
  ASSUME TableOK, IsPaidForGood
  PROVE  \E t \in TxId : paid = {t} /\ tx[t].status = "confirmed"
<1>1. PICK t \in TxId :
         /\ tx[t].status = "confirmed"
         /\ \A u \in TxId \ {t} : Exists(tx[u]) => IsProvenTerminalFailure(tx[u])
  BY DEF IsPaidForGood
<1>2. t \in paid
  BY <1>1 DEF TableOK, TableInv, RowFits
<1>3. ASSUME NEW u \in TxId, u # t, u \in paid PROVE FALSE
  <2>1. RowFits(tx[u], TRUE)
    BY <1>3 DEF TableOK, TableInv, RowFits
  <2>2. Exists(tx[u]) /\ tx[u].payload # NoPayload
    BY <2>1 DEF RowFits, Exists
  <2>3. IsProvenTerminalFailure(tx[u])
    BY <1>1, <1>3, <2>2
  <2>4. QED
    BY <2>1, <2>2, <2>3 DEF RowFits, IsProvenTerminalFailure, HasCommittedBroadcast,
                            IsProvenUnbroadcastedCancellation, IsProvenOnChainFailure
<1>4. paid = {t}
  BY <1>2, <1>3 DEF TableOK, LifecycleTypeOK
<1>5. QED
  BY <1>1, <1>4

LEMMA ProvenIsTerminal ==
  ASSUME NEW r, IsProvenTerminalFailure(r)
  PROVE  Terminal(r) /\ r.status \in {"failed", "cancelled"}
  BY DEF IsProvenTerminalFailure, IsProvenUnbroadcastedCancellation,
         IsProvenOnChainFailure, Terminal

LEMMA NeverPaidStays ==
  ASSUME NeverPaid, Follows(tx, tx')
  PROVE  NeverPaid'
<1> SUFFICES ASSUME NEW t \in TxId, Exists(tx'[t]) PROVE IsProvenTerminalFailure(tx'[t])
  BY DEF NeverPaid
<1>1. ASSUME NEW s \in TxId, tx[s].status = "sent" PROVE FALSE
  <2>1. IsProvenTerminalFailure(tx[s])
    BY <1>1 DEF NeverPaid, Exists
  <2>2. QED
    BY <1>1, <2>1, ProvenIsTerminal
<1>2. Exists(tx[t])
  BY <1>1 DEF Follows
<1>3. IsProvenTerminalFailure(tx[t])
  BY <1>2 DEF NeverPaid
<1>4. tx'[t] = tx[t]
  BY <1>3, ProvenIsTerminal DEF Follows
<1>5. QED
  BY <1>3, <1>4

LEMMA PaidForGoodStays ==
  ASSUME IsPaidForGood, Follows(tx, tx')
  PROVE  IsPaidForGood'
<1>1. PICK t \in TxId :
         /\ tx[t].status = "confirmed"
         /\ \A u \in TxId \ {t} : Exists(tx[u]) => IsProvenTerminalFailure(tx[u])
  BY DEF IsPaidForGood
<1>2. tx'[t] = tx[t]
  BY <1>1 DEF Follows, Terminal
<1>3. ASSUME NEW s \in TxId, tx[s].status = "sent" PROVE FALSE
  <2>1. IsProvenTerminalFailure(tx[s])
    BY <1>1, <1>3 DEF Exists
  <2>2. QED
    BY <1>3, <2>1, ProvenIsTerminal
<1>4. ASSUME NEW u \in TxId \ {t}, Exists(tx'[u]) PROVE IsProvenTerminalFailure(tx'[u])
  <2>1. Exists(tx[u])
    BY <1>3, <1>4 DEF Follows
  <2>2. IsProvenTerminalFailure(tx[u])
    BY <1>1, <2>1
  <2>3. tx'[u] = tx[u]
    BY <2>2, ProvenIsTerminal DEF Follows
  <2>4. QED
    BY <2>2, <2>3
<1>5. QED
  BY <1>1, <1>2, <1>4 DEF IsPaidForGood

\* The table, as long as no payout is queued, and what hangs on it.
LEMMA WorldStays ==
  ASSUME Inv, TableOK', Follows(tx, tx'), record' = record, relay' = relay,
         debits' = debits, lapses' = lapses
  PROVE  /\ TableOK' /\ OnePayout' /\ RecordInv'
         /\ IsPaidForGood => IsPaidForGood'
         /\ NeverPaid => NeverPaid'
<1>1. OnePayout /\ RecordInv /\ record.root \in TxId \cup {NoRoot}
  BY DEF Inv, ProcessorInv, TypeOK, Record
<1>2. record.root # NoRoot => Exists(tx'[record.root]) /\ tx'[record.root].root = NoRoot
  BY <1>1 DEF RecordInv, Follows, NoRoot
<1>3. OnePayout'
  <2> SUFFICES ASSUME NEW t \in TxId, Exists(tx'[t])
               PROVE  record.root # NoRoot /\ (t = record.root \/ tx'[t].root = record.root)
    BY DEF OnePayout, Chain
  <2>1. CASE Exists(tx[t])
    BY <1>1, <2>1 DEF OnePayout, Chain, Follows
  <2>2. CASE ~Exists(tx[t])
    <3>1. PICK s \in TxId : tx[s].status = "sent" /\ tx'[t].root = RootTransactionID(tx, s)
      BY <2>2 DEF Follows
    <3>2. record.root # NoRoot /\ (s = record.root \/ tx[s].root = record.root)
      BY <1>1, <3>1 DEF OnePayout, Chain, Exists
    <3>3. tx[record.root].root = NoRoot
      BY <1>1, <3>2 DEF RecordInv
    <3>4. RootTransactionID(tx, s) = record.root
      BY <3>2, <3>3 DEF RootTransactionID
    <3>5. QED
      BY <3>1, <3>2, <3>4
  <2>3. QED
    BY <2>1, <2>2
<1>4. RecordInv'
  BY <1>1, <1>2, NeverPaidStays, PaidForGoodStays DEF RecordInv
<1>5. QED
  BY <1>3, <1>4, NeverPaidStays, PaidForGoodStays

\* A step that leaves the record, its copy, the money and Relay alone.
LEMMA MovesInv ==
  ASSUME Inv, TableOK', Follows(tx, tx'),
         UNCHANGED <<record, mem, authorized, late, debits, relay, lapses>>,
         balance' \in 0 .. MaxBalance, faults' \in 0 .. MaxFaults,
         current' \in [t : TxId \cup {NoRoot}, row : Row], mode' \in Mode, pc' \in Pc,
         Active' => Active, ProgressInv', pc' = "idle" => late \/ pc = "idle"
  PROVE  Inv'
<1>1. /\ OnePayout' /\ RecordInv' /\ (IsPaidForGood => IsPaidForGood')
      /\ TypeOK /\ CopyInv /\ RefundInv /\ ChargeInv
  BY WorldStays DEF Inv, ProcessorInv
<1>2. TypeOK'
  BY <1>1 DEF TypeOK, TableOK
<1>3. CopyInv'
  BY <1>1, WorldStays DEF CopyInv
<1>4. RefundInv' /\ ChargeInv'
  BY <1>1 DEF RefundInv, ChargeInv
<1>5. QED
  BY <1>1, <1>2, <1>3, <1>4 DEF Inv, ProcessorInv, TableOK

\* A step of the manager, or the end of a behaviour.
LEMMA ManagerInv ==
  ASSUME Inv, ManagerMoves \/ UNCHANGED lifecycleVars, UNCHANGED processorVars
  PROVE  Inv'
<1>1. TableOK
  BY DEF Inv, ProcessorInv, TypeOK, TableOK
<1>2. TableOK' /\ Follows(tx, tx')
  BY <1>1, ManagerFollows, SameTable DEF lifecycleVars
<1>3. UNCHANGED <<record, mem, current, pc, mode, authorized, late, balance, debits, relay,
                  lapses, faults>>
  BY DEF processorVars
<1>4. (IsPaidForGood => IsPaidForGood') /\ (NeverPaid => NeverPaid')
  BY <1>2, NeverPaidStays, PaidForGoodStays
<1>5. ProgressInv'
  BY <1>3, <1>4 DEF Inv, ProcessorInv, ProgressInv
<1>6. TypeOK
  BY DEF Inv, ProcessorInv
<1>7. /\ balance' \in 0 .. MaxBalance /\ faults' \in 0 .. MaxFaults
      /\ current' \in [t : TxId \cup {NoRoot}, row : Row] /\ mode' \in Mode /\ pc' \in Pc
      /\ (Active' => Active) /\ (pc' = "idle" => pc = "idle")
  BY <1>3, <1>6 DEF TypeOK, Active
<1>8. QED
  BY <1>2, <1>3, <1>5, <1>7, MovesInv

-----------------------------------------------------------------------------
(* Steps that leave the record alone. *)

LEMMA CurrentType ==
  ASSUME Inv
  PROVE  /\ \A root \in TxId : CurrentOf(root) \in TxId
         /\ \A t \in TxId : Snapshot(t) \in [t : TxId \cup {NoRoot}, row : Row]
                            /\ Snapshot(t).t = t
         /\ Nil \in [t : TxId \cup {NoRoot}, row : Row]
<1>1. ASSUME NEW root \in TxId PROVE CurrentOf(root) \in TxId
  <2> DEFINE Retries == {t \in TxId : Exists(tx[t]) /\ tx[t].root = root}
  <2>1. Retries \in SUBSET TxId
    OBVIOUS
  <2>2. Retries # {} => Max(Retries) \in TxId
    <3> HIDE DEF Retries
    <3>1. QED
      BY <2>1, LastId
  <2>3. QED
    BY <2>2 DEF CurrentOf
<1>2. tx \in [TxId -> Row]
  BY DEF Inv, ProcessorInv, TypeOK, LifecycleTypeOK
<1>3. QED
  BY <1>1, <1>2, AbsentRowType DEF Snapshot, Nil

\* An error or a refusal: the processor starts over, or stops.
LEMMA FailsInv ==
  ASSUME Inv, Active, Fails \/ Stops, TableOK', Follows(tx, tx'),
         UNCHANGED <<record, mem, current, mode, authorized, late, balance, debits,
                     relay, lapses>>,
         faults' \in 0 .. MaxFaults
  PROVE  Inv'
<1>1. /\ pc' \in {"retry", "idle", "stopped"} /\ mode' = mode /\ late' = late
      /\ TypeOK /\ ProgressInv
  BY DEF Fails, Stops, Inv, ProcessorInv
<1>2. ProgressInv'
  BY <1>1 DEF ProgressInv, InTimeout, Queueing, NamesRoot, NamesCurrent, BeforeDebit,
              AfterDebit, Refunding
<1>3. /\ current' \in [t : TxId \cup {NoRoot}, row : Row] /\ balance' \in 0 .. MaxBalance
      /\ mode' \in Mode /\ pc' \in Pc
      /\ pc' = "idle" => late
  BY <1>1 DEF TypeOK, Pc, Fails, Stops, ProgressInv
<1>4. QED
  BY <1>2, <1>3, MovesInv

LEMMA FaultType ==
  ASSUME Inv
  PROVE  /\ NoFault => faults' \in 0 .. MaxFaults
         /\ \A kind : Fault(kind) => faults' \in 0 .. MaxFaults /\ kind \in FaultKinds
                                     /\ faults' # faults
  BY ProcessorAssumption DEF Inv, ProcessorInv, TypeOK, NoFault, Fault

LEMMA InvTable == Inv => TableOK
  BY DEF Inv, ProcessorInv, TypeOK, TableOK

\* A look at the table, and where it leads.
LEMMA LooksInv ==
  ASSUME Inv, Active,
         UNCHANGED <<tx, paid, record, mem, authorized, late, balance, debits, relay,
                     lapses>>,
         faults' \in 0 .. MaxFaults,
         \/ (Fails \/ Stops) /\ UNCHANGED <<current, mode>>
         \/ /\ current' \in [t : TxId \cup {NoRoot}, row : Row] /\ mode' \in Mode
            /\ pc' \in Pc /\ ProgressInv' /\ (pc' = "idle" => late)
         \/ pc' = "stopped" /\ mode' = mode
            /\ current' \in [t : TxId \cup {NoRoot}, row : Row]
  PROVE  Inv'
<1>1. TableOK' /\ Follows(tx, tx')
  BY InvTable, SameTable
<1>2. CASE (Fails \/ Stops) /\ UNCHANGED <<current, mode>>
  BY <1>1, <1>2, FailsInv
<1>3. balance' \in 0 .. MaxBalance /\ mode \in Mode /\ ProgressInv
  BY DEF Inv, ProcessorInv, TypeOK
<1>4. CASE pc' = "stopped" /\ mode' = mode
           /\ current' \in [t : TxId \cup {NoRoot}, row : Row]
  <2>1. ProgressInv'
    BY <1>3, <1>4 DEF ProgressInv, InTimeout, Queueing, NamesRoot, NamesCurrent, BeforeDebit,
                      AfterDebit, Refunding
  <2>2. pc' \in Pc
    BY <1>4 DEF Pc
  <2>3. QED
    BY <1>1, <1>3, <1>4, <2>1, <2>2, MovesInv
<1>5. CASE current' \in [t : TxId \cup {NoRoot}, row : Row] /\ mode' \in Mode
           /\ pc' \in Pc /\ ProgressInv' /\ (pc' = "idle" => late)
  BY <1>1, <1>3, <1>5, MovesInv
<1>6. QED
  BY <1>2, <1>4, <1>5

\* The labels on the way to the debit.
LEMMA LeadsOn ==
  ASSUME Inv, pc \in BeforeDebit, UNCHANGED <<mem, mode, late, relay, lapses>>,
         pc' \in {"committed", "reauthorize", "unauthorized", "unauthorizedRequest",
                  "unauthorizedCancel", "authorize", "gate", "create", "current", "wait",
                  "debitSafe", "markFailed"},
         pc' \in Queueing => pc \in Queueing,
         pc' \in NamesRoot => mem.root # NoRoot,
         pc' \in NamesCurrent => current'.t # NoRoot
  PROVE  ProgressInv' /\ pc' \in Pc /\ mode' \in Mode /\ pc' # "idle"
<1>1. ProgressInv /\ mode \in Mode
  BY DEF Inv, ProcessorInv, TypeOK
<1>2. ProgressInv'
  BY <1>1 DEF ProgressInv, InTimeout, Queueing, NamesRoot, NamesCurrent, BeforeDebit,
              AfterDebit, Refunding
<1>3. QED
  BY <1>1, <1>2 DEF Pc

LEMMA ReadCommittedInv == Inv /\ ReadCommitted => Inv'
<1> SUFFICES ASSUME Inv, ReadCommitted PROVE Inv'
  OBVIOUS
<1>1. /\ pc = "committed"
      /\ UNCHANGED <<tx, paid, record, mem, current, mode, authorized, late, balance, debits,
                     relay, lapses>>
      /\ pc' \in {"current", "reauthorize"} \/ Fails
      /\ faults' \in 0 .. MaxFaults
  BY FaultType DEF ReadCommitted, Read, Goto
<1>2. Active /\ pc \in BeforeDebit /\ mem.root # NoRoot
      /\ current \in [t : TxId \cup {NoRoot}, row : Row]
  BY <1>1 DEF Active, BeforeDebit, Inv, ProcessorInv, ProgressInv, NamesRoot, TypeOK
<1>3. CASE pc' \in {"current", "reauthorize"}
  <2>1. ProgressInv' /\ pc' \in Pc /\ mode' \in Mode
    BY <1>1, <1>2, <1>3, LeadsOn DEF Queueing, NamesCurrent
  <2>2. QED
    BY <1>1, <1>2, <2>1, LooksInv
<1>4. CASE Fails
  BY <1>1, <1>2, <1>4, LooksInv
<1>5. QED
  BY <1>1, <1>3, <1>4

LEMMA RetryInv == Inv /\ Retry => Inv'
<1> SUFFICES ASSUME Inv, Retry PROVE Inv'
  OBVIOUS
<1>1. /\ pc = "retry" /\ mode' = (IF late THEN "timeout" ELSE "record") /\ current' = Nil
      /\ pc' = (IF late THEN "timeout" ELSE Top(mem))
      /\ UNCHANGED <<tx, paid, record, mem, authorized, late, balance, debits, relay,
                     lapses, faults>>
  BY DEF Retry, Goto
<1>2. Active /\ faults' \in 0 .. MaxFaults /\ mode' \in Mode
      /\ current' \in [t : TxId \cup {NoRoot}, row : Row]
  BY <1>1, CurrentType DEF Active, Inv, ProcessorInv, TypeOK, Mode
<1>3. RefundInv /\ CopyInv
  BY DEF Inv, ProcessorInv
<1>4. ProgressInv' /\ pc' \in Pc /\ pc' # "idle"
  <2>1. CASE late
    BY <1>1, <2>1 DEF ProgressInv, InTimeout, Queueing, NamesRoot, NamesCurrent, BeforeDebit,
                      AfterDebit, Refunding, Pc
  <2>2. CASE ~late /\ mem.status = "pending"
    <3>1. mem.root = NoRoot => "rejected" \notin relay \/ "refund" \in lapses
      BY <1>2, <1>3, <2>2 DEF RefundInv, CopyInv, GivenUp
    <3>2. pc' = (IF mem.root # NoRoot THEN "committed" ELSE "authorize") /\ mode' = "record"
      BY <1>1, <2>2 DEF Top
    <3>3. QED
      BY <1>1, <2>2, <3>1, <3>2
      DEF ProgressInv, InTimeout, Queueing, NamesRoot, NamesCurrent, BeforeDebit,
          AfterDebit, Refunding, Pc
  <2>3. CASE ~late /\ mem.status # "pending"
    <3>1. pc' = (IF mem.status = "success" THEN "fulfilSafe" ELSE "rejectSafe")
          /\ mode' = "record"
      BY <1>1, <2>3 DEF Top
    <3>2. QED
      BY <1>1, <2>3, <3>1
      DEF ProgressInv, InTimeout, Queueing, NamesRoot, NamesCurrent, BeforeDebit,
          AfterDebit, Refunding, Pc
  <2>4. QED
    BY <2>1, <2>2, <2>3
<1>5. QED
  BY <1>1, <1>2, <1>4, LooksInv

\* The authorization and the balance, before a payout is queued or in front of one.
LEMMA AuthorizeInv == Inv /\ (Reauthorize \/ Authorize \/ Gate) => Inv'
<1> SUFFICES ASSUME Inv, Reauthorize \/ Authorize \/ Gate PROVE Inv'
  OBVIOUS
<1>1. /\ UNCHANGED <<tx, paid, record, mem, current, mode, authorized, late, balance, debits,
                     relay, lapses>>
      /\ faults' \in 0 .. MaxFaults
      /\ \/ pc = "reauthorize" /\ pc' \in {"current", "unauthorized"}
         \/ pc = "authorize" /\ pc' \in {"gate", "markFailed"}
         \/ pc = "gate" /\ pc' \in {"create", "markFailed"}
         \/ pc = "gate" /\ Fails
  BY FaultType DEF Reauthorize, Authorize, Refused, Gate, Read, Goto
<1>2. Active /\ pc \in BeforeDebit /\ current \in [t : TxId \cup {NoRoot}, row : Row]
  BY <1>1 DEF Active, BeforeDebit, Queueing, Inv, ProcessorInv, TypeOK
<1>3. pc = "reauthorize" => mem.root # NoRoot
  BY DEF Inv, ProcessorInv, ProgressInv, NamesRoot
<1>4. CASE Fails
  BY <1>1, <1>2, <1>4, LooksInv
<1>5. CASE ~Fails
  <2>1. ProgressInv' /\ pc' \in Pc /\ mode' \in Mode
    BY <1>1, <1>2, <1>3, <1>5, LeadsOn DEF Queueing, NamesCurrent, NamesRoot
  <2>2. QED
    BY <1>1, <1>2, <2>1, LooksInv
<1>6. QED
  BY <1>4, <1>5

\* The attempts of the chain.
LEMMA DispatchLabels ==
  ASSUME NEW row
  PROVE  Dispatch(row) \in {"debitSafe", "markFailed", "committed", "wait"}
  BY DEF Dispatch

LEMMA AttemptInv == Inv /\ (Unauthorized \/ FetchCurrent \/ Wait) => Inv'
<1> SUFFICES ASSUME Inv, Unauthorized \/ FetchCurrent \/ Wait PROVE Inv'
  OBVIOUS
<1>1. /\ UNCHANGED <<tx, paid, record, mem, mode, authorized, late, balance, debits,
                     relay, lapses>>
      /\ faults' \in 0 .. MaxFaults
      /\ pc \in {"unauthorized", "current", "wait"}
  BY FaultType DEF Unauthorized, FetchCurrent, Wait, Read
<1>2. Active /\ pc \in BeforeDebit /\ mem.root # NoRoot /\ mode' \in Mode
      /\ (pc = "wait" => current.t # NoRoot)
      /\ mem.root \in TxId /\ current.t \in TxId \cup {NoRoot}
  BY <1>1 DEF Active, BeforeDebit, Queueing, Inv, ProcessorInv, ProgressInv, NamesRoot,
              NamesCurrent, TypeOK, Record
<1>3. \/ Fails /\ UNCHANGED current
      \/ Fails /\ current' = Snapshot(CurrentOf(mem.root))
      \/ /\ current' = Snapshot(CurrentOf(mem.root))
         /\ pc' \in {"unauthorizedRequest", "markFailed", "debitSafe", "committed", "wait"}
      \/ /\ pc = "wait" /\ current' = Snapshot(current.t)
         /\ pc' \in {"debitSafe", "markFailed", "committed", "wait"}
  BY DispatchLabels DEF Unauthorized, FetchCurrent, Wait, Read, Goto
<1>4. CurrentOf(mem.root) \in TxId
  BY <1>2, CurrentType
<1>5. CASE Fails /\ UNCHANGED current
  BY <1>1, <1>2, <1>5, LooksInv
<1>6. CASE Fails /\ current' = Snapshot(CurrentOf(mem.root))
  <2>1. current' \in [t : TxId \cup {NoRoot}, row : Row]
    BY <1>4, <1>6, CurrentType
  <2>2. pc' \in {"retry", "idle"} /\ ProgressInv /\ mode' = mode /\ late' = late
    BY <1>1, <1>6 DEF Fails, Inv, ProcessorInv
  <2>3. ProgressInv' /\ pc' \in Pc /\ (pc' = "idle" => late)
    BY <1>6, <2>2
    DEF Fails, ProgressInv, InTimeout, Queueing, NamesRoot, NamesCurrent, BeforeDebit,
        AfterDebit, Refunding, Pc
  <2>4. QED
    BY <1>1, <1>2, <2>1, <2>3, LooksInv
<1>7. ASSUME pc' \in {"unauthorizedRequest", "markFailed", "debitSafe", "committed", "wait"},
             \E t \in TxId : current' = Snapshot(t)
      PROVE  Inv'
  <2>1. current' \in [t : TxId \cup {NoRoot}, row : Row] /\ current'.t # NoRoot
    BY <1>7, CurrentType DEF TxId, NoRoot
  <2>2. ProgressInv' /\ pc' \in Pc /\ pc' # "idle"
    BY <1>1, <1>2, <1>7, <2>1, LeadsOn DEF Queueing
  <2>3. QED
    BY <1>1, <1>2, <2>1, <2>2, LooksInv
<1>8. current.t # NoRoot => current.t \in TxId
  BY <1>2
<1>9. QED
  BY <1>2, <1>3, <1>4, <1>5, <1>6, <1>7, <1>8

-----------------------------------------------------------------------------
(* The proofs of a payout, and of none. *)

LEMMA FulfilSafeIs ==
  ASSUME Inv, Active, NEW snapshot, FulfilSafe(mem.root, snapshot)
  PROVE  IsPaidForGood
<1>1. /\ OnePayout /\ Cardinality(ConfirmedIn(mem.root)) = 1
      /\ mem.root = record.root \/ record.root = NoRoot
      /\ \A t \in Chain(tx, mem.root) :
            tx[t].status = "confirmed" \/ IsProvenTerminalFailure(tx[t])
  BY DEF Inv, ProcessorInv, CopyInv, FulfilSafe
<1>2. IsFiniteSet(ConfirmedIn(mem.root))
  BY TxIdFinite, FS_Subset DEF ConfirmedIn, Chain
<1>3. PICK t : ConfirmedIn(mem.root) = {t}
  BY <1>1, <1>2, OneMember
<1>4. t \in TxId /\ Exists(tx[t]) /\ tx[t].status = "confirmed"
  BY <1>3 DEF ConfirmedIn, Chain
<1>5. record.root # NoRoot /\ mem.root = record.root
  BY <1>1, <1>4 DEF OnePayout
<1>6. ASSUME NEW u \in TxId \ {t}, Exists(tx[u]) PROVE IsProvenTerminalFailure(tx[u])
  <2>1. u \in Chain(tx, mem.root)
    BY <1>1, <1>5, <1>6 DEF OnePayout
  <2>2. tx[u].status # "confirmed"
    BY <1>3, <1>6, <2>1 DEF ConfirmedIn
  <2>3. QED
    BY <1>1, <2>1, <2>2
<1>7. QED
  BY <1>4, <1>6 DEF IsPaidForGood

LEMMA RejectSafeIs ==
  ASSUME Inv, Active, RejectSafe(mem.root)
  PROVE  NeverPaid
<1>1. OnePayout /\ (mem.root = record.root \/ record.root = NoRoot)
  BY DEF Inv, ProcessorInv, CopyInv
<1>2. QED
  BY <1>1 DEF OnePayout, RejectSafe, NeverPaid

LEMMA DebitSafeInv == Inv /\ DebitSafe => Inv'
<1> SUFFICES ASSUME Inv, DebitSafe PROVE Inv'
  OBVIOUS
<1>1. /\ pc = "debitSafe"
      /\ UNCHANGED <<tx, paid, record, mem, current, mode, authorized, late, balance, debits,
                     relay, lapses>>
      /\ (FulfilSafe(mem.root, current) /\ pc' = "debit") \/ Fails \/ Stops
      /\ faults' \in 0 .. MaxFaults
  BY FaultType DEF DebitSafe, Read, Goto
<1>2. Active /\ mem.status = "pending" /\ ProgressInv /\ mode' \in Mode
      /\ current' \in [t : TxId \cup {NoRoot}, row : Row]
  BY <1>1 DEF Active, BeforeDebit, Inv, ProcessorInv, ProgressInv, TypeOK
<1>3. CASE FulfilSafe(mem.root, current) /\ pc' = "debit"
  <2>1. IsPaidForGood'
    BY <1>1, <1>2, <1>3, FulfilSafeIs DEF IsPaidForGood
  <2>2. ProgressInv' /\ pc' \in Pc /\ pc' # "idle"
    BY <1>1, <1>2, <1>3, <2>1
    DEF ProgressInv, InTimeout, Queueing, NamesRoot, NamesCurrent, BeforeDebit,
        AfterDebit, Refunding, Pc
  <2>3. QED
    BY <1>1, <1>2, <2>2, LooksInv
<1>4. CASE Fails \/ Stops
  BY <1>1, <1>2, <1>4, LooksInv
<1>5. QED
  BY <1>1, <1>3, <1>4

LEMMA CheckFulfilInv == Inv /\ CheckFulfil => Inv'
<1> SUFFICES ASSUME Inv, CheckFulfil PROVE Inv'
  OBVIOUS
<1> DEFINE snapshot == IF current = Nil THEN Snapshot(CurrentOf(mem.root)) ELSE current
<1>1. /\ pc = "fulfilSafe"
      /\ UNCHANGED <<tx, paid, record, mem, mode, authorized, late, balance, debits,
                     relay, lapses>>
      /\ \/ current' = snapshot /\ pc' = "fulfil"
         \/ current' = snapshot /\ Stops
         \/ Fails /\ UNCHANGED current
      /\ faults' \in 0 .. MaxFaults
  BY FaultType DEF CheckFulfil, Read, Goto
<1>2. Active /\ mem.status = "success" /\ ProgressInv /\ mode' \in Mode
      /\ current \in [t : TxId \cup {NoRoot}, row : Row]
      /\ RecordInv /\ CopyInv /\ OnePayout /\ mem.root \in TxId \cup {NoRoot}
  BY <1>1 DEF Active, AfterDebit, Inv, ProcessorInv, ProgressInv, TypeOK, Record
<1>3. mem.root \in TxId
  <2>1. PICK t \in TxId : tx[t].status = "confirmed"
    BY <1>2 DEF CopyInv, Charged, IsPaidForGood
  <2>2. record.root # NoRoot
    BY <1>2, <2>1 DEF OnePayout, Exists
  <2>3. QED
    BY <1>2, <2>2 DEF CopyInv
<1>4. snapshot \in [t : TxId \cup {NoRoot}, row : Row]
  BY <1>2, <1>3, CurrentType
<1> HIDE DEF snapshot
<1>5. CASE current' = snapshot /\ pc' = "fulfil"
  <2>1. ProgressInv' /\ pc' \in Pc /\ pc' # "idle"
    BY <1>1, <1>2, <1>5
    DEF ProgressInv, InTimeout, Queueing, NamesRoot, NamesCurrent, BeforeDebit,
        AfterDebit, Refunding, Pc
  <2>2. QED
    BY <1>1, <1>2, <1>4, <1>5, <2>1, LooksInv
<1>6. CASE current' = snapshot /\ Stops
  BY <1>1, <1>2, <1>4, <1>6, LooksInv DEF Stops
<1>7. CASE Fails /\ UNCHANGED current
  BY <1>1, <1>2, <1>7, LooksInv
<1>8. QED
  BY <1>1, <1>5, <1>6, <1>7

LEMMA CheckRejectInv == Inv /\ CheckReject => Inv'
<1> SUFFICES ASSUME Inv, CheckReject PROVE Inv'
  OBVIOUS
<1>1. /\ pc = "rejectSafe"
      /\ UNCHANGED <<tx, paid, record, mem, current, mode, authorized, late, balance, debits,
                     relay, lapses>>
      /\ (RejectSafe(mem.root) /\ pc' = "reject") \/ Fails \/ Stops
      /\ faults' \in 0 .. MaxFaults
  BY FaultType DEF CheckReject, Read, Goto
<1>2. Active /\ ProgressInv /\ mode' \in Mode
      /\ current' \in [t : TxId \cup {NoRoot}, row : Row]
  BY <1>1 DEF Active, Inv, ProcessorInv, TypeOK
<1>3. CASE RejectSafe(mem.root) /\ pc' = "reject"
  <2>1. NeverPaid'
    BY <1>1, <1>2, <1>3, RejectSafeIs DEF NeverPaid
  <2>2. ProgressInv' /\ pc' \in Pc /\ pc' # "idle"
    BY <1>1, <1>2, <1>3, <2>1
    DEF ProgressInv, InTimeout, Queueing, NamesRoot, NamesCurrent, BeforeDebit,
        AfterDebit, Refunding, Pc
  <2>3. QED
    BY <1>1, <1>2, <2>2, LooksInv
<1>4. CASE Fails \/ Stops
  BY <1>1, <1>2, <1>4, LooksInv
<1>5. QED
  BY <1>1, <1>3, <1>4

-----------------------------------------------------------------------------
(* The deadline: what is done with the attempt. *)

\* A conditional update of the current attempt.
LEMMA UpdateInv ==
  ASSUME Inv, Active, current.t # NoRoot,
         UNCHANGED <<paid, record, mem, current, mode, authorized, late, balance, debits,
                     relay, lapses>>,
         \/ tx' = tx
         \/ tx' = [tx EXCEPT ![current.t] = CancellationRequestedRow(tx[current.t])]
         \/ tx' = [tx EXCEPT ![current.t] = CancelledRow(tx[current.t])],
         faults' \in 0 .. MaxFaults,
         Fails \/ (ProgressInv' /\ pc' \in Pc /\ pc' # "idle")
  PROVE  Inv'
<1>1. TableOK /\ current.t \in TxId
  BY InvTable DEF Inv, ProcessorInv, TypeOK
<1>2. /\ tx[current.t] \in Row /\ RowFits(tx[current.t], current.t \in paid)
      /\ (current.t \in paid) \in BOOLEAN
  BY <1>1 DEF TableOK, LifecycleTypeOK, TableInv
<1>3. TableOK' /\ Follows(tx, tx')
  <2>1. CASE tx' = tx
    BY <1>1, <2>1, SameTable
  <2>2. CASE tx' = [tx EXCEPT ![current.t] = CancellationRequestedRow(tx[current.t])]
    BY <1>1, <1>2, <2>2, ConditionalUpdates, RowUpdated
  <2>3. CASE tx' = [tx EXCEPT ![current.t] = CancelledRow(tx[current.t])]
    BY <1>1, <1>2, <2>3, ConditionalUpdates, RowUpdated
  <2>4. QED
    BY <2>1, <2>2, <2>3
<1>4. /\ balance' \in 0 .. MaxBalance /\ mode' \in Mode
      /\ current' \in [t : TxId \cup {NoRoot}, row : Row]
  BY DEF Inv, ProcessorInv, TypeOK
<1>5. QED
  BY <1>3, <1>4, FailsInv, MovesInv

LEMMA CancelInv == Inv /\ (UnauthorizedRequest \/ UnauthorizedCancel) => Inv'
<1> SUFFICES ASSUME Inv, UnauthorizedRequest \/ UnauthorizedCancel PROVE Inv'
  OBVIOUS
<1>1. /\ pc \in {"unauthorizedRequest", "unauthorizedCancel"}
      /\ UNCHANGED <<paid, record, mem, current, mode, authorized, late, balance, debits,
                     relay, lapses>>
      /\ \/ tx' = tx
         \/ tx' = [tx EXCEPT ![current.t] = CancellationRequestedRow(tx[current.t])]
         \/ tx' = [tx EXCEPT ![current.t] = CancelledRow(tx[current.t])]
      /\ faults' \in 0 .. MaxFaults
      /\ Fails \/ pc' \in {"unauthorizedCancel", "current", "markFailed", "committed"}
  BY FaultType DEF UnauthorizedRequest, Request, UnauthorizedCancel, CancelCurrent, Goto
<1>2. Active /\ pc \in BeforeDebit /\ mem.root # NoRoot /\ current.t # NoRoot
  BY <1>1 DEF Active, BeforeDebit, Inv, ProcessorInv, ProgressInv, NamesRoot, NamesCurrent
<1>3. CASE Fails
  BY <1>1, <1>2, <1>3, UpdateInv
<1>4. CASE pc' \in {"unauthorizedCancel", "current", "markFailed", "committed"}
  <2>1. ProgressInv' /\ pc' \in Pc /\ pc' # "idle"
    BY <1>1, <1>2, <1>4, LeadsOn DEF Queueing
  <2>2. QED
    BY <1>1, <1>2, <2>1, UpdateInv
<1>5. QED
  BY <1>1, <1>3, <1>4

\* The labels of the timeout handler.
LEMMA TimeoutLeads ==
  ASSUME Inv, pc \in InTimeout, UNCHANGED <<mem, late, mode, relay, lapses>>,
         pc' \in {"timeoutRequest", "timeoutCancel", "timeoutSync", "retry", "rejectSafe"},
         pc' \in NamesCurrent => current'.t # NoRoot
  PROVE  ProgressInv' /\ pc' \in Pc /\ pc' # "idle"
<1>1. ProgressInv /\ mode = "timeout"
  BY DEF Inv, ProcessorInv, ProgressInv
<1>2. QED
  BY <1>1 DEF ProgressInv, InTimeout, Queueing, NamesRoot, NamesCurrent, BeforeDebit,
              AfterDebit, Refunding, Pc

LEMMA TimeoutCancelInv == Inv /\ (TimeoutRequest \/ TimeoutCancel) => Inv'
<1> SUFFICES ASSUME Inv, TimeoutRequest \/ TimeoutCancel PROVE Inv'
  OBVIOUS
<1>1. /\ pc \in {"timeoutRequest", "timeoutCancel"}
      /\ UNCHANGED <<paid, record, mem, current, mode, authorized, late, balance, debits,
                     relay, lapses>>
      /\ \/ tx' = tx
         \/ tx' = [tx EXCEPT ![current.t] = CancellationRequestedRow(tx[current.t])]
         \/ tx' = [tx EXCEPT ![current.t] = CancelledRow(tx[current.t])]
      /\ faults' \in 0 .. MaxFaults
      /\ Fails \/ pc' \in {"timeoutCancel", "timeoutSync", "rejectSafe", "retry"}
  BY FaultType DEF TimeoutRequest, Request, TimeoutCancel, CancelCurrent, Goto
<1>2. Active /\ pc \in InTimeout /\ current.t # NoRoot
  BY <1>1 DEF Active, InTimeout, Inv, ProcessorInv, ProgressInv, NamesCurrent
<1>3. CASE Fails
  BY <1>1, <1>2, <1>3, UpdateInv
<1>4. CASE pc' \in {"timeoutCancel", "timeoutSync", "rejectSafe", "retry"}
  <2>1. ProgressInv' /\ pc' \in Pc /\ pc' # "idle"
    BY <1>1, <1>2, <1>4, TimeoutLeads
  <2>2. QED
    BY <1>1, <1>2, <2>1, UpdateInv
<1>5. QED
  BY <1>1, <1>3, <1>4

LEMMA TimeoutSyncInv == Inv /\ TimeoutSync => Inv'
<1> SUFFICES ASSUME Inv, TimeoutSync PROVE Inv'
  OBVIOUS
<1>1. /\ pc = "timeoutSync"
      /\ UNCHANGED <<tx, paid, record, mem, mode, authorized, late, balance, debits,
                     relay, lapses>>
      /\ \/ current' = Snapshot(current.t) /\ pc' \in {"retry", "stopped"}
         \/ Fails /\ UNCHANGED current
      /\ faults' \in 0 .. MaxFaults
  BY FaultType DEF TimeoutSync, Read, Goto, Stops
<1>2. Active /\ pc \in InTimeout /\ current.t \in TxId /\ mode' \in Mode
  BY <1>1 DEF Active, InTimeout, Inv, ProcessorInv, ProgressInv, NamesCurrent, TypeOK
<1>3. CASE current' = Snapshot(current.t) /\ pc' = "retry"
  <2>1. ProgressInv' /\ pc' \in Pc /\ pc' # "idle"
    BY <1>1, <1>2, <1>3, TimeoutLeads DEF NamesCurrent
  <2>2. QED
    BY <1>1, <1>2, <1>3, <2>1, CurrentType, LooksInv
<1>4. CASE current' = Snapshot(current.t) /\ pc' = "stopped"
  BY <1>1, <1>2, <1>4, CurrentType, LooksInv
<1>5. CASE Fails /\ UNCHANGED current
  BY <1>1, <1>2, <1>5, LooksInv
<1>6. QED
  BY <1>1, <1>3, <1>4, <1>5

LEMMA TimeoutCurrentInv == Inv /\ TimeoutCurrent => Inv'
<1> SUFFICES ASSUME Inv, TimeoutCurrent PROVE Inv'
  OBVIOUS
<1>1. /\ pc = "timeoutCurrent"
      /\ UNCHANGED <<tx, paid, record, mem, authorized, late, balance, debits, relay,
                     lapses>>
      /\ \/ mode' = "finalize" /\ pc' = Top(mem) /\ UNCHANGED current
         \/ (Stops \/ Fails) /\ UNCHANGED <<mode, current>>
         \/ /\ current' = Snapshot(CurrentOf(mem.root))
            /\ pc' = "timeoutRequest" /\ UNCHANGED mode
      /\ faults' \in 0 .. MaxFaults
  BY FaultType DEF TimeoutCurrent, Read, Goto
<1>2. /\ Active /\ pc \in InTimeout /\ mem.root \in TxId /\ mode' \in Mode
      /\ current \in [t : TxId \cup {NoRoot}, row : Row]
      /\ ProgressInv /\ late /\ mode = "timeout" /\ mem.root # NoRoot
  BY <1>1 DEF Active, InTimeout, Inv, ProcessorInv, ProgressInv, NamesRoot, TypeOK, Record,
              Mode
<1>3. CASE mode' = "finalize" /\ pc' = Top(mem) /\ UNCHANGED current
  <2>1. /\ pc' \in {"committed", "fulfilSafe", "rejectSafe"}
        /\ pc' = "committed" => mem.status = "pending"
        /\ pc' = "fulfilSafe" => mem.status = "success"
    BY <1>2, <1>3 DEF Top
  <2>2. ProgressInv' /\ pc' \in Pc /\ pc' # "idle"
    BY <1>1, <1>2, <1>3, <2>1
    DEF ProgressInv, InTimeout, Queueing, NamesRoot, NamesCurrent, BeforeDebit,
        AfterDebit, Refunding, Pc
  <2>3. QED
    BY <1>1, <1>2, <1>3, <2>2, LooksInv
<1>4. CASE (Stops \/ Fails) /\ UNCHANGED <<mode, current>>
  BY <1>1, <1>2, <1>4, LooksInv
<1>5. CASE /\ current' = Snapshot(CurrentOf(mem.root))
           /\ pc' = "timeoutRequest" /\ UNCHANGED mode
  <2>1. current' \in [t : TxId \cup {NoRoot}, row : Row] /\ current'.t # NoRoot
    BY <1>2, <1>5, CurrentType DEF TxId, NoRoot
  <2>2. ProgressInv' /\ pc' \in Pc /\ pc' # "idle"
    BY <1>1, <1>2, <1>5, <2>1, TimeoutLeads
  <2>3. QED
    BY <1>1, <1>2, <2>1, <2>2, LooksInv
<1>6. QED
  BY <1>1, <1>3, <1>4, <1>5

-----------------------------------------------------------------------------
(* Steps that change the record, its copy, the balance or what Relay knows. *)

\* No table is changed.
LEMMA Quiet ==
  ASSUME Inv, UNCHANGED <<tx, paid>>
  PROVE  TableOK' /\ TableInv' /\ LifecycleTypeOK'
         /\ IsPaidForGood' = IsPaidForGood /\ NeverPaid' = NeverPaid
<1>1. TableOK'
  BY InvTable, SameTable
<1>2. QED
  BY <1>1 DEF TableOK, IsPaidForGood, NeverPaid

\* Where nothing has been looked at.
LEMMA FreshProgress ==
  ASSUME pc' \in {"retry", "idle", "stopped"}, mode' # "record" => late'
  PROVE  ProgressInv' /\ pc' \in Pc
  BY DEF ProgressInv, InTimeout, Queueing, NamesRoot, NamesCurrent, BeforeDebit,
         AfterDebit, Refunding, Pc

LEMMA Apart ==
  ASSUME Inv
  PROVE  ~(IsPaidForGood /\ NeverPaid)
  BY InvTable, NeverPaidIs

LEMMA LoadInv == Inv /\ Load => Inv'
<1> SUFFICES ASSUME Inv, Load PROVE Inv'
  OBVIOUS
<1>1. /\ mem' = record /\ current' = Nil /\ mode' = "record" /\ pc' = "retry"
      /\ UNCHANGED <<tx, paid, record, authorized, late, balance, debits, relay, lapses,
                     faults>>
  BY DEF Load, Goto
<1>2. TypeOK /\ OnePayout /\ RecordInv /\ RefundInv /\ ChargeInv
  BY DEF Inv, ProcessorInv
<1>3. TypeOK' /\ TableInv' /\ IsPaidForGood' = IsPaidForGood /\ NeverPaid' = NeverPaid
  BY <1>1, <1>2, Quiet, CurrentType DEF TypeOK, Pc, Mode
<1>4. OnePayout' /\ RecordInv'
  BY <1>1, <1>2, <1>3 DEF OnePayout, Chain, RecordInv
<1>5. CopyInv' /\ RefundInv'
  <2>1. pc = "idle"
    BY DEF Load
  <2>2. QED
    BY <1>1, <1>2, <1>3, <2>1 DEF CopyInv, RefundInv, RecordInv
<1>6. ChargeInv'
  BY <1>1, <1>2 DEF ChargeInv
<1>7. ProgressInv'
  BY <1>1, FreshProgress
<1>8. QED
  BY <1>3, <1>4, <1>5, <1>6, <1>7 DEF Inv, ProcessorInv

LEMMA TimeoutInv == Inv /\ Timeout => Inv'
<1> SUFFICES ASSUME Inv, Timeout PROVE Inv'
  OBVIOUS
<1>1. /\ pc = "timeout"
      /\ UNCHANGED <<tx, paid, record, current, mode, authorized, late, balance, debits,
                     relay, lapses>>
      /\ \/ /\ mem' = record
            /\ pc' = (IF record.root # NoRoot THEN "timeoutCurrent" ELSE "rejectSafe")
         \/ Fails /\ UNCHANGED mem
      /\ faults' \in 0 .. MaxFaults
  BY FaultType DEF Timeout, Read, Goto
<1>2. TypeOK /\ OnePayout /\ RecordInv /\ RefundInv /\ ChargeInv /\ ProgressInv
  BY DEF Inv, ProcessorInv
<1>3. mode = "timeout" /\ late
  BY <1>1, <1>2 DEF ProgressInv, InTimeout
<1>4. CASE Fails /\ UNCHANGED mem
  BY <1>1, <1>4, InvTable, SameTable, FailsInv DEF Active
<1>5. CASE /\ mem' = record
           /\ pc' = (IF record.root # NoRoot THEN "timeoutCurrent" ELSE "rejectSafe")
  <2>1. TypeOK' /\ TableInv' /\ IsPaidForGood' = IsPaidForGood /\ NeverPaid' = NeverPaid
    BY <1>1, <1>2, <1>5, Quiet DEF TypeOK, Pc
  <2>2. OnePayout' /\ RecordInv'
    BY <1>1, <1>2, <2>1 DEF OnePayout, Chain, RecordInv
  <2>3. CopyInv' /\ RefundInv'
    BY <1>1, <1>2, <1>3, <1>5, <2>1
    DEF CopyInv, RefundInv, RecordInv, Charged, GivenUp, Record, RecordStatus
  <2>4. ChargeInv'
    BY <1>1, <1>2, <1>5 DEF ChargeInv
  <2>5. ProgressInv'
    BY <1>1, <1>2, <1>3, <1>5
    DEF ProgressInv, InTimeout, Queueing, NamesRoot, NamesCurrent, BeforeDebit,
        AfterDebit, Refunding
  <2>6. QED
    BY <2>1, <2>2, <2>3, <2>4, <2>5 DEF Inv, ProcessorInv
<1>6. QED
  BY <1>1, <1>4, <1>5

\* The process dies and starts again.
LEMMA RestartInv == Inv /\ (Crash \/ Restart) => Inv'
<1> SUFFICES ASSUME Inv, Crash \/ Restart PROVE Inv'
  OBVIOUS
<1>1. /\ mem' = [status |-> "pending", root |-> NoRoot] /\ current' = Nil
      /\ mode' = "record" /\ pc' = "idle"
      /\ UNCHANGED <<tx, paid, record, authorized, late, balance, debits, relay>>
      /\ lapses' = (IF RefundUnrecorded THEN lapses \cup {"refund"} ELSE lapses)
      /\ faults' \in 0 .. MaxFaults
  BY FaultType DEF Crash, Restart, Restarted, Goto
<1>2. TypeOK /\ OnePayout /\ RecordInv /\ RefundInv /\ ChargeInv
  BY DEF Inv, ProcessorInv
<1>3. mem' \in Record
  BY <1>1 DEF Record, RecordStatus
<1>4. TypeOK' /\ TableInv' /\ IsPaidForGood' = IsPaidForGood /\ NeverPaid' = NeverPaid
  BY <1>1, <1>2, <1>3, Quiet, CurrentType DEF TypeOK, Pc, Mode, Lapse
<1>5. OnePayout' /\ RecordInv'
  BY <1>1, <1>2, <1>4 DEF OnePayout, Chain, RecordInv
<1>6. CopyInv' /\ ChargeInv'
  BY <1>1, <1>2 DEF CopyInv, ChargeInv, Active
<1>7. RefundInv'
  <2> SUFFICES ASSUME "rejected" \in relay, ~late, "refund" \notin lapses'
               PROVE  record.status \in GivenUp \/ record.root # NoRoot
    BY <1>1 DEF RefundInv
  <2>1. record # [status |-> "pending", root |-> NoRoot] /\ record \in Record
    BY <1>1, <1>2 DEF RefundUnrecorded, TypeOK
  <2>2. CASE record.status \in Charged
    BY <1>2, <2>2 DEF RecordInv, IsPaidForGood, OnePayout, Exists
  <2>3. CASE record.status = "pending"
    BY <2>1, <2>3 DEF Record
  <2>4. QED
    BY <2>1, <2>2, <2>3 DEF Charged, GivenUp, Record, RecordStatus
<1>8. ProgressInv'
  BY <1>1, FreshProgress
<1>9. QED
  BY <1>4, <1>5, <1>6, <1>7, <1>8 DEF Inv, ProcessorInv

\* The deadline, and the rest of the wallet.
LEMMA ClockInv == Inv /\ (DeadlinePasses \/ BalanceMoves) => Inv'
<1> SUFFICES ASSUME Inv, DeadlinePasses \/ BalanceMoves PROVE Inv'
  OBVIOUS
<1>1. /\ UNCHANGED <<tx, paid, record, mem, current, pc, mode, authorized, debits, relay,
                     lapses>>
      /\ late' \in BOOLEAN /\ (late => late')
      /\ balance' \in 0 .. MaxBalance /\ faults' \in 0 .. MaxFaults
  <2>1. balance \in 0 .. MaxBalance /\ faults \in 0 .. MaxFaults /\ late \in BOOLEAN
    BY DEF Inv, ProcessorInv, TypeOK
  <2>2. CASE DeadlinePasses
    BY <2>1, <2>2 DEF DeadlinePasses
  <2>3. CASE BalanceMoves
    BY <2>1, <2>3, FaultType DEF BalanceMoves
  <2>4. QED
    BY <2>2, <2>3
<1>2. TypeOK /\ OnePayout /\ RecordInv /\ CopyInv /\ RefundInv /\ ChargeInv /\ ProgressInv
  BY DEF Inv, ProcessorInv
<1>3. TypeOK' /\ TableInv' /\ IsPaidForGood' = IsPaidForGood /\ NeverPaid' = NeverPaid
  BY <1>1, <1>2, Quiet DEF TypeOK
<1>4. OnePayout' /\ RecordInv'
  BY <1>1, <1>2, <1>3 DEF OnePayout, Chain, RecordInv
<1>5. CopyInv' /\ RefundInv' /\ ChargeInv'
  BY <1>1, <1>2, <1>3 DEF CopyInv, RefundInv, ChargeInv, Active
<1>6. ProgressInv'
  BY <1>1, <1>2, <1>3 DEF ProgressInv
<1>7. QED
  BY <1>3, <1>4, <1>5, <1>6 DEF Inv, ProcessorInv

\* A pending copy is that of a pending record.
LEMMA PendingIs ==
  ASSUME Inv, Active, mem.status = "pending"
  PROVE  record.status = "pending"
<1>1. CopyInv /\ record \in Record
  BY DEF Inv, ProcessorInv, TypeOK
<1>2. record.status \notin Charged /\ record.status \notin GivenUp
  BY <1>1 DEF CopyInv, Charged, GivenUp
<1>3. QED
  BY <1>1, <1>2 DEF Charged, GivenUp, Record, RecordStatus

\* UpdateStatus, as far as its three uses have it in common: the record and its copy
\* change, the copy alone does, or neither.
LEMMA StatusStep ==
  ASSUME NEW label, NEW status \in RecordStatus, NEW next,
         UpdateStatus(label, status, next), Inv
  PROVE  /\ pc = label
         /\ UNCHANGED <<tx, paid, current, mode, authorized, late, balance, debits, relay,
                        lapses>>
         /\ faults' \in 0 .. MaxFaults
         /\ mem' \in Record /\ mem'.root = mem.root
         /\ record' \in Record /\ record'.root = record.root
         /\ \/ mem'.status = status /\ record'.status = status /\ (pc' = next \/ Fails)
            \/ mem'.status = status /\ record' = record /\ Fails
            \/ mem' = mem /\ record' = record /\ Fails
<1>1. mem \in Record /\ record \in Record
  BY DEF Inv, ProcessorInv, TypeOK
<1>2. /\ [mem EXCEPT !.status = status] \in Record
      /\ [mem EXCEPT !.status = status].status = status
      /\ [mem EXCEPT !.status = status].root = mem.root
      /\ [record EXCEPT !.status = status] \in Record
      /\ [record EXCEPT !.status = status].status = status
      /\ [record EXCEPT !.status = status].root = record.root
  BY <1>1 DEF Record
<1>3. /\ pc = label
      /\ UNCHANGED <<tx, paid, current, mode, authorized, late, balance, debits, relay,
                     lapses>>
      /\ faults' \in 0 .. MaxFaults
      /\ \/ /\ record' = [record EXCEPT !.status = status]
            /\ mem' = [mem EXCEPT !.status = status]
            /\ pc' = next \/ Fails
         \/ mem' = [mem EXCEPT !.status = status] /\ record' = record /\ Fails
         \/ mem' = mem /\ record' = record /\ Fails
  BY FaultType DEF UpdateStatus, Goto
<1>4. QED
  BY <1>1, <1>2, <1>3

LEMMA MarkFailedInv == Inv /\ MarkFailed => Inv'
<1> SUFFICES ASSUME Inv, MarkFailed PROVE Inv'
  OBVIOUS
<1>1. /\ pc = "markFailed"
      /\ UNCHANGED <<tx, paid, current, mode, authorized, late, balance, debits, relay,
                     lapses>>
      /\ faults' \in 0 .. MaxFaults
      /\ mem' \in Record /\ mem'.root = mem.root
      /\ record' \in Record /\ record'.root = record.root
      /\ \/ /\ mem'.status = "failed" /\ record'.status = "failed"
            /\ pc' = "rejectSafe" \/ Fails
         \/ mem'.status = "failed" /\ record' = record /\ Fails
         \/ mem' = mem /\ record' = record /\ Fails
  BY StatusStep DEF MarkFailed, RecordStatus
<1>2. TypeOK /\ OnePayout /\ RecordInv /\ CopyInv /\ RefundInv /\ ChargeInv /\ ProgressInv
  BY DEF Inv, ProcessorInv
<1>3. Active /\ mem.status = "pending" /\ record.status = "pending"
      /\ mode \in Mode /\ (mode # "record" => late)
  <2>1. Active /\ mem.status = "pending" /\ mode \in Mode /\ (mode # "record" => late)
    BY <1>1, <1>2 DEF Active, ProgressInv, BeforeDebit, TypeOK
  <2>2. QED
    BY <2>1, PendingIs
<1>4. CASE mem' = mem /\ record' = record /\ Fails
  BY <1>1, <1>3, <1>4, InvTable, SameTable, FailsInv
<1>5. CASE /\ mem'.status = "failed" /\ record'.status \in {"pending", "failed"}
           /\ \/ pc' = "rejectSafe"
              \/ pc' \in {"retry", "idle"} /\ (pc' = "idle" => late)
  <2>1. TypeOK' /\ TableInv' /\ IsPaidForGood' = IsPaidForGood /\ NeverPaid' = NeverPaid
    BY <1>1, <1>2, <1>5, Quiet DEF TypeOK, Pc
  <2>2. OnePayout' /\ RecordInv'
    BY <1>1, <1>2, <1>3, <1>5, <2>1 DEF OnePayout, Chain, RecordInv, Charged
  <2>3. CopyInv' /\ RefundInv'
    BY <1>1, <1>2, <1>3, <1>5, <2>1 DEF CopyInv, RefundInv, Charged, GivenUp
  <2>4. ChargeInv'
    BY <1>1, <1>2, <1>3, <1>5 DEF ChargeInv, Charged
  <2>5. ProgressInv'
    BY <1>1, <1>2, <1>5
    DEF ProgressInv, InTimeout, Queueing, NamesRoot, NamesCurrent, BeforeDebit,
        AfterDebit, Refunding
  <2>6. QED
    BY <2>1, <2>2, <2>3, <2>4, <2>5 DEF Inv, ProcessorInv
<1>6. QED
  BY <1>1, <1>3, <1>4, <1>5 DEF Fails

LEMMA MarkFinishedInv == Inv /\ MarkFinished => Inv'
<1> SUFFICES ASSUME Inv, MarkFinished PROVE Inv'
  OBVIOUS
<1>1. /\ pc = "markFinished"
      /\ UNCHANGED <<tx, paid, current, mode, authorized, late, balance, debits, relay,
                     lapses>>
      /\ faults' \in 0 .. MaxFaults
      /\ mem' \in Record /\ mem'.root = mem.root
      /\ record' \in Record /\ record'.root = record.root
      /\ \/ /\ mem'.status = "finished" /\ record'.status = "finished"
            /\ pc' = "idle" \/ Fails
         \/ mem'.status = "finished" /\ record' = record /\ Fails
         \/ mem' = mem /\ record' = record /\ Fails
  BY StatusStep DEF MarkFinished, RecordStatus
<1>2. TypeOK /\ OnePayout /\ RecordInv /\ CopyInv /\ RefundInv /\ ChargeInv /\ ProgressInv
  BY DEF Inv, ProcessorInv
<1>3. /\ Active /\ mem.status = "success" /\ "fulfilled" \in relay /\ IsPaidForGood
      /\ record.status \notin GivenUp
  BY <1>1, <1>2 DEF Active, ProgressInv, AfterDebit, RecordInv, CopyInv, GivenUp
<1>4. "rejected" \notin relay \/ "refund" \in lapses
  BY <1>2, <1>3, Apart DEF RecordInv
<1>5. CASE mem' = mem /\ record' = record /\ Fails
  BY <1>1, <1>3, <1>5, InvTable, SameTable, FailsInv
<1>6. CASE /\ mem'.status = "finished" /\ (record'.status = "finished" \/ record' = record)
           /\ pc' \in {"retry", "idle"}
  <2>1. TypeOK' /\ TableInv' /\ IsPaidForGood' = IsPaidForGood /\ NeverPaid' = NeverPaid
    BY <1>1, <1>2, <1>6, Quiet DEF TypeOK, Pc
  <2>2. OnePayout' /\ RecordInv'
    BY <1>1, <1>2, <1>3, <1>6, <2>1 DEF OnePayout, Chain, RecordInv, Charged
  <2>3. CopyInv' /\ RefundInv'
    BY <1>1, <1>2, <1>3, <1>4, <1>6, <2>1 DEF CopyInv, RefundInv, Charged, GivenUp
  <2>4. ChargeInv'
    BY <1>1, <1>2, <1>3, <1>6 DEF ChargeInv, Charged
  <2>5. ProgressInv'
    BY <1>1, <1>2, <1>6, FreshProgress DEF ProgressInv
  <2>6. QED
    BY <2>1, <2>2, <2>3, <2>4, <2>5 DEF Inv, ProcessorInv
<1>7. QED
  BY <1>1, <1>5, <1>6 DEF Fails

LEMMA MarkRejectedInv == Inv /\ MarkRejected => Inv'
<1> SUFFICES ASSUME Inv, MarkRejected PROVE Inv'
  OBVIOUS
<1>1. /\ pc = "markRejected"
      /\ UNCHANGED <<tx, paid, current, mode, authorized, late, balance, debits, relay,
                     lapses>>
      /\ faults' \in 0 .. MaxFaults
      /\ mem' \in Record /\ mem'.root = mem.root
      /\ record' \in Record /\ record'.root = record.root
      /\ \/ /\ mem'.status = "finishedRejected" /\ record'.status = "finishedRejected"
            /\ pc' = "idle" \/ Fails
         \/ mem'.status = "finishedRejected" /\ record' = record /\ Fails
         \/ mem' = mem /\ record' = record /\ Fails
  BY StatusStep DEF MarkRejected, RecordStatus
<1>2. TypeOK /\ OnePayout /\ RecordInv /\ CopyInv /\ RefundInv /\ ChargeInv /\ ProgressInv
  BY DEF Inv, ProcessorInv
<1>3. /\ Active /\ "rejected" \in relay /\ NeverPaid /\ (mode # "record" => late)
  BY <1>1, <1>2 DEF Active, ProgressInv
<1>4. record.status \notin Charged /\ debits # 1
  BY <1>2, <1>3, Apart DEF RecordInv
<1>5. CASE mem' = mem /\ record' = record /\ Fails
  BY <1>1, <1>3, <1>5, InvTable, SameTable, FailsInv
<1>6. CASE /\ mem'.status = "finishedRejected" /\ pc' \in {"retry", "idle"}
           /\ \/ record'.status = "finishedRejected"
              \/ record' = record /\ (pc' = "idle" => late)
  <2>1. TypeOK' /\ TableInv' /\ IsPaidForGood' = IsPaidForGood /\ NeverPaid' = NeverPaid
    BY <1>1, <1>2, <1>6, Quiet DEF TypeOK, Pc
  <2>2. OnePayout' /\ RecordInv'
    BY <1>1, <1>2, <1>3, <1>4, <1>6, <2>1 DEF OnePayout, Chain, RecordInv, Charged
  <2>3. CopyInv' /\ RefundInv'
    BY <1>1, <1>2, <1>3, <1>4, <1>6, <2>1 DEF CopyInv, RefundInv, Charged, GivenUp
  <2>4. ChargeInv'
    BY <1>1, <1>2, <1>3, <1>4, <1>6 DEF ChargeInv, Charged
  <2>5. ProgressInv'
    BY <1>1, <1>2, <1>6, FreshProgress DEF ProgressInv
  <2>6. QED
    BY <2>1, <2>2, <2>3, <2>4, <2>5 DEF Inv, ProcessorInv
<1>7. QED
  BY <1>1, <1>3, <1>5, <1>6 DEF Fails

\* Relay is called, and the call may have got through when the processor does not know.
LEMMA TellsInv == Inv /\ (Fulfil \/ Reject \/ Expire) => Inv'
<1> SUFFICES ASSUME Inv, Fulfil \/ Reject \/ Expire PROVE Inv'
  OBVIOUS
<1>1. /\ UNCHANGED <<tx, paid, record, mem, current, mode, authorized, late, balance,
                     debits, lapses>>
      /\ faults' \in 0 .. MaxFaults
      /\ \/ relay' = relay
         \/ pc = "fulfil" /\ relay' = relay \cup {"fulfilled"}
         \/ pc = "reject" /\ relay' = relay \cup {"rejected"}
      /\ \/ Fails
         \/ pc' = "markFinished" /\ pc = "fulfil" /\ "fulfilled" \in relay'
         \/ pc' = "markRejected" /\ pc = "reject" /\ "rejected" \in relay'
      /\ Active
  BY FaultType DEF Fulfil, Reject, CallRelay, Expire, Goto, Active
<1>2. TypeOK /\ OnePayout /\ RecordInv /\ CopyInv /\ RefundInv /\ ChargeInv /\ ProgressInv
  BY DEF Inv, ProcessorInv
<1>3. pc = "fulfil" => mem.status = "success" /\ IsPaidForGood
  BY <1>1, <1>2 DEF ProgressInv, AfterDebit, CopyInv, Charged
<1>4. pc = "reject" =>
         /\ NeverPaid
         /\ ~late => mem.status \in GivenUp
  <2> SUFFICES ASSUME pc = "reject"
               PROVE  NeverPaid /\ (~late => mem.status \in GivenUp)
    OBVIOUS
  <2>1. NeverPaid /\ (~late => mem.status \notin {"pending", "success"})
    BY <1>2 DEF ProgressInv, Refunding
  <2>2. mem.status \notin Charged
    BY <1>1, <1>2, <2>1, Apart DEF CopyInv
  <2>3. ~late => mem.status \in GivenUp
    BY <1>2, <2>1, <2>2 DEF Charged, GivenUp, TypeOK, Record, RecordStatus
  <2>4. QED
    BY <2>1, <2>3
<1>5. TableInv' /\ LifecycleTypeOK'
      /\ IsPaidForGood' = IsPaidForGood /\ NeverPaid' = NeverPaid
  BY <1>1, Quiet
<1>6. TypeOK'
  <2>1. pc' \in Pc
    BY <1>1 DEF Fails, Pc
  <2>2. relay' \subseteq {"fulfilled", "rejected"}
    BY <1>1, <1>2 DEF TypeOK
  <2>3. QED
    BY <1>1, <1>2, <1>5, <2>1, <2>2 DEF TypeOK
<1>7. OnePayout' /\ RecordInv'
  BY <1>1, <1>2, <1>3, <1>4, <1>5 DEF OnePayout, Chain, RecordInv
<1>8. CopyInv'
  BY <1>1, <1>2, <1>5 DEF CopyInv
<1>9. RefundInv'
  <2>1. pc' = "idle" => late
    BY <1>1, <1>2 DEF Fails, ProgressInv
  <2>2. pc # "idle"
    BY <1>1 DEF Active
  <2>3. QED
    BY <1>1, <1>2, <1>4, <2>1, <2>2 DEF RefundInv
<1>10. ChargeInv'
  BY <1>1, <1>2, <1>3 DEF ChargeInv, Charged
<1>11. ProgressInv'
  <2>1. CASE Fails
    BY <1>1, <1>2, <2>1, FreshProgress DEF Fails, ProgressInv
  <2>2. CASE pc' = "markFinished" /\ pc = "fulfil" /\ "fulfilled" \in relay'
    BY <1>1, <1>2, <1>3, <2>2
    DEF ProgressInv, InTimeout, Queueing, NamesRoot, NamesCurrent, BeforeDebit,
        AfterDebit, Refunding
  <2>3. CASE pc' = "markRejected" /\ pc = "reject" /\ "rejected" \in relay'
    BY <1>1, <1>2, <1>4, <1>5, <2>3
    DEF ProgressInv, InTimeout, Queueing, NamesRoot, NamesCurrent, BeforeDebit,
        AfterDebit, Refunding
  <2>4. QED
    BY <1>1, <2>1, <2>2, <2>3
<1>12. QED
  BY <1>5, <1>6, <1>7, <1>8, <1>9, <1>10, <1>11 DEF Inv, ProcessorInv

\* The balance and the status, whose transaction takes effect, fails, or leaves the copy
\* ahead.
LEMMA DebitInv == Inv /\ Debit => Inv'
<1> SUFFICES ASSUME Inv, Debit PROVE Inv'
  OBVIOUS
<1>1. /\ pc = "debit"
      /\ UNCHANGED <<tx, paid, current, mode, authorized, late, relay>>
      /\ faults' \in 0 .. MaxFaults
      /\ \/ /\ Covered /\ DebitEffect /\ mem' = [mem EXCEPT !.status = "success"]
            /\ pc' = "fulfilSafe" \/ Fails
            /\ lapses' = lapses
         \/ /\ UNCHANGED <<balance, debits, record>>
            /\ mem' = [mem EXCEPT !.status = "success"]
            /\ Fails /\ lapses' = lapses \cup {"debit"}
         \/ UNCHANGED <<balance, debits, record, mem, lapses>> /\ (Stops \/ Fails)
  BY FaultType DEF Debit, Goto
<1>2. TypeOK /\ OnePayout /\ RecordInv /\ CopyInv /\ RefundInv /\ ChargeInv /\ ProgressInv
  BY DEF Inv, ProcessorInv
<1>3. /\ Active /\ mem.status = "pending" /\ IsPaidForGood
      /\ record.status = "pending"
      /\ mem \in Record /\ record \in Record /\ mode \in Mode
      /\ balance \in 0 .. MaxBalance /\ debits \in Nat
  BY <1>1, <1>2, PendingIs DEF Active, ProgressInv, BeforeDebit, TypeOK
<1>4. ("rejected" \notin relay \/ "refund" \in lapses) /\ debits = 0
  BY <1>2, <1>3, Apart DEF RecordInv, Charged
<1>5. CASE UNCHANGED <<balance, debits, record, mem, lapses>> /\ (Stops \/ Fails)
  BY <1>1, <1>3, <1>5, InvTable, SameTable, FailsInv
<1>6. ASSUME mem' = [mem EXCEPT !.status = "success"],
             pc' = "fulfilSafe" \/ Fails,
             \/ Covered /\ DebitEffect /\ lapses' = lapses
             \/ UNCHANGED <<balance, debits, record>> /\ lapses' = lapses \cup {"debit"}
      PROVE  Inv'
  <2>1. /\ mem' \in Record /\ mem'.status = "success" /\ mem'.root = mem.root
        /\ pc' \in {"fulfilSafe", "retry", "idle"}
    BY <1>3, <1>6 DEF Record, RecordStatus, Fails
  <2>2. /\ record' \in Record /\ record'.root = record.root
        /\ \/ record'.status = "success" /\ debits' = 1 /\ lapses' = lapses
           \/ record' = record /\ debits' = 0 /\ lapses' = lapses \cup {"debit"}
    BY <1>3, <1>4, <1>6 DEF DebitEffect, Record, RecordStatus
  <2>3. balance' \in 0 .. MaxBalance /\ debits' \in Nat
    BY <1>3, <1>4, <1>6, <2>2, ProcessorAssumption DEF DebitEffect, Covered
  <2>4. TypeOK' /\ TableInv' /\ IsPaidForGood' = IsPaidForGood /\ NeverPaid' = NeverPaid
    BY <1>1, <1>2, <2>1, <2>2, <2>3, Quiet DEF TypeOK, Pc, Lapse
  <2>5. OnePayout' /\ RecordInv'
    BY <1>1, <1>2, <1>3, <1>4, <2>2, <2>4 DEF OnePayout, Chain, RecordInv, Charged
  <2>6. CopyInv' /\ RefundInv'
    BY <1>1, <1>2, <1>3, <1>4, <2>1, <2>2, <2>4
    DEF CopyInv, RefundInv, Charged, GivenUp, Active
  <2>7. ChargeInv'
    BY <1>1, <1>2, <1>3, <1>4, <2>1, <2>2 DEF ChargeInv, Charged, Active
  <2>8. ProgressInv'
    BY <1>1, <1>2, <2>1
    DEF ProgressInv, InTimeout, Queueing, NamesRoot, NamesCurrent, BeforeDebit,
        AfterDebit, Refunding
  <2>9. QED
    BY <2>4, <2>5, <2>6, <2>7, <2>8 DEF Inv, ProcessorInv
<1>7. QED
  BY <1>1, <1>5, <1>6

\* The payout and the record that names it.
LEMMA CreateInv == Inv /\ Create => Inv'
<1> SUFFICES ASSUME Inv, Create PROVE Inv'
  OBVIOUS
<1>1. /\ pc = "create"
      /\ UNCHANGED <<paid, mode, authorized, late, balance, debits, relay, lapses>>
      /\ faults' \in 0 .. MaxFaults
  BY FaultType DEF Create
<1>2. PICK n \in Network, t \in TxId :
         /\ IsNextId(tx, t)
         /\ \/ /\ tx' = [tx EXCEPT ![t] = NewTransaction(n)]
               /\ record' = [mem EXCEPT !.root = t] /\ mem' = record'
               /\ current' = [t |-> t, row |-> NewTransaction(n)]
               /\ pc' = "wait" \/ Fails
            \/ /\ UNCHANGED <<tx, record, current>> /\ mem' = [mem EXCEPT !.root = t]
               /\ Fails
            \/ UNCHANGED <<tx, record, mem, current>> /\ Fails
  BY DEF Create, RolledBack, Naming, Goto
<1>3. TypeOK /\ OnePayout /\ RecordInv /\ CopyInv /\ RefundInv /\ ChargeInv /\ ProgressInv
      /\ TableOK
  BY InvTable DEF Inv, ProcessorInv
<1>4. /\ Active /\ mem.status = "pending" /\ mem.root = NoRoot
      /\ "rejected" \notin relay \/ "refund" \in lapses
      /\ record.status = "pending" /\ record.root = NoRoot
      /\ mem \in Record /\ record \in Record /\ mode \in Mode
  BY <1>1, <1>3, PendingIs DEF Active, ProgressInv, BeforeDebit, Queueing, CopyInv, TypeOK
<1>5. \A u \in TxId : ~Exists(tx[u])
  BY <1>3, <1>4 DEF OnePayout
<1>6. "fulfilled" \notin relay /\ debits # 1
  BY <1>3, <1>4, <1>5 DEF RecordInv, IsPaidForGood, Exists, Charged
<1>7. CASE UNCHANGED <<tx, record, mem, current>> /\ Fails
  BY <1>1, <1>4, <1>7, InvTable, SameTable, FailsInv
<1>8. CASE /\ UNCHANGED <<tx, record, current>> /\ mem' = [mem EXCEPT !.root = t]
           /\ Fails
  <2>1. /\ mem' \in Record /\ mem'.status = "pending" /\ pc' \in {"retry", "idle"}
    BY <1>4, <1>8 DEF Record, Fails
  <2>2. TypeOK' /\ TableInv' /\ IsPaidForGood' = IsPaidForGood /\ NeverPaid' = NeverPaid
    BY <1>1, <1>3, <1>8, <2>1, Quiet DEF TypeOK, Pc
  <2>3. OnePayout' /\ RecordInv'
    BY <1>1, <1>3, <1>8, <2>2 DEF OnePayout, Chain, RecordInv
  <2>4. CopyInv' /\ RefundInv'
    BY <1>1, <1>4, <1>8, <2>1, <2>2 DEF CopyInv, RefundInv, Charged, GivenUp
  <2>5. ChargeInv'
    BY <1>1, <1>3, <1>8, <2>1 DEF ChargeInv, Charged
  <2>6. ProgressInv'
    BY <1>1, <1>3, <2>1, FreshProgress DEF ProgressInv
  <2>7. QED
    BY <2>2, <2>3, <2>4, <2>5, <2>6 DEF Inv, ProcessorInv
<1>9. CASE /\ tx' = [tx EXCEPT ![t] = NewTransaction(n)]
           /\ record' = [mem EXCEPT !.root = t] /\ mem' = record'
           /\ current' = [t |-> t, row |-> NewTransaction(n)]
           /\ pc' = "wait" \/ Fails
  <2>1. /\ tx'[t] = NewTransaction(n) /\ tx' \in [TxId -> Row]
        /\ \A u \in TxId : u # t => tx'[u] = tx[u]
    BY <1>3, <1>9, NewRowType DEF TableOK, LifecycleTypeOK
  <2>2. t # NoRoot
    BY DEF TxId, NoRoot
  <2>3. /\ record' \in Record /\ record'.status = "pending" /\ record'.root = t
        /\ mem' = record' /\ pc' \in {"wait", "retry", "idle"}
        /\ current' \in [t : TxId \cup {NoRoot}, row : Row] /\ current'.t = t
    BY <1>4, <1>9, NewRowType DEF Record, Fails
  <2>4. TableInv'
    <3> SUFFICES ASSUME NEW u \in TxId PROVE RowFits(tx'[u], u \in paid)
      BY <1>1 DEF TableInv
    <3>1. RowFits(tx[u], u \in paid)
      BY <1>3 DEF TableOK, TableInv
    <3>2. CASE u # t
      BY <2>1, <3>1, <3>2
    <3>3. CASE u = t
      <4>1. u \notin paid
        BY <1>5, <3>1 DEF RowFits, Exists
      <4>2. QED
        BY <2>1, <3>3, <4>1, NewRowType DEF RowFits
    <3>4. QED
      BY <3>2, <3>3
  <2>5. TypeOK'
    BY <1>1, <1>3, <2>1, <2>3 DEF TypeOK, LifecycleTypeOK, Pc
  <2>6. OnePayout'
    BY <1>5, <2>1, <2>2, <2>3 DEF OnePayout, Chain
  <2>7. RecordInv'
    <3>1. Exists(tx'[t]) /\ tx'[t].root = NoRoot
      BY <2>1, NewRowType DEF Exists
    <3>2. QED
      BY <1>1, <1>3, <1>4, <1>6, <2>3, <3>1 DEF RecordInv, Charged
  <2>8. CopyInv' /\ RefundInv'
    BY <1>1, <1>4, <2>3 DEF CopyInv, RefundInv, Charged, GivenUp
  <2>9. ChargeInv'
    BY <1>1, <1>6, <2>3 DEF ChargeInv, Charged
  <2>10. ProgressInv'
    BY <1>1, <1>3, <1>4, <2>2, <2>3
    DEF ProgressInv, InTimeout, Queueing, NamesRoot, NamesCurrent, BeforeDebit,
        AfterDebit, Refunding
  <2>11. QED
    BY <2>4, <2>5, <2>6, <2>7, <2>8, <2>9, <2>10 DEF Inv, ProcessorInv
<1>10. QED
  BY <1>2, <1>7, <1>8, <1>9

LEMMA StepInv == Inv /\ [Next]_vars => Inv'
<1> SUFFICES ASSUME Inv, [Next]_vars PROVE Inv'
  OBVIOUS
<1>1. CASE Process
  BY <1>1, LoadInv, RetryInv, ReadCommittedInv, AuthorizeInv, AttemptInv, CancelInv,
     CreateInv, DebitSafeInv, DebitInv, MarkFailedInv, CheckFulfilInv, TellsInv,
     MarkFinishedInv, CheckRejectInv, MarkRejectedInv, TimeoutInv, TimeoutCurrentInv,
     TimeoutCancelInv, TimeoutSyncInv
  DEF Process
<1>2. CASE Expire
  BY <1>2, TellsInv
<1>3. CASE Environment
  BY <1>3, ClockInv, RestartInv DEF Environment
<1>4. CASE ManagerMoves /\ UNCHANGED processorVars
  BY <1>4, ManagerInv
<1>5. CASE UNCHANGED vars
  BY <1>5, ManagerInv DEF vars
<1>6. QED
  BY <1>1, <1>2, <1>3, <1>4, <1>5 DEF Next

-----------------------------------------------------------------------------
(* The initial states. *)

\* The first rows of an older release.
LEMMA LegacyRows ==
  ASSUME NEW n \in Network, NEW t \in TxId
  PROVE  /\ LegacyTable(n)[t] \in Row /\ RowFits(LegacyTable(n)[t], FALSE)
         /\ t = 1 => Exists(LegacyTable(n)[t]) /\ LegacyTable(n)[t].root = NoRoot
         /\ t = 2 => LegacyTable(n)[t].root = 1 /\ LegacyTable(n)[t].status = "pending"
         /\ t \notin {1, 2} => ~Exists(LegacyTable(n)[t])
<1>1. 1 \in TxId
  BY TableAssumption DEF TxId
<1> DEFINE r == NewTransaction(n)
           s == LegacyTable(n)[t]
<1>2. /\ r \in Row /\ r.status = "pending" /\ r.payload = NoPayload
      /\ r.hasBlock = FALSE /\ r.root = NoRoot
  BY NewRowType
<1>3. CASE t = 1
  <2>1. s = [r EXCEPT !.status = "failed", !.payload = 0, !.message = "timedOut"]
    BY <1>3 DEF LegacyTable
  <2> HIDE DEF r, s
  <2>2. /\ s \in Row /\ s.status = "failed" /\ s.payload = 0
        /\ s.root = r.root /\ s.hasBlock = r.hasBlock
    BY <1>2, <2>1 DEF Row, Status, Message
  <2>3. s \in Row /\ RowFits(s, FALSE) /\ Exists(s) /\ s.root = NoRoot
    BY <1>2, <2>2 DEF RowFits, Exists
  <2>4. LegacyTable(n)[t] = s
    BY DEF s
  <2>5. t # 2 /\ t \in {1, 2}
    BY <1>3
  <2>6. QED
    BY <2>3, <2>4, <2>5
<1>4. CASE t = 2
  <2>1. s = [r EXCEPT !.root = 1, !.retryCount = 1]
    BY <1>4 DEF LegacyTable
  <2> HIDE DEF r, s
  <2>2. /\ s \in Row /\ s.root = 1 /\ s.status = r.status
        /\ s.payload = r.payload /\ s.hasBlock = r.hasBlock
    BY <1>1, <1>2, <2>1 DEF Row
  <2>3. s \in Row /\ RowFits(s, FALSE) /\ s.root = 1 /\ s.status = "pending"
    BY <1>2, <2>2 DEF RowFits
  <2>4. LegacyTable(n)[t] = s
    BY DEF s
  <2>5. t # 1 /\ t \in {1, 2}
    BY <1>4
  <2>6. QED
    BY <2>3, <2>4, <2>5
<1>5. CASE t \notin {1, 2}
  <2>1. LegacyTable(n)[t] = AbsentRow
    BY <1>5 DEF LegacyTable
  <2>2. QED
    BY <1>5, <2>1, AbsentRowType DEF RowFits, Exists
<1>6. QED
  BY <1>3, <1>4, <1>5

\* The first attempt, or none, and perhaps its retry.
LEMMA InitTable ==
  ASSUME Init
  PROVE  /\ tx \in [TxId -> Row]
         /\ \A t \in TxId : RowFits(tx[t], FALSE)
         /\ record.root \in TxId \cup {NoRoot}
         /\ record.root # NoRoot => Exists(tx[record.root]) /\ tx[record.root].root = NoRoot
         /\ \A t \in TxId : Exists(tx[t]) =>
               record.root # NoRoot /\ (t = record.root \/ tx[t].root = record.root)
<1>1. 1 \in TxId /\ NoRoot # 1
  BY TableAssumption DEF TxId, NoRoot
<1>2. CASE NewHistory
  BY <1>2, AbsentRowType DEF NewHistory, RowFits, Exists
<1>3. CASE AttachedHistory
  <2>1. PICK n \in Network :
           tx = [t \in TxId |-> IF t = 1 THEN NewTransaction(n) ELSE AbsentRow]
    BY <1>3 DEF AttachedHistory
  <2>2. record.root = 1
    BY <1>3 DEF AttachedHistory
  <2>3. NewTransaction(n) \in Row /\ Exists(NewTransaction(n))
        /\ RowFits(NewTransaction(n), FALSE) /\ NewTransaction(n).root = NoRoot
    BY NewRowType DEF RowFits, Exists
  <2>4. AbsentRow \in Row /\ ~Exists(AbsentRow) /\ RowFits(AbsentRow, FALSE)
    BY AbsentRowType DEF RowFits, Exists
  <2>5. QED
    BY <1>1, <2>1, <2>2, <2>3, <2>4
<1>4. CASE LegacyHistory
  <2>1. PICK n \in Network : tx = LegacyTable(n)
    BY <1>4 DEF LegacyHistory
  <2>2. record.root = 1
    BY <1>4 DEF LegacyHistory
  <2>3. tx = [t \in TxId |-> tx[t]]
    BY <2>1 DEF LegacyTable
  <2>4. QED
    BY <1>1, <2>1, <2>2, <2>3, LegacyRows
<1>5. CASE LegacySentHistory
  <2>1. PICK n \in Network :
           tx = [LegacyTable(n) EXCEPT
                    ![2] = MarkedSentRow(PreparedRow(ClaimedRow(LegacyTable(n)[2]), 1))]
    BY <1>5 DEF LegacySentHistory
  <2>2. record.root = 1
    BY <1>5 DEF LegacySentHistory
  <2> DEFINE s == MarkedSentRow(PreparedRow(ClaimedRow(LegacyTable(n)[2]), 1))
  <2>3. /\ tx = [t \in TxId |-> tx[t]]
        /\ \A t \in TxId : tx[t] = (IF t = 2 THEN s ELSE LegacyTable(n)[t])
    BY <2>1 DEF LegacyTable
  <2>4. ASSUME 2 \in TxId
        PROVE  s \in Row /\ s.root = 1 /\ RowFits(s, FALSE)
    <3>1. /\ LegacyTable(n)[2] \in Row /\ LegacyTable(n)[2].root = 1
          /\ RowFits(LegacyTable(n)[2], FALSE) /\ LegacyTable(n)[2].status = "pending"
      BY <2>4, LegacyRows
    <3>2. /\ PreparedRow(ClaimedRow(LegacyTable(n)[2]), 1) \in Row
          /\ PreparedRow(ClaimedRow(LegacyTable(n)[2]), 1).status = "broadcasting"
          /\ PreparedRow(ClaimedRow(LegacyTable(n)[2]), 1).payload = 1
          /\ PreparedRow(ClaimedRow(LegacyTable(n)[2]), 1).root = 1
          /\ PreparedRow(ClaimedRow(LegacyTable(n)[2]), 1).hasBlock
                = LegacyTable(n)[2].hasBlock
      BY <3>1 DEF PreparedRow, ClaimedRow, Row, Status
    <3>3. /\ s \in Row /\ s.status = "sent" /\ s.payload = 1 /\ s.root = 1
          /\ s.hasBlock = LegacyTable(n)[2].hasBlock
      BY <3>2 DEF MarkedSentRow, Row, Status, NoPayload
    <3> HIDE DEF s
    <3>4. QED
      BY <3>1, <3>3 DEF RowFits, NoPayload
  <2> HIDE DEF s
  <2>5. \A t \in TxId : LegacyTable(n)[t] \in Row /\ RowFits(LegacyTable(n)[t], FALSE)
    BY LegacyRows
  <2>6. \A t \in TxId : tx[t] \in Row /\ RowFits(tx[t], FALSE)
    BY <2>3, <2>4, <2>5
  <2>7. tx \in [TxId -> Row]
    BY <2>3, <2>6
  <2>8. Exists(tx[1]) /\ tx[1].root = NoRoot
    <3>1. tx[1] = LegacyTable(n)[1]
      BY <1>1, <2>3
    <3>2. Exists(LegacyTable(n)[1]) /\ LegacyTable(n)[1].root = NoRoot
      BY <1>1, LegacyRows
    <3>3. QED
      BY <3>1, <3>2
  <2>9. ASSUME NEW t \in TxId, Exists(tx[t]) PROVE t = 1 \/ tx[t].root = 1
    BY <2>3, <2>4, <2>9, LegacyRows
  <2>10. QED
    BY <1>1, <2>2, <2>6, <2>7, <2>8, <2>9
<1>6. QED
  BY <1>2, <1>3, <1>4, <1>5 DEF Init

LEMMA InitInv == Init => Inv
<1> SUFFICES ASSUME Init PROVE Inv
  OBVIOUS
<1>1. /\ paid = {} /\ mem = [status |-> "pending", root |-> NoRoot] /\ current = Nil
      /\ pc = "idle" /\ mode = "record" /\ authorized \in BOOLEAN /\ late = FALSE
      /\ balance \in 0 .. MaxBalance /\ debits = 0 /\ relay = {} /\ faults = 0
      /\ lapses = {}
      /\ record \in [status : {"pending"}, root : {NoRoot, 1}]
  BY ProcessorAssumption DEF Init
<1>2. TypeOK
  <2>1. /\ mem \in Record /\ record.status = "pending"
        /\ record = [status |-> "pending", root |-> record.root]
    BY <1>1 DEF Record, RecordStatus
  <2>2. record \in Record
    BY <2>1, InitTable DEF Record, RecordStatus
  <2>3. current \in [t : TxId \cup {NoRoot}, row : Row]
    BY <1>1, AbsentRowType DEF Nil
  <2>4. pc \in Pc /\ mode \in Mode /\ late \in BOOLEAN
    BY <1>1 DEF Pc, Mode
  <2>5. faults \in 0 .. MaxFaults /\ debits \in Nat /\ relay \subseteq {"fulfilled", "rejected"}
    BY <1>1, ProcessorAssumption
  <2>6. LifecycleTypeOK
    BY <1>1, InitTable DEF LifecycleTypeOK
  <2>7. QED
    BY <1>1, <2>1, <2>2, <2>3, <2>4, <2>5, <2>6 DEF TypeOK
<1>3. TableInv /\ OnePayout
  <2>1. TableInv
    <3> SUFFICES ASSUME NEW t \in TxId PROVE RowFits(tx[t], t \in paid)
      BY DEF TableInv
    <3>1. t \notin paid /\ RowFits(tx[t], FALSE)
      BY <1>1, InitTable
    <3>2. QED
      BY <3>1 DEF RowFits
  <2>2. OnePayout
    BY InitTable DEF OnePayout, Chain
  <2>3. QED
    BY <2>1, <2>2
<1>4. RecordInv
  BY <1>1, InitTable DEF RecordInv, Charged
<1>5. CopyInv /\ RefundInv /\ ChargeInv
  BY <1>1 DEF CopyInv, RefundInv, ChargeInv, Active, Charged
<1>6. ProgressInv
  BY <1>1 DEF ProgressInv, InTimeout, Queueing, NamesRoot, NamesCurrent, BeforeDebit,
              AfterDebit, Refunding
<1>7. QED
  BY <1>2, <1>3, <1>4, <1>5, <1>6 DEF Inv, ProcessorInv

-----------------------------------------------------------------------------
(* The theorems. *)

LEMMA InvHolds == Spec => []Inv
<1>1. Init => Inv
  BY InitInv
<1>2. Inv /\ [Next]_vars => Inv'
  BY StepInv
<1>3. QED
  BY <1>1, <1>2, PTL DEF Spec

\* The record, its copy, the table and the processor's progress keep their types.
THEOREM TypeCorrect == Spec => []TypeOK
<1>1. Inv => TypeOK
  BY DEF Inv, ProcessorInv
<1>2. QED
  BY <1>1, InvHolds, PTL

\* What the processor knows at each statement of processWithdrawalRecord and of
\* handleTimeoutWithdrawalRequest, and how far its copy may be off.
THEOREM ProcessorInvariant == Spec => []ProcessorInv
<1>1. Inv => ProcessorInv
  BY DEF Inv
<1>2. QED
  BY <1>1, InvHolds, PTL

\* Queueing the payout and naming it in the record are one transaction, so no payout is
THEOREM PayoutHasItsRecord == Spec => []OnePayout
<1>1. Inv => OnePayout
  BY DEF Inv
<1>2. QED
  BY <1>1, InvHolds, PTL

\* rejectWithdrawalRequestSafely: whatever fails and whoever comes first, a refund and a
\* payout exclude each other, except after a crash between the refund of a withdrawal that
\* the copy alone knew to be given up and the statement that records it.
THEOREM RefundExcludesPayout == Spec => []RefundIsSafe
<1>1. Inv => RefundIsSafe
  <2> SUFFICES ASSUME Inv,
                      \/ "rejected" \in relay /\ "refund" \notin lapses
                      \/ record.status = "finishedRejected"
               PROVE  /\ "fulfilled" \notin relay
                      /\ \A t \in TxId :
                            Exists(tx[t]) => IsProvenTerminalFailure(tx[t]) /\ t \notin paid
    BY DEF RefundIsSafe
  <2>1. NeverPaid /\ RecordInv
    BY DEF Inv, ProcessorInv, RecordInv
  <2>2. ~IsPaidForGood /\ \A t \in TxId : Exists(tx[t]) => t \notin paid
    BY <2>1, InvTable, NeverPaidIs
  <2>3. QED
    BY <2>1, <2>2 DEF RecordInv, NeverPaid
<1>2. QED
  BY <1>1, InvHolds, PTL

\* ensureWithdrawalFulfillSafe: Relay hears of a payout after exactly one was executed
\* that no reorganisation takes back.
THEOREM FulfilmentFollowsPayout == Spec => []FulfilmentIsPaid
<1>1. Inv => FulfilmentIsPaid
  <2> SUFFICES ASSUME Inv, "fulfilled" \in relay
               PROVE  Cardinality(paid) = 1 /\ \A t \in paid : tx[t].status = "confirmed"
    BY DEF FulfilmentIsPaid
  <2>1. IsPaidForGood
    BY DEF Inv, ProcessorInv, RecordInv
  <2>2. PICK t \in TxId : paid = {t} /\ tx[t].status = "confirmed"
    BY <2>1, InvTable, PaidForGoodIs
  <2>3. Cardinality(paid) = 1
    BY <2>2, FS_Singleton
  <2>4. QED
    BY <2>2, <2>3
<1>2. QED
  BY <1>1, InvHolds, PTL

\* No fault, not even a statement or a commit that fails, makes the processor debit twice.
THEOREM NeverDebitedTwice == Spec => [](debits <= 1)
<1>1. Inv => debits <= 1
  BY DEF Inv, ProcessorInv, RecordInv
<1>2. QED
  BY <1>1, InvHolds, PTL

\* The requester is debited at most once and the record says so; until a debit has been
\* rolled back under a copy that says success, a status past it and a report to Relay are
\* never without the debit.
THEOREM DebitMatchesRecord == Spec => []DebitedOnce
<1>1. Inv => DebitedOnce
  BY DEF Inv, ProcessorInv, RecordInv, ChargeInv, DebitedOnce, Charged
<1>2. QED
  BY <1>1, InvHolds, PTL

-----------------------------------------------------------------------------
(* The promise to the requester (WithdrawalPayout).                         *)

Promise == [Payout!Next]_(Payout!vars)

\* The wallet has lost track of nothing.
NoLapse == lapses = {}

\* What the payout is.
PayoutFacts ==
    /\ "rejected" \in relay <=> PayoutState = "void"
    /\ IsPaidForGood <=> PayoutState = "paid"
    /\ IsPaidForGood => paid # {}
    /\ NeverPaid /\ "rejected" \notin relay => PayoutState = "open"
    /\ PayoutState \in {"void", "paid", "open", "executed"}
    /\ PayoutState = "open" => paid = {}

LEMMA PayoutIs == Inv /\ NoLapse => PayoutFacts
<1> SUFFICES ASSUME Inv, NoLapse PROVE PayoutFacts
  OBVIOUS
<1>1. "rejected" \in relay => ~IsPaidForGood
  BY Apart DEF Inv, ProcessorInv, RecordInv, NoLapse
<1>2. NeverPaid => paid = {} /\ ~IsPaidForGood
  BY InvTable, NeverPaidIs
<1>3. IsPaidForGood => paid # {}
  BY InvTable, PaidForGoodIs
<1>4. QED
  BY <1>1, <1>2, <1>3 DEF PayoutFacts, PayoutState

LEMMA PayoutWillBe == Inv' /\ NoLapse' => PayoutFacts'
  BY PayoutIs, PTL

\* Nothing a requester could notice.
LEMMA Unnoticed ==
  ASSUME UNCHANGED <<record, debits, relay, tx, paid>>
  PROVE  Promise
<1>1. PayoutState' = PayoutState
  BY DEF PayoutState, IsPaidForGood
<1>2. QED
  BY <1>1 DEF Promise, Payout!vars

\* A step of the table alone: blocks move it between open and executed, a confirmation
\* makes it final.
LEMMA TableMovesPayout ==
  ASSUME Inv, Inv', NoLapse, NoLapse', Follows(tx, tx'), UNCHANGED <<record, debits,
                                                                     relay, lapses>>,
         paid' = paid \/ tx' = tx
  PROVE  Promise
<1>1. IsPaidForGood => IsPaidForGood'
  BY PaidForGoodStays
<1>2. /\ "rejected" \in relay <=> PayoutState = "void"
      /\ IsPaidForGood <=> PayoutState = "paid"
      /\ PayoutState \in {"void", "paid", "open", "executed"}
      /\ PayoutState = "open" => paid = {}
  BY PayoutIs DEF PayoutFacts
<1>3. /\ "rejected" \in relay <=> PayoutState' = "void"
      /\ IsPaidForGood' <=> PayoutState' = "paid"
      /\ IsPaidForGood' => paid' # {}
      /\ PayoutState' \in {"void", "paid", "open", "executed"}
  BY PayoutWillBe DEF PayoutFacts
<1>4. CASE PayoutState \in {"void", "paid"}
  <2>1. PayoutState' = PayoutState
    BY <1>1, <1>2, <1>3, <1>4
  <2>2. QED
    BY <2>1 DEF Promise, Payout!vars
<1>5. CASE PayoutState' = "paid" /\ PayoutState \in {"open", "executed"}
  <2>1. IsPaidForGood' /\ ~IsPaidForGood
    BY <1>2, <1>3, <1>5
  <2>2. paid' = paid
    BY <2>1 DEF IsPaidForGood
  <2>3. PayoutState = "executed"
    BY <1>2, <1>3, <1>5, <2>1, <2>2
  <2>4. QED
    BY <1>5, <2>3 DEF Promise, Payout!Next, Payout!Settle, Payout!vars
<1>6. CASE PayoutState' \in {"open", "executed"} /\ PayoutState \in {"open", "executed"}
  BY <1>6 DEF Promise, Payout!Next, Payout!Execute, Payout!vars
<1>7. QED
  BY <1>2, <1>3, <1>4, <1>5, <1>6

\* A step that leaves the table alone, and what Relay has been told of a refund.
LEMMA PayoutStays ==
  ASSUME UNCHANGED <<tx, paid>>, "rejected" \in relay' <=> "rejected" \in relay
  PROVE  PayoutState' = PayoutState
  BY DEF PayoutState, IsPaidForGood

LEMMA ManagerPromise ==
  ASSUME Inv, Inv', NoLapse, NoLapse', ManagerMoves, UNCHANGED processorVars
  PROVE  Promise
<1>1. Follows(tx, tx')
  BY InvTable, ManagerFollows
<1>2. paid' = paid \/ tx' = tx
  BY DEF ManagerMoves, Claim, Release, Prepare, Acknowledge, Confirm, Fail, Delay, Repair,
         ChainMoves
<1>3. UNCHANGED <<record, debits, relay, lapses>>
  BY DEF processorVars
<1>4. QED
  BY <1>1, <1>2, <1>3, TableMovesPayout

LEMMA CancelPromise ==
  ASSUME Inv, Inv', NoLapse, NoLapse',
         \/ UnauthorizedRequest \/ UnauthorizedCancel
         \/ TimeoutRequest \/ TimeoutCancel
  PROVE  Promise
<1>1. /\ pc \in {"unauthorizedRequest", "unauthorizedCancel", "timeoutRequest",
                 "timeoutCancel"}
      /\ UNCHANGED <<paid, record, debits, relay, lapses>>
      /\ \/ tx' = tx
         \/ tx' = [tx EXCEPT ![current.t] = CancellationRequestedRow(tx[current.t])]
         \/ tx' = [tx EXCEPT ![current.t] = CancelledRow(tx[current.t])]
  BY DEF UnauthorizedRequest, UnauthorizedCancel, TimeoutRequest, TimeoutCancel, Request,
         CancelCurrent
<1>2. TableOK /\ current.t \in TxId
  BY <1>1, InvTable DEF Inv, ProcessorInv, TypeOK, ProgressInv, NamesCurrent
<1>3. /\ tx[current.t] \in Row /\ RowFits(tx[current.t], current.t \in paid)
      /\ (current.t \in paid) \in BOOLEAN
  BY <1>2 DEF TableOK, LifecycleTypeOK, TableInv
<1>4. Follows(tx, tx')
  <2>1. CASE tx' = tx
    BY <1>1, <1>2, <2>1, SameTable
  <2>2. CASE tx' = [tx EXCEPT ![current.t] = CancellationRequestedRow(tx[current.t])]
    BY <1>1, <1>2, <1>3, <2>2, ConditionalUpdates, RowUpdated
  <2>3. CASE tx' = [tx EXCEPT ![current.t] = CancelledRow(tx[current.t])]
    BY <1>1, <1>2, <1>3, <2>3, ConditionalUpdates, RowUpdated
  <2>4. QED
    BY <1>1, <2>1, <2>2, <2>3
<1>5. QED
  BY <1>1, <1>4, TableMovesPayout

\* The only row is the one that has just been queued, or none.
LEMMA CreatePromise ==
  ASSUME Inv, Inv', NoLapse, NoLapse', Create
  PROVE  Promise
<1>1. pc = "create" /\ UNCHANGED <<paid, debits, relay, lapses>>
  BY DEF Create
<1>2. PICK n \in Network, t \in TxId :
         /\ IsNextId(tx, t)
         /\ \/ /\ tx' = [tx EXCEPT ![t] = NewTransaction(n)]
               /\ record' = [mem EXCEPT !.root = t]
            \/ UNCHANGED <<tx, record>>
  BY DEF Create, RolledBack
<1>3. /\ TypeOK /\ OnePayout /\ RecordInv /\ CopyInv /\ ProgressInv /\ TableOK
  BY InvTable DEF Inv, ProcessorInv
<1>4. /\ mem.status = "pending" /\ mem.root = NoRoot /\ "rejected" \notin relay
      /\ record.status = "pending" /\ record.root = NoRoot
      /\ mem \in Record /\ relay \subseteq {"fulfilled", "rejected"}
  BY <1>1, <1>3, PendingIs
  DEF Active, ProgressInv, BeforeDebit, Queueing, CopyInv, TypeOK, NoLapse
<1>5. \A u \in TxId : ~Exists(tx[u])
  BY <1>3, <1>4 DEF OnePayout
<1>6. NeverPaid /\ ~IsPaidForGood
  BY <1>5 DEF NeverPaid, IsPaidForGood, Exists
<1>7. relay = {}
  BY <1>3, <1>4, <1>6 DEF RecordInv
<1>8. PayoutState = "open" /\ paid = {}
  BY <1>4, <1>6, PayoutIs DEF PayoutFacts
<1>9. CASE UNCHANGED <<tx, record>>
  BY <1>1, <1>9, Unnoticed
<1>10. CASE tx' = [tx EXCEPT ![t] = NewTransaction(n)] /\ record' = [mem EXCEPT !.root = t]
  <2>1. /\ tx'[t].status = "pending"
        /\ \A u \in TxId : u # t => tx'[u] = tx[u]
    BY <1>3, <1>10, NewRowType DEF TableOK, LifecycleTypeOK
  <2>2. ~IsPaidForGood'
    <3>1. \A u \in TxId : tx'[u].status # "confirmed"
      BY <1>5, <2>1 DEF Exists
    <3>2. QED
      BY <3>1 DEF IsPaidForGood
  <2>3. PayoutState' = "open"
    BY <1>1, <1>7, <1>8, <2>2 DEF PayoutState
  <2>4. record'.status = "pending"
    BY <1>4, <1>10 DEF Record
  <2>5. QED
    BY <1>1, <1>4, <1>8, <2>3, <2>4 DEF Promise, Payout!vars
<1>11. QED
  BY <1>2, <1>9, <1>10

\* The charge follows the payout.
LEMMA DebitPromise ==
  ASSUME Inv, Inv', NoLapse, NoLapse', Debit
  PROVE  Promise
<1>1. /\ pc = "debit" /\ UNCHANGED <<tx, paid, relay>>
      /\ DebitEffect \/ UNCHANGED <<debits, record>>
  BY DEF Debit
<1>2. TypeOK /\ RecordInv /\ CopyInv /\ ProgressInv
  BY DEF Inv, ProcessorInv
<1>3. /\ IsPaidForGood /\ record.status = "pending" /\ record \in Record
  BY <1>1, <1>2, PendingIs DEF Active, ProgressInv, BeforeDebit, TypeOK
<1>4. debits = 0
  BY <1>2, <1>3 DEF RecordInv, Charged, TypeOK
<1>5. PayoutState = "paid" /\ PayoutState' = PayoutState
  BY <1>1, <1>3, PayoutIs, PayoutStays DEF PayoutFacts
<1>6. CASE UNCHANGED <<debits, record>>
  BY <1>1, <1>6, Unnoticed
<1>7. CASE DebitEffect
  <2>1. record'.status = "success" /\ debits' > 0
    BY <1>3, <1>4, <1>7 DEF DebitEffect, Record
  <2>2. (debits' > 0) = TRUE
    BY <2>1
  <2>3. QED
    BY <1>1, <1>3, <1>5, <2>1, <2>2 DEF Promise, Payout!Next, Payout!Debit
<1>8. QED
  BY <1>1, <1>6, <1>7

\* A status that is written.
LEMMA MarkPromise ==
  ASSUME Inv, Inv', NoLapse, NoLapse', MarkFailed \/ MarkRejected
  PROVE  Promise
<1>1. /\ UNCHANGED <<tx, paid, relay, debits>>
      /\ \/ pc = "markFailed" /\ record' = [record EXCEPT !.status = "failed"]
         \/ pc = "markRejected" /\ record' = [record EXCEPT !.status = "finishedRejected"]
         \/ record' = record
  BY DEF MarkFailed, MarkRejected, UpdateStatus
<1>2. TypeOK /\ RecordInv /\ CopyInv /\ ProgressInv
  BY DEF Inv, ProcessorInv
<1>3. record \in Record /\ PayoutState' = PayoutState
  BY <1>1, <1>2, PayoutStays DEF TypeOK
<1>4. CASE record' = record
  BY <1>1, <1>4, Unnoticed
<1>5. CASE pc = "markFailed" /\ record' = [record EXCEPT !.status = "failed"]
  <2>1. record'.status = "failed" /\ record.status = "pending"
    BY <1>2, <1>3, <1>5, PendingIs DEF Active, ProgressInv, BeforeDebit, Record
  <2>2. QED
    BY <1>1, <1>3, <2>1 DEF Promise, Payout!Next, Payout!GiveUp, Payout!vars
<1>6. CASE pc = "markRejected" /\ record' = [record EXCEPT !.status = "finishedRejected"]
  <2>1. record'.status = "finishedRejected" /\ "rejected" \in relay
    BY <1>2, <1>3, <1>6 DEF ProgressInv, Record
  <2>2. record.status \in {"pending", "failed", "finishedRejected"}
    BY <1>2, <1>3, <2>1, Apart DEF RecordInv, Charged, Record, RecordStatus, NoLapse
  <2>3. QED
    BY <1>1, <1>3, <2>1, <2>2 DEF Promise, Payout!Next, Payout!FinishRejected, Payout!vars
<1>7. QED
  BY <1>1, <1>4, <1>5, <1>6

LEMMA FinishPromise ==
  ASSUME Inv, Inv', NoLapse, NoLapse', MarkFinished
  PROVE  Promise
<1>1. /\ UNCHANGED <<tx, paid, relay, debits>> /\ pc = "markFinished"
      /\ record' = [record EXCEPT !.status = "finished"] \/ record' = record
  BY DEF MarkFinished, UpdateStatus
<1>2. /\ record \in Record /\ record.status \in Charged /\ "fulfilled" \in relay
  BY <1>1 DEF Inv, ProcessorInv, ChargeInv, Active, ProgressInv, AfterDebit, Charged, TypeOK,
              NoLapse
<1>3. PayoutState' = PayoutState
  BY <1>1, PayoutStays
<1>4. CASE record' = record
  BY <1>1, <1>4, Unnoticed
<1>5. CASE record' = [record EXCEPT !.status = "finished"]
  <2>1. record'.status = "finished"
    BY <1>2, <1>5 DEF Record
  <2>2. QED
    BY <1>1, <1>2, <1>3, <2>1 DEF Charged, Promise, Payout!Next, Payout!Finish, Payout!vars
<1>6. QED
  BY <1>1, <1>4, <1>5

\* What Relay is told, with or without an answer that arrives.
LEMMA TellPromise ==
  ASSUME Inv, Inv', NoLapse, NoLapse', Fulfil \/ Reject \/ Expire
  PROVE  Promise
<1>1. /\ UNCHANGED <<tx, paid, record, debits>>
      /\ \/ relay' = relay
         \/ pc = "fulfil" /\ relay' = relay \cup {"fulfilled"}
         \/ pc = "reject" /\ relay' = relay \cup {"rejected"}
  BY DEF Fulfil, Reject, CallRelay, Expire
<1>2. /\ record \in Record /\ RecordInv /\ ProgressInv
      /\ Active /\ mem.status \in Charged => record.status \in Charged
  BY DEF Inv, ProcessorInv, ChargeInv, TypeOK, NoLapse
<1>3. CASE relay' = relay
  BY <1>1, <1>3, Unnoticed
<1>4. CASE pc = "fulfil" /\ relay' = relay \cup {"fulfilled"}
  <2>1. record.status \in Charged
    BY <1>2, <1>4 DEF Active, ProgressInv, AfterDebit, Charged
  <2>2. PayoutState' = PayoutState
    BY <1>1, <1>4, PayoutStays
  <2>3. CASE record.status = "success"
    BY <1>1, <1>4, <2>2, <2>3 DEF Promise, Payout!Next, Payout!TellFulfilled, Payout!vars
  <2>4. CASE record.status = "finished"
    <3>1. relay' = relay
      BY <1>2, <1>4, <2>4 DEF RecordInv
    <3>2. QED
      BY <1>3, <3>1
  <2>5. QED
    BY <2>1, <2>3, <2>4 DEF Charged
<1>5. CASE pc = "reject" /\ relay' = relay \cup {"rejected"}
  <2>1. NeverPaid
    BY <1>2, <1>5 DEF ProgressInv
  <2>2. CASE "rejected" \in relay
    <3>1. relay' = relay
      BY <1>5, <2>2
    <3>2. QED
      BY <1>3, <3>1
  <2>3. CASE "rejected" \notin relay
    <3>1. PayoutState = "open" /\ PayoutState' = "void"
      BY <1>5, <2>1, <2>3, PayoutIs, PayoutWillBe DEF PayoutFacts
    <3>2. record.status \in {"pending", "failed"}
      BY <1>2, <2>1, <2>3, Apart DEF RecordInv, Charged, Record, RecordStatus
    <3>3. QED
      BY <1>1, <1>5, <3>1, <3>2 DEF Promise, Payout!Next, Payout!TellRejected, Payout!vars
  <2>4. QED
    BY <2>2, <2>3
<1>6. QED
  BY <1>1, <1>3, <1>4, <1>5

LEMMA StepPromise ==
  ASSUME Inv, Inv', NoLapse, NoLapse', [Next]_vars
  PROVE  Promise
<1>1. CASE \/ Load \/ Retry \/ ReadCommitted \/ Reauthorize \/ Unauthorized \/ Authorize
           \/ Gate \/ FetchCurrent \/ Wait \/ DebitSafe \/ CheckFulfil \/ CheckReject
           \/ Timeout \/ TimeoutCurrent \/ TimeoutSync
  <2>1. UNCHANGED <<record, debits, relay, tx, paid>>
    BY <1>1
    DEF Load, Retry, ReadCommitted, Reauthorize, Unauthorized, Authorize, Gate,
        FetchCurrent, Wait, DebitSafe, CheckFulfil, CheckReject, Timeout, TimeoutCurrent,
        TimeoutSync, Read
  <2>2. QED
    BY <2>1, Unnoticed
<1>2. CASE Environment
  <2>1. UNCHANGED <<record, debits, relay, tx, paid>>
    BY <1>2 DEF Environment, DeadlinePasses, Crash, Restart, Restarted, BalanceMoves
  <2>2. QED
    BY <2>1, Unnoticed
<1>3. CASE UNCHANGED vars
  BY <1>3, Unnoticed DEF vars, lifecycleVars, processorVars
<1>4. CASE Process
  BY <1>1, <1>4, CancelPromise, CreatePromise, DebitPromise, MarkPromise, FinishPromise,
     TellPromise
  DEF Process
<1>5. QED
  BY <1>2, <1>3, <1>4, ManagerPromise, TellPromise DEF Next

\* What the wallet has lost track of stays lost.
LEMMA LapsesStay ==
  ASSUME [Next]_vars
  PROVE  lapses \subseteq lapses'
<1>1. CASE Process
  BY <1>1
  DEF Process, Load, Retry, ReadCommitted, Reauthorize, Unauthorized, UnauthorizedRequest,
      UnauthorizedCancel, Authorize, Gate, Create, FetchCurrent, Wait, DebitSafe, Debit,
      MarkFailed, CheckFulfil, Fulfil, MarkFinished, CheckReject, Reject, MarkRejected,
      Timeout, TimeoutCurrent, TimeoutRequest, TimeoutCancel, TimeoutSync, Read, Request,
      CancelCurrent, UpdateStatus, CallRelay
<1>2. CASE Environment
  BY <1>2 DEF Environment, DeadlinePasses, Crash, Restart, Restarted, BalanceMoves
<1>3. CASE Expire
  BY <1>3 DEF Expire
<1>4. CASE UNCHANGED vars \/ (ManagerMoves /\ UNCHANGED processorVars)
  BY <1>4 DEF vars, processorVars
<1>5. QED
  BY <1>1, <1>2, <1>3, <1>4 DEF Next

\* processWithdrawalRecord keeps the promise of WithdrawalPayout, whatever fails, is
\* interrupted, repeated or lost, up to the first lapse: every step of the processor, of the
\* manager and of the environment is a step of it, or none, or one after which the wallet has
\* lost track of a debit or of a refund.
THEOREM ImplementsPayout == Spec => PayoutSpec
<1>1. Init => Payout!Init
  <2> SUFFICES ASSUME Init PROVE Payout!Init
    OBVIOUS
  <2>1. record.status = "pending" /\ debits = 0 /\ relay = {} /\ paid = {}
    BY DEF Init
  <2>2. ~IsPaidForGood
    BY <2>1, InitInv, InvTable, PaidForGoodIs
  <2>3. (debits > 0) = FALSE
    BY <2>1
  <2>4. QED
    BY <2>1, <2>2, <2>3 DEF Payout!Init, PayoutState
<1>2. Inv /\ Inv' /\ [Next]_vars => [Payout!Next \/ lapses' # {}]_(Payout!vars)
  <2> SUFFICES ASSUME Inv, Inv', [Next]_vars, lapses' = {}
               PROVE  [Payout!Next]_(Payout!vars)
    OBVIOUS
  <2>1. NoLapse /\ NoLapse'
    BY LapsesStay DEF NoLapse
  <2>2. QED
    BY <2>1, StepPromise DEF Promise
<1>3. QED
  BY <1>1, <1>2, InvHolds, PTL DEF Spec, PayoutSpec

==================================================================================
