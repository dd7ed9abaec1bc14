----------------------- MODULE TransactionManagerAttempts -----------------------
(***************************************************************************)
(* What the manager promises about attempts: a failure is retried once, a   *)
(* cancellation request sticks, one broadcast of a network is unresolved at *)
(* a time, and its payloads never compete for a nonce.                      *)
(***************************************************************************)
EXTENDS TransactionManagerProofs

-----------------------------------------------------------------------------
(* The invariants. *)

\* A retry follows a failure, with one more on its count.
AttemptsOrdered ==
    /\ \A t, u \in TxId :
          SameChain(t, u) /\ t < u =>
              tx[t].status = "failed" /\ tx[t].retryCount < tx[u].retryCount
    /\ \A t \in TxId : tx[t].retryCount <= MaxRetries

\* Only a row that is not signed can be asked to be cancelled.
CancelInv ==
    \A t \in TxId :
        tx[t].cancelRequested => tx[t].payload = NoPayload /\ Exists(tx[t])

\* The sender works on a row of the table; past the gate it is the only one that can
\* commit a broadcast of the network, and has not yet.
Gated == {"claim", "limit", "build", "prepare"}
AtNode == {"send", "check", "look", "mark"}
BroadcastInv ==
    /\ sender.pc # "idle" => Exists(tx[sender.t])
    /\ sender.pc \in Gated => OnNetwork(tx[sender.t].network, {"broadcasting"}) = {}
    /\ sender.pc \in AtNode => tx[sender.t].status = "broadcasting"
    /\ OneBroadcastAtATime

\* The node keeps what it accepted, and no answer of the database is lost.
NodeKeeps == "drop" \notin FaultKinds /\ "ack" \notin FaultKinds /\ ~LegacyChain

\* The nonces below this one are taken at the node, and those of acknowledged payloads
\* are below it.
Acknowledged == {"sent", "confirmed", "failed"}
PrefixVisible(n, nonce) ==
    \A m \in 0 .. nonce - 1 : \E u \in TxId : Holds(n, u, m) /\ Visible(u)
AboveAcknowledged(n, nonce) ==
    \A t \in OnNetwork(n, Acknowledged) : tx[t].payload < nonce

\* The nonces of a network are given out without gaps, and the last one belongs to the
\* broadcast that is unresolved.
NonceInv ==
    /\ \A t \in TxId : tx[t].status \in Acknowledged => Visible(t)
    /\ \A t \in TxId :
          tx[t].payload # NoPayload => PrefixVisible(tx[t].network, tx[t].payload)
    /\ \A t \in TxId :
          tx[t].status = "broadcasting" =>
              AboveAcknowledged(tx[t].network, tx[t].payload)
    /\ \A n \in Network :
          cache[n] # NoNonce =>
              PrefixVisible(n, cache[n]) /\ AboveAcknowledged(n, cache[n])
    /\ sender.pc = "prepare" =>
          /\ PrefixVisible(tx[sender.t].network, sender.nonce)
          /\ AboveAcknowledged(tx[sender.t].network, sender.nonce)
    /\ sender.pc = "mark" => Visible(sender.t)
    /\ NoncesDiffer

-----------------------------------------------------------------------------
(* What a step does to the table. *)

\* An update that signs nothing.
Updated(r, s) ==
    /\ s.network = r.network /\ s.root = r.root /\ s.retryCount = r.retryCount
    /\ s.payload = r.payload
    /\ Exists(s) <=> Exists(r)
    /\ r.status = "failed" => s.status = "failed"
    /\ s.status = "broadcasting" => r.status = "broadcasting"
    /\ r.cancelRequested =>
          s.cancelRequested /\ (s.status = "sending" => r.status = "sending")
    /\ s.cancelRequested => r.cancelRequested \/ (Exists(r) /\ r.payload = NoPayload)

\* The acknowledgment of a broadcast, and the signature.
Marks(t) ==
    /\ sender.pc = "mark" /\ t = sender.t /\ sender' = Idle
    /\ tx'[t].status = "sent" /\ Exists(tx[t])
Signs(t) ==
    /\ sender.pc = "prepare" /\ t = sender.t /\ Preparable(tx[t])
    /\ sender'.pc \in {"send", "release"} /\ sender'.t = sender.t
    /\ tx'[t].status = "broadcasting" /\ tx'[t].payload = sender.nonce
    /\ tx'[t].network = tx[t].network /\ tx'[t].root = tx[t].root
    /\ tx'[t].retryCount = tx[t].retryCount /\ ~tx'[t].cancelRequested

Quietly(t) ==
    /\ Updated(tx[t], tx'[t])
    /\ tx'[t].status \in Acknowledged => tx[t].status \in Acknowledged

RowMoves(t) == Quietly(t) \/ (Updated(tx[t], tx'[t]) /\ Marks(t)) \/ Signs(t)

\* A new payout, or the retry of an attempt that has just failed.
Inserts(v) ==
    /\ IsNextId(tx, v)
    /\ tx'[v].status = "pending" /\ tx'[v].payload = NoPayload /\ ~tx'[v].cancelRequested
    /\ \A t \in TxId : t # v => Quietly(t)
    /\ \/ tx'[v].root = NoRoot /\ tx'[v].retryCount = 0
       \/ \E s \in TxId :
             /\ s # v
             /\ tx[s].status = "sent" /\ tx[s].retryCount < MaxRetries
             /\ tx'[s].status = "failed"
             /\ tx'[v].root = RootTransactionID(tx, s)
             /\ tx'[v].retryCount = tx[s].retryCount + 1

TableMoves == (\A t \in TxId : RowMoves(t)) \/ \E v \in TxId : Inserts(v)

LEMMA UpdatesAre ==
  ASSUME NEW r \in Row
  PROVE  /\ Updated(r, r)
         /\ Claimable(r) => Updated(r, ClaimedRow(r))
         /\ Updated(r, ReleasedRow(r)) /\ Updated(r, MarkedSentRow(r))
         /\ Updated(r, MarkedConfirmedRow(r)) /\ Updated(r, FailedFromSentRow(r))
         /\ Updated(r, MarkedDelayedRow(r)) /\ Updated(r, CancellationRequestedRow(r))
         /\ Updated(r, CancelledRow(r))
<1>1. Updated(r, r)
  BY DEF Updated
<1>2. Claimable(r) => Updated(r, ClaimedRow(r))
  BY DEF Updated, Claimable, ClaimedRow, Row, Exists
<1>3. Updated(r, ReleasedRow(r))
  BY DEF Updated, ReleasedRow, Releasable, Row, Exists
<1>4. Updated(r, MarkedSentRow(r))
  BY DEF Updated, MarkedSentRow, Row, Exists
<1>5. Updated(r, MarkedConfirmedRow(r))
  BY DEF Updated, MarkedConfirmedRow, Row, Exists
<1>6. Updated(r, FailedFromSentRow(r))
  BY DEF Updated, FailedFromSentRow, CanFailFromSent, Row, Exists
<1>7. Updated(r, MarkedDelayedRow(r))
  BY DEF Updated, MarkedDelayedRow, CanMarkDelayed, Row, Exists
<1>8. Updated(r, CancellationRequestedRow(r))
  BY DEF Updated, CancellationRequestedRow, CancellationRequestable, Row, Exists
<1>9. Updated(r, CancelledRow(r))
  BY DEF Updated, CancelledRow, Cancellable, Row, Exists
<1>10. QED
  BY <1>1, <1>2, <1>3, <1>4, <1>5, <1>6, <1>7, <1>8, <1>9

\* The ones that acknowledge nothing.
LEMMA AcknowledgesNothing ==
  ASSUME NEW r \in Row
  PROVE  /\ Claimable(r) => ClaimedRow(r).status \notin Acknowledged
         /\ ReleasedRow(r).status \in Acknowledged => r.status \in Acknowledged
         /\ MarkedConfirmedRow(r).status \in Acknowledged => r.status \in Acknowledged
         /\ FailedFromSentRow(r).status \in Acknowledged => r.status \in Acknowledged
         /\ MarkedDelayedRow(r).status \in Acknowledged => r.status \in Acknowledged
         /\ CancellationRequestedRow(r).status \in Acknowledged => r.status \in Acknowledged
         /\ CancelledRow(r).status \in Acknowledged => r.status \in Acknowledged
  BY DEF ClaimedRow, ReleasedRow, MarkedConfirmedRow, FailedFromSentRow, CanFailFromSent,
         MarkedDelayedRow, CancellationRequestedRow, CancelledRow, Acknowledged, Row

LEMMA OneRowMoves ==
  ASSUME TypeOK, NEW t \in TxId, NEW s, tx' = [tx EXCEPT ![t] = s],
         Updated(tx[t], s), s.status \in Acknowledged => tx[t].status \in Acknowledged
  PROVE  TableMoves
<1>1. tx'[t] = s /\ \A u \in TxId : u # t => tx'[u] = tx[u]
  BY DEF TypeOK
<1>2. \A u \in TxId : Updated(tx[u], tx[u])
  BY UpdatesAre DEF TypeOK
<1>3. QED
  BY <1>1, <1>2 DEF TableMoves, RowMoves, Quietly

LEMMA NoRowMoves ==
  ASSUME TypeOK, tx' = tx
  PROVE  TableMoves
<1>1. \A u \in TxId : Updated(tx[u], tx[u])
  BY UpdatesAre DEF TypeOK
<1>2. QED
  BY <1>1 DEF TableMoves, RowMoves, Quietly

\* Fields of rows as they are inserted.
LEMMA InsertedFields ==
  ASSUME TypeOK
  PROVE  /\ \A n \in Network :
               /\ NewTransaction(n).status = "pending" /\ NewTransaction(n).root = NoRoot
               /\ NewTransaction(n).payload = NoPayload /\ NewTransaction(n).retryCount = 0
               /\ NewTransaction(n).cancelRequested = FALSE
         /\ \A t \in TxId :
               /\ RetryOf(tx, t).status = "pending" /\ RetryOf(tx, t).payload = NoPayload
               /\ RetryOf(tx, t).root = RootTransactionID(tx, t)
               /\ RetryOf(tx, t).retryCount = tx[t].retryCount + 1
               /\ RetryOf(tx, t).cancelRequested = FALSE
<1>1. ASSUME NEW n \in Network
      PROVE  /\ NewTransaction(n).status = "pending" /\ NewTransaction(n).root = NoRoot
             /\ NewTransaction(n).payload = NoPayload /\ NewTransaction(n).retryCount = 0
             /\ NewTransaction(n).cancelRequested = FALSE
  BY DEF NewTransaction, AbsentRow
<1>2. ASSUME NEW t \in TxId
      PROVE  /\ RetryOf(tx, t).status = "pending" /\ RetryOf(tx, t).payload = NoPayload
             /\ RetryOf(tx, t).root = RootTransactionID(tx, t)
             /\ RetryOf(tx, t).retryCount = tx[t].retryCount + 1
             /\ RetryOf(tx, t).cancelRequested = FALSE
  <2>1. tx[t].network \in Network
    BY DEF TypeOK, Row
  <2>2. NewTransaction(tx[t].network) \in Row
    BY <2>1, InsertType
  <2> DEFINE r == NewTransaction(tx[t].network)
  <2>3. RetryOf(tx, t) = [r EXCEPT !.root = RootTransactionID(tx, t),
                                   !.retryCount = tx[t].retryCount + 1]
    BY DEF RetryOf
  <2>4. /\ r.status = "pending" /\ r.payload = NoPayload /\ r.cancelRequested = FALSE
        /\ r \in Row
    BY <1>1, <2>1, <2>2
  <2> HIDE DEF r
  <2>5. QED
    BY <2>3, <2>4 DEF Row
<1>3. QED
  BY <1>1, <1>2

LEMMA QueueMoves ==
  ASSUME TypeOK, NEW n \in Network, QueueTransaction(n)
  PROVE  TableMoves
<1>1. PICK v \in TxId : IsNextId(tx, v) /\ tx' = [tx EXCEPT ![v] = NewTransaction(n)]
  BY DEF QueueTransaction
<1>2. tx'[v] = NewTransaction(n) /\ \A u \in TxId : u # v => tx'[u] = tx[u]
  BY <1>1 DEF TypeOK
<1>3. ASSUME NEW u \in TxId, u # v PROVE Quietly(u)
  <2>1. Updated(tx[u], tx[u])
    BY UpdatesAre DEF TypeOK
  <2>2. QED
    BY <1>2, <1>3, <2>1 DEF Quietly
<1>4. QED
  BY <1>1, <1>2, <1>3, InsertedFields DEF TableMoves, Inserts

LEMMA FailMoves ==
  ASSUME TypeOK, NEW t \in TxId, FailAndRetry(t)
  PROVE  TableMoves
<1>1. /\ tx[t] \in Row /\ Updated(tx[t], FailedFromSentRow(tx[t]))
      /\ FailedFromSentRow(tx[t]).status \in Acknowledged => tx[t].status \in Acknowledged
  BY UpdatesAre, AcknowledgesNothing DEF TypeOK
<1>2. CASE tx' = [tx EXCEPT ![t] = FailedFromSentRow(tx[t])]
  BY <1>1, <1>2, OneRowMoves
<1>3. ASSUME NEW v \in TxId, IsNextId(tx, v), CanFailFromSent(tx[t]),
             tx[t].retryCount < MaxRetries,
             tx' = [tx EXCEPT ![t] = FailedFromSentRow(tx[t]), ![v] = RetryOf(tx, t)]
      PROVE  TableMoves
  <2>1. t # v /\ tx[t].status = "sent"
    BY <1>3 DEF IsNextId, CanFailFromSent
  <2>2. /\ tx'[v] = RetryOf(tx, t) /\ tx'[t] = FailedFromSentRow(tx[t])
        /\ \A u \in TxId : u # t /\ u # v => tx'[u] = tx[u]
    BY <1>3, <2>1 DEF TypeOK
  <2>3. ASSUME NEW u \in TxId, u # v PROVE Quietly(u)
    <3>1. Updated(tx[u], tx[u])
      BY UpdatesAre DEF TypeOK
    <3>2. QED
      BY <1>1, <2>2, <2>3, <3>1 DEF Quietly
  <2>4. tx'[t].status = "failed"
    <3>1. \A r \in Row : CanFailFromSent(r) => FailedFromSentRow(r).status = "failed"
      BY DEF FailedFromSentRow, Row
    <3>2. QED
      BY <1>1, <1>3, <2>2, <3>1
  <2>5. QED
    BY <1>3, <2>1, <2>2, <2>3, <2>4, InsertedFields DEF TableMoves, Inserts
<1>4. QED
  BY <1>2, <1>3 DEF FailAndRetry

LEMMA SenderTableMoves ==
  ASSUME TypeOK, BroadcastInv, CancelInv, Sender
  PROVE  TableMoves
<1>1. CASE \/ \E t \in TxId : SenderSync(t)
           \/ SenderGate \/ SenderLimit \/ SenderBuild \/ SenderCheck \/ SenderLook
           \/ SenderSend
  <2>1. tx' = tx
    BY <1>1 DEF SenderSync, SenderGate, SenderLimit, SenderBuild, SenderCheck, SenderLook,
                SenderSend
  <2>2. QED
    BY <2>1, NoRowMoves
<1>2. ASSUME sender.pc # "idle" PROVE Current \in TxId /\ tx[Current] \in Row
  BY <1>2 DEF TypeOK, Current
<1>3. CASE SenderClaim
  <2>1. Current \in TxId /\ tx[Current] \in Row
    BY <1>2, <1>3 DEF SenderClaim
  <2>2. CASE Claimable(tx[Current]) /\ tx' = [tx EXCEPT ![Current] = ClaimedRow(@)]
    BY <2>1, <2>2, UpdatesAre, AcknowledgesNothing, OneRowMoves
  <2>3. QED
    BY <1>3, <2>2, NoRowMoves DEF SenderClaim
<1>4. CASE SenderPrepare
  <2>1. Current \in TxId /\ tx[Current] \in Row /\ sender.nonce \in Nat
    BY <1>2, <1>4 DEF SenderPrepare, TypeOK
  <2>2. CASE Preparable(tx[Current])
             /\ tx' = [tx EXCEPT ![Current] = PreparedRow(@, sender.nonce)]
    <3>1. /\ tx'[Current] = PreparedRow(tx[Current], sender.nonce)
          /\ \A u \in TxId : u # Current => tx'[u] = tx[u]
      BY <2>1, <2>2 DEF TypeOK
    <3>2. Signs(Current)
      <4>1. ASSUME NEW r \in Row, Preparable(r), NEW nonce \in Nat
            PROVE  /\ PreparedRow(r, nonce).status = "broadcasting"
                   /\ PreparedRow(r, nonce).payload = nonce
                   /\ PreparedRow(r, nonce).network = r.network
                   /\ PreparedRow(r, nonce).root = r.root
                   /\ PreparedRow(r, nonce).retryCount = r.retryCount
                   /\ ~PreparedRow(r, nonce).cancelRequested
        BY <4>1 DEF PreparedRow, Preparable, Row
      <4>2. /\ sender.pc = "prepare" /\ Current = sender.t
            /\ sender'.pc \in {"send", "release"} /\ sender'.t = sender.t
        BY <1>4 DEF SenderPrepare, Current, Goto, TypeOK
      <4>3. QED
        BY <2>1, <2>2, <3>1, <4>1, <4>2 DEF Signs
    <3>3. \A u \in TxId : Updated(tx[u], tx[u])
      BY UpdatesAre DEF TypeOK
    <3>4. QED
      BY <3>1, <3>2, <3>3 DEF TableMoves, RowMoves, Quietly
  <2>3. QED
    BY <1>4, <2>2, NoRowMoves DEF SenderPrepare
<1>5. CASE SenderRelease
  <2>1. Current \in TxId /\ tx[Current] \in Row
    BY <1>2, <1>5 DEF SenderRelease
  <2>2. CASE tx' = [tx EXCEPT ![Current] = ReleasedRow(@)]
    BY <2>1, <2>2, UpdatesAre, AcknowledgesNothing, OneRowMoves
  <2>3. QED
    BY <1>5, <2>2, NoRowMoves DEF SenderRelease
<1>6. CASE SenderMark
  <2>1. /\ Current \in TxId /\ tx[Current] \in Row /\ Exists(tx[Current])
        /\ tx[Current].status = "broadcasting"
    BY <1>2, <1>6 DEF SenderMark, BroadcastInv, AtNode, Current
  <2>2. CASE tx' = [tx EXCEPT ![Current] = MarkedSentRow(@)]
    <3>1. /\ tx'[Current] = MarkedSentRow(tx[Current])
          /\ \A u \in TxId : u # Current => tx'[u] = tx[u]
      BY <2>1, <2>2 DEF TypeOK
    <3>2. MarkedSentRow(tx[Current]).status = "sent" \/ MarkedSentRow(tx[Current]) = tx[Current]
      BY <2>1 DEF MarkedSentRow, Row
    <3>3. \A u \in TxId : Updated(tx[u], tx[u]) /\ Updated(tx[u], MarkedSentRow(tx[u]))
      BY UpdatesAre DEF TypeOK
    <3>4. sender.pc = "mark" /\ sender' = Idle
      BY <1>6 DEF SenderMark, Done
    <3>5. QED
      BY <2>1, <3>1, <3>2, <3>3, <3>4
      DEF TableMoves, RowMoves, Quietly, Marks, Current
  <2>3. QED
    BY <1>6, <2>2, NoRowMoves DEF SenderMark
<1>7. QED
  BY <1>1, <1>3, <1>4, <1>5, <1>6 DEF Sender

LEMMA AllTableMoves ==
  ASSUME TypeOK, BroadcastInv, CancelInv, [Next]_vars
  PROVE  TableMoves
<1>1. CASE ChainNext \/ Crash \/ UNCHANGED vars
  <2>1. tx' = tx
    BY <1>1 DEF ChainNext, EmptyBlock, MineTransaction, Reorg, DropFromPool, Crash, vars
  <2>2. QED
    BY <2>1, NoRowMoves
<1>2. CASE ProcessorNext
  <2>1. ASSUME NEW t \in TxId, RequestCancellation(t) \/ CancelRequestedUnbroadcasted(t)
        PROVE  TableMoves
    <3>1. tx[t] \in Row
      BY DEF TypeOK
    <3>2. CASE tx' = [tx EXCEPT ![t] = CancellationRequestedRow(@)]
      BY <3>1, <3>2, UpdatesAre, AcknowledgesNothing, OneRowMoves
    <3>3. CASE tx' = [tx EXCEPT ![t] = CancelledRow(@)]
      BY <3>1, <3>3, UpdatesAre, AcknowledgesNothing, OneRowMoves
    <3>4. QED
      BY <2>1, <3>2, <3>3 DEF RequestCancellation, CancelRequestedUnbroadcasted
  <2>2. QED
    BY <1>2, <2>1, QueueMoves DEF ProcessorNext
<1>3. CASE Confirmer
  <2>1. ASSUME NEW t \in TxId, ConfirmerApply(t) \/ ConfirmerDelayed(t)
        PROVE  TableMoves
    <3>1. tx[t] \in Row
      BY DEF TypeOK
    <3>2. CASE tx' = [tx EXCEPT ![t] = MarkedConfirmedRow(@)]
      BY <3>1, <3>2, UpdatesAre, AcknowledgesNothing, OneRowMoves
    <3>3. CASE tx' = [tx EXCEPT ![t] = MarkedDelayedRow(@)]
      BY <3>1, <3>3, UpdatesAre, AcknowledgesNothing, OneRowMoves
    <3>4. CASE tx' = tx
      BY <3>4, NoRowMoves
    <3>5. QED
      BY <2>1, <3>2, <3>3, <3>4, FailMoves DEF ConfirmerApply, ConfirmerDelayed
  <2>2. CASE \/ ConfirmerPoll
             \/ \E t \in TxId :
                   ConfirmerEnqueue(t) \/ ConfirmerReceipt(t) \/ ConfirmerHeader(t)
    <3>1. tx' = tx
      BY <2>2 DEF ConfirmerPoll, ConfirmerEnqueue, ConfirmerReceipt, ConfirmerHeader
    <3>2. QED
      BY <3>1, NoRowMoves
  <2>3. QED
    BY <1>3, <2>1, <2>2 DEF Confirmer
<1>4. CASE Start
  <2>1. ASSUME NEW t \in TxId PROVE RowMoves(t)
    <3>1. tx[t] \in Row /\ Updated(tx[t], tx[t])
      BY UpdatesAre DEF TypeOK
    <3>2. CASE tx'[t] = tx[t]
      BY <3>1, <3>2 DEF RowMoves, Quietly
    <3>3. CASE /\ tx[t].status = "sending"
               /\ tx'[t] = [tx[t] EXCEPT !.status =
                                IF tx[t].cancelRequested THEN "cancelled" ELSE "pending"]
      <4>1. Updated(tx[t], tx'[t]) /\ tx'[t].status \in {"cancelled", "pending"}
        BY <3>1, <3>3 DEF Updated, Row, Exists
      <4>2. QED
        BY <4>1 DEF RowMoves, Quietly, Acknowledged
    <3>4. QED
      BY <1>4, <3>2, <3>3 DEF Start, RecoveredTable
  <2>2. QED
    BY <2>1 DEF TableMoves
<1>5. QED
  BY <1>1, <1>2, <1>3, <1>4, SenderTableMoves DEF Next
\* Every move of a row, as far as its chain, its payload and its request go.
LEMMA MovesKeep ==
  ASSUME NEW t \in TxId, RowMoves(t)
  PROVE  /\ tx'[t].root = tx[t].root /\ tx'[t].network = tx[t].network
         /\ tx'[t].retryCount = tx[t].retryCount
         /\ Exists(tx'[t]) <=> Exists(tx[t])
         /\ tx[t].status = "failed" => tx'[t].status = "failed"
         /\ tx'[t].status = "broadcasting" => tx[t].status = "broadcasting" \/ Signs(t)
<1>1. Updated(tx[t], tx'[t]) \/ Signs(t)
  BY DEF RowMoves, Quietly
<1>2. QED
  BY <1>1 DEF Updated, Signs, Preparable, Exists

\* The same when a row is inserted.
LEMMA InsertsKeep ==
  ASSUME NEW v \in TxId, Inserts(v), NEW t \in TxId, t # v
  PROVE  RowMoves(t)
  BY DEF Inserts, RowMoves

LEMMA RootIsARow ==
  ASSUME TypeOK, NEW t \in TxId
  PROVE  RootTransactionID(tx, t) \in TxId
<1>1. tx[t] \in Row
  BY DEF TypeOK
<1>2. tx[t].root \in TxId \cup {NoRoot}
  BY <1>1 DEF Row
<1>3. QED
  BY <1>2 DEF RootTransactionID

-----------------------------------------------------------------------------
(* A failure is retried once. *)

LEMMA AttemptsInit ==
  Init /\ (LegacyChain => MaxRetries > 0) => AttemptsOrdered
<1> SUFFICES ASSUME Init, LegacyChain => MaxRetries > 0 PROVE AttemptsOrdered
  OBVIOUS
<1>1. MaxRetries \in Nat
  BY TableAssumption
<1>2. CASE tx = [t \in TxId |-> AbsentRow]
  BY <1>1, <1>2 DEF AttemptsOrdered, SameChain, Exists, AbsentRow
<1>3. ASSUME LegacyChain, NEW n \in Network, tx = LegacyTable(n) PROVE AttemptsOrdered
  <2>1. NewTransaction(n) \in Row /\ AbsentRow \in Row
    <3>1. TypeOK
      BY InitType
    <3>2. QED
      BY <3>1, InsertType, AbsentRowType
  <2>0. /\ AbsentRow.status = "absent" /\ AbsentRow.retryCount = 0
        /\ NewTransaction(n).retryCount = 0
    BY DEF NewTransaction, AbsentRow
  <2>2. \A t \in TxId :
           /\ t = 1 => tx[t].status = "failed" /\ tx[t].retryCount = 0
           /\ t = 2 => tx[t].retryCount = 1
           /\ t # 1 /\ t # 2 => tx[t].status = "absent" /\ tx[t].retryCount = 0
    BY <1>3, <2>0, <2>1 DEF LegacyTable, Row
  <2>3. \A t, u \in TxId : t < u => t = 1 \/ (t # 1 /\ t # 2) \/ (u # 1 /\ u # 2)
    BY DEF TxId
  <2>4. \A t, u \in TxId : Exists(tx[t]) /\ Exists(tx[u]) /\ t < u => t = 1 /\ u = 2
    <3>1. \A t \in TxId : Exists(tx[t]) => t = 1 \/ t = 2
      BY <2>2 DEF Exists
    <3>2. QED
      BY <3>1 DEF TxId
  <2>5. QED
    BY <1>1, <1>3, <2>2, <2>4 DEF AttemptsOrdered, SameChain, TxId
<1>4. QED
  BY <1>2, <1>3 DEF Init

\* The retry is the last attempt of its chain, and the only one not failed.
LEMMA AttemptsInsert ==
  ASSUME TypeOK, RowsConsistent, AttemptsOrdered, NEW v \in TxId, Inserts(v)
  PROVE  AttemptsOrdered'
<1>1. /\ tx[v].status = "absent"
      /\ \A t \in TxId : v < t => tx[t].status = "absent"
  BY DEF Inserts, IsNextId, RowsConsistent
<1>2. \A t \in TxId : t # v => RowMoves(t)
  BY InsertsKeep
<1>3. \A t \in TxId : t # v =>
         /\ RootTransactionID(tx, t)' = RootTransactionID(tx, t)
         /\ tx'[t].retryCount = tx[t].retryCount
         /\ Exists(tx'[t]) <=> Exists(tx[t])
         /\ tx[t].status = "failed" => tx'[t].status = "failed"
  BY <1>2, MovesKeep DEF RootTransactionID
<1>4. \A t \in TxId : tx[t].retryCount \in Nat
  BY DEF TypeOK, Row
<1>5. /\ MaxRetries \in Nat
      /\ tx'[v].retryCount \in Nat /\ tx'[v].retryCount <= MaxRetries
  BY <1>4, TableAssumption DEF Inserts
<1>6. \A t \in TxId : tx'[t].retryCount <= MaxRetries
  BY <1>3, <1>5 DEF AttemptsOrdered
<1>7. ASSUME NEW t \in TxId, NEW u \in TxId, SameChain(t, u)', t < u
      PROVE  tx'[t].status = "failed" /\ tx'[t].retryCount < tx'[u].retryCount
  <2>1. /\ Exists(tx'[t]) /\ Exists(tx'[u])
        /\ RootTransactionID(tx, t)' = RootTransactionID(tx, u)'
    BY <1>7 DEF SameChain
  <2>2. CASE t # v /\ u # v
    <3>1. SameChain(t, u)
      BY <1>3, <2>1, <2>2 DEF SameChain
    <3>2. QED
      BY <1>3, <1>7, <2>2, <3>1 DEF AttemptsOrdered
  <2>3. u # v => u < v
    <3>1. u # v => ~(v < u)
      BY <1>1, <1>3, <2>1 DEF Exists
    <3>2. QED
      BY <3>1 DEF TxId
  <2>4. CASE u = v
    <3>1. t # v /\ t < v
      BY <1>7, <2>4 DEF TxId
    <3>2. tx[t] \in Row /\ tx[t].root < t
      BY DEF TypeOK, RowsConsistent
    <3>3. RootTransactionID(tx, t)' = RootTransactionID(tx, t) /\ Exists(tx[t])
      BY <1>3, <2>1, <3>1
    <3>4. RootTransactionID(tx, t) < v
      BY <3>1, <3>2 DEF RootTransactionID, Row, TxId
    <3>5. tx'[v].root # NoRoot
      BY <2>1, <2>4, <3>3, <3>4 DEF RootTransactionID, TxId
    <3>6. PICK s \in TxId :
             /\ s # v /\ tx[s].status = "sent" /\ tx'[s].status = "failed"
             /\ tx'[v].root = RootTransactionID(tx, s)
             /\ tx'[v].retryCount = tx[s].retryCount + 1
      BY <3>5 DEF Inserts
    <3>7. SameChain(t, s) /\ SameChain(s, t)
      BY <2>1, <2>4, <3>3, <3>5, <3>6 DEF SameChain, Exists, RootTransactionID
    <3>8. CASE t = s
      BY <1>3, <1>4, <2>4, <3>6, <3>8
    <3>9. CASE t < s
      <4>1. tx[t].status = "failed" /\ tx[t].retryCount < tx[s].retryCount
        BY <3>7, <3>9 DEF AttemptsOrdered
      <4>2. QED
        BY <1>3, <1>4, <2>4, <3>1, <3>6, <4>1
    <3>10. ~(s < t)
      BY <3>6, <3>7 DEF AttemptsOrdered
    <3>11. QED
      BY <3>8, <3>9, <3>10 DEF TxId
  <2>5. QED
    BY <1>7, <2>2, <2>3, <2>4 DEF TxId
<1>8. QED
  BY <1>6, <1>7 DEF AttemptsOrdered

LEMMA AttemptsStep ==
  ASSUME TypeOK, RowsConsistent, AttemptsOrdered, TableMoves
  PROVE  AttemptsOrdered'
<1>1. CASE \A t \in TxId : RowMoves(t)
  <2>1. \A t \in TxId :
           /\ RootTransactionID(tx, t)' = RootTransactionID(tx, t)
           /\ tx'[t].retryCount = tx[t].retryCount
           /\ Exists(tx'[t]) <=> Exists(tx[t])
           /\ tx[t].status = "failed" => tx'[t].status = "failed"
    BY <1>1, MovesKeep DEF RootTransactionID
  <2>2. QED
    BY <2>1 DEF AttemptsOrdered, SameChain
<1>2. QED
  BY <1>1, AttemptsInsert DEF TableMoves

LEMMA OrderedMeansOne == TypeOK /\ AttemptsOrdered => OneRetryPerFailure
<1> SUFFICES ASSUME TypeOK, AttemptsOrdered, NEW t \in TxId, NEW u \in TxId, SameChain(t, u)
             PROVE  /\ tx[t].retryCount = tx[u].retryCount => t = u
                    /\ tx[t].retryCount <= MaxRetries
  BY DEF OneRetryPerFailure
<1>1. SameChain(u, t)
  BY DEF SameChain
<1>2. tx[t].retryCount \in Nat /\ tx[u].retryCount \in Nat
  BY DEF TypeOK, Row
<1>3. t < u => tx[t].retryCount < tx[u].retryCount
  BY DEF AttemptsOrdered
<1>4. u < t => tx[u].retryCount < tx[t].retryCount
  BY <1>1 DEF AttemptsOrdered
<1>5. QED
  BY <1>2, <1>3, <1>4 DEF AttemptsOrdered, TxId

-----------------------------------------------------------------------------
(* A cancellation request sticks. *)

LEMMA CancelStep ==
  ASSUME TypeOK, CancelInv, TableMoves
  PROVE  /\ CancelInv'
         /\ \A t \in TxId :
               tx[t].cancelRequested =>
                   /\ tx'[t].cancelRequested /\ tx'[t].payload = NoPayload
                   /\ tx'[t].status = "sending" => tx[t].status = "sending"
<1>1. ASSUME NEW t \in TxId, RowMoves(t)
      PROVE  /\ tx'[t].cancelRequested => tx'[t].payload = NoPayload /\ Exists(tx'[t])
             /\ tx[t].cancelRequested =>
                   /\ tx'[t].cancelRequested /\ tx'[t].payload = NoPayload
                   /\ tx'[t].status = "sending" => tx[t].status = "sending"
  <2>1. tx[t].cancelRequested => tx[t].payload = NoPayload /\ Exists(tx[t])
    BY DEF CancelInv
  <2>2. CASE Updated(tx[t], tx'[t])
    BY <2>1, <2>2 DEF Updated
  <2>3. CASE Signs(t)
    BY <2>3 DEF Signs, Preparable
  <2>4. QED
    BY <1>1, <2>2, <2>3 DEF RowMoves, Quietly
<1>2. CASE \A t \in TxId : RowMoves(t)
  BY <1>1, <1>2 DEF CancelInv
<1>3. ASSUME NEW v \in TxId, Inserts(v)
      PROVE  /\ CancelInv'
             /\ \A t \in TxId :
                   tx[t].cancelRequested =>
                       /\ tx'[t].cancelRequested /\ tx'[t].payload = NoPayload
                       /\ tx'[t].status = "sending" => tx[t].status = "sending"
  <2>1. \A t \in TxId : t # v => RowMoves(t)
    BY <1>3, InsertsKeep
  <2>2. ~tx[v].cancelRequested /\ ~tx'[v].cancelRequested
    BY <1>3 DEF Inserts, IsNextId, CancelInv, Exists
  <2>3. QED
    BY <1>1, <2>1, <2>2 DEF CancelInv
<1>4. QED
  BY <1>2, <1>3 DEF TableMoves
-----------------------------------------------------------------------------
(* One broadcast at a time. *)

\* Where a step can lead the sender: to a row of the table, past an open gate, and to the
\* node with a row that is committed.
Walks ==
    /\ sender'.pc # "idle" =>
          \/ sender.pc # "idle" /\ sender'.t = sender.t
          \/ tx' = tx /\ sender'.t \in TxId /\ Exists(tx[sender'.t])
    /\ sender'.pc \in Gated =>
          /\ sender.pc # "idle" /\ sender'.t = sender.t
          /\ \/ sender.pc \in Gated
             \/ tx' = tx /\ OnNetwork(tx[sender.t].network, {"broadcasting"}) = {}
    /\ sender'.pc \in AtNode =>
          \/ sender.pc \in AtNode /\ sender'.t = sender.t
          \/ tx'[sender'.t].status = "broadcasting"

LEMMA SenderWalks ==
  ASSUME TypeOK, [Next]_vars
  PROVE  Walks
<1>1. ASSUME sender' = sender PROVE Walks
  BY <1>1 DEF Walks, Gated
<1>2. ASSUME sender'.pc = "idle" PROVE Walks
  BY <1>2 DEF Walks, Gated, AtNode
<1>3. ASSUME NEW t \in TxId, SenderSync(t) PROVE Walks
  <2>1. tx' = tx /\ tx[t].status \in {"broadcasting", "pending"}
    BY <1>3 DEF SenderSync
  <2>2. \/ sender'.pc = "look" /\ sender'.t = t /\ tx[t].status = "broadcasting"
        \/ sender'.pc = "gate" /\ sender'.t = t
    BY <1>3 DEF SenderSync, Idle
  <2>3. QED
    BY <2>1, <2>2 DEF Walks, Gated, AtNode, Exists
<1>4. CASE SenderGate
  <2>1. tx' = tx /\ sender.pc = "gate"
    BY <1>4 DEF SenderGate
  <2>2. CASE /\ OnNetwork(tx[Current].network, {"broadcasting"}) = {}
             /\ Goto("claim")
    BY <2>1, <2>2, SenderMoves DEF Walks, AtNode, Current
  <2>3. CASE Done
    BY <1>2, <2>3, SenderMoves
  <2>4. QED
    BY <1>4, <2>2, <2>3 DEF SenderGate
<1>5. ASSUME sender.pc \in Gated, sender'.pc \in {"limit", "build", "prepare", "release"},
             sender'.t = sender.t
      PROVE  Walks
  BY <1>5 DEF Walks, Gated, AtNode
<1>6. CASE SenderClaim \/ SenderLimit
  <2>1. sender.pc \in Gated /\ (Done \/ Goto("limit") \/ Goto("build") \/ Goto("release"))
    BY <1>6 DEF SenderClaim, SenderLimit, Gated
  <2>2. QED
    BY <1>2, <1>5, <2>1, SenderMoves
<1>7. CASE SenderBuild
  <2>1. sender.pc \in Gated
    BY <1>7 DEF SenderBuild, Gated
  <2>2. sender'.pc \in {"prepare", "release"} /\ sender'.t = sender.t
    BY <1>7 DEF SenderBuild, Goto, TypeOK
  <2>3. QED
    BY <1>5, <2>1, <2>2
<1>8. CASE SenderPrepare
  <2>1. sender.pc \in Gated /\ Current \in TxId /\ Current = sender.t
    BY <1>8 DEF SenderPrepare, Gated, TypeOK, Current
  <2>2. CASE Goto("release")
    BY <1>5, <2>1, <2>2, SenderMoves
  <2>3. CASE Preparable(tx[Current]) /\ Goto("send")
             /\ tx' = [tx EXCEPT ![Current] = PreparedRow(@, sender.nonce)]
    <3>1. sender'.pc = "send" /\ sender'.t = Current /\ sender.pc # "idle"
      BY <1>8, <2>1, <2>3, SenderMoves DEF SenderPrepare
    <3>2. tx'[Current].status = "broadcasting"
      <4>1. tx[Current] \in Row /\ tx'[Current] = PreparedRow(tx[Current], sender.nonce)
        BY <2>1, <2>3 DEF TypeOK
      <4>2. QED
        BY <4>1 DEF PreparedRow, Row
    <3>3. QED
      BY <2>1, <3>1, <3>2 DEF Walks, Gated
  <2>4. QED
    BY <1>8, <2>2, <2>3 DEF SenderPrepare
<1>9. CASE SenderSend \/ SenderCheck \/ SenderLook
  <2>1. sender.pc \in AtNode /\ sender.pc # "idle"
    BY <1>9 DEF SenderSend, SenderCheck, SenderLook, AtNode
  <2>2. Done \/ Goto("send") \/ Goto("check") \/ Goto("mark")
    BY <1>9 DEF SenderSend, SenderCheck, SenderLook
  <2>3. CASE sender'.pc \in {"send", "check", "mark"} /\ sender'.t = sender.t
    BY <2>1, <2>3 DEF Walks, Gated
  <2>4. QED
    BY <1>2, <2>2, <2>3, SenderMoves
<1>10. CASE SenderRelease \/ SenderMark
  <2>1. Done
    BY <1>10 DEF SenderRelease, SenderMark
  <2>2. QED
    BY <1>2, <2>1, SenderMoves
<1>11. CASE Sender
  BY <1>3, <1>4, <1>6, <1>7, <1>8, <1>9, <1>10, <1>11 DEF Sender
<1>12. CASE ProcessorNext \/ Confirmer \/ ChainNext \/ Crash \/ Start \/ UNCHANGED vars
  <2>1. sender' = sender \/ sender' = Idle
    BY <1>12 DEF ProcessorNext, QueueTransaction, RequestCancellation,
                 CancelRequestedUnbroadcasted, Confirmer, ConfirmerPoll, ConfirmerEnqueue,
                 ConfirmerReceipt, ConfirmerHeader, ConfirmerApply, ConfirmerDelayed,
                 ChainNext, EmptyBlock, MineTransaction, Reorg, DropFromPool, Crash, Start,
                 vars
  <2>2. Idle.pc = "idle"
    BY DEF Idle
  <2>3. QED
    BY <1>1, <1>2, <2>1, <2>2
<1>13. QED
  BY <1>11, <1>12 DEF Next

\* A row that a step leaves or makes broadcasting.
LEMMA BroadcastingRows ==
  ASSUME TypeOK, TableMoves, NEW t \in TxId, tx'[t].status = "broadcasting"
  PROVE  /\ (tx[t].status = "broadcasting" \/ Signs(t))
         /\ tx'[t].network = tx[t].network
<1>1. CASE RowMoves(t)
  BY <1>1, MovesKeep
<1>2. ASSUME NEW v \in TxId, Inserts(v) PROVE t # v
  BY <1>2 DEF Inserts
<1>3. QED
  BY <1>1, <1>2, InsertsKeep DEF TableMoves

\* A row that is there stays, on its network; its broadcast stays unresolved until the
\* sender marks it.
LEMMA RowStays ==
  ASSUME TypeOK, TypeOK', RowsConsistent, RowsConsistent', TableMoves, NEW t \in TxId,
         Exists(tx[t])
  PROVE  /\ RowMoves(t)
         /\ Exists(tx'[t]) /\ tx'[t].network = tx[t].network
         /\ tx[t].status = "broadcasting" /\ ~Marks(t) => tx'[t].status = "broadcasting"
<1>1. RowMoves(t)
  BY InsertsKeep DEF TableMoves, Inserts, IsNextId, Exists
<1>2. ASSUME tx[t].status = "broadcasting", ~Marks(t)
      PROVE  tx'[t].status = "broadcasting"
  <2>1. Quietly(t)
    BY <1>1, <1>2 DEF RowMoves, Signs, Preparable
  <2>2. tx'[t].status \in {"broadcasting", "sent", "confirmed", "failed"}
    <3>1. tx'[t].payload # NoPayload
      BY <1>2, <2>1 DEF Quietly, Updated, RowsConsistent
    <3>2. QED
      BY <3>1 DEF RowsConsistent
  <2>3. QED
    BY <1>2, <2>1, <2>2 DEF Quietly, Acknowledged
<1>3. QED
  BY <1>1, <1>2, MovesKeep

LEMMA BroadcastStep ==
  ASSUME TypeOK, TypeOK', RowsConsistent, RowsConsistent', BroadcastInv, Walks, TableMoves
  PROVE  BroadcastInv'
<1>1. sender'.pc # "idle" => sender'.t \in TxId /\ Exists(tx'[sender'.t])
  BY RowStays DEF Walks, BroadcastInv, TypeOK
<1>2. ASSUME sender'.pc \in Gated
      PROVE  OnNetwork(tx[sender.t].network, {"broadcasting"})' = {}
  <2>1. sender'.t = sender.t /\ sender.pc # "idle" /\ sender.t \in TxId /\ Exists(tx[sender.t])
    BY <1>2 DEF Walks, BroadcastInv, TypeOK
  <2>2. OnNetwork(tx[sender.t].network, {"broadcasting"}) = {}
    BY <1>2, <2>1 DEF Walks, BroadcastInv
  <2>3. tx'[sender.t].network = tx[sender.t].network
    BY <2>1, RowStays
  <2>4. \A t \in TxId : ~Signs(t)
    BY <1>2 DEF Signs, Gated
  <2>5. ASSUME NEW t \in TxId, tx'[t].status = "broadcasting",
               tx'[t].network = tx[sender.t].network
        PROVE  FALSE
    <3>1. tx[t].status = "broadcasting" /\ tx[t].network = tx[sender.t].network
      BY <2>4, <2>5, BroadcastingRows
    <3>2. QED
      BY <2>2, <3>1 DEF OnNetwork
  <2>6. QED
    BY <2>1, <2>3, <2>5 DEF OnNetwork
<1>3. ASSUME sender'.pc \in AtNode PROVE tx'[sender'.t].status = "broadcasting"
  <2>1. CASE sender.pc \in AtNode /\ sender'.t = sender.t
    <3>1. /\ tx[sender.t].status = "broadcasting" /\ sender.t \in TxId
          /\ Exists(tx[sender.t])
      BY <2>1 DEF BroadcastInv, TypeOK, AtNode, Exists
    <3>2. ~Marks(sender.t)
      BY <1>3 DEF Marks, Idle, AtNode
    <3>3. QED
      BY <2>1, <3>1, <3>2, RowStays
  <2>2. QED
    BY <1>3, <2>1 DEF Walks
<1>4. ASSUME NEW n \in Network, NEW t \in TxId, NEW u \in TxId,
             tx'[t].status = "broadcasting", tx'[u].status = "broadcasting",
             tx'[t].network = n, tx'[u].network = n
      PROVE  t = u
  <2>1. /\ tx[t].network = n /\ tx[u].network = n
        /\ tx[t].status = "broadcasting" \/ Signs(t)
        /\ tx[u].status = "broadcasting" \/ Signs(u)
    BY <1>4, BroadcastingRows
  <2>2. CASE tx[t].status = "broadcasting" /\ tx[u].status = "broadcasting"
    BY <2>1, <2>2 DEF BroadcastInv, OneBroadcastAtATime, OnNetwork
  <2>3. ASSUME NEW a \in TxId, Signs(a), tx[a].network = n
        PROVE  \A b \in TxId : tx[b].network = n => tx[b].status # "broadcasting"
    BY <2>3 DEF Signs, BroadcastInv, Gated, OnNetwork
  <2>4. CASE Signs(t) /\ Signs(u)
    BY <2>4 DEF Signs
  <2>5. QED
    BY <2>1, <2>2, <2>3, <2>4
<1>5. OneBroadcastAtATime'
  BY <1>4 DEF OneBroadcastAtATime, OnNetwork
<1>6. QED
  BY <1>1, <1>2, <1>3, <1>5 DEF BroadcastInv
-----------------------------------------------------------------------------
(* The theorems of this part. *)

\* The inductive invariant of the rows and of the sender's place among them.
AttemptsInv == TableInv /\ CancelInv /\ BroadcastInv

LEMMA AttemptsInvInit == Init => AttemptsInv
<1> SUFFICES ASSUME Init PROVE CancelInv /\ BroadcastInv
  BY InitTable DEF AttemptsInv
<1>1. TypeOK /\ sender.pc = "idle"
  BY InitType DEF Init, Idle
<1>2. \A t \in TxId : ~tx[t].cancelRequested /\ tx[t].status # "broadcasting"
  <2>1. CASE tx = [t \in TxId |-> AbsentRow]
    BY <2>1 DEF AbsentRow
  <2>2. ASSUME NEW n \in Network, tx = LegacyTable(n)
        PROVE  \A t \in TxId : ~tx[t].cancelRequested /\ tx[t].status # "broadcasting"
    <3>1. NewTransaction(n) \in Row /\ AbsentRow \in Row
      BY <1>1, InsertType, AbsentRowType
    <3>2. /\ AbsentRow.status = "absent" /\ ~AbsentRow.cancelRequested
          /\ ~NewTransaction(n).cancelRequested /\ NewTransaction(n).status = "pending"
      BY DEF NewTransaction, AbsentRow
    <3>3. QED
      BY <2>2, <3>1, <3>2 DEF LegacyTable, Row
  <2>3. QED
    BY <2>1, <2>2 DEF Init
<1>3. QED
  BY <1>1, <1>2 DEF CancelInv, BroadcastInv, OneBroadcastAtATime, OnNetwork, Gated, AtNode

LEMMA AttemptsInvStep ==
  ASSUME AttemptsInv, [Next]_vars
  PROVE  AttemptsInv' /\ TableMoves /\ Walks
<1>1. TypeOK /\ RowsConsistent /\ CancelInv /\ BroadcastInv
  BY DEF AttemptsInv, TableInv
<1>2. TableInv' /\ TypeOK' /\ RowsConsistent'
  BY TableStep DEF AttemptsInv, TableInv
<1>3. TableMoves /\ Walks
  BY <1>1, AllTableMoves, SenderWalks
<1>4. CancelInv' /\ BroadcastInv'
  BY <1>1, <1>2, <1>3, CancelStep, BroadcastStep
<1>5. QED
  BY <1>2, <1>3, <1>4 DEF AttemptsInv

LEMMA AttemptsInvariant == Spec => []AttemptsInv
<1>1. AttemptsInv /\ [Next]_vars => AttemptsInv'
  BY AttemptsInvStep
<1>2. QED
  BY <1>1, AttemptsInvInit, PTL DEF Spec

\* One broadcast of a network is unresolved at a time: the gate read before the claim
\* still holds when the payload is stored, because only the sender commits one
\* (GetBroadcastingTransactionCountByNetwork).
THEOREM BroadcastsTakeTurns == Spec => []OneBroadcastAtATime
<1>1. AttemptsInv => OneBroadcastAtATime
  BY DEF AttemptsInv, BroadcastInv
<1>2. QED
  BY <1>1, AttemptsInvariant, PTL

\* A cancellation request is never forgotten, and its row never claimed or signed
\* (RequestCancellation, ClaimForSending, PrepareBroadcast).
THEOREM CancellationsStick == Spec => CancellationHolds
<1>1. AttemptsInv /\ [Next]_vars =>
         [\A t \in TxId :
             tx[t].cancelRequested =>
                 /\ tx'[t].cancelRequested
                 /\ tx'[t].payload = NoPayload
                 /\ tx'[t].status = "sending" => tx[t].status = "sending"]_vars
  BY AttemptsInvStep, CancelStep DEF AttemptsInv, TableInv
<1>2. QED
  BY <1>1, AttemptsInvariant, PTL DEF Spec, CancellationHolds

\* A failure is retried once and max_retries is never passed, although two checks may
\* apply the same receipt (MarkFailedFromSent, CreateRetryTransaction).  A table that an
\* older release left has a retry already, which max_retries must have allowed.
THEOREM FailuresAreRetriedOnce ==
  ASSUME LegacyChain => MaxRetries > 0
  PROVE  Spec => []OneRetryPerFailure
<1>1. Init => AttemptsOrdered
  BY AttemptsInit
<1>2. AttemptsInv /\ AttemptsOrdered /\ [Next]_vars => AttemptsOrdered'
  BY AttemptsInvStep, AttemptsStep DEF AttemptsInv, TableInv
<1>3. AttemptsInv /\ AttemptsOrdered => OneRetryPerFailure
  BY OrderedMeansOne DEF AttemptsInv, TableInv
<1>4. QED
  BY <1>1, <1>2, <1>3, AttemptsInvariant, PTL DEF Spec
-----------------------------------------------------------------------------
(* Nonces, while the node keeps what it accepted. *)

NodeAnswers == TableInv /\ CancelInv /\ BroadcastInv /\ NonceInv

\* The nonce the node offers comes after every acknowledged payload.
LEMMA PendingNonce ==
  ASSUME TypeOK, RowsConsistent, NonceInv, NEW n \in Network, NEW k \in Nat,
         IsPendingNonce(n, k)
  PROVE  PrefixVisible(n, k) /\ AboveAcknowledged(n, k)
<1>1. PrefixVisible(n, k)
  BY DEF IsPendingNonce, PrefixVisible
<1>2. ASSUME NEW t \in TxId, tx[t].network = n, tx[t].status \in Acknowledged
      PROVE  tx[t].payload < k
  <2>1. Visible(t) /\ tx[t].payload # NoPayload
    BY <1>2 DEF NonceInv, RowsConsistent, Acknowledged
  <2>2. tx[t].payload \in Nat
    BY <2>1 DEF TypeOK, Row
  <2>3. tx[t].payload # k
    BY <1>2, <2>1 DEF IsPendingNonce, Holds
  <2>4. PrefixVisible(n, tx[t].payload)
    BY <1>2, <2>1 DEF NonceInv
  <2>5. ~(k \in 0 .. tx[t].payload - 1)
    BY <2>4 DEF PrefixVisible, IsPendingNonce
  <2>6. QED
    BY <2>2, <2>3, <2>5
<1>3. QED
  BY <1>1, <1>2 DEF AboveAcknowledged, OnNetwork

\* What the node has seen it keeps: no payload takes the place of another.
LEMMA VisibleStays ==
  ASSUME NodeKeeps, TypeOK, PayloadFirst, NonceInv, [Next]_vars
  PROVE  \A t \in TxId : Visible(t) => Visible(t)'
<1>1. \A t, u \in TxId : tx[t].payload # NoPayload => ~SameNonce(t, u)
  BY DEF NonceInv, NoncesDiffer
<1>2. ASSUME chain' = chain PROVE \A t \in TxId : Visible(t) => Visible(t)'
  BY <1>2 DEF Visible
<1>3. \A n \in Network, t \in TxId : Deepened(n)[t].st = chain[t].st
  <2>1. \A c \in ChainState : [c EXCEPT !.depth = Deeper(@)].st = c.st
    BY DEF ChainState
  <2>2. QED
    BY <2>1 DEF Deepened, TypeOK
<1>4. CASE ChainNext
  <2>1. ASSUME NEW n \in Network, EmptyBlock(n)
        PROVE  \A t \in TxId : Visible(t) => Visible(t)'
    BY <1>3, <2>1 DEF EmptyBlock, Visible
  <2>2. ASSUME NEW n \in Network, NEW t \in TxId, NEW outcome \in {"ok", "reverted"},
               MineTransaction(n, t, outcome)
        PROVE  \A u \in TxId : Visible(u) => Visible(u)'
    <3>1. Visible(t) /\ tx[t].payload # NoPayload
      BY <2>2 DEF MineTransaction, NextToMine, Visible, PayloadFirst
    <3>2. \A u \in TxId : ~SameNonce(t, u)
      BY <1>1, <3>1
    <3>3. \A u \in TxId : chain'[u] = IF u = t THEN [st |-> outcome, depth |-> 0]
                                      ELSE Deepened(n)[u]
      BY <2>2, <3>2 DEF MineTransaction
    <3>4. QED
      BY <1>3, <3>3 DEF Visible
  <2>3. ASSUME NEW n \in Network, NEW d \in 1 .. MaxReorg, Reorg(n, d)
        PROVE  \A t \in TxId : Visible(t) => Visible(t)'
    BY <2>3 DEF Reorg, Visible, InPool
  <2>4. ASSUME NEW t \in TxId PROVE ~DropFromPool(t)
    BY DEF DropFromPool, Fault, NodeKeeps
  <2>5. QED
    BY <1>4, <2>1, <2>2, <2>3, <2>4 DEF ChainNext
<1>5. CASE SenderSend
  <2>1. Current \in TxId /\ tx[Current].payload # NoPayload
    BY <1>5 DEF SenderSend, PayloadFirst, TypeOK, Current
  <2>2. CASE chain' = [u \in TxId |->
                IF u = Current THEN InPool
                ELSE IF SameNonce(Current, u) THEN Unseen ELSE chain[u]]
    <3>1. \A u \in TxId : chain'[u] = IF u = Current THEN InPool ELSE chain[u]
      BY <1>1, <2>1, <2>2
    <3>2. QED
      BY <3>1 DEF Visible, InPool
  <2>3. QED
    BY <1>2, <1>5, <2>2 DEF SenderSend
<1>6. CASE Sender /\ ~SenderSend
  <2>1. chain' = chain
    BY <1>6 DEF Sender, SenderSync, SenderGate, SenderClaim, SenderLimit, SenderBuild,
                SenderPrepare, SenderRelease, SenderCheck, SenderLook, SenderMark
  <2>2. QED
    BY <1>2, <2>1
<1>7. CASE ProcessorNext \/ Confirmer \/ Crash \/ Start \/ UNCHANGED vars
  <2>1. chain' = chain
    BY <1>7 DEF ProcessorNext, QueueTransaction, RequestCancellation,
                CancelRequestedUnbroadcasted, Confirmer, ConfirmerPoll, ConfirmerEnqueue,
                ConfirmerReceipt, ConfirmerHeader, ConfirmerApply, ConfirmerDelayed, Crash,
                Start, vars
  <2>2. QED
    BY <1>2, <2>1
<1>8. QED
  BY <1>4, <1>5, <1>6, <1>7 DEF Next

\* A payload keeps its network and its nonce, or was not there before.
LEMMA PayloadMoves ==
  ASSUME TypeOK, RowsConsistent, TableMoves, NEW t \in TxId
  PROVE  /\ tx[t].payload # NoPayload =>
               tx'[t].payload = tx[t].payload /\ tx'[t].network = tx[t].network
         /\ tx'[t].payload # NoPayload =>
               \/ tx'[t].payload = tx[t].payload /\ tx'[t].network = tx[t].network
               \/ Signs(t)
         /\ tx'[t].status \in Acknowledged => tx[t].status \in Acknowledged \/ Marks(t)
<1>1. CASE RowMoves(t)
  <2>1. CASE Updated(tx[t], tx'[t]) /\ (Quietly(t) \/ Marks(t))
    BY <2>1 DEF Updated, Quietly
  <2>2. CASE Signs(t)
    BY <2>2 DEF Signs, Preparable, Acknowledged
  <2>3. QED
    BY <1>1, <2>1, <2>2 DEF RowMoves, Quietly
<1>2. CASE Inserts(t)
  BY <1>2 DEF Inserts, IsNextId, RowsConsistent, Acknowledged
<1>3. QED
  BY <1>1, <1>2, InsertsKeep DEF TableMoves

LEMMA PrefixStays ==
  ASSUME TypeOK, RowsConsistent, TableMoves, \A t \in TxId : Visible(t) => Visible(t)',
         NEW n \in Network, NEW k \in Nat, PrefixVisible(n, k)
  PROVE  PrefixVisible(n, k)'
<1>1. ASSUME NEW m \in 0 .. k - 1 PROVE \E u \in TxId : (Holds(n, u, m) /\ Visible(u))'
  <2>1. PICK u \in TxId : Holds(n, u, m) /\ Visible(u)
    BY DEF PrefixVisible
  <2>2. tx[u].payload # NoPayload
    BY <2>1 DEF Holds, NoPayload
  <2>3. tx'[u].payload = tx[u].payload /\ tx'[u].network = tx[u].network
    BY <2>2, PayloadMoves
  <2>4. QED
    BY <2>1, <2>3 DEF Holds
<1>2. QED
  BY <1>1 DEF PrefixVisible

LEMMA AboveStays ==
  ASSUME TypeOK, RowsConsistent, TableMoves, NEW n \in Network, NEW k \in Nat,
         AboveAcknowledged(n, k), \A t \in TxId : tx[t].network = n => ~Marks(t)
  PROVE  AboveAcknowledged(n, k)'
<1>1. ASSUME NEW t \in TxId, tx'[t].network = n, tx'[t].status \in Acknowledged
      PROVE  tx'[t].payload < k
  <2>1. tx[t].status \in Acknowledged \/ Marks(t)
    BY <1>1, PayloadMoves
  <2>2. Exists(tx[t])
    BY <2>1 DEF Acknowledged, Exists, Marks
  <2>3. RowMoves(t)
    BY <2>2, InsertsKeep DEF TableMoves, Inserts, IsNextId, Exists
  <2>4. tx[t].network = n
    BY <1>1, <2>3, MovesKeep
  <2>5. tx[t].status \in Acknowledged
    BY <2>1, <2>4
  <2>6. tx[t].payload # NoPayload
    BY <2>5 DEF RowsConsistent, Acknowledged
  <2>7. tx'[t].payload = tx[t].payload /\ tx[t].payload < k
    BY <2>4, <2>5, <2>6, PayloadMoves DEF AboveAcknowledged, OnNetwork
  <2>8. QED
    BY <2>7
<1>2. QED
  BY <1>1 DEF AboveAcknowledged, OnNetwork
\* A cached nonce was kept while nothing of its network was acknowledged, comes from the
\* node, or was advanced past the payload just acknowledged.
CacheMoves(n) ==
    \/ cache'[n] = cache[n] /\ \A t \in TxId : tx[t].network = n => ~Marks(t)
    \/ /\ cache'[n] \in Nat /\ IsPendingNonce(n, cache'[n])
       /\ \A t \in TxId : ~Marks(t)
    \/ /\ Marks(Current) /\ tx[Current].network = n
       /\ cache'[n] = Advanced(cache[n], tx[Current].payload)

LEMMA OnlyMarkMarks ==
  ASSUME [Next]_vars, ~SenderMark, ~Crash
  PROVE  sender.pc = "mark" => sender' = sender
  BY DEF Next, ProcessorNext, QueueTransaction, RequestCancellation,
         CancelRequestedUnbroadcasted, Sender, SenderSync, SenderGate, SenderClaim,
         SenderLimit, SenderBuild, SenderPrepare, SenderRelease, SenderSend, SenderCheck,
         SenderLook, Confirmer, ConfirmerPoll, ConfirmerEnqueue, ConfirmerReceipt,
         ConfirmerHeader, ConfirmerApply, ConfirmerDelayed, ChainNext, EmptyBlock,
         MineTransaction, Reorg, DropFromPool, Start, vars

LEMMA CacheMovesSo ==
  ASSUME NodeKeeps, TypeOK, BroadcastInv, [Next]_vars, NEW n \in Network,
         cache'[n] # NoNonce
  PROVE  CacheMoves(n)
<1>1. CASE SenderMark
  <2>1. /\ sender.pc = "mark" /\ Current \in TxId /\ tx[Current] \in Row
        /\ tx[Current].status = "broadcasting"
    BY <1>1 DEF SenderMark, BroadcastInv, AtNode, TypeOK, Current
  <2>2. \A t \in TxId : Marks(t) => t = Current /\ tx'[Current].status = "sent"
    BY DEF Marks, Current
  <2>3. CASE /\ tx' = [tx EXCEPT ![Current] = MarkedSentRow(@)]
             /\ IF tx'[Current].status = "sent"
                THEN cache' = [cache EXCEPT ![tx[Current].network] =
                                   Advanced(@, tx[Current].payload)]
                ELSE UNCHANGED cache
    <3>1. CASE tx'[Current].status # "sent"
      BY <2>2, <2>3, <3>1 DEF CacheMoves
    <3>2. CASE tx'[Current].status = "sent"
      <4>1. Marks(Current)
        BY <1>1, <2>1, <3>2 DEF Marks, SenderMark, Done, Current, Exists
      <4>2. /\ tx[Current].network # n => cache'[n] = cache[n]
            /\ tx[Current].network = n =>
                  cache'[n] = Advanced(cache[n], tx[Current].payload)
        BY <2>3, <3>2 DEF TypeOK
      <4>3. QED
        BY <2>2, <4>1, <4>2 DEF CacheMoves
    <3>3. QED
      BY <3>1, <3>2
  <2>4. CASE tx' = tx /\ cache' = cache
    BY <2>1, <2>2, <2>4 DEF CacheMoves
  <2>5. ~Fault("ack")
    BY DEF Fault, NodeKeeps
  <2>6. QED
    BY <1>1, <2>3, <2>4, <2>5 DEF SenderMark
<1>2. CASE Crash
  BY <1>2 DEF Crash
<1>3. CASE ~SenderMark /\ ~Crash
  <2>1. \A t \in TxId : ~Marks(t)
    BY <1>3, OnlyMarkMarks DEF Marks, Idle
  <2>2. CASE cache' = cache
    BY <2>1, <2>2 DEF CacheMoves
  <2>3. CASE Start
    <3>1. /\ cache'[n] \in 0 .. MaxTx
          /\ IsPendingNonce(n, cache'[n])
      BY <2>3 DEF Start
    <3>2. cache'[n] \in Nat
      BY <3>1
    <3>3. QED
      BY <2>1, <3>1, <3>2 DEF CacheMoves
  <2>4. CASE SenderBuild
    <3>1. PICK nonce \in 0 .. MaxTx :
             /\ IF cache[tx[Current].network] = NoNonce
                THEN IsPendingNonce(tx[Current].network, nonce)
                ELSE nonce = cache[tx[Current].network]
             /\ \E c \in {cache[tx[Current].network], nonce, NoNonce} :
                   cache' = [cache EXCEPT ![tx[Current].network] = c]
      BY <2>4 DEF SenderBuild
    <3>2. PICK c \in {cache[tx[Current].network], nonce, NoNonce} :
             cache' = [cache EXCEPT ![tx[Current].network] = c]
      BY <3>1
    <3>3. CASE tx[Current].network # n
      <4>1. cache'[n] = cache[n]
        BY <3>2, <3>3 DEF TypeOK
      <4>2. QED
        BY <2>1, <4>1 DEF CacheMoves
    <3>4. CASE tx[Current].network = n
      <4>1. cache'[n] = c
        BY <3>2, <3>4 DEF TypeOK
      <4>2. c \in {cache[n], nonce} /\ nonce \in Nat
        BY <3>2, <3>4, <4>1
      <4>3. c = cache[n] \/ (c = nonce /\ IsPendingNonce(n, nonce))
        BY <3>1, <3>4, <4>2
      <4>4. QED
        BY <2>1, <4>1, <4>2, <4>3 DEF CacheMoves
    <3>5. QED
      BY <3>3, <3>4
  <2>5. CASE SenderSend
    <3>1. /\ sender.pc = "send" /\ Current \in TxId
          /\ \/ cache' = cache
             \/ cache' = [cache EXCEPT ![tx[Current].network] = NoNonce]
      BY <2>5 DEF SenderSend, TypeOK, Current
    <3>2. cache'[n] = cache[n]
      BY <3>1 DEF TypeOK
    <3>3. QED
      BY <2>1, <3>2 DEF CacheMoves
  <2>6. cache' = cache \/ Start \/ SenderBuild \/ SenderSend
    BY <1>3 DEF Next, ProcessorNext, QueueTransaction, RequestCancellation,
         CancelRequestedUnbroadcasted, Sender, SenderSync, SenderGate, SenderClaim,
         SenderLimit, SenderPrepare, SenderRelease, SenderCheck,
         SenderLook, Confirmer, ConfirmerPoll, ConfirmerEnqueue, ConfirmerReceipt,
         ConfirmerHeader, ConfirmerApply, ConfirmerDelayed, ChainNext, EmptyBlock,
         MineTransaction, Reorg, DropFromPool, vars
  <2>7. QED
    BY <2>2, <2>3, <2>4, <2>5, <2>6
<1>4. QED
  BY <1>1, <1>2, <1>3

\* What the sender brings to the signature and to the acknowledgment.
SenderBrings ==
    /\ sender'.pc = "prepare" =>
          /\ sender'.t = sender.t /\ sender.pc # "idle" /\ sender.pc # "mark"
          /\ sender'.nonce \in Nat
          /\ \/ sender.pc = "prepare" /\ sender'.nonce = sender.nonce
             \/ IsPendingNonce(tx[sender.t].network, sender'.nonce)
             \/ sender'.nonce = cache[tx[sender.t].network]
    /\ sender'.pc = "mark" =>
          /\ sender'.t = sender.t /\ sender.pc # "idle"
          /\ sender.pc = "mark" \/ Visible(sender.t) \/ Visible(sender.t)'

LEMMA SenderBringsSo ==
  ASSUME TypeOK, TypeOK', [Next]_vars
  PROVE  SenderBrings
<1>0. sender'.pc = "prepare" => sender'.nonce \in Nat
  BY DEF TypeOK
<1>1. ASSUME sender' = sender PROVE SenderBrings
  BY <1>0, <1>1 DEF SenderBrings
<1>2. ASSUME sender'.pc \notin {"prepare", "mark"} PROVE SenderBrings
  BY <1>2 DEF SenderBrings
<1>3. CASE SenderBuild
  <2>1. \/ sender'.pc = "release"
        \/ /\ sender'.pc = "prepare" /\ sender'.t = sender.t /\ sender.pc = "build"
           /\ IF cache[tx[Current].network] = NoNonce
              THEN IsPendingNonce(tx[Current].network, sender'.nonce)
              ELSE sender'.nonce = cache[tx[Current].network]
    BY <1>3 DEF SenderBuild, Goto, TypeOK
  <2>2. QED
    BY <1>0, <2>1 DEF SenderBrings, Current
<1>4. CASE SenderSend
  <2>1. /\ sender.pc = "send" /\ sender.t \in TxId /\ Current = sender.t
    BY <1>4 DEF SenderSend, TypeOK, Current
  <2>2. CASE Goto("check")
    BY <1>2, <2>2, SenderMoves
  <2>3. CASE Goto("mark")
    <3>1. sender'.pc = "mark" /\ sender'.t = sender.t
      BY <2>3, SenderMoves
    <3>2. CASE chain' = [u \in TxId |->
                IF u = Current THEN InPool
                ELSE IF SameNonce(Current, u) THEN Unseen ELSE chain[u]]
      <4>1. chain'[sender.t] = InPool
        BY <2>1, <3>2
      <4>2. QED
        BY <2>1, <3>1, <4>1 DEF SenderBrings, Visible, InPool
    <3>3. CASE chain[Current].st = "pool"
      BY <2>1, <3>1, <3>3 DEF SenderBrings, Visible
    <3>4. ~(Goto("check") /\ Goto("mark"))
      BY <3>1, SenderMoves
    <3>5. QED
      BY <1>4, <2>3, <3>2, <3>3, <3>4 DEF SenderSend
  <2>4. QED
    BY <1>4, <2>2, <2>3 DEF SenderSend
<1>5. CASE SenderCheck \/ SenderLook
  <2>1. Done \/ Goto("send") \/ (Goto("mark") /\ Visible(Current))
    BY <1>5 DEF SenderCheck, SenderLook
  <2>2. sender.pc # "idle"
    BY <1>5 DEF SenderCheck, SenderLook
  <2>3. CASE Goto("mark") /\ Visible(Current)
    BY <2>2, <2>3, SenderMoves DEF SenderBrings, Current
  <2>4. QED
    BY <1>2, <2>1, <2>3, SenderMoves
<1>6. CASE SenderGate \/ SenderClaim \/ SenderLimit \/ SenderPrepare \/ SenderRelease \/ SenderMark
  <2>1. \/ Done \/ Goto("claim") \/ Goto("limit") \/ Goto("release") \/ Goto("build")
        \/ Goto("send")
    BY <1>6 DEF SenderGate, SenderClaim, SenderLimit, SenderPrepare, SenderRelease,
                SenderMark
  <2>2. QED
    BY <1>2, <2>1, SenderMoves
<1>7. ASSUME NEW t \in TxId, SenderSync(t) PROVE SenderBrings
  <2>1. sender'.pc \in {"look", "gate"}
    BY <1>7 DEF SenderSync, Idle
  <2>2. QED
    BY <1>2, <2>1
<1>8. CASE ProcessorNext \/ Confirmer \/ ChainNext \/ Crash \/ Start \/ UNCHANGED vars
  <2>1. sender' = sender \/ sender' = Idle
    BY <1>8 DEF ProcessorNext, QueueTransaction, RequestCancellation,
                CancelRequestedUnbroadcasted, Confirmer, ConfirmerPoll, ConfirmerEnqueue,
                ConfirmerReceipt, ConfirmerHeader, ConfirmerApply, ConfirmerDelayed,
                ChainNext, EmptyBlock, MineTransaction, Reorg, DropFromPool, Crash, Start,
                vars
  <2>2. Idle.pc = "idle"
    BY DEF Idle
  <2>3. QED
    BY <1>1, <1>2, <2>1, <2>2
<1>9. QED
  BY <1>3, <1>4, <1>5, <1>6, <1>7, <1>8 DEF Next, Sender
LEMMA NonceStep ==
  ASSUME NodeKeeps, NodeAnswers, [Next]_vars
  PROVE  NonceInv'
<1>1. /\ TypeOK /\ RowsConsistent /\ PayloadFirst /\ CancelInv /\ BroadcastInv /\ NonceInv
      /\ AttemptsInv
  BY DEF NodeAnswers, AttemptsInv, TableInv
<1>2. /\ TypeOK' /\ RowsConsistent' /\ BroadcastInv' /\ TableMoves /\ Walks
  BY <1>1, AttemptsInvStep DEF AttemptsInv, TableInv
<1>3. \A t \in TxId : Visible(t) => Visible(t)'
  BY <1>1, VisibleStays
<1>4. \A n \in Network, k \in Nat : PrefixVisible(n, k) => PrefixVisible(n, k)'
  BY <1>1, <1>2, <1>3, PrefixStays
<1>5. \A n \in Network, k \in Nat :
         AboveAcknowledged(n, k) /\ (\A t \in TxId : tx[t].network = n => ~Marks(t)) =>
             AboveAcknowledged(n, k)'
  BY <1>1, <1>2, AboveStays
<1>6. \A t \in TxId :
         /\ tx[t].network \in Network /\ tx'[t].network \in Network
         /\ tx[t].payload # NoPayload => tx[t].payload \in Nat
         /\ tx'[t].payload # NoPayload => tx'[t].payload \in Nat
  BY <1>1, <1>2 DEF TypeOK, Row
\* The broadcast that is acknowledged is the unresolved one, and the node has it.
<1>7. ASSUME NEW t \in TxId, Marks(t)
      PROVE  /\ t = sender.t /\ tx[t].status = "broadcasting" /\ Visible(t)
             /\ tx[t].payload # NoPayload
             /\ \A u \in TxId :
                   tx[u].status = "broadcasting" /\ tx[u].network = tx[t].network => u = t
  <2>1. t = sender.t /\ sender.pc = "mark"
    BY <1>7 DEF Marks
  <2>2. tx[t].status = "broadcasting" /\ Visible(t)
    BY <1>1, <2>1 DEF BroadcastInv, AtNode, NonceInv
  <2>3. tx[t].payload # NoPayload
    BY <1>1, <2>2 DEF RowsConsistent
  <2>4. \A u \in TxId :
           tx[u].status = "broadcasting" /\ tx[u].network = tx[t].network => u = t
    BY <1>1, <1>6, <2>2 DEF BroadcastInv, OneBroadcastAtATime, OnNetwork
  <2>5. QED
    BY <2>1, <2>2, <2>3, <2>4
\* The payload that is signed.
<1>8. ASSUME NEW t \in TxId, Signs(t)
      PROVE  /\ t = sender.t /\ sender.pc = "prepare" /\ sender.nonce \in Nat
             /\ tx'[t].payload = sender.nonce /\ tx'[t].network = tx[t].network
             /\ PrefixVisible(tx[t].network, sender.nonce)
             /\ AboveAcknowledged(tx[t].network, sender.nonce)
             /\ \A u \in TxId : ~Marks(u)
             /\ \A u \in TxId :
                   tx[u].network = tx[t].network => tx[u].status # "broadcasting"
  BY <1>1, <1>8 DEF Signs, TypeOK, NonceInv, Marks, BroadcastInv, Gated, OnNetwork
<1>9. ASSUME NEW t \in TxId, tx'[t].status \in Acknowledged PROVE Visible(t)'
  <2>1. Visible(t)
    BY <1>1, <1>2, <1>7, <1>9, PayloadMoves DEF NonceInv
  <2>2. QED
    BY <1>3, <2>1
<1>10. ASSUME NEW t \in TxId, tx'[t].payload # NoPayload
       PROVE  PrefixVisible(tx[t].network, tx[t].payload)'
  <2>1. PICK k \in Nat : tx'[t].payload = k
    BY <1>6, <1>10
  <2>2. PICK n \in Network : tx'[t].network = n
    BY <1>6
  <2>3. PrefixVisible(n, k)
    <3>1. CASE tx'[t].payload = tx[t].payload /\ tx'[t].network = tx[t].network
      BY <1>1, <1>10, <2>1, <2>2, <3>1 DEF NonceInv
    <3>2. CASE Signs(t)
      BY <1>8, <2>1, <2>2, <3>2
    <3>3. QED
      BY <1>1, <1>2, <1>10, <3>1, <3>2, PayloadMoves
  <2>4. PrefixVisible(n, k)'
    BY <1>4, <2>3
  <2>5. QED
    BY <2>1, <2>2, <2>4 DEF PrefixVisible
<1>11. ASSUME NEW t \in TxId, tx'[t].status = "broadcasting"
       PROVE  AboveAcknowledged(tx[t].network, tx[t].payload)'
  <2>1. tx'[t].payload # NoPayload
    BY <1>2, <1>11 DEF RowsConsistent
  <2>2. PICK k \in Nat : tx'[t].payload = k
    BY <1>6, <2>1
  <2>3. PICK n \in Network : tx'[t].network = n
    BY <1>6
  <2>4. CASE Signs(t)
    <3>1. AboveAcknowledged(n, k) /\ \A u \in TxId : ~Marks(u)
      BY <1>8, <2>2, <2>3, <2>4
    <3>2. AboveAcknowledged(n, k)'
      BY <1>5, <3>1
    <3>3. QED
      BY <2>2, <2>3, <3>2 DEF AboveAcknowledged
  <2>5. CASE ~Signs(t)
    <3>1. tx[t].status = "broadcasting" /\ tx[t].network = n /\ tx[t].payload = k
      BY <1>1, <1>2, <1>11, <2>1, <2>2, <2>3, <2>5, BroadcastingRows, PayloadMoves
    <3>2. \A u \in TxId : tx[u].network = n => ~Marks(u)
      BY <1>7, <1>11, <3>1 DEF Marks
    <3>3. AboveAcknowledged(n, k)
      BY <1>1, <3>1 DEF NonceInv
    <3>4. AboveAcknowledged(n, k)'
      BY <1>5, <3>2, <3>3
    <3>5. QED
      BY <2>2, <2>3, <3>4 DEF AboveAcknowledged
  <2>6. QED
    BY <2>4, <2>5
<1>12. ASSUME NEW n \in Network, NEW k \in Nat, IsPendingNonce(n, k),
              \A t \in TxId : tx[t].network = n => ~Marks(t)
       PROVE  PrefixVisible(n, k)' /\ AboveAcknowledged(n, k)'
  BY <1>1, <1>4, <1>5, <1>12, PendingNonce
<1>13. ASSUME NEW n \in Network, cache'[n] # NoNonce
       PROVE  PrefixVisible(n, cache[n])' /\ AboveAcknowledged(n, cache[n])'
  <2>1. cache'[n] \in Nat /\ cache[n] \in Nat \cup {NoNonce}
    BY <1>1, <1>2, <1>13 DEF TypeOK
  <2>2. PICK k \in Nat : cache'[n] = k
    BY <2>1
  <2>3. cache[n] # NoNonce =>
           /\ cache[n] \in Nat
           /\ PrefixVisible(n, cache[n]) /\ AboveAcknowledged(n, cache[n])
    BY <1>1, <2>1 DEF NonceInv
  <2>4. CASE cache'[n] = cache[n] /\ \A t \in TxId : tx[t].network = n => ~Marks(t)
    <3>1. PrefixVisible(n, k) /\ AboveAcknowledged(n, k)
      BY <1>13, <2>2, <2>3, <2>4
    <3>2. QED
      BY <1>4, <1>5, <2>2, <2>4, <3>1
  <2>5. CASE IsPendingNonce(n, cache'[n]) /\ \A t \in TxId : ~Marks(t)
    BY <1>12, <2>2, <2>5
  <2>6. CASE /\ Marks(Current) /\ tx[Current].network = n
             /\ cache'[n] = Advanced(cache[n], tx[Current].payload)
    <3>1. Current \in TxId /\ Current = sender.t
      BY <1>1, <2>6 DEF TypeOK, Marks, Current
    <3>2. /\ tx[Current].status = "broadcasting" /\ Visible(Current)
          /\ tx[Current].payload # NoPayload
      BY <1>7, <2>6, <3>1
    <3>3. PICK p \in Nat : tx[Current].payload = p
      BY <1>6, <3>1, <3>2
    <3>4. PrefixVisible(n, p) /\ AboveAcknowledged(n, p)
      BY <1>1, <2>6, <3>1, <3>2, <3>3 DEF NonceInv
    <3>5. ASSUME NEW c \in Nat, p < c, PrefixVisible(n, c), AboveAcknowledged(n, c) \/ c = p + 1
          PROVE  PrefixVisible(n, c)' /\ AboveAcknowledged(n, c)'
      <4>1. PrefixVisible(n, c)'
        BY <1>4, <3>5
      <4>2. ASSUME NEW t \in TxId, tx'[t].network = n, tx'[t].status \in Acknowledged
            PROVE  tx'[t].payload < c
        <5>1. tx[t].status \in Acknowledged \/ Marks(t)
          BY <1>1, <1>2, <4>2, PayloadMoves
        <5>2. tx[t].payload # NoPayload
          BY <1>1, <1>7, <5>1 DEF RowsConsistent, Acknowledged
        <5>3. /\ tx'[t].payload = tx[t].payload /\ tx[t].network = n
              /\ tx[t].payload \in Nat
          BY <1>1, <1>2, <1>6, <4>2, <5>2, PayloadMoves
        <5>4. CASE tx[t].status \in Acknowledged
          <6>1. tx[t].payload < p /\ (AboveAcknowledged(n, c) => tx[t].payload < c)
            BY <3>4, <5>3, <5>4 DEF AboveAcknowledged, OnNetwork
          <6>2. QED
            BY <3>5, <5>3, <6>1
        <5>5. CASE Marks(t)
          <6>1. t = Current
            BY <5>5 DEF Marks, Current
          <6>2. QED
            BY <3>3, <3>5, <5>3, <6>1
        <5>6. QED
          BY <5>1, <5>4, <5>5
      <4>3. AboveAcknowledged(n, c)'
        BY <4>2 DEF AboveAcknowledged, OnNetwork
      <4>4. QED
        BY <4>1, <4>3
    <3>6. CASE k = p + 1
      <4>1. PrefixVisible(n, p + 1)
        <5>1. ASSUME NEW m \in 0 .. (p + 1) - 1
              PROVE  \E u \in TxId : Holds(n, u, m) /\ Visible(u)
          <6>1. CASE m = p
            BY <2>6, <3>1, <3>2, <3>3, <6>1 DEF Holds
          <6>2. CASE m # p
            <7>1. m \in 0 .. p - 1
              BY <6>2
            <7>2. QED
              BY <3>4, <7>1 DEF PrefixVisible
          <6>3. QED
            BY <6>1, <6>2
        <5>2. QED
          BY <5>1 DEF PrefixVisible
      <4>2. QED
        BY <2>2, <3>5, <3>6, <4>1
    <3>7. CASE k = cache[n] /\ p < k
      BY <2>2, <2>3, <3>5, <3>7 DEF NoNonce
    <3>8. k = p + 1 \/ (k = cache[n] /\ p < k)
      BY <2>1, <2>2, <2>6, <3>3 DEF Advanced, NoNonce
    <3>9. QED
      BY <3>6, <3>7, <3>8
  <2>7. QED
    BY <1>1, <1>13, <2>4, <2>5, <2>6, CacheMovesSo DEF CacheMoves
<1>14. SenderBrings
  BY <1>1, <1>2, SenderBringsSo
<1>15. ASSUME sender'.pc = "prepare"
       PROVE  /\ PrefixVisible(tx[sender.t].network, sender.nonce)'
              /\ AboveAcknowledged(tx[sender.t].network, sender.nonce)'
  <2>1. /\ sender'.t = sender.t /\ sender.t \in TxId /\ sender.pc # "mark"
        /\ Exists(tx[sender.t])
    BY <1>1, <1>14, <1>15 DEF SenderBrings, BroadcastInv, TypeOK
  <2>2. PICK k \in Nat : sender'.nonce = k
    BY <1>14, <1>15 DEF SenderBrings
  <2>3. PICK n \in Network : tx[sender.t].network = n
    BY <1>6, <2>1
  <2>4. tx'[sender.t].network = n
    BY <1>1, <1>2, <2>1, <2>3, RowStays
  <2>5. \A t \in TxId : ~Marks(t)
    BY <2>1 DEF Marks
  <2>6. PrefixVisible(n, k) /\ AboveAcknowledged(n, k)
    <3>1. CASE sender.pc = "prepare" /\ sender'.nonce = sender.nonce
      BY <1>1, <2>2, <2>3, <3>1 DEF NonceInv
    <3>2. CASE IsPendingNonce(n, k)
      BY <1>1, <3>2, PendingNonce
    <3>3. CASE k = cache[n]
      BY <1>1, <3>3 DEF NonceInv, NoNonce
    <3>4. QED
      BY <1>14, <1>15, <2>2, <2>3, <3>1, <3>2, <3>3 DEF SenderBrings
  <2>7. PrefixVisible(n, k)' /\ AboveAcknowledged(n, k)'
    BY <1>4, <1>5, <2>5, <2>6
  <2>8. QED
    BY <2>1, <2>2, <2>4, <2>7 DEF PrefixVisible, AboveAcknowledged
<1>16. ASSUME sender'.pc = "mark" PROVE Visible(sender.t)'
  <2>1. sender'.t = sender.t /\ sender.t \in TxId
    BY <1>1, <1>14, <1>16 DEF SenderBrings, TypeOK
  <2>2. sender.pc = "mark" \/ Visible(sender.t) \/ chain'[sender.t].st # "unseen"
    BY <1>14, <1>16, <2>1 DEF SenderBrings, Visible
  <2>3. Visible(sender.t) \/ chain'[sender.t].st # "unseen"
    BY <1>1, <2>2 DEF NonceInv
  <2>4. chain'[sender.t].st # "unseen"
    BY <1>3, <2>1, <2>3 DEF Visible
  <2>5. QED
    BY <2>1, <2>4 DEF Visible
<1>17. ASSUME NEW t \in TxId, NEW u \in TxId, tx'[t].payload # NoPayload, u # t,
              tx'[u].network = tx'[t].network, tx'[u].payload = tx'[t].payload
       PROVE  FALSE
  <2>1. ASSUME NEW a \in TxId, NEW b \in TxId, a # b, Signs(a), ~Signs(b),
               tx'[b].payload # NoPayload, tx'[b].network = tx'[a].network,
               tx'[b].payload = tx'[a].payload
        PROVE  FALSE
    <3>1. /\ tx[b].payload = sender.nonce /\ tx[b].payload # NoPayload
          /\ tx[b].network = tx[a].network
      BY <1>1, <1>2, <1>8, <2>1, PayloadMoves
    <3>2. tx[b].status \in Acknowledged
      BY <1>1, <1>8, <2>1, <3>1 DEF RowsConsistent, Acknowledged
    <3>3. tx[b].payload < sender.nonce
      BY <1>8, <2>1, <3>1, <3>2 DEF AboveAcknowledged, OnNetwork
    <3>4. QED
      BY <1>8, <2>1, <3>1, <3>3
  <2>2. CASE Signs(t) /\ Signs(u)
    BY <1>17, <2>2 DEF Signs
  <2>3. CASE ~Signs(t) /\ ~Signs(u)
    <3>1. /\ tx[t].payload # NoPayload /\ tx[u].network = tx[t].network
          /\ tx[u].payload = tx[t].payload
      BY <1>1, <1>2, <1>17, <2>3, PayloadMoves
    <3>2. QED
      BY <1>1, <1>17, <3>1 DEF NonceInv, NoncesDiffer, SameNonce
  <2>4. QED
    BY <1>17, <2>1, <2>2, <2>3
<1>18. NoncesDiffer'
  BY <1>17 DEF NoncesDiffer, SameNonce
<1>19. QED
  BY <1>9, <1>10, <1>11, <1>13, <1>15, <1>16, <1>18 DEF NonceInv

\* With no failure of an older release no row is signed at the start.
LEMMA NonceInit == NodeKeeps /\ Init => NonceInv
<1> SUFFICES ASSUME NodeKeeps, Init PROVE NonceInv
  OBVIOUS
<1>1. tx = [t \in TxId |-> AbsentRow]
  BY DEF NodeKeeps, Init
<1>2. \A t \in TxId : tx[t].status = "absent" /\ tx[t].payload = NoPayload
  BY <1>1 DEF AbsentRow
<1>3. sender.pc = "idle" /\ \A n \in Network : cache[n] = NoNonce
  BY DEF Init, Idle
<1>4. QED
  BY <1>2, <1>3 DEF NonceInv, NoncesDiffer, Acknowledged

\* Two payloads of a network never compete for a nonce, whatever crashes, failed calls
\* and reorganisations happen, as long as the node keeps what it accepted and every
\* answer of the database arrives (GetNonce, AdvanceNoncePast).
THEOREM NoncesNeverCompete ==
  ASSUME NodeKeeps
  PROVE  Spec => []NoncesDiffer
<1>1. Init => NonceInv
  BY NonceInit
<1>2. AttemptsInv /\ NonceInv /\ [Next]_vars => NonceInv'
  BY NonceStep DEF NodeAnswers, AttemptsInv
<1>3. NonceInv => NoncesDiffer
  BY DEF NonceInv
<1>4. QED
  BY <1>1, <1>2, <1>3, AttemptsInvariant, PTL DEF Spec

=============================================================================
