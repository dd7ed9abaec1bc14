----------------------- MODULE TransactionManagerProofs -----------------------
(***************************************************************************)
(* Proofs about TransactionManager, for every number of rows, networks,    *)
(* retries, confirmations and faults.                                      *)
(***************************************************************************)
EXTENDS TransactionManager, TLAPS

-----------------------------------------------------------------------------
(* Rows. *)

\* The row of an id that is not given out is a row.
LEMMA AbsentRowType == AbsentRow \in Row
  BY TableAssumption DEF AbsentRow, Row, Status, Message, TxId, NoRoot, NoPayload

\* Every conditional update turns a row into a row.
LEMMA UpdateType ==
  ASSUME NEW r \in Row
  PROVE  /\ ClaimedRow(r) \in Row
         /\ ReleasedRow(r) \in Row
         /\ \A nonce \in Nat : PreparedRow(r, nonce) \in Row
         /\ MarkedSentRow(r) \in Row
         /\ MarkedConfirmedRow(r) \in Row
         /\ FailedFromSentRow(r) \in Row
         /\ MarkedDelayedRow(r) \in Row
         /\ CancellationRequestedRow(r) \in Row
         /\ CancelledRow(r) \in Row
  <1>1. ClaimedRow(r) \in Row
    BY DEF ClaimedRow, Row, Status
  <1>2. ReleasedRow(r) \in Row
    BY DEF ReleasedRow, Row, Status, Message
  <1>3. \A nonce \in Nat : PreparedRow(r, nonce) \in Row
    BY DEF PreparedRow, Row, Status
  <1>4. MarkedSentRow(r) \in Row
    BY DEF MarkedSentRow, Row, Status
  <1>5. MarkedConfirmedRow(r) \in Row
    BY DEF MarkedConfirmedRow, Row, Status
  <1>6. FailedFromSentRow(r) \in Row
    BY DEF FailedFromSentRow, Row, Status, Message
  <1>7. MarkedDelayedRow(r) \in Row
    BY DEF MarkedDelayedRow, Row, Message
  <1>8. CancellationRequestedRow(r) \in Row
    BY DEF CancellationRequestedRow, Row, Message
  <1>9. CancelledRow(r) \in Row
    BY DEF CancelledRow, Row, Status
  <1> QED
    BY <1>1, <1>2, <1>3, <1>4, <1>5, <1>6, <1>7, <1>8, <1>9

\* The updates before a signature leave the row's place in its chain and what
\* is known of the chain alone.
LEMMA UnsignedUpdate ==
  ASSUME NEW q \in Row,
         NEW r \in {ReleasedRow(q), CancellationRequestedRow(q),
                    CancelledRow(q)}
  PROVE  /\ r.root = q.root
         /\ r.payload = q.payload
         /\ r.hasBlock = q.hasBlock
         /\ r.status = q.status \/ r.status \in {"pending", "cancelled"}
         /\ q.status \notin {"pending", "sending"} => r = q
         /\ q.payload # NoPayload => r = q
  <1>1. CASE r = ReleasedRow(q)
    BY <1>1 DEF ReleasedRow, Releasable, Row
  <1>2. CASE r = CancellationRequestedRow(q)
    BY <1>2 DEF CancellationRequestedRow, CancellationRequestable, Row
  <1>3. CASE r = CancelledRow(q)
    BY <1>3 DEF CancelledRow, Cancellable, Row
  <1> QED
    BY <1>1, <1>2, <1>3

\* A new payout and a retry are rows.
LEMMA InsertType ==
  ASSUME TypeOK
  PROVE  /\ \A n \in Network : NewTransaction(n) \in Row
         /\ \A t \in TxId : RetryOf(tx, t) \in Row
  <1>1. \A n \in Network : NewTransaction(n) \in Row
    BY AbsentRowType DEF NewTransaction, Row, Status
  <1>2. ASSUME NEW t \in TxId PROVE RetryOf(tx, t) \in Row
    <2>1. tx[t] \in Row
      BY DEF TypeOK
    <2>2. NewTransaction(tx[t].network) \in Row
      BY <1>1, <2>1 DEF Row
    <2>3. RootTransactionID(tx, t) \in TxId
      BY <2>1 DEF RootTransactionID, Row
    <2>4. tx[t].retryCount + 1 \in Nat
      BY <2>1 DEF Row
    <2>5. \A r \in Row, root \in TxId, k \in Nat :
             [r EXCEPT !.root = root, !.retryCount = k] \in Row
      BY DEF Row
    <2> QED
      BY <2>2, <2>3, <2>4, <2>5 DEF RetryOf
  <1> QED
    BY <1>1, <1>2

\* The start-up repair keeps the table a table.
LEMMA RecoveredType ==
  ASSUME TypeOK PROVE RecoveredTable(tx) \in [TxId -> Row]
  BY DEF TypeOK, RecoveredTable, Row, Status
-----------------------------------------------------------------------------
(* Type correctness. *)

\* The table is empty or a legacy table, and nothing runs yet.
LEMMA InitType == Init => TypeOK
  <1> SUFFICES ASSUME Init PROVE TypeOK
    OBVIOUS
  <1>1. tx \in [TxId -> Row]
    <2>1. ASSUME NEW n \in Network PROVE LegacyTable(n) \in [TxId -> Row]
      <3>1. NewTransaction(n) \in Row
        BY AbsentRowType DEF NewTransaction, Row, Status
      <3>2. \A r \in Row : [r EXCEPT !.status = "failed", !.payload = 0,
                                      !.message = "timedOut"] \in Row
        BY DEF Row, Status, Message
      <3>3. 1 \in TxId
        BY TableAssumption DEF TxId
      <3>4. \A r \in Row : [r EXCEPT !.root = 1, !.retryCount = 1] \in Row
        BY <3>3 DEF Row
      <3> QED
        BY <3>1, <3>2, <3>4, AbsentRowType DEF LegacyTable
    <2> QED
      BY <2>1, AbsentRowType DEF Init
  <1>2. chain \in [TxId -> ChainState]
    BY ManagerAssumption
    DEF Init, ChainState, Unseen, InPool, Depth, DepthCap
  <1>3. check \in [TxId -> [pc : CheckPc, ok : BOOLEAN, depth : Depth]]
    BY ManagerAssumption DEF Init, Quiet, CheckPc, Depth, DepthCap
  <1>4. cache \in [Network -> Nat \cup {NoNonce}]
    BY DEF Init
  <1>5. /\ sender \in [pc : SenderPc, t : TxId \cup {NoRoot},
                       nonce : Nat \cup {NoNonce}]
        /\ sender.pc = "idle"
    BY DEF Init, Idle, SenderPc
  <1>6. faults \in 0 .. MaxFaults
    BY ManagerAssumption DEF Init
  <1> QED
    BY <1>1, <1>2, <1>3, <1>4, <1>5, <1>6 DEF Init, TypeOK

\* A block, and the receipts read before it, stay within DepthCap.
LEMMA DeepenedType ==
  ASSUME TypeOK, NEW n \in Network
  PROVE  /\ Deepened(n) \in [TxId -> ChainState]
         /\ DeepenedChecks(n) \in
               [TxId -> [pc : CheckPc, ok : BOOLEAN, depth : Depth]]
  <1>1. \A d \in Depth : Deeper(d) \in Depth
    BY ManagerAssumption DEF Deeper, Depth, DepthCap
  <1> QED
    BY <1>1 DEF TypeOK, Deepened, DeepenedChecks, ChainState, Mined

\* Steps of the network.
LEMMA ChainTypeStep == TypeOK /\ ChainNext => TypeOK'
  <1> SUFFICES ASSUME TypeOK, ChainNext PROVE TypeOK'
    OBVIOUS
  <1>0. /\ Unseen \in ChainState
        /\ InPool \in ChainState
        /\ \A o \in {"ok", "reverted"} : [st |-> o, depth |-> 0] \in ChainState
    BY ManagerAssumption DEF Unseen, InPool, ChainState, Depth, DepthCap
  <1>1. ASSUME NEW n \in Network, EmptyBlock(n) PROVE TypeOK'
    BY <1>1, DeepenedType DEF EmptyBlock, TypeOK
  <1>2. ASSUME NEW n \in Network, NEW t \in TxId,
               NEW o \in {"ok", "reverted"}, MineTransaction(n, t, o)
        PROVE TypeOK'
    <2>1. chain' \in [TxId -> ChainState]
      BY <1>0, <1>2, DeepenedType DEF MineTransaction
    <2> QED
      BY <1>2, <2>1, DeepenedType DEF MineTransaction, TypeOK
  <1>3. ASSUME NEW n \in Network, NEW d \in 1 .. MaxReorg, Reorg(n, d)
        PROVE TypeOK'
    BY <1>0, <1>3, ManagerAssumption DEF Reorg, Fault, TypeOK
  <1>4. ASSUME NEW t \in TxId, DropFromPool(t) PROVE TypeOK'
    BY <1>0, <1>4, ManagerAssumption DEF DropFromPool, Fault, TypeOK
  <1> QED
    BY <1>1, <1>2, <1>3, <1>4 DEF ChainNext

\* Steps of the withdrawal processor.
LEMMA ProcessorTypeStep == TypeOK /\ ProcessorNext => TypeOK'
  <1> SUFFICES ASSUME TypeOK, ProcessorNext PROVE TypeOK'
    OBVIOUS
  <1>1. ASSUME NEW n \in Network, QueueTransaction(n) PROVE TypeOK'
    BY <1>1, InsertType DEF QueueTransaction, TypeOK
  <1>2. ASSUME NEW t \in TxId, RequestCancellation(t) PROVE TypeOK'
    BY <1>2, UpdateType DEF RequestCancellation, TypeOK
  <1>3. ASSUME NEW t \in TxId, CancelRequestedUnbroadcasted(t) PROVE TypeOK'
    BY <1>3, UpdateType DEF CancelRequestedUnbroadcasted, TypeOK
  <1> QED
    BY <1>1, <1>2, <1>3 DEF ProcessorNext

\* Steps of the sender.
LEMMA SenderTypeStep == TypeOK /\ Sender => TypeOK'
  <1> SUFFICES ASSUME TypeOK, Sender PROVE TypeOK'
    OBVIOUS
  <1> USE ManagerAssumption DEF Fault, NoFault, Done, Goto, Idle, Current, NoRoot
  <1>1. ASSUME NEW t \in TxId, SenderSync(t) PROVE TypeOK'
    BY <1>1 DEF SenderSync, TypeOK, SenderPc, NoNonce
  <1>2. CASE SenderGate
    BY <1>2 DEF SenderGate, TypeOK, SenderPc, NoNonce
  <1>3. CASE SenderClaim
    BY <1>3, UpdateType DEF SenderClaim, TypeOK, SenderPc, NoNonce
  <1>4. CASE SenderLimit
    BY <1>4 DEF SenderLimit, TypeOK, SenderPc, NoNonce
  <1>5. CASE SenderBuild
    <2>1. PICK nonce \in 0 .. MaxTx :
             \/ /\ sender' = [sender EXCEPT !.pc = "prepare", !.nonce = nonce]
                /\ cache' = [cache EXCEPT ![tx[Current].network] = nonce]
                /\ NoFault
             \/ /\ Fault("rpc")
                /\ Goto("release")
                /\ \E c \in {cache[tx[Current].network], nonce, NoNonce} :
                      cache' = [cache EXCEPT ![tx[Current].network] = c]
      BY <1>5 DEF SenderBuild
    <2>2. nonce \in Nat
      BY TableAssumption
    <2>3. tx[Current].network \in Network
      BY <1>5 DEF SenderBuild, TypeOK, Row
    <2>4. cache' \in [Network -> Nat \cup {NoNonce}]
      BY <2>1, <2>2, <2>3 DEF TypeOK
    <2>5. faults' \in 0 .. MaxFaults
      BY <2>1 DEF TypeOK
    <2>6. /\ sender' \in [pc : SenderPc, t : TxId \cup {NoRoot},
                          nonce : Nat \cup {NoNonce}]
          /\ sender'.t \in TxId
          /\ sender'.pc = "prepare" => sender'.nonce \in Nat
      BY <1>5, <2>1, <2>2 DEF SenderBuild, TypeOK, SenderPc
    <2> QED
      BY <1>5, <2>4, <2>5, <2>6 DEF SenderBuild, TypeOK
  <1>6. CASE SenderPrepare
    <2>1. Current \in TxId /\ sender.nonce \in Nat
      BY <1>6 DEF SenderPrepare, TypeOK
    <2>2. tx' \in [TxId -> Row]
      <3>1. PreparedRow(tx[Current], sender.nonce) \in Row
        BY <2>1, UpdateType DEF TypeOK
      <3> QED
        BY <1>6, <3>1 DEF SenderPrepare, TypeOK
    <2>3. /\ sender' \in [pc : SenderPc, t : TxId \cup {NoRoot},
                          nonce : Nat \cup {NoNonce}]
          /\ sender'.t \in TxId
          /\ sender'.pc # "prepare"
      BY <1>6, <2>1 DEF SenderPrepare, TypeOK, SenderPc
    <2> QED
      BY <1>6, <2>2, <2>3 DEF SenderPrepare, TypeOK
  <1>7. CASE SenderRelease
    BY <1>7, UpdateType DEF SenderRelease, TypeOK, SenderPc, NoNonce
  <1>8. CASE SenderSend
    <2>1. chain' \in [TxId -> ChainState]
      BY <1>8 DEF SenderSend, TypeOK, ChainState, Unseen, InPool, Depth, DepthCap
    <2>2. cache' \in [Network -> Nat \cup {NoNonce}]
      BY <1>8 DEF SenderSend, TypeOK
    <2> QED
      BY <1>8, <2>1, <2>2 DEF SenderSend, TypeOK, SenderPc
  <1>9. CASE SenderCheck
    BY <1>9 DEF SenderCheck, TypeOK, SenderPc, NoNonce
  <1>10. CASE SenderLook
    BY <1>10 DEF SenderLook, TypeOK, SenderPc, NoNonce
  <1>11. CASE SenderMark
    <2>1. Current \in TxId
      BY <1>11 DEF SenderMark, TypeOK
    <2>2. tx' \in [TxId -> Row]
      BY <1>11, <2>1, UpdateType DEF SenderMark, TypeOK
    <2>3. cache' \in [Network -> Nat \cup {NoNonce}]
      BY <1>11, <2>1
      DEF SenderMark, TypeOK, Advanced, Row, NoNonce, NoPayload
    <2> QED
      BY <1>11, <2>2, <2>3 DEF SenderMark, TypeOK, SenderPc, NoNonce
  <1> QED
    BY <1>1, <1>2, <1>3, <1>4, <1>5, <1>6, <1>7, <1>8, <1>9, <1>10, <1>11
    DEF Sender

\* The failure of a row and its retry keep the table a table.
LEMMA FailAndRetryType ==
  ASSUME TypeOK, NEW t \in TxId, FailAndRetry(t)
  PROVE  tx' \in [TxId -> Row]
  BY UpdateType, InsertType DEF FailAndRetry, TypeOK

\* Steps of the confirmer.
LEMMA ConfirmerTypeStep == TypeOK /\ Confirmer => TypeOK'
  <1> SUFFICES ASSUME TypeOK, Confirmer PROVE TypeOK'
    OBVIOUS
  <1> USE ManagerAssumption DEF Fault, NoFault
  <1> DEFINE Checks == [pc : CheckPc, ok : BOOLEAN, depth : Depth]
  <1>0. Quiet \in Checks
    BY DEF Quiet, CheckPc, Depth, DepthCap
  <1>1. CASE ConfirmerPoll
    BY <1>1 DEF ConfirmerPoll, TypeOK
  <1>2. ASSUME NEW t \in TxId, ConfirmerEnqueue(t) PROVE TypeOK'
    BY <1>2 DEF ConfirmerEnqueue, TypeOK, CheckPc
  <1>3. ASSUME NEW t \in TxId, ConfirmerReceipt(t) PROVE TypeOK'
    <2>1. \A c \in Checks : [c EXCEPT !.pc = "late"] \in Checks
      BY DEF CheckPc
    <2>2. [pc |-> "header", ok |-> chain[t].st = "ok", depth |-> chain[t].depth]
             \in Checks
      <3>1. chain[t] \in ChainState
        BY DEF TypeOK
      <3> QED
        BY <3>1 DEF CheckPc, ChainState
    <2>3. check' \in [TxId -> Checks]
      <3>1. check \in [TxId -> Checks]
        BY DEF TypeOK
      <3> HIDE DEF Checks
      <3> QED
        BY <1>0, <1>3, <2>1, <2>2, <3>1 DEF ConfirmerReceipt, CheckEnds
    <2> QED
      BY <1>3, <2>3 DEF ConfirmerReceipt, TypeOK
  <1>4. ASSUME NEW t \in TxId, ConfirmerHeader(t) PROVE TypeOK'
    <2>1. \A c \in Checks : [c EXCEPT !.pc = "apply"] \in Checks
      BY DEF CheckPc
    <2>2. check' \in [TxId -> Checks]
      BY <1>0, <1>4, <2>1 DEF ConfirmerHeader, CheckEnds, TypeOK
    <2> QED
      BY <1>4, <2>2 DEF ConfirmerHeader, TypeOK
  <1>5. ASSUME NEW t \in TxId, ConfirmerApply(t) PROVE TypeOK'
    <2>1. tx' \in [TxId -> Row]
      BY <1>5, UpdateType, FailAndRetryType DEF ConfirmerApply, TypeOK
    <2>2. check' \in [TxId -> Checks]
      BY <1>0, <1>5 DEF ConfirmerApply, CheckEnds, TypeOK
    <2>3. faults' \in 0 .. MaxFaults
      BY <1>5 DEF ConfirmerApply, TypeOK
    <2> QED
      BY <1>5, <2>1, <2>2, <2>3 DEF ConfirmerApply, TypeOK
  <1>6. ASSUME NEW t \in TxId, ConfirmerDelayed(t) PROVE TypeOK'
    BY <1>0, <1>6, UpdateType DEF ConfirmerDelayed, CheckEnds, TypeOK
  <1> QED
    BY <1>1, <1>2, <1>3, <1>4, <1>5, <1>6 DEF Confirmer

\* A crash and a start.
LEMMA ProcessTypeStep == TypeOK /\ (Crash \/ Start) => TypeOK'
  <1> SUFFICES ASSUME TypeOK, Crash \/ Start PROVE TypeOK'
    OBVIOUS
  <1>1. CASE Crash
    <2>1. check' \in [TxId -> [pc : CheckPc, ok : BOOLEAN, depth : Depth]]
      BY <1>1, ManagerAssumption
      DEF Crash, Quiet, CheckPc, Depth, DepthCap
    <2>2. cache' \in [Network -> Nat \cup {NoNonce}]
      BY <1>1 DEF Crash
    <2>3. /\ sender' \in [pc : SenderPc, t : TxId \cup {NoRoot},
                          nonce : Nat \cup {NoNonce}]
          /\ sender'.pc = "idle"
      BY <1>1 DEF Crash, Idle, SenderPc
    <2>4. faults' \in 0 .. MaxFaults
      BY <1>1, ManagerAssumption DEF Crash, Fault, TypeOK
    <2> QED
      BY <1>1, <2>1, <2>2, <2>3, <2>4 DEF Crash, TypeOK
  <1>2. CASE Start
    BY <1>2, RecoveredType DEF Start, TypeOK
  <1> QED
    BY <1>1, <1>2

\* Every step keeps the types.
LEMMA TypeStep == TypeOK /\ [Next]_vars => TypeOK'
  <1>1. TypeOK /\ UNCHANGED vars => TypeOK'
    BY DEF TypeOK, vars
  <1> QED
    BY <1>1, ChainTypeStep, ProcessorTypeStep, SenderTypeStep,
       ConfirmerTypeStep, ProcessTypeStep DEF Next

\* The table, the chain, the nonce cache, the sender's and the confirmer's
\* progress have their types in every reachable state.
THEOREM TypeCorrect == Spec => []TypeOK
  BY InitType, TypeStep, PTL DEF Spec

-----------------------------------------------------------------------------
(* The table, whatever the chain does: TableInv is inductive.              *)

\* Statuses that go with a payload.
Signed == {"broadcasting", "sent", "confirmed", "failed"}

\* Updates that neither insert, claim nor decide: rows keep their place in
\* their chain and rows with an outcome do not change.
RowsKept ==
  \A t \in TxId :
    /\ tx'[t].root = tx[t].root
    /\ tx'[t].status = "absent" <=> tx[t].status = "absent"
    /\ tx'[t].hasBlock = tx[t].hasBlock
    /\ tx[t].hasBlock => tx'[t] = tx[t]
    /\ tx'[t].payload # NoPayload <=> tx'[t].status \in Signed
    /\ tx[t].payload # NoPayload => tx'[t].payload # NoPayload
    /\ tx'[t].status = "confirmed" => tx'[t].hasBlock
    /\ tx'[t].status = "sending" \/ tx'[t].payload # NoPayload =>
          tx[t].status = "sending" \/ tx[t].payload # NoPayload

\* Such an update keeps the two parts of TableInv that are about rows.
LEMMA KeptRows ==
  ASSUME TypeOK, RowsConsistent, RetryOnlyAfterProof, RowsKept
  PROVE  RowsConsistent' /\ RetryOnlyAfterProof'
  <1>1. RowsConsistent'
    BY DEF RowsConsistent, RowsKept, Signed
  <1>2. ASSUME NEW t \in TxId, NEW a \in TxId, SameChain(t, a)', a < t,
               (tx[t].status = "sending" \/ tx[t].payload # NoPayload)'
        PROVE  IsProvenOnChainFailure(tx[a])'
    <2>1. SameChain(t, a)
      BY <1>2 DEF SameChain, RootTransactionID, Exists, RowsKept
    <2>2. tx[t].status = "sending" \/ tx[t].payload # NoPayload
      BY <1>2 DEF RowsKept
    <2>3. IsProvenOnChainFailure(tx[a])
      BY <1>2, <2>1, <2>2 DEF RetryOnlyAfterProof
    <2> QED
      BY <2>3 DEF IsProvenOnChainFailure, RowsKept
  <1> QED
    BY <1>1, <1>2 DEF RetryOnlyAfterProof

\* An update before a signature is one.
LEMMA UnsignedKeeps ==
  ASSUME TypeOK, RowsConsistent, NEW t \in TxId,
         NEW r \in {ReleasedRow(tx[t]), CancellationRequestedRow(tx[t]),
                    CancelledRow(tx[t])},
         tx' = [tx EXCEPT ![t] = r]
  PROVE  RowsKept
  <1>1. tx'[t] = r /\ \A v \in TxId : v # t => tx'[v] = tx[v]
    BY DEF TypeOK
  <1>2. tx[t] \in Row
    BY DEF TypeOK
  <1>3. /\ r.root = tx[t].root
        /\ r.payload = tx[t].payload
        /\ r.hasBlock = tx[t].hasBlock
        /\ r.status = tx[t].status \/ r.status \in {"pending", "cancelled"}
        /\ tx[t].status \notin {"pending", "sending"} => r = tx[t]
    BY <1>2, UnsignedUpdate
  <1>4. \A v \in TxId : tx[v].hasBlock => tx[v].status \in {"confirmed", "failed"}
    BY DEF RowsConsistent
  <1>5. CASE r = tx[t]
    BY <1>1, <1>5 DEF RowsKept, Signed, RowsConsistent
  <1>6. CASE tx[t].status \in {"pending", "sending"}
    BY <1>1, <1>3, <1>4, <1>6 DEF RowsKept, Signed, RowsConsistent
  <1> QED
    BY <1>3, <1>5, <1>6

\* The initial table: no row, or a failed root and its unsigned retry.
LEMMA InitTable == Init => TableInv
  <1> SUFFICES ASSUME Init PROVE TableInv
    OBVIOUS
  <1>1. TypeOK
    BY InitType
  <1>2. RowsConsistent /\ RetryOnlyAfterProof
    <2>1. CASE tx = [t \in TxId |-> AbsentRow]
      BY <2>1 DEF RowsConsistent, RetryOnlyAfterProof, SameChain, Exists,
                  AbsentRow, NoRoot, NoPayload, TxId
    <2>2. ASSUME NEW n \in Network, tx = LegacyTable(n)
          PROVE  RowsConsistent /\ RetryOnlyAfterProof
      <3>0. /\ AbsentRow \in Row
            /\ NewTransaction(n) = [AbsentRow EXCEPT !.status = "pending",
                                                     !.network = n]
            /\ AbsentRow.root = 0
            /\ AbsentRow.payload = -1
            /\ AbsentRow.status = "absent"
            /\ AbsentRow.hasBlock = FALSE
        BY AbsentRowType DEF AbsentRow, NewTransaction, NoRoot, NoPayload
      <3>1. \A t \in TxId :
               /\ tx[t].root = (IF t = 2 THEN 1 ELSE 0)
               /\ tx[t].payload = (IF t = 1 THEN 0 ELSE -1)
               /\ tx[t].status = (IF t = 1 THEN "failed" ELSE
                                  IF t = 2 THEN "pending" ELSE "absent")
               /\ tx[t].hasBlock = FALSE
        BY <2>2, <3>0 DEF LegacyTable, Row
      <3>2. RowsConsistent
        BY <3>1 DEF RowsConsistent, NoPayload, TxId
      <3>3. RetryOnlyAfterProof
        BY <3>1 DEF RetryOnlyAfterProof, NoPayload, TxId
      <3> QED
        BY <3>2, <3>3
    <2> QED
      BY <2>1, <2>2 DEF Init
  <1>3. PayloadFirst
    <2>0. sender.pc = "idle"
      BY DEF Init, Idle
    <2>1. CASE chain = [t \in TxId |-> Unseen]
      BY <2>0, <2>1 DEF PayloadFirst, Visible, Unseen
    <2>2. ASSUME NEW n \in Network, tx = LegacyTable(n),
                 NEW c, chain = [t \in TxId |-> IF t = 1 THEN c ELSE Unseen]
          PROVE  PayloadFirst
      <3>1. \A t \in TxId : t = 1 => tx[t].payload = 0
        BY <2>2 DEF LegacyTable, NewTransaction, AbsentRow
      <3>2. \A t \in TxId : Visible(t) => t = 1
        BY <2>2 DEF Visible, Unseen
      <3> QED
        BY <2>0, <3>1, <3>2 DEF PayloadFirst, NoPayload
    <2> QED
      BY <2>1, <2>2 DEF Init
  <1> QED
    BY <1>1, <1>2, <1>3 DEF TableInv

\* Steps of the network leave the table alone and show the node nothing new.
LEMMA ChainTableStep == TableInv /\ ChainNext => TableInv'
  <1> SUFFICES ASSUME TableInv, ChainNext PROVE TableInv'
    OBVIOUS
  <1>1. TypeOK'
    BY ChainTypeStep DEF TableInv
  <1>2. tx' = tx /\ sender' = sender
    BY DEF ChainNext, EmptyBlock, MineTransaction, Reorg, DropFromPool
  <1>3. RowsConsistent' /\ RetryOnlyAfterProof'
    BY <1>2 DEF TableInv, RowsConsistent, RetryOnlyAfterProof, SameChain,
                Exists, RootTransactionID, IsProvenOnChainFailure,
                IsReceiptTimeoutFailure
  <1>4. ASSUME NEW u \in TxId, Visible(u)' PROVE Visible(u)
    <2>1. ASSUME NEW n \in Network, EmptyBlock(n) PROVE Visible(u)
      BY <1>4, <2>1 DEF EmptyBlock, Deepened, Mined, Visible
    <2>2. ASSUME NEW n \in Network, NEW t \in TxId, NEW o,
                 MineTransaction(n, t, o)
          PROVE  Visible(u)
      BY <1>4, <2>2
      DEF MineTransaction, NextToMine, Deepened, Mined, Visible, Unseen
    <2>3. ASSUME NEW n \in Network, NEW d, Reorg(n, d) PROVE Visible(u)
      BY <1>4, <2>3 DEF Reorg, Mined, Visible
    <2>4. ASSUME NEW t \in TxId, DropFromPool(t) PROVE Visible(u)
      BY <1>4, <2>4 DEF DropFromPool, Visible, Unseen, TableInv, TypeOK
    <2> QED
      BY <2>1, <2>2, <2>3, <2>4 DEF ChainNext
  <1>5. PayloadFirst'
    BY <1>2, <1>4 DEF TableInv, PayloadFirst
  <1> QED
    BY <1>1, <1>3, <1>5 DEF TableInv

\* A row inserted in the place of an id not given out, whose root is an older
\* row or none, keeps the rows consistent and is not yet a signed retry.
LEMMA InsertedRow ==
  ASSUME TypeOK, RowsConsistent, RetryOnlyAfterProof, TypeOK',
         NEW u \in TxId, IsNextId(tx, u),
         NEW r, r.root < u, r.status = "pending", r.payload = NoPayload,
         r.hasBlock = FALSE,
         tx' = [tx EXCEPT ![u] = r]
  PROVE  RowsConsistent' /\ RetryOnlyAfterProof'
  <1>1. tx'[u] = r /\ \A t \in TxId : t # u => tx'[t] = tx[t]
    BY DEF TypeOK
  <1>2. \A t \in TxId : u < t => tx[t].status = "absent"
    BY DEF RowsConsistent, IsNextId
  <1>3. RowsConsistent'
    <2>1. ASSUME NEW t \in TxId, NEW v \in TxId, t < v,
                 tx'[t].status = "absent"
          PROVE  tx'[v].status = "absent"
      BY <1>1, <2>1 DEF RowsConsistent, IsNextId, TxId
    <2> QED
      BY <1>1, <2>1 DEF RowsConsistent
  <1>4. ASSUME NEW t \in TxId, NEW a \in TxId, SameChain(t, a)', a < t,
               (tx[t].status = "sending" \/ tx[t].payload # NoPayload)'
        PROVE  IsProvenOnChainFailure(tx[a])'
    <2>1. t # u
      BY <1>1, <1>4
    <2>2. a # u
      BY <1>1, <1>2, <1>4, <2>1 DEF SameChain, Exists
    <2>3. SameChain(t, a)
      BY <1>1, <1>4, <2>1, <2>2 DEF SameChain, Exists, RootTransactionID
    <2>4. IsProvenOnChainFailure(tx[a])
      BY <1>1, <1>4, <2>1, <2>3 DEF RetryOnlyAfterProof
    <2> QED
      BY <1>1, <2>2, <2>4 DEF IsProvenOnChainFailure, IsReceiptTimeoutFailure
  <1> QED
    BY <1>3, <1>4 DEF RetryOnlyAfterProof

\* Steps of the withdrawal processor.
LEMMA ProcessorTableStep == TableInv /\ ProcessorNext => TableInv'
  <1> SUFFICES ASSUME TableInv, ProcessorNext PROVE TableInv'
    OBVIOUS
  <1>1. TypeOK /\ TypeOK'
    BY ProcessorTypeStep DEF TableInv
  <1>2. chain' = chain /\ sender' = sender
    BY DEF ProcessorNext, QueueTransaction, RequestCancellation,
           CancelRequestedUnbroadcasted
  <1>3. ASSUME NEW n \in Network, QueueTransaction(n) PROVE TableInv'
    <2>1. PICK u \in TxId : /\ IsNextId(tx, u)
                            /\ tx' = [tx EXCEPT ![u] = NewTransaction(n)]
      BY <1>3 DEF QueueTransaction
    <2>2. /\ NewTransaction(n).root < u
          /\ NewTransaction(n).status = "pending"
          /\ NewTransaction(n).payload = NoPayload
          /\ NewTransaction(n).hasBlock = FALSE
      BY DEF NewTransaction, AbsentRow, NoRoot, TxId
    <2>3. RowsConsistent' /\ RetryOnlyAfterProof'
      BY <1>1, <2>1, <2>2, InsertedRow DEF TableInv
    <2>4. \A t \in TxId : tx[t].payload # NoPayload => tx'[t] = tx[t]
      BY <2>1 DEF TableInv, TypeOK, RowsConsistent, IsNextId
    <2>5. PayloadFirst'
      BY <1>1, <1>2, <2>4 DEF TableInv, TypeOK, PayloadFirst, Visible
    <2> QED
      BY <1>1, <2>3, <2>5 DEF TableInv
  <1>4. ASSUME NEW t \in TxId,
               RequestCancellation(t) \/ CancelRequestedUnbroadcasted(t)
        PROVE  TableInv'
    <2>1. /\ tx[t].payload = NoPayload
          /\ tx[t].status \in {"pending", "sending"}
      BY <1>4 DEF RequestCancellation, CancellationRequestable,
                  CancelRequestedUnbroadcasted, Cancellable
    <2>2. PICK r \in {CancellationRequestedRow(tx[t]), CancelledRow(tx[t])} :
             tx' = [tx EXCEPT ![t] = r]
      BY <1>4 DEF RequestCancellation, CancelRequestedUnbroadcasted
    <2>4. RowsKept
      BY <1>1, <2>2, UnsignedKeeps DEF TableInv
    <2>5. RowsConsistent' /\ RetryOnlyAfterProof'
      BY <1>1, <2>4, KeptRows DEF TableInv
    <2>6. PayloadFirst'
      BY <1>1, <1>2, <2>1, <2>2 DEF TableInv, PayloadFirst, Visible, TypeOK
    <2> QED
      BY <1>1, <2>5, <2>6 DEF TableInv
  <1> QED
    BY <1>3, <1>4 DEF ProcessorNext

\* The claim: by its ancestors check a retry joins the rows that may be signed
\* only when every older row of its chain has a final receipt.
LEMMA ClaimedKeeps ==
  ASSUME TypeOK, RowsConsistent, RetryOnlyAfterProof, NEW t \in TxId,
         RetryAncestorsSafe(tx, t), Claimable(tx[t]),
         tx' = [tx EXCEPT ![t] = ClaimedRow(tx[t])]
  PROVE  RowsConsistent' /\ RetryOnlyAfterProof'
  <1>1. /\ tx'[t].status = "sending"
        /\ tx'[t].payload = NoPayload
        /\ tx'[t].hasBlock = tx[t].hasBlock
        /\ tx'[t].root = tx[t].root
        /\ \A v \in TxId : v # t => tx'[v] = tx[v]
    BY DEF TypeOK, ClaimedRow, Claimable, Row
  <1>2. tx[t].status = "pending" /\ ~tx[t].hasBlock
    BY DEF Claimable, RowsConsistent
  <1>3. RowsConsistent'
    BY <1>1, <1>2 DEF RowsConsistent
  <1>4. ASSUME NEW u \in TxId, NEW a \in TxId, SameChain(u, a)', a < u,
               (tx[u].status = "sending" \/ tx[u].payload # NoPayload)'
        PROVE  IsProvenOnChainFailure(tx[a])'
    <2>1. SameChain(u, a)
      BY <1>1, <1>2, <1>4 DEF SameChain, Exists, RootTransactionID
    <2>2. IsProvenOnChainFailure(tx[a])
      <3>1. CASE u = t
        <4>1. tx[t].root # NoRoot
          BY <1>4, <2>1, <3>1 DEF SameChain, RootTransactionID, RowsConsistent,
                                  TxId, TypeOK, Row
        <4>2. a \in Chain(tx, tx[t].root)
          BY <2>1, <3>1, <4>1 DEF Chain, SameChain, RootTransactionID
        <4> QED
          BY <1>4, <3>1, <4>1, <4>2 DEF RetryAncestorsSafe
      <3>2. CASE u # t
        BY <1>1, <1>4, <2>1, <3>2 DEF RetryOnlyAfterProof
      <3> QED
        BY <3>1, <3>2
    <2>3. a # t
      BY <1>2, <2>2 DEF IsProvenOnChainFailure
    <2> QED
      BY <1>1, <2>2, <2>3 DEF IsProvenOnChainFailure, IsReceiptTimeoutFailure
  <1> QED
    BY <1>3, <1>4 DEF RetryOnlyAfterProof

\* Where the sender goes next.
LEMMA SenderMoves ==
  ASSUME TypeOK
  PROVE  /\ \A pc : Goto(pc) => sender'.pc = pc /\ sender'.t = sender.t
         /\ Done => sender'.pc = "idle"
  <1>1. /\ DOMAIN sender = {"pc", "t", "nonce"}
        /\ sender = [x \in DOMAIN sender |-> sender[x]]
    BY DEF TypeOK
  <1>2. ASSUME NEW pc, Goto(pc) PROVE sender'.pc = pc /\ sender'.t = sender.t
    BY <1>1, <1>2 DEF Goto
  <1>3. Done => sender'.pc = "idle"
    BY DEF Done, Idle
  <1> QED
    BY <1>2, <1>3

\* Steps of the sender.
LEMMA SenderTableStep == TableInv /\ Sender => TableInv'
  <1> SUFFICES ASSUME TableInv, Sender PROVE TableInv'
    OBVIOUS
  <1>1. TypeOK /\ TypeOK' /\ RowsConsistent /\ PayloadFirst /\ RetryOnlyAfterProof
    BY SenderTypeStep DEF TableInv
  <1> DEFINE Rest == RowsConsistent' /\ RetryOnlyAfterProof' /\ PayloadFirst'
  <1> SUFFICES Rest
    BY <1>1 DEF TableInv
  <1> DEFINE AtNode == {"send", "check", "look", "mark"}
  <1>2. ASSUME tx' = tx, chain' = chain,
               sender'.pc \in AtNode => tx[sender'.t].payload # NoPayload
        PROVE  Rest
    BY <1>1, <1>2
    DEF RowsConsistent, RetryOnlyAfterProof, PayloadFirst, SameChain, Exists,
        RootTransactionID, IsProvenOnChainFailure, IsReceiptTimeoutFailure,
        Visible
  <1>3. ASSUME chain' = chain, sender'.pc \notin AtNode,
               RowsConsistent' /\ RetryOnlyAfterProof',
               \A t \in TxId :
                  tx[t].payload # NoPayload => tx'[t].payload # NoPayload
        PROVE  Rest
    BY <1>1, <1>3 DEF PayloadFirst, Visible
  <1>4. ASSUME NEW t \in TxId, SenderSync(t) PROVE Rest
    BY <1>1, <1>2, <1>4 DEF SenderSync, Idle
  <1>5. CASE SenderGate \/ SenderLimit \/ SenderBuild
    <2>1. sender'.pc \notin AtNode
      <3>1. CASE SenderGate \/ SenderLimit
        BY <1>1, SenderMoves, <3>1 DEF SenderGate, SenderLimit
      <3>2. CASE SenderBuild
        <4>1. CASE Goto("release")
          BY <1>1, SenderMoves, <4>1
        <4>2. ASSUME NEW nonce,
                     sender' = [sender EXCEPT !.pc = "prepare", !.nonce = nonce]
              PROVE  sender'.pc = "prepare"
          BY <1>1, <4>2 DEF TypeOK
        <4> QED
          BY <3>2, <4>1, <4>2 DEF SenderBuild
      <3> QED
        BY <1>5, <3>1, <3>2
    <2> QED
      BY <1>2, <1>5, <2>1 DEF SenderGate, SenderLimit, SenderBuild
  <1>6. CASE SenderClaim
    <2>1. sender'.pc \notin AtNode /\ chain' = chain
      BY <1>1, SenderMoves, <1>6 DEF SenderClaim
    <2>2. CASE tx' = tx
      BY <1>2, <2>1, <2>2
    <2>3. CASE /\ RetryAncestorsSafe(tx, Current)
               /\ Claimable(tx[Current])
               /\ tx' = [tx EXCEPT ![Current] = ClaimedRow(@)]
      <3>1. Current \in TxId
        BY <1>1, <1>6 DEF SenderClaim, Current, TypeOK
      <3>2. RowsConsistent' /\ RetryOnlyAfterProof'
        BY <1>1, <2>3, <3>1, ClaimedKeeps
      <3>3. \A t \in TxId : tx[t].payload # NoPayload => tx'[t] = tx[t]
        BY <1>1, <2>3, <3>1 DEF Claimable, TypeOK
      <3> QED
        BY <1>3, <2>1, <3>2, <3>3
    <2> QED
      BY <1>6, <2>2, <2>3 DEF SenderClaim
  <1>7. CASE SenderPrepare
    <2>1. /\ Current \in TxId
          /\ sender.nonce \in Nat
          /\ chain' = chain
          /\ sender'.t = Current
      BY <1>1, SenderMoves, <1>7 DEF SenderPrepare, Current, TypeOK
    <2>2. CASE tx' = tx /\ sender'.pc = "release"
      BY <1>2, <2>1, <2>2
    <2>3. CASE /\ Preparable(tx[Current])
               /\ tx' = [tx EXCEPT ![Current] = PreparedRow(@, sender.nonce)]
      <3>1. /\ tx'[Current].status = "broadcasting"
            /\ tx'[Current].payload = sender.nonce
            /\ tx'[Current].root = tx[Current].root
            /\ tx'[Current].hasBlock = tx[Current].hasBlock
            /\ \A t \in TxId : t # Current => tx'[t] = tx[t]
        BY <1>1, <2>1, <2>3 DEF PreparedRow, TypeOK, Row
      <3>2. tx[Current].status = "sending" /\ ~tx[Current].hasBlock
        BY <1>1, <2>1, <2>3 DEF Preparable, RowsConsistent
      <3>3. RowsKept
        BY <1>1, <2>1, <3>1, <3>2 DEF RowsKept, Signed, RowsConsistent, NoPayload
      <3>4. RowsConsistent' /\ RetryOnlyAfterProof'
        BY <1>1, <3>3, KeptRows
      <3>5. PayloadFirst'
        BY <1>1, <2>1, <3>1 DEF PayloadFirst, Visible, NoPayload
      <3> QED
        BY <3>4, <3>5
    <2> QED
      BY <1>1, SenderMoves, <1>7, <2>2, <2>3 DEF SenderPrepare
  <1>8. CASE SenderRelease
    <2>1. /\ Current \in TxId
          /\ sender'.pc \notin AtNode
          /\ chain' = chain
      BY <1>1, SenderMoves, <1>8 DEF SenderRelease, Current, TypeOK
    <2>2. CASE tx' = tx
      BY <1>2, <2>1, <2>2
    <2>3. CASE tx' = [tx EXCEPT ![Current] = ReleasedRow(@)]
      <3>1. RowsKept
        BY <1>1, <2>1, <2>3, UnsignedKeeps
      <3> QED
        BY <1>1, <1>3, <2>1, <3>1, KeptRows DEF RowsKept
    <2> QED
      BY <1>8, <2>2, <2>3 DEF SenderRelease
  <1>9. CASE SenderSend
    <2>1. /\ tx' = tx
          /\ Current \in TxId
          /\ sender'.t = Current
          /\ tx[Current].payload # NoPayload
      BY <1>1, SenderMoves, <1>9 DEF SenderSend, Current, TypeOK, PayloadFirst
    <2>2. \A t \in TxId : Visible(t)' => Visible(t) \/ t = Current
      BY <1>1, <1>9 DEF SenderSend, Visible, Unseen, TypeOK
    <2>3. PayloadFirst'
      BY <1>1, <2>1, <2>2 DEF PayloadFirst
    <2>4. RowsConsistent' /\ RetryOnlyAfterProof'
      BY <1>1, <2>1
      DEF RowsConsistent, RetryOnlyAfterProof, SameChain, Exists,
          RootTransactionID, IsProvenOnChainFailure, IsReceiptTimeoutFailure
    <2> QED
      BY <2>3, <2>4
  <1>10. CASE SenderCheck \/ SenderLook
    <2>1. /\ tx' = tx /\ chain' = chain
          /\ sender'.pc \in AtNode => sender'.t = sender.t
          /\ tx[sender.t].payload # NoPayload
      BY <1>1, SenderMoves, <1>10
      DEF SenderCheck, SenderLook, PayloadFirst
    <2> QED
      BY <1>2, <2>1
  <1>11. CASE SenderMark
    <2>1. /\ Current \in TxId
          /\ sender'.pc \notin AtNode
          /\ chain' = chain
      BY <1>1, SenderMoves, <1>11 DEF SenderMark, Current, TypeOK
    <2>2. CASE tx' = tx
      BY <1>2, <2>1, <2>2
    <2>3. CASE tx' = [tx EXCEPT ![Current] = MarkedSentRow(@)]
      <3>1. /\ tx'[Current] = MarkedSentRow(tx[Current])
            /\ \A t \in TxId : t # Current => tx'[t] = tx[t]
            /\ tx[Current] \in Row
        BY <1>1, <2>1, <2>3 DEF TypeOK
      <3>2. RowsKept
        BY <1>1, <2>1, <3>1
        DEF RowsKept, Signed, RowsConsistent, MarkedSentRow, Row
      <3> QED
        BY <1>1, <1>3, <2>1, <3>2, KeptRows DEF RowsKept
    <2> QED
      BY <1>11, <2>2, <2>3 DEF SenderMark
  <1> QED
    BY <1>4, <1>5, <1>6, <1>7, <1>8, <1>9, <1>10, <1>11 DEF Sender

\* Steps of the confirmer.  The failure of a row adds a receipt to it and
\* inserts its retry, unsigned.
LEMMA ConfirmerTableStep == TableInv /\ Confirmer => TableInv'
  <1> SUFFICES ASSUME TableInv, Confirmer PROVE TableInv'
    OBVIOUS
  <1>1. TypeOK /\ TypeOK' /\ RowsConsistent /\ PayloadFirst /\ RetryOnlyAfterProof
    BY ConfirmerTypeStep DEF TableInv
  <1>2. chain' = chain /\ sender' = sender
    BY DEF Confirmer, ConfirmerPoll, ConfirmerEnqueue, ConfirmerReceipt,
           ConfirmerHeader, ConfirmerApply, ConfirmerDelayed
  <1> SUFFICES RowsConsistent' /\ RetryOnlyAfterProof' /\ PayloadFirst'
    BY <1>1 DEF TableInv
  <1>3. CASE tx' = tx
    BY <1>1, <1>2, <1>3
    DEF RowsConsistent, RetryOnlyAfterProof, PayloadFirst, SameChain, Exists,
        RootTransactionID, IsProvenOnChainFailure, IsReceiptTimeoutFailure,
        Visible
  <1>4. ASSUME \A t \in TxId : tx[t].payload # NoPayload =>
                  tx'[t].payload # NoPayload
        PROVE  PayloadFirst'
    BY <1>1, <1>2, <1>4 DEF PayloadFirst, Visible, TypeOK
  <1>5. ASSUME NEW t \in TxId, NEW r \in Row, tx' = [tx EXCEPT ![t] = r],
               r.root = tx[t].root, r.payload = tx[t].payload,
               tx[t].status = "sent",
               \/ r.status = "sent" /\ r.hasBlock = tx[t].hasBlock
               \/ r.status \in {"confirmed", "failed"} /\ r.hasBlock
        PROVE  RowsConsistent' /\ RetryOnlyAfterProof' /\ PayloadFirst'
    <2>1. tx'[t] = r /\ \A v \in TxId : v # t => tx'[v] = tx[v]
      BY <1>1, <1>5 DEF TypeOK
    <2>2. RowsConsistent'
      BY <1>1, <1>5, <2>1 DEF RowsConsistent
    <2>3. PayloadFirst'
      BY <1>4, <1>5, <2>1
    <2>4. ASSUME NEW u \in TxId, NEW a \in TxId, SameChain(u, a)', a < u,
                 (tx[u].status = "sending" \/ tx[u].payload # NoPayload)'
          PROVE  IsProvenOnChainFailure(tx[a])'
      <3>1. SameChain(u, a)
        BY <1>5, <2>1, <2>4 DEF SameChain, Exists, RootTransactionID
      <3>2. tx[u].status = "sending" \/ tx[u].payload # NoPayload
        BY <1>5, <2>1, <2>4
      <3>3. IsProvenOnChainFailure(tx[a])
        BY <1>1, <2>4, <3>1, <3>2 DEF RetryOnlyAfterProof
      <3>4. a # t
        BY <1>5, <3>3 DEF IsProvenOnChainFailure
      <3> QED
        BY <2>1, <3>3, <3>4 DEF IsProvenOnChainFailure, IsReceiptTimeoutFailure
    <2> QED
      BY <2>2, <2>3, <2>4 DEF RetryOnlyAfterProof
  <1>6. ASSUME NEW t \in TxId, ConfirmerDelayed(t)
        PROVE  RowsConsistent' /\ RetryOnlyAfterProof' /\ PayloadFirst'
    <2>1. tx' = tx \/ tx' = [tx EXCEPT ![t] = MarkedDelayedRow(tx[t])]
      BY <1>6 DEF ConfirmerDelayed
    <2>2. CASE tx' = [tx EXCEPT ![t] = MarkedDelayedRow(tx[t])] /\ tx' # tx
      <3>1. tx[t] \in Row /\ CanMarkDelayed(tx[t])
        BY <1>1, <2>2 DEF TypeOK, MarkedDelayedRow
      <3>2. /\ MarkedDelayedRow(tx[t]) \in Row
            /\ MarkedDelayedRow(tx[t]).root = tx[t].root
            /\ MarkedDelayedRow(tx[t]).payload = tx[t].payload
            /\ MarkedDelayedRow(tx[t]).status = "sent"
            /\ MarkedDelayedRow(tx[t]).hasBlock = tx[t].hasBlock
            /\ tx[t].status = "sent"
        BY <3>1, UpdateType DEF MarkedDelayedRow, CanMarkDelayed, Row
      <3> QED
        BY <1>5, <2>2, <3>2
    <2> QED
      BY <1>3, <2>1, <2>2
  <1>7. ASSUME NEW t \in TxId, ConfirmerApply(t)
        PROVE  RowsConsistent' /\ RetryOnlyAfterProof' /\ PayloadFirst'
    <2>0. tx[t] \in Row
      BY <1>1 DEF TypeOK
    <2>1. CASE tx[t].status = "sent" /\ tx' = [tx EXCEPT ![t] = MarkedConfirmedRow(@)]
      <3>1. /\ MarkedConfirmedRow(tx[t]).root = tx[t].root
            /\ MarkedConfirmedRow(tx[t]).payload = tx[t].payload
            /\ MarkedConfirmedRow(tx[t]).status = "confirmed"
            /\ MarkedConfirmedRow(tx[t]).hasBlock
        BY <2>0, <2>1 DEF MarkedConfirmedRow, Row
      <3> QED
        BY <1>5, <2>0, <2>1, <3>1, UpdateType
    <2>2. CASE tx[t].status # "sent"
      <3>1. tx' = tx
        BY <1>1, <1>7, <2>2
        DEF ConfirmerApply, FailAndRetry, MarkedConfirmedRow,
            FailedFromSentRow, CanFailFromSent, TypeOK
      <3> QED
        BY <1>3, <3>1
    <2>3. CASE tx[t].status = "sent" /\ tx' = [tx EXCEPT ![t] = FailedFromSentRow(@)]
      <3>1. /\ CanFailFromSent(tx[t])
            /\ FailedFromSentRow(tx[t]).root = tx[t].root
            /\ FailedFromSentRow(tx[t]).payload = tx[t].payload
            /\ FailedFromSentRow(tx[t]).status = "failed"
            /\ FailedFromSentRow(tx[t]).hasBlock
        BY <1>1, <2>0, <2>3
        DEF FailedFromSentRow, CanFailFromSent, Row, RowsConsistent
      <3> QED
        BY <1>5, <2>0, <2>3, <3>1, UpdateType
    <2>4. ASSUME CanFailFromSent(tx[t]), NEW u \in TxId, IsNextId(tx, u),
                 tx' = [tx EXCEPT ![t] = FailedFromSentRow(@),
                                  ![u] = RetryOf(tx, t)]
          PROVE  RowsConsistent' /\ RetryOnlyAfterProof' /\ PayloadFirst'
      <3>1. /\ tx[t].status = "sent" /\ tx[t].payload # NoPayload
            /\ tx[u].status = "absent" /\ u # t
        BY <2>4 DEF CanFailFromSent, IsNextId
      <3>2. t < u /\ \A v \in TxId : u < v => tx[v].status = "absent"
        BY <1>1, <3>1 DEF RowsConsistent, TxId
      <3>3. /\ tx'[t] = FailedFromSentRow(tx[t])
            /\ tx'[u] = RetryOf(tx, t)
            /\ \A v \in TxId : v # t /\ v # u => tx'[v] = tx[v]
        BY <1>1, <2>4, <3>1 DEF TypeOK
      <3>4. /\ tx'[t].root = tx[t].root
            /\ tx'[t].payload = tx[t].payload
            /\ tx'[t].status = "failed"
            /\ tx'[t].hasBlock
        <4>1. CanFailFromSent(tx[t])
          BY <2>4
        <4>2. /\ FailedFromSentRow(tx[t]).root = tx[t].root
              /\ FailedFromSentRow(tx[t]).payload = tx[t].payload
              /\ FailedFromSentRow(tx[t]).status = "failed"
              /\ FailedFromSentRow(tx[t]).hasBlock
          BY <2>0, <4>1 DEF FailedFromSentRow, Row
        <4> QED
          BY <3>3, <4>2
      <3>5. /\ tx'[u].root = RootTransactionID(tx, t)
            /\ tx'[u].payload = NoPayload
            /\ tx'[u].status = "pending"
            /\ tx'[u].hasBlock = FALSE
        BY <3>3 DEF RetryOf, NewTransaction, AbsentRow
      <3>6. tx'[u].root < u
        BY <1>1, <2>0, <3>2, <3>5
        DEF RootTransactionID, RowsConsistent, TxId, Row, NoRoot
      <3>7. RowsConsistent'
        <4>1. ASSUME NEW v \in TxId, NEW w \in TxId, v < w,
                     tx'[v].status = "absent"
              PROVE  tx'[w].status = "absent"
          <5>1. v # t /\ v # u /\ tx[v].status = "absent"
            BY <3>3, <3>4, <3>5, <4>1
          <5>2. tx[w].status = "absent"
            BY <1>1, <4>1, <5>1 DEF RowsConsistent
          <5>3. u < v
            BY <2>4, <5>1 DEF IsNextId, TxId
          <5> QED
            BY <3>2, <3>3, <4>1, <5>2, <5>3 DEF TxId
        <4> QED
          BY <1>1, <3>1, <3>3, <3>4, <3>5, <3>6, <4>1 DEF RowsConsistent
      <3>8. ASSUME NEW v \in TxId, NEW a \in TxId, SameChain(v, a)', a < v,
                   (tx[v].status = "sending" \/ tx[v].payload # NoPayload)'
            PROVE  IsProvenOnChainFailure(tx[a])'
        <4>1. v # u
          BY <3>5, <3>8
        <4>2. a # u
          BY <3>1, <3>2, <3>3, <3>8, <4>1 DEF SameChain, Exists
        <4>3. SameChain(v, a)
          BY <3>1, <3>3, <3>4, <3>8, <4>1, <4>2
          DEF SameChain, Exists, RootTransactionID
        <4>4. tx[v].status = "sending" \/ tx[v].payload # NoPayload
          BY <3>1, <3>3, <3>8, <4>1
        <4>5. IsProvenOnChainFailure(tx[a])
          BY <1>1, <3>8, <4>3, <4>4 DEF RetryOnlyAfterProof
        <4>6. a # t
          BY <3>1, <4>5 DEF IsProvenOnChainFailure
        <4> QED
          BY <3>3, <4>2, <4>5, <4>6
          DEF IsProvenOnChainFailure, IsReceiptTimeoutFailure
      <3>9. PayloadFirst'
        <4>1. tx[u].payload = NoPayload
          BY <1>1, <3>1 DEF RowsConsistent
        <4> QED
          BY <1>4, <3>1, <3>3, <3>4, <4>1
      <3> QED
        BY <3>7, <3>8, <3>9 DEF RetryOnlyAfterProof
    <2> QED
      BY <1>3, <1>7, <2>1, <2>2, <2>3, <2>4 DEF ConfirmerApply, FailAndRetry
  <1> QED
    BY <1>3, <1>6, <1>7
    DEF Confirmer, ConfirmerPoll, ConfirmerEnqueue, ConfirmerReceipt,
        ConfirmerHeader

\* A crash takes nothing from the table; the start-up repair only moves rows
\* that carry no payload out of sending.
LEMMA ProcessTableStep == TableInv /\ (Crash \/ Start) => TableInv'
  <1> SUFFICES ASSUME TableInv, Crash \/ Start PROVE TableInv'
    OBVIOUS
  <1>1. TypeOK /\ TypeOK' /\ RowsConsistent /\ PayloadFirst /\ RetryOnlyAfterProof
    BY ProcessTypeStep DEF TableInv
  <1>2. CASE Crash
    <2>1. tx' = tx /\ chain' = chain /\ sender'.pc = "idle"
      BY <1>2 DEF Crash, Idle
    <2> QED
      BY <1>1, <2>1
      DEF TableInv, RowsConsistent, RetryOnlyAfterProof, PayloadFirst,
          SameChain, Exists, RootTransactionID, IsProvenOnChainFailure,
          IsReceiptTimeoutFailure, Visible
  <1>3. CASE Start
    <2>1. tx' = RecoveredTable(tx) /\ chain' = chain /\ sender' = sender
      BY <1>3 DEF Start
    <2>2. ASSUME NEW t \in TxId
          PROVE  /\ tx'[t].root = tx[t].root
                 /\ tx'[t].payload = tx[t].payload
                 /\ tx'[t].hasBlock = tx[t].hasBlock
                 /\ \/ tx'[t] = tx[t]
                    \/ /\ tx[t].status = "sending"
                       /\ tx'[t].status \in {"pending", "cancelled"}
      <3>1. tx[t] \in Row
        BY <1>1 DEF TypeOK
      <3> QED
        BY <2>1, <3>1 DEF RecoveredTable, Row
    <2>3. RowsKept
      BY <1>1, <2>2 DEF RowsKept, Signed, RowsConsistent
    <2>4. PayloadFirst'
      <3>1. \A t \in TxId : tx'[t].payload = tx[t].payload
        BY <2>2
      <3> QED
        BY <1>1, <2>1, <3>1 DEF PayloadFirst, Visible, TypeOK
    <2> QED
      BY <1>1, <2>3, <2>4, KeptRows DEF TableInv
  <1> QED
    BY <1>2, <1>3

\* Every step keeps TableInv.
LEMMA TableStep == TableInv /\ [Next]_vars => TableInv'
  <1>1. TableInv /\ UNCHANGED vars => TableInv'
    BY DEF TableInv, TypeOK, RowsConsistent, RetryOnlyAfterProof, PayloadFirst,
           SameChain, Exists, RootTransactionID, IsProvenOnChainFailure,
           IsReceiptTimeoutFailure, Visible, vars
  <1> QED
    BY <1>1, ChainTableStep, ProcessorTableStep, SenderTableStep,
       ConfirmerTableStep, ProcessTableStep DEF Next

\* TableInv holds in every reachable state.
LEMMA TableInvariant == Spec => []TableInv
  BY InitTable, TableStep, PTL DEF Spec

\* A retry is signed only after every earlier attempt has failed on the chain,
\* whatever the chain reorganises, the node forgets or the database loses.
THEOREM RetriesFollowProof == Spec => []RetryOnlyAfterProof
  <1>1. TableInv => RetryOnlyAfterProof
    BY DEF TableInv
  <1> QED
    BY <1>1, TableInvariant, PTL

\* The node never sees a payload the table does not hold.
THEOREM NothingSentIsUnrecorded == Spec => []NothingSentUnrecorded
  <1>1. TableInv => NothingSentUnrecorded
    BY DEF TableInv, NothingSentUnrecorded, RowsConsistent, PayloadFirst
  <1> QED
    BY <1>1, TableInvariant, PTL

-----------------------------------------------------------------------------
(* Once signed, a row only moves forward.                                  *)

\* No step takes a signed row back.
LEMMA CommittedStepHolds == TableInv /\ [Next]_vars => CommittedStep
  <1> SUFFICES ASSUME TableInv, [Next]_vars, NEW t \in TxId,
                      tx[t].payload # NoPayload
               PROVE  \/ tx'[t] = tx[t]
                      \/ /\ tx'[t].payload = tx[t].payload
                         /\ \/ /\ tx[t].status = "broadcasting"
                               /\ tx'[t].status = "sent"
                            \/ /\ tx[t].status = "sent"
                               /\ tx'[t].status \in {"sent", "confirmed", "failed"}
    BY DEF CommittedStep
  <1>1. /\ TypeOK
        /\ tx[t] \in Row
        /\ tx[t].status \in {"broadcasting", "sent", "confirmed", "failed"}
    BY DEF TableInv, TypeOK, RowsConsistent
  <1>2. CASE UNCHANGED tx
    BY <1>2
  <1>3. CASE ProcessorNext
    <2>1. ASSUME NEW n \in Network, QueueTransaction(n) PROVE tx'[t] = tx[t]
      BY <1>1, <2>1 DEF QueueTransaction, IsNextId, TypeOK
    <2>2. ASSUME NEW u \in TxId,
                 RequestCancellation(u) \/ CancelRequestedUnbroadcasted(u)
          PROVE  tx'[t] = tx[t]
      BY <1>1, <2>2
      DEF RequestCancellation, CancellationRequestable,
          CancelRequestedUnbroadcasted, Cancellable, TypeOK
    <2> QED
      BY <1>3, <2>1, <2>2 DEF ProcessorNext
  <1>4. CASE Sender
    <2>1. CASE SenderClaim
      BY <1>1, <2>1 DEF SenderClaim, Claimable, TypeOK
    <2>2. CASE SenderPrepare
      BY <1>1, <2>2 DEF SenderPrepare, Preparable, TypeOK
    <2>3. CASE SenderRelease
      BY <1>1, <2>3 DEF SenderRelease, ReleasedRow, Releasable, TypeOK
    <2>4. CASE SenderMark
      <3>1. tx'[t] = tx[t] \/ tx'[t] = MarkedSentRow(tx[t])
        BY <1>1, <2>4 DEF SenderMark, TypeOK
      <3> QED
        BY <1>1, <3>1 DEF MarkedSentRow, Row
    <2> QED
      BY <1>2, <1>4, <2>1, <2>2, <2>3, <2>4
      DEF Sender, SenderSync, SenderGate, SenderLimit, SenderBuild, SenderSend,
          SenderCheck, SenderLook
  <1>5. CASE Confirmer
    <2>1. ASSUME NEW u \in TxId, ConfirmerApply(u) \/ ConfirmerDelayed(u)
          PROVE  \/ tx'[t] = tx[t]
                 \/ tx'[t] \in {MarkedConfirmedRow(tx[t]), FailedFromSentRow(tx[t]),
                               MarkedDelayedRow(tx[t])}
      <3>1. CASE ConfirmerDelayed(u)
        BY <1>1, <3>1 DEF ConfirmerDelayed, TypeOK
      <3>2. CASE ConfirmerApply(u) /\ tx' = [tx EXCEPT ![u] = MarkedConfirmedRow(@)]
        BY <1>1, <3>2 DEF TypeOK
      <3>3. CASE ConfirmerApply(u) /\ FailAndRetry(u)
        BY <1>1, <3>3 DEF FailAndRetry, IsNextId, TypeOK
      <3> QED
        BY <2>1, <3>1, <3>2, <3>3 DEF ConfirmerApply
    <2>2. \/ MarkedConfirmedRow(tx[t]) = tx[t]
          \/ /\ MarkedConfirmedRow(tx[t]).payload = tx[t].payload
             /\ MarkedConfirmedRow(tx[t]).status = "confirmed"
             /\ tx[t].status = "sent"
      BY <1>1 DEF MarkedConfirmedRow, Row
    <2>3. \/ FailedFromSentRow(tx[t]) = tx[t]
          \/ /\ FailedFromSentRow(tx[t]).payload = tx[t].payload
             /\ FailedFromSentRow(tx[t]).status = "failed"
             /\ tx[t].status = "sent"
      BY <1>1 DEF FailedFromSentRow, CanFailFromSent, Row
    <2>4. \/ MarkedDelayedRow(tx[t]) = tx[t]
          \/ /\ MarkedDelayedRow(tx[t]).payload = tx[t].payload
             /\ MarkedDelayedRow(tx[t]).status = "sent"
             /\ tx[t].status = "sent"
      BY <1>1 DEF MarkedDelayedRow, CanMarkDelayed, Row
    <2> QED
      BY <1>2, <1>5, <2>1, <2>2, <2>3, <2>4
      DEF Confirmer, ConfirmerPoll, ConfirmerEnqueue, ConfirmerReceipt,
          ConfirmerHeader
  <1>6. CASE Start
    BY <1>1, <1>6 DEF Start, RecoveredTable
  <1>7. CASE ChainNext \/ Crash
    BY <1>2, <1>7
    DEF ChainNext, EmptyBlock, MineTransaction, Reorg, DropFromPool, Crash
  <1> QED
    BY <1>2, <1>3, <1>4, <1>5, <1>6, <1>7 DEF Next, vars

\* A signed payload is kept and its row only moves forward, across restarts
\* and whatever the chain does.
THEOREM CommittedIsKept == Spec => CommittedStays
  <1>1. TableInv /\ [Next]_vars => [CommittedStep]_vars
    BY CommittedStepHolds
  <1> QED
    BY <1>1, TableInvariant, PTL DEF Spec, CommittedStays

-----------------------------------------------------------------------------
(* The table and the chain, when receipts are fresh.                       *)

\* What the chain settled stays: rows with an outcome and receipts a check
\* holds keep their chain state, and only get deeper.
Settled ==
  \A t \in TxId :
    tx[t].hasBlock \/ check[t].pc \in {"header", "apply"} =>
        /\ chain'[t].st = chain[t].st
        /\ chain'[t].depth >= chain[t].depth
        /\ check[t].pc = "header" /\ check[t].depth = chain[t].depth =>
              check'[t].depth = chain'[t].depth
        /\ check'[t].pc = check[t].pc
        /\ check'[t].ok = check[t].ok

\* The depth of a block never falls below the depth it had.
LEMMA DeeperDepth ==
  ASSUME NEW d \in Depth
  PROVE  Deeper(d) >= d /\ Deeper(d) \in Depth
  BY ManagerAssumption DEF Deeper, Depth, DepthCap

\* No step of the network unsettles a final receipt or one a check holds.
LEMMA ChainSettles ==
  ASSUME ReceiptsFresh, ManagerInv, ChainNext PROVE Settled
  <1>1. TypeOK /\ ChecksCurrent /\ BlocksFinal
    BY DEF ManagerInv, TableInv
  <1> SUFFICES ASSUME NEW t \in TxId,
                      tx[t].hasBlock \/ check[t].pc \in {"header", "apply"}
               PROVE  /\ chain'[t].st = chain[t].st
                      /\ chain'[t].depth >= chain[t].depth
                      /\ check[t].pc = "header" /\ check[t].depth = chain[t].depth =>
                            check'[t].depth = chain'[t].depth
                      /\ check'[t].pc = check[t].pc
                      /\ check'[t].ok = check[t].ok
    BY DEF Settled
  <1>2. /\ chain[t] \in ChainState
        /\ check[t] \in [pc : CheckPc, ok : BOOLEAN, depth : Depth]
    BY <1>1 DEF TypeOK
  <1>3. Mined(t)
    BY <1>1 DEF ChecksCurrent, BlocksFinal
  <1> DEFINE c == [chain[t] EXCEPT !.depth = Deeper(@)]
  <1>4. c.st = chain[t].st /\ c.depth = Deeper(chain[t].depth)
    BY <1>2 DEF ChainState
  <1>5. ASSUME NEW n \in Network,
               chain'[t] = Deepened(n)[t], check' = DeepenedChecks(n)
        PROVE  /\ chain'[t].st = chain[t].st
               /\ chain'[t].depth >= chain[t].depth
               /\ check[t].pc = "header" /\ check[t].depth = chain[t].depth =>
                     check'[t].depth = chain'[t].depth
               /\ check'[t].pc = check[t].pc
               /\ check'[t].ok = check[t].ok
    <2>1. Deeper(chain[t].depth) >= chain[t].depth /\ chain[t].depth >= chain[t].depth
      BY <1>2, DeeperDepth DEF ChainState, Depth
    <2>2. chain'[t] = IF tx[t].network = n THEN c ELSE chain[t]
      BY <1>3, <1>5 DEF Deepened
    <2>3. check'[t] = IF tx[t].network = n /\ check[t].pc = "header"
                      THEN [check[t] EXCEPT !.depth = Deeper(@)] ELSE check[t]
      BY <1>5 DEF DeepenedChecks
    <2> HIDE DEF c
    <2> QED
      BY <1>2, <1>4, <2>1, <2>2, <2>3
  <1>6. ASSUME NEW n \in Network, EmptyBlock(n)
        PROVE  chain'[t] = Deepened(n)[t] /\ check' = DeepenedChecks(n)
    BY <1>6 DEF EmptyBlock
  <1>7. ASSUME NEW n \in Network, NEW u \in TxId, NEW o,
               MineTransaction(n, u, o)
        PROVE  chain'[t] = Deepened(n)[t] /\ check' = DeepenedChecks(n)
    BY <1>3, <1>7 DEF MineTransaction, NextToMine, Mined
  <1>8. ASSUME NEW n \in Network, NEW d \in 1 .. MaxReorg, Reorg(n, d)
        PROVE  chain'[t] = chain[t] /\ check' = check
    <2>1. ~(tx[t].network = n /\ Mined(t) /\ chain[t].depth < d)
      <3>1. CASE tx[t].hasBlock
        BY <1>1, <1>2, <3>1, ManagerAssumption
        DEF BlocksFinal, ChainState, Depth
      <3>2. CASE check[t].pc \in {"header", "apply"}
        BY <1>8, <3>2 DEF Reorg, ReceiptsFresh
      <3> QED
        BY <3>1, <3>2
    <2> QED
      BY <1>1, <1>8, <2>1 DEF Reorg, TypeOK
  <1>9. ASSUME NEW u \in TxId, DropFromPool(u)
        PROVE  chain'[t] = chain[t] /\ check' = check
    BY <1>1, <1>3, <1>9 DEF DropFromPool, Mined, TypeOK
  <1>10. CASE chain'[t] = chain[t] /\ check' = check
    BY <1>2, <1>10 DEF ChainState, Depth
  <1> QED
    BY <1>5, <1>6, <1>7, <1>8, <1>9, <1>10 DEF ChainNext

\* Before any block number or receipt there is nothing to contradict.
LEMMA InitManager == Init => ManagerInv
  <1> SUFFICES ASSUME Init PROVE ChecksCurrent /\ BlocksFinal
    BY InitTable DEF ManagerInv
  <1>1. ChecksCurrent
    BY DEF Init, ChecksCurrent, Quiet
  <1>2. \A t \in TxId : tx[t].hasBlock = FALSE
    <2>1. ASSUME NEW n \in Network
          PROVE  \A t \in TxId : LegacyTable(n)[t].hasBlock = FALSE
      <3>1. AbsentRow \in Row /\ AbsentRow.hasBlock = FALSE
        BY AbsentRowType DEF AbsentRow
      <3> QED
        BY <3>1 DEF LegacyTable, NewTransaction, Row
    <2>2. AbsentRow.hasBlock = FALSE
      BY DEF AbsentRow
    <2> QED
      BY <2>1, <2>2 DEF Init
  <1> QED
    BY <1>1, <1>2 DEF BlocksFinal

\* Steps of the network.
LEMMA ChainFinalStep ==
  ASSUME ReceiptsFresh, ManagerInv, ChainNext
  PROVE  ChecksCurrent' /\ BlocksFinal'
  <1>1. TypeOK /\ TypeOK' /\ ChecksCurrent /\ BlocksFinal /\ Settled
    BY ChainTypeStep, ChainSettles DEF ManagerInv, TableInv
  <1>2. tx' = tx
    BY DEF ChainNext, EmptyBlock, MineTransaction, Reorg, DropFromPool
  <1>3. \A t \in TxId : check'[t].pc = check[t].pc
    BY <1>1
    DEF ChainNext, EmptyBlock, MineTransaction, Reorg, DropFromPool,
        DeepenedChecks, TypeOK
  <1>4. \A t \in TxId : chain[t].depth \in Nat /\ chain'[t].depth \in Nat
    BY <1>1 DEF TypeOK, ChainState, Depth
  <1>5. ASSUME NEW t \in TxId, check'[t].pc \in {"header", "apply"}
        PROVE  /\ Mined(t)' /\ check'[t].ok = (chain'[t].st = "ok")
               /\ check'[t].pc = "header" => check'[t].depth = chain'[t].depth
               /\ check'[t].pc = "apply" => chain'[t].depth >= Confirmations
    BY <1>1, <1>3, <1>4, <1>5, ManagerAssumption
    DEF ChecksCurrent, Settled, Mined
  <1>6. ChecksCurrent'
    BY <1>5 DEF ChecksCurrent
  <1>7. BlocksFinal'
    BY <1>1, <1>2, <1>4, ManagerAssumption DEF BlocksFinal, Settled, Mined
  <1> QED
    BY <1>6, <1>7

\* Steps that write no block number and leave mined transactions and checks
\* alone.
LEMMA QuietFinalStep ==
  ASSUME ManagerInv, check' = check,
         \A t \in TxId : Mined(t) => chain'[t] = chain[t],
         \A t \in TxId : tx'[t].hasBlock = tx[t].hasBlock,
         \A t \in TxId : tx[t].hasBlock => tx'[t] = tx[t]
  PROVE  ChecksCurrent' /\ BlocksFinal'
  <1>1. ChecksCurrent /\ BlocksFinal
    BY DEF ManagerInv
  <1>2. ChecksCurrent'
    BY <1>1 DEF ChecksCurrent, Mined
  <1>3. ASSUME NEW t \in TxId, tx'[t].hasBlock
        PROVE  /\ Mined(t)'
               /\ chain'[t].depth >= Confirmations
               /\ chain'[t].st = "ok" <=> tx'[t].status = "confirmed"
    <2>1. tx[t].hasBlock /\ tx'[t] = tx[t]
      <3>1. tx'[t].hasBlock = tx[t].hasBlock
        OBVIOUS
      <3>2. tx[t].hasBlock
        BY <1>3, <3>1
      <3> QED
        BY <3>2
    <2>2. Mined(t) /\ chain'[t] = chain[t]
      BY <1>1, <2>1 DEF BlocksFinal
    <2> QED
      BY <1>1, <2>1, <2>2 DEF BlocksFinal, Mined
  <1> QED
    BY <1>2, <1>3 DEF BlocksFinal

\* Steps of the processor, the sender and the start-up repair.
LEMMA OtherFinalStep ==
  ASSUME ManagerInv, ProcessorNext \/ Sender \/ Start
  PROVE  ChecksCurrent' /\ BlocksFinal'
  <1>1. TypeOK /\ RowsConsistent /\ PayloadFirst
    BY DEF ManagerInv, TableInv
  <1>2. check' = check
    BY DEF ProcessorNext, QueueTransaction, RequestCancellation,
           CancelRequestedUnbroadcasted, Sender, SenderSync, SenderGate,
           SenderClaim, SenderLimit, SenderBuild, SenderPrepare, SenderRelease,
           SenderSend, SenderCheck, SenderLook, SenderMark, Start
  <1>3. \A t \in TxId : Mined(t) => chain'[t] = chain[t]
    <2>1. CASE UNCHANGED chain
      BY <2>1
    <2>2. CASE SenderSend
      BY <1>1, <2>2
      DEF SenderSend, Mined, Visible, NonceMined, Unseen, TypeOK
    <2> QED
      BY <2>1, <2>2
      DEF ProcessorNext, QueueTransaction, RequestCancellation,
          CancelRequestedUnbroadcasted, Sender, SenderSync, SenderGate,
          SenderClaim, SenderLimit, SenderBuild, SenderPrepare, SenderRelease,
          SenderCheck, SenderLook, SenderMark, Start
  <1> DEFINE Kept(t) == tx'[t].hasBlock = tx[t].hasBlock
                        /\ (tx[t].hasBlock => tx'[t] = tx[t])
  <1>4. \A t \in TxId :
           /\ tx[t] \in Row
           /\ tx[t].hasBlock => tx[t].status \in {"confirmed", "failed"}
    BY <1>1 DEF TypeOK, RowsConsistent
  <1>5. CASE UNCHANGED tx
    BY <1>2, <1>3, <1>5, QuietFinalStep
  <1> SUFFICES ASSUME NEW t \in TxId PROVE Kept(t)
    BY <1>2, <1>3, QuietFinalStep
  <1>6. ASSUME NEW u \in TxId,
               NEW r \in {ReleasedRow(tx[u]), CancellationRequestedRow(tx[u]),
                          CancelledRow(tx[u])},
               tx' = [tx EXCEPT ![u] = r]
        PROVE  Kept(t)
    BY <1>1, <1>6, UnsignedKeeps DEF RowsKept
  <1>7. CASE ProcessorNext
    <2>1. ASSUME NEW n \in Network, QueueTransaction(n) PROVE Kept(t)
      <3>1. PICK u \in TxId : /\ tx[u].status = "absent"
                              /\ tx' = [tx EXCEPT ![u] = NewTransaction(n)]
        BY <2>1 DEF QueueTransaction, IsNextId
      <3>2. tx[u].hasBlock = FALSE
        <4>1. tx[u].hasBlock \in BOOLEAN
          BY <1>4 DEF Row
        <4> QED
          BY <1>4, <3>1, <4>1
      <3>3. NewTransaction(n).hasBlock = FALSE
        BY DEF NewTransaction, AbsentRow
      <3> QED
        BY <1>1, <3>1, <3>2, <3>3 DEF TypeOK
    <2> QED
      BY <1>6, <1>7, <2>1
      DEF ProcessorNext, RequestCancellation, CancelRequestedUnbroadcasted
  <1>8. CASE Sender
    <2>1. CASE UNCHANGED tx
      BY <2>1
    <2>2. CASE SenderClaim
      <3>1. ClaimedRow(tx[t]).hasBlock = tx[t].hasBlock
        BY <1>4 DEF ClaimedRow, Row
      <3> QED
        BY <1>1, <1>4, <2>2, <3>1 DEF SenderClaim, Claimable, TypeOK
    <2>3. CASE SenderPrepare
      <3>1. PreparedRow(tx[t], sender.nonce).hasBlock = tx[t].hasBlock
        BY <1>4 DEF PreparedRow, Row
      <3> QED
        BY <1>1, <1>4, <2>3, <3>1 DEF SenderPrepare, Preparable, TypeOK
    <2>4. CASE SenderRelease
      <3>1. Current \in TxId
        BY <1>1, <2>4 DEF SenderRelease, Current, TypeOK
      <3> QED
        BY <1>6, <2>1, <2>4, <3>1 DEF SenderRelease
    <2>5. CASE SenderMark
      <3>1. MarkedSentRow(tx[t]).hasBlock = tx[t].hasBlock
        BY <1>4 DEF MarkedSentRow, Row
      <3>2. tx[t].hasBlock => MarkedSentRow(tx[t]) = tx[t]
        BY <1>4 DEF MarkedSentRow
      <3> QED
        BY <1>1, <2>5, <3>1, <3>2 DEF SenderMark, TypeOK
    <2> QED
      BY <1>8, <2>1, <2>2, <2>3, <2>4, <2>5
      DEF Sender, SenderSync, SenderGate, SenderLimit, SenderBuild, SenderSend,
          SenderCheck, SenderLook
  <1>9. CASE Start
    <2>1. tx'[t] = RecoveredTable(tx)[t]
      BY <1>9 DEF Start
    <2> QED
      BY <1>4, <2>1 DEF RecoveredTable, Row
  <1> QED
    BY <1>7, <1>8, <1>9

\* Steps of the confirmer: a check takes the receipt the chain has, applies it
\* once it is deep enough, and writes the outcome the chain has.
LEMMA ConfirmerFinalStep ==
  ASSUME ManagerInv, Confirmer
  PROVE  ChecksCurrent' /\ BlocksFinal'
  <1>1. TypeOK /\ RowsConsistent /\ ChecksCurrent /\ BlocksFinal
    BY DEF ManagerInv, TableInv
  <1>2. chain' = chain
    BY DEF Confirmer, ConfirmerPoll, ConfirmerEnqueue, ConfirmerReceipt,
           ConfirmerHeader, ConfirmerApply, ConfirmerDelayed
  <1>3. ASSUME NEW t \in TxId, NEW k, check' = [check EXCEPT ![t] = k],
               \/ k.pc \notin {"header", "apply"}
               \/ /\ k.pc = "header" /\ Mined(t)
                  /\ k.ok = (chain[t].st = "ok")
                  /\ k.depth = chain[t].depth
               \/ /\ k.pc = "apply" /\ Mined(t)
                  /\ k.ok = (chain[t].st = "ok")
                  /\ chain[t].depth >= Confirmations
        PROVE  ChecksCurrent'
    <2>1. check'[t] = k /\ \A v \in TxId : v # t => check'[v] = check[v]
      BY <1>1, <1>3 DEF TypeOK
    <2> QED
      BY <1>1, <1>2, <1>3, <2>1 DEF ChecksCurrent, Mined
  <1>4. ASSUME NEW t \in TxId, CheckEnds(t) PROVE ChecksCurrent'
    BY <1>3, <1>4 DEF CheckEnds, Quiet
  <1>5. ASSUME UNCHANGED tx PROVE BlocksFinal'
    BY <1>1, <1>2, <1>5 DEF BlocksFinal, Mined
  <1>6. ASSUME UNCHANGED check PROVE ChecksCurrent'
    BY <1>1, <1>2, <1>6 DEF ChecksCurrent, Mined
  <1>7. \A t \in TxId : check[t] \in [pc : CheckPc, ok : BOOLEAN, depth : Depth]
    BY <1>1 DEF TypeOK
  <1>8. ASSUME NEW t \in TxId, ConfirmerEnqueue(t)
        PROVE  ChecksCurrent'
    <2>1. [check[t] EXCEPT !.pc = "receipt"].pc = "receipt"
      BY <1>7
    <2> QED
      BY <1>3, <1>6, <1>8, <2>1 DEF ConfirmerEnqueue
  <1>9. ASSUME NEW t \in TxId, ConfirmerReceipt(t)
        PROVE  ChecksCurrent'
    <2>1. [check[t] EXCEPT !.pc = "late"].pc = "late"
      BY <1>7
    <2> QED
      BY <1>3, <1>4, <1>9, <2>1 DEF ConfirmerReceipt
  <1>10. ASSUME NEW t \in TxId, ConfirmerHeader(t)
         PROVE  ChecksCurrent'
    <2>1. CASE CheckEnds(t)
      BY <1>4, <2>1
    <2>2. ASSUME NEW lag \in 0 .. MaxLag, RequiredConfirmations(check[t].depth, lag),
                 check' = [check EXCEPT ![t].pc = "apply"]
          PROVE  ChecksCurrent'
      <3>1. /\ [check[t] EXCEPT !.pc = "apply"].pc = "apply"
            /\ [check[t] EXCEPT !.pc = "apply"].ok = check[t].ok
        BY <1>7
      <3>2. /\ Mined(t)
            /\ check[t].ok = (chain[t].st = "ok")
            /\ check[t].depth = chain[t].depth
        BY <1>1, <1>10 DEF ConfirmerHeader, ChecksCurrent
      <3>3. check[t].depth \in Nat
        BY <1>7 DEF Depth
      <3>4. chain[t].depth >= Confirmations
        BY <2>2, <3>2, <3>3, ManagerAssumption DEF RequiredConfirmations
      <3> QED
        BY <1>3, <2>2, <3>1, <3>2, <3>4
    <2> QED
      BY <1>10, <2>1, <2>2 DEF ConfirmerHeader
  <1>11. ASSUME NEW t \in TxId, ConfirmerDelayed(t)
         PROVE  ChecksCurrent' /\ BlocksFinal'
    <2>1. tx' = tx \/ tx' = [tx EXCEPT ![t] = MarkedDelayedRow(tx[t])]
      BY <1>11 DEF ConfirmerDelayed
    <2>2. \A v \in TxId : tx'[v].hasBlock = tx[v].hasBlock
                          /\ tx'[v].status = tx[v].status
      BY <1>1, <2>1 DEF MarkedDelayedRow, TypeOK, Row
    <2> QED
      BY <1>1, <1>2, <1>4, <1>11, <2>2 DEF ConfirmerDelayed, BlocksFinal, Mined
  <1>12. ASSUME NEW t \in TxId, ConfirmerApply(t)
         PROVE  ChecksCurrent' /\ BlocksFinal'
    <2>1. /\ Mined(t)
          /\ check[t].ok = (chain[t].st = "ok")
          /\ chain[t].depth >= Confirmations
      BY <1>1, <1>12 DEF ConfirmerApply, ChecksCurrent
    <2>2. tx[t] \in Row
      BY <1>1 DEF TypeOK
    <2>3. ASSUME NEW v \in TxId
          PROVE  \/ tx'[v] = tx[v]
                 \/ tx'[v].hasBlock = FALSE
                 \/ v = t /\ check[t].ok /\ tx'[v].status = "confirmed"
                 \/ v = t /\ ~check[t].ok /\ tx'[v].status = "failed"
      <3>1. MarkedConfirmedRow(tx[t]) = tx[t]
               \/ MarkedConfirmedRow(tx[t]).status = "confirmed"
        BY <2>2 DEF MarkedConfirmedRow, Row
      <3>2. FailedFromSentRow(tx[t]) = tx[t]
               \/ FailedFromSentRow(tx[t]).status = "failed"
        BY <2>2 DEF FailedFromSentRow, Row
      <3>3. RetryOf(tx, t).hasBlock = FALSE
        BY DEF RetryOf, NewTransaction, AbsentRow
      <3>4. CASE tx' = tx
        BY <3>4
      <3>5. CASE check[t].ok /\ tx' = [tx EXCEPT ![t] = MarkedConfirmedRow(@)]
        BY <1>1, <3>1, <3>5 DEF TypeOK
      <3>6. CASE ~check[t].ok /\ FailAndRetry(t)
        BY <1>1, <3>2, <3>3, <3>6 DEF FailAndRetry, TypeOK
      <3> QED
        BY <1>12, <3>4, <3>5, <3>6 DEF ConfirmerApply
    <2>4. BlocksFinal'
      BY <1>1, <1>2, <2>1, <2>3 DEF BlocksFinal, Mined
    <2> QED
      BY <1>4, <1>12, <2>4 DEF ConfirmerApply
  <1> QED
    BY <1>5, <1>6, <1>8, <1>9, <1>10, <1>11, <1>12
    DEF Confirmer, ConfirmerPoll, ConfirmerEnqueue, ConfirmerReceipt,
        ConfirmerHeader

\* Every step keeps ManagerInv.
LEMMA ManagerStep ==
  ASSUME ReceiptsFresh
  PROVE  ManagerInv /\ [Next]_vars => ManagerInv'
  <1> SUFFICES ASSUME ManagerInv, [Next]_vars
               PROVE  ChecksCurrent' /\ BlocksFinal'
    BY TableStep DEF ManagerInv
  <1>1. CASE ChainNext
    BY <1>1, ChainFinalStep
  <1>2. CASE ProcessorNext \/ Sender \/ Start
    BY <1>2, OtherFinalStep
  <1>3. CASE Confirmer
    BY <1>3, ConfirmerFinalStep
  <1>4. CASE Crash
    <2>1. tx' = tx /\ chain' = chain /\ check' = [t \in TxId |-> Quiet]
      BY <1>4 DEF Crash
    <2> QED
      BY <2>1 DEF ManagerInv, ChecksCurrent, BlocksFinal, Mined, Quiet
  <1>5. CASE UNCHANGED vars
    BY <1>5 DEF ManagerInv, ChecksCurrent, BlocksFinal, Mined, vars
  <1> QED
    BY <1>1, <1>2, <1>3, <1>4, <1>5 DEF Next

\* Every check holds the receipt the chain has, and every recorded block is
\* final, provided no reorganisation falls inside one check.
THEOREM ManagerInvariant ==
  ASSUME ReceiptsFresh PROVE Spec => []ManagerInv
  BY InitManager, ManagerStep, PTL DEF Spec

\* What the table says of an outcome is final, provided no reorganisation
\* falls between the receipt and the header a check reads.
THEOREM OutcomesAreFinal ==
  ASSUME ReceiptsFresh PROVE Spec => []OutcomeIsFinal
  <1>1. ManagerInv => OutcomeIsFinal
    BY DEF ManagerInv, TableInv, RowsConsistent, BlocksFinal, OutcomeIsFinal,
           IsProvenOnChainFailure, Mined
  <1> QED
    BY <1>1, ManagerInvariant, PTL

\* A payout is made at most once, under the same assumption: of two attempts
\* the later was signed after the earlier had a final failed receipt.
THEOREM PayoutIsMadeOnce ==
  ASSUME ReceiptsFresh PROVE Spec => []NoDoublePayout
  <1>1. ASSUME ManagerInv, NEW t \in TxId, NEW a \in TxId, SameChain(t, a),
               a < t, chain[t].st = "ok", chain[a].st = "ok"
        PROVE  FALSE
    <2>1. tx[t].payload # NoPayload
      BY <1>1 DEF ManagerInv, TableInv, PayloadFirst, Visible
    <2>2. IsProvenOnChainFailure(tx[a])
      BY <1>1, <2>1 DEF ManagerInv, TableInv, RetryOnlyAfterProof
    <2> QED
      BY <1>1, <2>2 DEF ManagerInv, BlocksFinal, IsProvenOnChainFailure
  <1>2. ManagerInv => NoDoublePayout
    <2> SUFFICES ASSUME ManagerInv, NEW t \in TxId, NEW u \in TxId,
                        SameChain(t, u), chain[t].st = "ok", chain[u].st = "ok"
                 PROVE  t = u
      BY DEF NoDoublePayout
    <2>1. SameChain(u, t)
      BY DEF SameChain
    <2>2. ~(u < t) /\ ~(t < u)
      BY <1>1, <2>1
    <2> QED
      BY <2>2 DEF TxId
  <1> QED
    BY <1>2, ManagerInvariant, PTL
=============================================================================
