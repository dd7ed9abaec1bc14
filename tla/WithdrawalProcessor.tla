-------------------------- MODULE WithdrawalProcessor --------------------------
(***************************************************************************)
(* The withdrawal processor (tasks/process_withdrawal_requests.go) at work  *)
(* on one withdrawal, from the local record to the Relay callback, over    *)
(* the table of TransactionLifecycle, whose steps interleave with its own. *)
(* Records are processed one after the other, so one record is enough.     *)
(*                                                                         *)
(* One action is one database statement, one database transaction or one   *)
(* Relay call, with the local code up to the next one.  The record and the *)
(* blockchain transaction the code holds in memory are variables of their  *)
(* own: the code goes on with them after the database has moved on, and    *)
(* with what gorm or the code put in them for a statement that failed.     *)
(***************************************************************************)
EXTENDS TransactionLifecycle, FiniteSetsExt

CONSTANTS
    Authorizations,  \* whether the stored authorization verifies: subset of BOOLEAN
    Histories,       \* what the database holds at first
    MaxBalance,      \* bound: the requester's balance, in withdrawal totals
    MaxFaults,       \* bound: faults in a behaviour
    FaultKinds       \* the faults that may happen

\* "crash": the process dies and is started again; "db": a statement or a
\* transaction fails, at its start, midway or at its commit, and the database is
\* as before; "ack": it takes effect and its answer is lost; "relay": a Relay
\* call fails or its answer is lost; "slow": 30 seconds are not enough to
\* finalize a record; "payment": task fees and task payments move the balance.
AllFaultKinds == {"crash", "db", "ack", "relay", "slow", "payment"}

\* "new": a record without a transaction; "attached": one whose pending
\* transaction was queued before; "legacy": one whose transaction an older
\* release failed for a late receipt; "legacySent": the same, its retry sent.
AllHistories == {"new", "attached", "legacy", "legacySent"}

ASSUME ProcessorAssumption ==
    /\ Authorizations \subseteq BOOLEAN
    /\ Histories \subseteq AllHistories
    /\ MaxBalance \in Nat \ {0}
    /\ MaxFaults \in Nat
    /\ FaultKinds \subseteq AllFaultKinds

VARIABLES
    record,      \* the row of withdraw_records: status, blockchain_transaction_id
    mem,         \* the processor's copy of it
    current,     \* the copy of the blockchain transaction: its id and row
    pc,          \* the next statement or call
    mode,        \* the context it runs under
    authorized,  \* the stored authorization verifies
    late,        \* the deadline of the record has passed
    balance,     \* the requester's balance
    debits,      \* how often it was debited for this withdrawal
    relay,       \* callbacks that reached Relay
    lapses,      \* history: what the wallet has lost track of
    faults       \* faults so far

processorVars == <<record, mem, current, pc, mode, authorized, late, balance,
                   debits, relay, lapses, faults>>
vars == <<lifecycleVars, processorVars>>

RecordStatus == {"pending", "success", "failed", "finished", "finishedRejected"}
Record == [status : RecordStatus, root : TxId \cup {NoRoot}]
Finished == {"finished", "finishedRejected"}

\* "debit": a debit was rolled back and the copy of the record says success;
\* "refund": the process died when Relay had been told to refund a withdrawal
\* and its row still was that of a new one.  No action reads lapses.
Lapse == {"debit", "refund"}

Nil == [t |-> NoRoot, row |-> AbsentRow]
Snapshot(t) == [t |-> t, row |-> tx[t]]

\* "record" is the context that ends at the deadline; "finalize" the one of 30
\* seconds that processes a record whose payout is over at the deadline.
Mode == {"record", "timeout", "finalize"}
Pc == {"idle", "retry", "committed", "reauthorize", "unauthorized",
       "unauthorizedRequest", "unauthorizedCancel", "authorize", "gate",
       "create", "current", "wait", "debitSafe", "debit", "markFailed",
       "fulfilSafe", "fulfil", "markFinished", "rejectSafe", "reject",
       "markRejected", "timeout", "timeoutCurrent", "timeoutRequest",
       "timeoutCancel", "timeoutSync", "stopped"}

TypeOK ==
    /\ LifecycleTypeOK
    /\ record \in Record
    /\ mem \in Record
    /\ current \in [t : TxId \cup {NoRoot}, row : Row]
    /\ pc \in Pc
    /\ mode \in Mode
    /\ authorized \in BOOLEAN
    /\ late \in BOOLEAN
    /\ balance \in 0 .. MaxBalance
    /\ debits \in Nat
    /\ relay \subseteq {"fulfilled", "rejected"}
    /\ lapses \subseteq Lapse
    /\ faults \in 0 .. MaxFaults

Fault(kind) ==
    /\ kind \in FaultKinds
    /\ faults < MaxFaults
    /\ faults' = faults + 1

NoFault == UNCHANGED faults

-----------------------------------------------------------------------------
(* What the processor reads. *)

\* getCurrentBlockchainTransaction: the root, or its latest retry once failed.
CurrentOf(root) ==
    LET Retries == {t \in TxId : Exists(tx[t]) /\ tx[t].root = root}
    IN IF tx[root].status = "failed" /\ Retries # {} THEN Max(Retries) ELSE root

ConfirmedIn(root) == {t \in Chain(tx, root) : tx[t].status = "confirmed"}

\* ensureWithdrawalRejectSafe, by ClassifyTransactionChain: the whole chain is
\* proven to have failed or been cancelled.
RejectSafeVariant(root) ==     \* looks at the current attempt only
    root # NoRoot => IsProvenTerminalFailure(tx[CurrentOf(root)])
RejectSafe(root) ==
    root # NoRoot =>
        \A t \in Chain(tx, root) : IsProvenTerminalFailure(tx[t])

\* ensureWithdrawalFulfillSafe: one attempt is confirmed, the others are proven
\* to have failed.
FulfilSafeVariant(root, snapshot) ==     \* looks at the current attempt only
    snapshot.row.status = "confirmed" /\ snapshot.row.payload # NoPayload
FulfilSafe(root, snapshot) ==
    /\ snapshot.row.status = "confirmed"
    /\ snapshot.row.payload # NoPayload
    /\ Cardinality(ConfirmedIn(root)) = 1
    /\ \A t \in Chain(tx, root) :
          tx[t].status = "confirmed" \/ IsProvenTerminalFailure(tx[t])

-----------------------------------------------------------------------------
(* Control. *)

Goto(label) == pc' = label

\* The head of processWithdrawalRecord, for the record in memory.
TopVariant(r) ==               \* takes a debited record for a pending one
    IF r.status \in {"pending", "success"}
    THEN IF r.root # NoRoot THEN "committed" ELSE "authorize"
    ELSE "rejectSafe"
Top(r) ==
    IF r.status = "pending" THEN IF r.root # NoRoot THEN "committed" ELSE "authorize"
    ELSE IF r.status = "success" THEN "fulfilSafe"
    ELSE "rejectSafe"

\* Where the state of the attempt leads: wait for it, debit, give up, or look
\* for its retry.
Dispatch(row) ==
    CASE row.status = "confirmed" -> "debitSafe"
      [] row.status = "cancelled" -> "markFailed"
      [] row.status = "failed" /\ row.retryCount >= MaxRetries -> "markFailed"
      [] row.status = "failed" /\ row.retryCount < MaxRetries -> "committed"
      [] OTHER -> "wait"

\* A plain error: the record is tried again from the copy in memory; one of the
\* timeout handler ends the pass, and the next tick starts one with the rows of
\* the database.  A WithdrawalRequestError ends the processor.
Fails == pc' = IF mode = "record" THEN "retry" ELSE "idle"
Stops == pc' = "stopped"

\* A read that may fail.
Read(label, next) ==
    /\ pc = label
    /\ \/ NoFault /\ next
       \/ Fault("db") /\ Fails /\ UNCHANGED <<mem, current, mode>>
    /\ UNCHANGED <<tx, paid, record, authorized, late, balance, debits, relay, lapses>>

\* UpdateStatus.  gorm sets the status of the copy when it builds the statement and
\* leaves it there when the statement fails; a transaction that does not even begin
\* leaves the copy alone.
UpdateStatus(label, status, next) ==
    /\ pc = label
    /\ \/ /\ NoFault \/ Fault("ack")
          /\ record' = [record EXCEPT !.status = status]
          /\ mem' = [mem EXCEPT !.status = status]
          /\ IF faults' = faults THEN Goto(next) ELSE Fails
       \/ /\ Fault("db")
          /\ mem' \in {mem, [mem EXCEPT !.status = status]}
          /\ Fails
          /\ UNCHANGED record
    /\ UNCHANGED <<tx, paid, current, mode, authorized, late, balance, debits, relay,
                   lapses>>

-----------------------------------------------------------------------------
(* processWithdrawalRecord. *)

\* getUnfinishedWithdrawalRecords; when it fails the next tick asks again
Load ==
    /\ pc = "idle"
    /\ record.status \notin Finished
    /\ mem' = record
    /\ current' = Nil
    /\ mode' = "record"
    /\ Goto("retry")
    /\ UNCHANGED <<tx, paid, record, authorized, late, balance, debits, relay, lapses,
                   faults>>

\* processWithdrawalRecordWithRetry, the head of its loop
Retry ==
    /\ pc = "retry"
    /\ mode' = IF late THEN "timeout" ELSE "record"
    /\ current' = Nil
    /\ Goto(IF late THEN "timeout" ELSE Top(mem))
    /\ UNCHANGED <<tx, paid, record, mem, authorized, late, balance, debits,
                   relay, lapses, faults>>

\* withdrawalChainHasCommittedBroadcast; a root that was rolled back is not found
ReadCommitted ==
    Read("committed",
         /\ IF ~Exists(tx[mem.root]) THEN Fails
            ELSE Goto(IF \E t \in Chain(tx, mem.root) : HasCommittedBroadcast(tx[t])
                      THEN "current" ELSE "reauthorize")
         /\ UNCHANGED <<mem, current, mode>>)

\* ensureWithdrawalAuthorizationFingerprint; its callers take any error, one of
\* the database included, for a refusal
Refused == (~authorized /\ NoFault) \/ Fault("db")
Reauthorize ==
    /\ pc = "reauthorize"
    /\ \/ authorized /\ NoFault /\ Goto("current")
       \/ Refused /\ Goto("unauthorized")
    /\ UNCHANGED <<tx, paid, record, mem, current, mode, authorized, late,
                   balance, debits, relay, lapses>>

Unauthorized ==
    Read("unauthorized",
         LET t == CurrentOf(mem.root)
         IN /\ current' = Snapshot(t)
            /\ IF ~Exists(tx[t]) THEN Fails
               ELSE IF tx[t].status \in {"pending", "sending"}
               THEN Goto("unauthorizedRequest") ELSE Goto("markFailed")
            /\ UNCHANGED <<mem, mode>>)

\* RequestCancellation, then by the status read before it
Request(label, next) ==
    /\ pc = label
    /\ \/ /\ NoFault \/ Fault("ack")
          /\ tx' = [tx EXCEPT ![current.t] = CancellationRequestedRow(@)]
          /\ IF faults' = faults THEN Goto(next) ELSE Fails
       \/ Fault("db") /\ Fails /\ UNCHANGED tx
    /\ UNCHANGED <<paid, record, mem, current, mode, authorized, late, balance,
                   debits, relay, lapses>>

UnauthorizedRequest ==
    Request("unauthorizedRequest",
            IF current.row.status = "pending" THEN "unauthorizedCancel" ELSE "current")

\* CancelRequestedUnbroadcasted
CancelCurrent(label, cancelled, missed) ==
    /\ pc = label
    /\ \/ /\ NoFault
          /\ tx' = [tx EXCEPT ![current.t] = CancelledRow(@)]
          /\ Goto(IF Cancellable(tx[current.t]) THEN cancelled ELSE missed)
       \/ /\ Fault("ack")
          /\ tx' = [tx EXCEPT ![current.t] = CancelledRow(@)]
          /\ Fails
       \/ Fault("db") /\ Fails /\ UNCHANGED tx
    /\ UNCHANGED <<paid, record, mem, current, mode, authorized, late, balance,
                   debits, relay, lapses>>

UnauthorizedCancel == CancelCurrent("unauthorizedCancel", "markFailed", "committed")

Authorize ==
    /\ pc = "authorize"
    /\ \/ authorized /\ NoFault /\ Goto("gate")
       \/ Refused /\ Goto("markFailed")
    /\ UNCHANGED <<tx, paid, record, mem, current, mode, authorized, late,
                   balance, debits, relay, lapses>>

\* The balance must cover amount + withdrawal_fee.
CoveredVariant == balance >= 0
Covered == balance >= 1
Gate ==
    Read("gate", /\ Goto(IF Covered THEN "create" ELSE "markFailed")
                 /\ UNCHANGED <<mem, current, mode>>)

\* The pending transaction and the record that names it, in one database
\* transaction.  The copy in memory names it once it is inserted, whether or not the
\* record is saved and the transaction commits, and Save writes all of the copy.
NamingVariant(t) == mem                  \* set after the commit
Naming(t) == [mem EXCEPT !.root = t]
RolledBackVariant(t, n) ==               \* inserts the row outside of it
    tx' = [tx EXCEPT ![t] = NewTransaction(n)] /\ UNCHANGED record
RolledBack(t, n) == UNCHANGED <<tx, record>>

Create ==
    /\ pc = "create"
    /\ \E n \in Network, t \in TxId :
          /\ IsNextId(tx, t)
          /\ \/ /\ NoFault \/ Fault("ack")
                /\ tx' = [tx EXCEPT ![t] = NewTransaction(n)]
                /\ record' = [mem EXCEPT !.root = t]
                /\ current' = [t |-> t, row |-> NewTransaction(n)]
                /\ \/ /\ faults' = faults
                      /\ mem' = record'
                      /\ Goto("wait")
                   \/ /\ faults' # faults
                      /\ mem' = Naming(t)
                      /\ Fails
             \/ /\ Fault("db")
                /\ RolledBack(t, n)
                /\ mem' \in {mem, Naming(t)}
                /\ Fails
                /\ UNCHANGED current
    /\ UNCHANGED <<paid, mode, authorized, late, balance, debits, relay, lapses>>

\* getCurrentBlockchainTransaction, and Sync until the attempt is over
FetchCurrent ==
    Read("current",
         LET t == CurrentOf(mem.root)
         IN /\ current' = Snapshot(t)
            /\ IF Exists(tx[t]) THEN Goto(Dispatch(tx[t])) ELSE Fails
            /\ UNCHANGED <<mem, mode>>)

Wait ==
    Read("wait", /\ current' = Snapshot(current.t)
                 /\ Goto(Dispatch(tx[current.t]))
                 /\ UNCHANGED <<mem, mode>>)

DebitSafe ==
    Read("debitSafe", /\ IF FulfilSafe(mem.root, current) THEN Goto("debit") ELSE Stops
                      /\ UNCHANGED <<mem, current, mode>>)

\* The balance and the status in one database transaction.  UpdateStatus sets the copy
\* in memory inside it, so one that fails in or after UpdateStatus leaves the copy ahead.
DebitEffect ==
    /\ balance' = balance - 1
    /\ debits' = debits + 1
    /\ record' = [record EXCEPT !.status = "success"]
Debit ==
    /\ pc = "debit"
    /\ \/ /\ Covered
          /\ mem' = [mem EXCEPT !.status = "success"]
          /\ \/ NoFault /\ DebitEffect /\ Goto("fulfilSafe") /\ UNCHANGED lapses
             \/ Fault("ack") /\ DebitEffect /\ Fails /\ UNCHANGED lapses
             \/ /\ Fault("db")
                /\ lapses' = lapses \cup {"debit"}
                /\ Fails
                /\ UNCHANGED <<balance, debits, record>>
       \/ /\ ~Covered
          /\ NoFault
          /\ Stops
          /\ UNCHANGED <<balance, debits, record, mem, lapses>>
       \/ /\ Fault("db")
          /\ Fails
          /\ UNCHANGED <<balance, debits, record, mem, lapses>>
    /\ UNCHANGED <<tx, paid, current, mode, authorized, late, relay>>

MarkFailed == UpdateStatus("markFailed", "failed", "rejectSafe")

CheckFulfil ==
    Read("fulfilSafe",
         LET snapshot == IF current = Nil THEN Snapshot(CurrentOf(mem.root)) ELSE current
         IN /\ current' = snapshot
            /\ IF FulfilSafe(mem.root, snapshot) THEN Goto("fulfil") ELSE Stops
            /\ UNCHANGED <<mem, mode>>)

CheckReject ==
    Read("rejectSafe", /\ IF RejectSafe(mem.root) THEN Goto("reject") ELSE Stops
                       /\ UNCHANGED <<mem, current, mode>>)

\* FulfillWithdrawalRequest, RejectWithdrawalRequest
CallRelay(label, callback, next) ==
    /\ pc = label
    /\ \/ NoFault /\ relay' = relay \cup {callback} /\ Goto(next)
       \/ Fault("relay") /\ relay' \in {relay, relay \cup {callback}} /\ Fails
    /\ UNCHANGED <<tx, paid, record, mem, current, mode, authorized, late,
                   balance, debits, lapses>>

Fulfil == CallRelay("fulfil", "fulfilled", "markFinished")
MarkFinished == UpdateStatus("markFinished", "finished", "idle")
Reject == CallRelay("reject", "rejected", "markRejected")
MarkRejected == UpdateStatus("markRejected", "finishedRejected", "idle")

-----------------------------------------------------------------------------
(* handleTimeoutWithdrawalRequest. *)

Timeout ==
    Read("timeout", /\ mem' = record
                    /\ UNCHANGED <<mode, current>>
                    /\ Goto(IF record.root # NoRoot THEN "timeoutCurrent" ELSE "rejectSafe"))

\* The attempt cannot change any more.
OverVariant(row) ==            \* forgets a payout confirmed meanwhile
    \/ row.status = "cancelled"
    \/ row.status = "failed" /\ row.retryCount >= MaxRetries
OverUncancelledVariant(row) == \* forgets one the sender cancelled
    \/ row.status = "confirmed"
    \/ row.status = "failed" /\ row.retryCount >= MaxRetries
Over(row) ==
    \/ row.status \in {"confirmed", "cancelled"}
    \/ row.status = "failed" /\ row.retryCount >= MaxRetries

TimeoutCurrent ==
    Read("timeoutCurrent",
         LET t == CurrentOf(mem.root)
         IN /\ \/ /\ Over(tx[t])
                  /\ mode' = "finalize"
                  /\ Goto(Top(mem))
                  /\ UNCHANGED current
               \/ /\ ~Over(tx[t])
                  /\ \/ HasCommittedBroadcast(tx[t])
                     \/ tx[t].status \notin {"pending", "sending"}
                  /\ Stops
                  /\ UNCHANGED <<mode, current>>
               \/ /\ ~Over(tx[t])
                  /\ ~HasCommittedBroadcast(tx[t])
                  /\ tx[t].status \in {"pending", "sending"}
                  /\ current' = Snapshot(t)
                  /\ Goto("timeoutRequest")
                  /\ UNCHANGED mode
            /\ UNCHANGED mem)

TimeoutRequest ==
    Request("timeoutRequest",
            IF current.row.status = "pending" THEN "timeoutCancel" ELSE "timeoutSync")

TimeoutCancel == CancelCurrent("timeoutCancel", "rejectSafe", "retry")

\* The sender holds the row: wait for it to settle the cancellation, but not
\* past cancellation_settlement_timeout_seconds.
TimeoutSync ==
    Read("timeoutSync",
         /\ current' = Snapshot(current.t)
         /\ \/ Goto("retry")
            \/ tx[current.t].cancelRequested /\ Stops
         /\ UNCHANGED <<mem, mode>>)

-----------------------------------------------------------------------------
(* The clock, the process, the rest of the wallet. *)

DeadlinePasses ==
    /\ ~late
    /\ late' = TRUE
    /\ UNCHANGED <<tx, paid, record, mem, current, pc, mode, authorized,
                   balance, debits, relay, lapses, faults>>

\* The end of the context ends whatever is under way; a Relay call may have got
\* through.
Expire ==
    /\ late
    /\ \/ mode = "record" /\ NoFault
       \/ mode = "finalize" /\ Fault("slow")
    /\ pc \notin {"idle", "retry", "timeout", "stopped"}
    /\ Fails
    /\ \/ UNCHANGED relay
       \/ pc = "fulfil" /\ relay' = relay \cup {"fulfilled"}
       \/ pc = "reject" /\ relay' = relay \cup {"rejected"}
    /\ UNCHANGED <<tx, paid, record, mem, current, mode, authorized, late,
                   balance, debits, lapses>>

\* The process dies, or an operator restarts it after the processor stopped.
RefundUnrecorded ==
    /\ "rejected" \in relay /\ ~late
    /\ record = [status |-> "pending", root |-> NoRoot]
Restarted ==
    /\ Goto("idle")
    /\ mem' = [status |-> "pending", root |-> NoRoot]
    /\ current' = Nil
    /\ mode' = "record"
    /\ lapses' = IF RefundUnrecorded THEN lapses \cup {"refund"} ELSE lapses
    /\ UNCHANGED <<tx, paid, record, authorized, late, balance, debits, relay>>
Crash == Fault("crash") /\ Restarted
Restart == pc = "stopped" /\ NoFault /\ Restarted

\* processTaskFeeLogs, between the processor's statements
BalanceMoves ==
    /\ Fault("payment")
    /\ balance' \in {balance - 1, balance + 1} \cap (0 .. MaxBalance)
    /\ UNCHANGED <<tx, paid, record, mem, current, pc, mode, authorized, late,
                   debits, relay, lapses>>

-----------------------------------------------------------------------------
NewHistory ==
    /\ "new" \in Histories
    /\ tx = [t \in TxId |-> AbsentRow]
    /\ record.root = NoRoot
AttachedHistory ==
    /\ "attached" \in Histories
    /\ tx \in {[t \in TxId |-> IF t = 1 THEN NewTransaction(n) ELSE AbsentRow] :
                  n \in Network}
    /\ record.root = 1
LegacyHistory ==
    /\ "legacy" \in Histories
    /\ tx \in {LegacyTable(n) : n \in Network}
    /\ record.root = 1
LegacySentHistory ==
    /\ "legacySent" \in Histories
    /\ tx \in {[LegacyTable(n) EXCEPT
                    ![2] = MarkedSentRow(PreparedRow(ClaimedRow(@), 1))] :
                  n \in Network}
    /\ record.root = 1

Init ==
    /\ record \in [status : {"pending"}, root : {NoRoot, 1}]
    /\ NewHistory \/ AttachedHistory \/ LegacyHistory \/ LegacySentHistory
    /\ paid = {}
    /\ mem = [status |-> "pending", root |-> NoRoot]
    /\ current = Nil
    /\ pc = "idle"
    /\ mode = "record"
    /\ authorized \in Authorizations
    /\ late = FALSE
    /\ balance \in 0 .. MaxBalance
    /\ record.root # NoRoot => Covered      \* as it was when the row was queued
    /\ debits = 0
    /\ relay = {}
    /\ lapses = {}
    /\ faults = 0

Process ==
    \/ Load \/ Retry
    \/ ReadCommitted \/ Reauthorize
    \/ Unauthorized \/ UnauthorizedRequest \/ UnauthorizedCancel
    \/ Authorize \/ Gate \/ Create \/ FetchCurrent \/ Wait
    \/ DebitSafe \/ Debit \/ MarkFailed
    \/ CheckFulfil \/ Fulfil \/ MarkFinished
    \/ CheckReject \/ Reject \/ MarkRejected
    \/ Timeout \/ TimeoutCurrent \/ TimeoutRequest \/ TimeoutCancel \/ TimeoutSync

Environment == DeadlinePasses \/ Crash \/ Restart \/ BalanceMoves

Next ==
    \/ Process
    \/ Expire
    \/ Environment
    \/ ManagerMoves /\ UNCHANGED processorVars

Spec == Init /\ [][Next]_vars

-----------------------------------------------------------------------------
(* Safety. *)

\* A refund excludes a payout, before and after: once a rejection may have
\* reached Relay, no payout of the withdrawal has been or can ever be executed,
\* whichever of timeout, cancellation, sender and confirmer came first and whatever
\* statement failed (rejectWithdrawalRequestSafely).  There is one exception: a status
\* update of a withdrawal without a transaction fails, the copy alone knows that it was
\* given up, and the process dies after the refund.  A record closed by a refund has none.
RefundIsSafe ==
    \/ "rejected" \in relay /\ "refund" \notin lapses
    \/ record.status = "finishedRejected"
    => /\ "fulfilled" \notin relay
       /\ \A t \in TxId :
             Exists(tx[t]) => IsProvenTerminalFailure(tx[t]) /\ t \notin paid

\* Relay hears of a payout only when exactly one was executed, for good
\* (ensureWithdrawalFulfillSafe).
FulfilmentIsPaid ==
    "fulfilled" \in relay =>
        /\ Cardinality(paid) = 1
        /\ \A t \in paid : tx[t].status = "confirmed"

\* The requester is debited once, no matter how often the processor is
\* interrupted and starts over.  The debit, the status and the report to Relay agree
\* unless a debit was rolled back after UpdateStatus had set the copy.
DebitedOnce ==
    /\ debits <= 1
    /\ debits = 1 => record.status \in {"success", "finished"}
    /\ "debit" \notin lapses =>
          /\ record.status \in {"success", "finished"} => debits = 1
          /\ "fulfilled" \in relay => debits = 1

\* Relay is told of a payout only once the requester has been debited.
FulfilledIsDebited == "fulfilled" \in relay => debits = 1

\* Every payout in the table belongs to the record: an interrupted or repeated
\* Create never leaves one that nobody waits for, or a second one.
OnePayout ==
    \A t \in TxId : Exists(tx[t]) => record.root # NoRoot /\ t \in Chain(tx, record.root)

\* A record is given up only when no payout can follow: authorization comes
\* second to a committed broadcast.
FailedHasNoBroadcast ==
    record.status = "failed" /\ record.root # NoRoot =>
        \A t \in Chain(tx, record.root) : IsProvenTerminalFailure(tx[t])

-----------------------------------------------------------------------------
(* What all of this implements. *)

IsPaidForGood ==           \* by one attempt, and no other can follow it
    \E t \in TxId :
        /\ tx[t].status = "confirmed"
        /\ \A u \in TxId \ {t} : Exists(tx[u]) => IsProvenTerminalFailure(tx[u])

PayoutState ==
    IF "rejected" \in relay THEN "void"
    ELSE IF IsPaidForGood THEN "paid"
    ELSE IF paid # {} THEN "executed"
    ELSE "open"

Payout == INSTANCE WithdrawalPayout
          WITH status <- record.status, payout <- PayoutState,
               debited <- debits > 0, told <- relay

\* The wallet keeps its promise to the requester through retries, deadline, failed
\* statements, lost answers and restarts: debited for a payout that stays and reported
\* after that, or refunded when none can follow (processWithdrawalRecord).  It does so
\* step by step up to the first lapse, if there is one.
PayoutSpec == Payout!Init /\ [][Payout!Next \/ lapses' # {}]_(Payout!vars)

-----------------------------------------------------------------------------
(* Why it holds. *)

\* What a row says of its payload, and the chain of the row.
RowFits(row, executed) ==
    /\ row.status \in {"absent", "pending", "sending", "cancelled"} => row.payload = NoPayload
    /\ row.status \in {"broadcasting", "sent", "confirmed"} => row.payload # NoPayload
    /\ row.hasBlock => row.status \in {"confirmed", "failed"}
    /\ row.status = "confirmed" => row.hasBlock /\ executed
    /\ row.status = "failed" /\ row.hasBlock => ~executed
    /\ executed => row.payload # NoPayload
TableInv == \A t \in TxId : RowFits(tx[t], t \in paid)

\* No payout has been executed, and none can be.
NeverPaid == \A t \in TxId : Exists(tx[t]) => IsProvenTerminalFailure(tx[t])

\* The statuses of a record whose requester has been debited, and given up.
Charged == {"success", "finished"}
GivenUp == {"failed", "finishedRejected"}

\* The processor holds a copy of the record; statements that count on what it says.
Active == pc \notin {"idle", "stopped"}
Queueing == {"authorize", "gate", "create"}
NamesRoot == {"committed", "reauthorize", "unauthorized", "unauthorizedRequest",
              "unauthorizedCancel", "current", "wait", "timeoutCurrent"}
NamesCurrent == {"unauthorizedRequest", "unauthorizedCancel", "wait", "timeoutRequest",
                 "timeoutCancel", "timeoutSync"}
BeforeDebit == Queueing \cup {"committed", "reauthorize", "unauthorized",
                              "unauthorizedRequest", "unauthorizedCancel", "current",
                              "wait", "debitSafe", "debit", "markFailed"}
AfterDebit == {"fulfilSafe", "fulfil", "markFinished"}
Refunding == {"rejectSafe", "reject", "markRejected"}
InTimeout == {"timeout", "timeoutCurrent", "timeoutRequest", "timeoutCancel", "timeoutSync"}

\* The record, the table and Relay.
RecordInv ==
    /\ record.root # NoRoot => Exists(tx[record.root]) /\ tx[record.root].root = NoRoot
    /\ record.status \in Charged => IsPaidForGood
    /\ record.status = "finished" => "fulfilled" \in relay
    /\ record.status = "finishedRejected" => "rejected" \in relay /\ NeverPaid
    /\ "fulfilled" \in relay => IsPaidForGood
    /\ "rejected" \in relay => NeverPaid \/ "refund" \in lapses
    /\ debits <= 1 /\ (debits = 1 => record.status \in Charged)

\* The copy of the record may be ahead of its row, by a statement that failed, and is
\* never behind; it is ahead towards a payout only when there is one.
CopyInv ==
    Active =>
        /\ mem.root = record.root \/ record.root = NoRoot
        /\ mem.status \in Charged => IsPaidForGood
        /\ record.status \in Charged => mem.status \in Charged
        /\ record.status \in GivenUp => mem.status \in GivenUp

\* A refund before the deadline has been preceded by giving up: the record remembers it,
\* or the attempt that was given up, or the copy alone does.
RefundInv ==
    "rejected" \in relay /\ ~late /\ "refund" \notin lapses =>
        \/ record.status \in GivenUp
        \/ record.root # NoRoot
        \/ pc # "idle" /\ mem.status \in GivenUp

\* What has been looked at on the way to a statement.
ProgressInv ==
    /\ mode # "record" => late
    /\ pc \in InTimeout => mode = "timeout"
    /\ pc \in Queueing =>
          mem.root = NoRoot /\ ("rejected" \notin relay \/ "refund" \in lapses)
    /\ pc \in NamesRoot => mem.root # NoRoot
    /\ pc \in NamesCurrent => current.t # NoRoot
    /\ pc \in BeforeDebit => mem.status = "pending"
    /\ pc \in AfterDebit => mem.status = "success"
    /\ pc \in Refunding /\ mode = "record" => mem.status \notin {"pending", "success"}
    /\ pc = "debit" => IsPaidForGood
    /\ pc = "reject" => NeverPaid
    /\ pc = "markFinished" => "fulfilled" \in relay
    /\ pc = "markRejected" => "rejected" \in relay /\ NeverPaid

\* The copy is ahead of the debit only after a debit that was rolled back.
ChargeInv ==
    "debit" \notin lapses =>
        /\ debits = 1 <=> record.status \in Charged
        /\ Active /\ mem.status \in Charged => record.status \in Charged
        /\ "fulfilled" \in relay => debits = 1

\* The type invariant and these facts, inductive with OnePayout.
ProcessorInv ==
    TypeOK /\ TableInv /\ RecordInv /\ CopyInv /\ RefundInv /\ ProgressInv /\ ChargeInv

-----------------------------------------------------------------------------
(* Liveness.  The processor runs on, an operator restarts it when it has    *)
(* stopped, the deadline passes, the manager settles what it holds.  That   *)
(* the sender ever signs a payout is not assumed.                           *)
Fairness ==
    /\ WF_vars(Process)
    /\ WF_vars(Expire)
    /\ WF_vars(Restart)
    /\ WF_vars(DeadlinePasses)
    /\ \A t \in TxId :
          /\ WF_vars(Acknowledge(t) /\ UNCHANGED processorVars)
          /\ WF_vars((Confirm(t) \/ Fail(t)) /\ UNCHANGED processorVars)
          /\ WF_vars(Release(t) /\ UNCHANGED processorVars)

FairSpec == Spec /\ Fairness

\* What settlement depends on: task payments do not leave the requester unable to
\* pay for good, as the processor stops in front of a debit that is not covered; the
\* record is not given up behind a broadcast; and no attempt was failed by an older
\* release without a proof, as the processor leaves such a chain to an operator.
Settleable ==
    /\ []<>(record.status = "pending" /\ record.root # NoRoot => Covered)
    /\ []FailedHasNoBroadcast
    /\ [](\A t \in TxId : tx[t].status = "failed" => IsProvenTerminalFailure(tx[t]))

\* Every withdrawal settles, paid or refunded, also when the deadline passed and the
\* processor stopped before its payout was confirmed.
WithdrawalSettles == Settleable => <>(record.status \in Finished)
=============================================================================
