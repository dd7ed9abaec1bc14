--------------------------- MODULE RelayAccountLedger ---------------------------
(***************************************************************************)
(* The wallet's copy of Relay's account ledger and its two writers: the     *)
(* task that applies Relay's event log in batches                          *)
(* (tasks/sync_task_fee_logs.go) and the debit of a confirmed withdrawal    *)
(* (tasks/process_withdrawal_requests.go), which Relay announces in the     *)
(* same log and the wallet takes up once its copy has come that far.       *)
(*                                                                         *)
(* Both writers read balances and write them back inside a database        *)
(* transaction.  A transaction is two actions, the read and the commit; the *)
(* other rows it touches belong to one task and are written at the commit. *)
(* What makes a payout happen or fail is WithdrawalProcessor's matter, and  *)
(* so is a debit that fails at its commit.                                 *)
(***************************************************************************)
EXTENDS Integers, FiniteSets, SequencesExt

CONSTANTS
    Address,          \* relay accounts
    FeeAddress,       \* the configured withdrawal_fee_address
    Deposit,          \* deposit transactions on the chain: (network, tx_hash)
    Transfer,         \* what each of them moves: [from, amount]
    Vesting,          \* vesting ids
    Withdrawal,       \* withdrawal requests
    None,             \* a payload that does not parse
    Catalogue,        \* events Relay may append to its log
    Honest,           \* Relay appends only events that its documents allow
    Serializable,     \* the database lets one transaction run at a time
    BatchSize,
    MaxTaskFeeAmount,
    MaxAddressLogs,   \* max_address_logs_count_in_batch
    MaxNewAddresses,  \* max_new_address_count_in_batch
    DepositMaxAge,    \* deposit_max_age_seconds, in days
    MaxEvents,        \* bound: length of the log
    MaxDay,           \* bound: days that pass
    MaxFaults,        \* bound: faults in a behaviour
    FaultKinds        \* the faults that may happen

\* "crash": the process dies and is started again; "migrate": the same, and the
\* start runs the migration of 2026-08-26; "db": a statement fails and the
\* transaction is rolled back; "ack": a transaction commits and its answer is
\* lost; "relay", "rpc": a call to Relay or to the node fails.
AllFaultKinds == {"crash", "migrate", "db", "ack", "relay", "rpc"}

\* TaskIncome stands for DaoTaskShare, TaskRefund and UserDelegation too, which
\* the code treats alike; "unknown" is a type outside the allowlist.
Credits == {"taskIncome", "withdrawalFeeIncome", "deposit", "vestingRelease"}
BalanceIgnored == {"withdraw", "withdrawRefund", "vestingCreated"}
EventType == Credits \cup BalanceIgnored \cup {"taskPayment", "unknown"}
VestingEvents == {"vestingCreated", "vestingRelease"}

Day == 0 .. MaxDay
Subject == Deposit \cup Vesting \cup Withdrawal \cup {None}
\* The signed payload of a VestingCreated event; a release carries its id only.
Terms == [total : Nat, released : Nat, start : Day, duration : Nat \ {0},
          address : Address, signed : BOOLEAN]
Event == [type : EventType, address : Address, amount : Nat, subject : Subject,
          terms : Terms \cup {None}, day : Nat]

WithdrawalEvents == {e \in Catalogue : e.type \in {"withdraw", "withdrawRefund"}}

ASSUME LedgerAssumption ==
    /\ FeeAddress \in Address
    /\ Transfer \in [Deposit -> [from : Address \cup {None}, amount : Nat]]
    /\ Catalogue \subseteq Event
    \* the payload of a vesting event parses or does not
    /\ \A e \in Catalogue :
          /\ e.type \in VestingEvents => e.subject \in Vesting \cup {None}
          /\ e.type = "vestingCreated" /\ e.subject # None => e.terms \in Terms
    \* a withdrawal and its refund are of one account and one total
    /\ \A e, f \in WithdrawalEvents :
          /\ e.subject \in Withdrawal
          /\ e.subject = f.subject => e.address = f.address /\ e.amount = f.amount
    /\ Honest \in BOOLEAN /\ Serializable \in BOOLEAN
    /\ BatchSize \in Nat \ {0}
    /\ MaxTaskFeeAmount \in Nat /\ MaxAddressLogs \in Nat
    /\ MaxNewAddresses \in Nat /\ DepositMaxAge \in Nat
    /\ MaxEvents \in Nat /\ MaxDay \in Nat /\ MaxFaults \in Nat
    /\ FaultKinds \subseteq AllFaultKinds

VARIABLES
    log,         \* Relay's event log; the id of an event is its index
    day,         \* the day it is
    mined,       \* the day each deposit was mined, for those the node shows
    account,     \* relay_accounts: balances of the addresses that have a row
    deposits,    \* deposit_records
    vesting,     \* vesting_records by relay_vesting_id
    checkpoint,  \* task_fee_checkpoints.latest_task_fee_log_id
    sync,        \* the sync task: next step, checkpoint and batch in memory,
                 \* balances its transaction has read
    requests,    \* the task that takes up withdrawal requests
    withdrawal,  \* how far each withdrawal is
    debit,       \* the debit transaction: its withdrawal, the balance it read
    faults       \* faults so far

relayVars == <<log, day, mined>>
ledgerVars == <<account, deposits, vesting, checkpoint>>
withdrawalVars == <<requests, withdrawal, debit>>
vars == <<relayVars, ledgerVars, sync, withdrawalVars, faults>>

VestingStatus == {"active", "completed", "deprecated"}
VestingRecord == [terms : Terms, released : Nat, status : VestingStatus]
WithdrawalState == {"relay", "pending", "refused", "paying", "paid", "debited",
                    "rejected"}
SyncPc == {"idle", "fetch", "check", "open", "commit", "stopped"}

TypeOK ==
    /\ log \in Seq(Event) /\ Len(log) <= MaxEvents
    /\ day \in Day
    /\ DOMAIN mined \subseteq Deposit /\ \A d \in DOMAIN mined : mined[d] \in 0 .. day
    /\ DOMAIN account \subseteq Address
    /\ \A a \in DOMAIN account : account[a] \in Int
    /\ deposits \subseteq Deposit
    /\ DOMAIN vesting \subseteq Vesting
    /\ \A v \in DOMAIN vesting : vesting[v] \in VestingRecord
    /\ checkpoint \in 0 .. Len(log)
    /\ sync.pc \in SyncPc
    /\ sync.checkpoint \in 0 .. checkpoint
    /\ sync.batch \in Seq(Event) /\ Len(sync.batch) <= BatchSize
    /\ requests \in {"running", "stopped"}
    /\ withdrawal \in [Withdrawal -> WithdrawalState]
    /\ debit \in [open : BOOLEAN, withdrawal : Withdrawal \cup {None}, balance : Int]
    /\ faults \in 0 .. MaxFaults

Fault(kind) ==
    /\ kind \in FaultKinds
    /\ faults < MaxFaults
    /\ faults' = faults + 1

NoFault == UNCHANGED faults

-----------------------------------------------------------------------------
(* The log and what it adds up to. *)

\* mergeTaskFeeLogs, for one event.
DeltaVariant(e) ==           \* applies withdrawals in the log as well
    IF e.type \in Credits THEN e.amount
    ELSE IF e.type \in {"taskPayment", "withdraw"} THEN -e.amount ELSE 0
Delta(e) ==
    IF e.type \in Credits THEN e.amount
    ELSE IF e.type = "taskPayment" THEN -e.amount ELSE 0

\* What a batch adds to the account of a, and the accounts it is merged into.
Merged(batch, a) ==
    SumFunctionOnSet([i \in DOMAIN batch |-> Delta(batch[i])],
                     {i \in DOMAIN batch : batch[i].address = a})
Applied(batch) == {e \in ToSet(batch) : e.type \notin BalanceIgnored}
Touched(batch) == {e.address : e \in Applied(batch)}

Announced(w) == {i \in DOMAIN log : log[i].type = "withdraw" /\ log[i].subject = w}
IsPublished(w) == Announced(w) # {}
\* relay_account_event_id of a request, its requester and its total.
Anchor(w) == CHOOSE i \in Announced(w) : TRUE
Owner(w) == log[Anchor(w)].address
Amount(w) == log[Anchor(w)].amount
TotalOf(S) == SumFunctionOnSet([w \in S |-> Amount(w)], S)

-----------------------------------------------------------------------------
(* Relay and the chain: the environment.  Relay never lets an account of its
   own ledger go below zero, announces a withdrawal once and refunds one that
   was rejected once. *)

RelayDelta(e) ==
    CASE e.type \in Credits \cup {"withdrawRefund"} -> e.amount
      [] e.type \in {"taskPayment", "withdraw"} -> -e.amount
      [] OTHER -> 0
RelayBalance(a, n) ==
    SumFunctionOnSet([i \in DOMAIN log |-> RelayDelta(log[i])],
                     {i \in 1 .. n : log[i].address = a})
InLog(e) == \E i \in DOMAIN log : log[i].type = e.type /\ log[i].subject = e.subject

\* models/vesting.go, ComputeVestingShouldReleased.
ShouldReleasedVariant(t, today) == t.total      \* the cap alone
ShouldReleased(t, today) ==
    IF today < t.start THEN 0
    ELSE IF today - t.start >= t.duration THEN t.total
    ELSE (t.total * (today - t.start)) \div t.duration

ReleasedBy(v, i) ==
    SumFunctionOnSet([j \in DOMAIN log |-> log[j].amount],
                     {j \in 1 .. i : log[j].type = "vestingRelease" /\ log[j].subject = v})
CreatedBefore(v, i) ==
    {c \in 1 .. (i - 1) : log[c].type = "vestingCreated" /\ log[c].subject = v}

\* What Relay's documents promise of an event.
Promised(e) ==
    CASE e.type = "deposit" ->
            e.subject \in Deposit /\ ~InLog(e)
            /\ Transfer[e.subject] = [from |-> e.address, amount |-> e.amount]
      [] e.type = "withdrawalFeeIncome" -> e.address = FeeAddress
      [] e.type = "vestingCreated" -> ~InLog(e) /\ e.terms.signed
      [] e.type = "vestingRelease" ->
            \E c \in CreatedBefore(e.subject, Len(log) + 1) :
               ReleasedBy(e.subject, Len(log)) + e.amount
                  <= ShouldReleased(log[c].terms, day)
      [] e.type = "unknown" -> FALSE
      [] OTHER -> e.amount <= MaxTaskFeeAmount

Publish(e) ==
    /\ Len(log) < MaxEvents
    /\ RelayBalance(e.address, Len(log)) + RelayDelta(e) >= 0
    /\ e.type = "withdraw" => ~InLog(e)
    /\ e.type = "withdrawRefund" =>
          withdrawal[e.subject] \in {"rejected", "refused"} /\ ~InLog(e)
    /\ Honest => Promised(e)
    \* the clock of a Relay that keeps no promise may be ahead
    /\ \E d \in IF Honest THEN {day} ELSE {day, day + 1} :
          log' = Append(log, [e EXCEPT !.day = d])
    /\ UNCHANGED <<day, mined, ledgerVars, sync, withdrawalVars, faults>>

Mine(d) ==
    /\ d \notin DOMAIN mined
    /\ mined' = [x \in DOMAIN mined \cup {d} |-> IF x = d THEN day ELSE mined[x]]
    /\ UNCHANGED <<log, day, ledgerVars, sync, withdrawalVars, faults>>

Tick ==
    /\ day < MaxDay
    /\ day' = day + 1
    /\ UNCHANGED <<log, mined, ledgerVars, sync, withdrawalVars, faults>>

-----------------------------------------------------------------------------
(* Validation of a batch: checkTaskFeeLogs. *)

\* validateDepositLog, with its receipt: native and token deposits alike.
DepositMatches(e) ==
    /\ Transfer[e.subject] = [from |-> e.address, amount |-> e.amount]
    /\ day <= mined[e.subject] + DepositMaxAge

\* A deposit the node does not show yet is an ordinary error, tried again.
IsNotFoundVariant(e) ==      \* takes it for a mismatch
    FALSE
IsNotFound(e) ==
    e.type = "deposit" /\ e.subject # None /\ e.subject \notin DOMAIN mined

IsAccepted(e) ==
    CASE e.type = "unknown" -> FALSE
      [] e.type = "deposit" ->
            e.subject # None /\ e.subject \in DOMAIN mined /\ DepositMatches(e)
      [] e.type = "withdrawalFeeIncome" -> e.address = FeeAddress
      [] e.type = "vestingCreated" -> e.amount = 0 /\ e.subject # None
      [] e.type = "vestingRelease" -> e.subject # None
      [] e.type \in {"withdraw", "withdrawRefund"} -> TRUE
      [] OTHER -> e.amount <= MaxTaskFeeAmount

LogCount(batch, a) ==
    Cardinality({i \in DOMAIN batch :
                    batch[i].address = a /\ batch[i].type \notin BalanceIgnored})
WithinThresholds(batch) ==
    /\ \A a \in Touched(batch) : LogCount(batch, a) <= MaxAddressLogs
    /\ Cardinality(Touched(batch) \ DOMAIN account) <= MaxNewAddresses

-----------------------------------------------------------------------------
(* Vestings: applyVestingLogs, event by event over the table. *)

NewVesting(t) ==
    [terms |-> t, released |-> t.released,
     status |-> IF t.released = t.total THEN "completed" ELSE "active"]

\* The amount released before is not signed, and not compared.
SameSchedule(t, u) == [t EXCEPT !.released = u.released, !.signed = u.signed] = u

CanCreate(table, e) ==
    /\ e.amount = 0
    /\ e.terms.address = e.address
    /\ e.terms.total > 0 /\ e.terms.released <= e.terms.total
    /\ e.terms.signed
    /\ e.subject \in DOMAIN table => SameSchedule(e.terms, table[e.subject].terms)

CanReleaseVariant(table, e, today) ==       \* whatever the status of the record
    /\ e.amount > 0 /\ e.day <= today
    /\ e.subject \in DOMAIN table
    /\ LET r == table[e.subject]
       IN /\ r.terms.address = e.address
          /\ r.released + e.amount <= r.terms.total
          /\ r.released + e.amount <= ShouldReleased(r.terms, e.day)
CanRelease(table, e, today) ==
    /\ e.amount > 0
    /\ e.day <= today
    /\ e.subject \in DOMAIN table
    /\ LET r == table[e.subject]
       IN /\ r.status = "active"
          /\ r.terms.address = e.address
          /\ r.released + e.amount <= r.terms.total
          /\ r.released + e.amount <= ShouldReleased(r.terms, e.day)

Release(r, amount) ==
    [r EXCEPT !.released = @ + amount,
              !.status = IF r.released + amount = r.terms.total
                         THEN "completed" ELSE "active"]

ApplyVesting(result, e, today) ==
    IF e.type \notin VestingEvents \/ ~result.ok THEN result
    ELSE IF e.type = "vestingCreated" /\ CanCreate(result.table, e)
    THEN [result EXCEPT !.table =
             [v \in DOMAIN @ \cup {e.subject} |->
                 IF v \in DOMAIN @ THEN @[v] ELSE NewVesting(e.terms)]]
    ELSE IF e.type = "vestingRelease" /\ CanRelease(result.table, e, today)
    THEN [result EXCEPT !.table[e.subject] = Release(@, e.amount)]
    ELSE [result EXCEPT !.ok = FALSE]

ApplyVestings(table, batch, today) ==
    FoldLeft(LAMBDA result, e : ApplyVesting(result, e, today),
             [ok |-> TRUE, table |-> table], batch)
VestingsAfter(batch) == ApplyVestings(vesting, batch, day)

-----------------------------------------------------------------------------
(* The sync task. *)

DepositLogs(batch) == {i \in DOMAIN batch : batch[i].type = "deposit"}
DepositsIn(batch) == {batch[i].subject : i \in DepositLogs(batch)}
\* saveDepositRecords: as many new rows as deposits in the batch.
AreNewVariant(batch) ==      \* conflicting rows are skipped and not counted
    TRUE
AreNew(batch) ==
    Cardinality(DepositsIn(batch) \ deposits) = Cardinality(DepositLogs(batch))

SyncGoto(label) == sync' = [sync EXCEPT !.pc = label]

Rest == [pc |-> "idle", checkpoint |-> 0, batch |-> <<>>, read |-> <<>>]

SyncStart ==
    /\ sync.pc = "idle"
    /\ sync' = [Rest EXCEPT !.pc = "fetch", !.checkpoint = checkpoint]
    /\ UNCHANGED <<relayVars, ledgerVars, withdrawalVars, faults>>

SyncFetch ==
    /\ sync.pc = "fetch"
    /\ Len(log) > sync.checkpoint
    /\ LET end == Min({sync.checkpoint + BatchSize, Len(log)})
       IN sync' = [sync EXCEPT !.pc = "check",
                               !.batch = SubSeq(log, sync.checkpoint + 1, end)]
    /\ UNCHANGED <<relayVars, ledgerVars, withdrawalVars, faults>>

SyncCheck ==
    /\ sync.pc = "check"
    /\ LET refused == {i \in DOMAIN sync.batch : ~IsAccepted(sync.batch[i])}
       IN IF refused # {}
          THEN SyncGoto(IF IsNotFound(sync.batch[Min(refused)]) THEN "idle"
                        ELSE "stopped")
          ELSE SyncGoto(IF WithinThresholds(sync.batch) THEN "open" ELSE "stopped")
    /\ UNCHANGED <<relayVars, ledgerVars, withdrawalVars, faults>>

\* The transaction up to the read of the balances.
SyncOpen ==
    /\ sync.pc = "open"
    /\ Serializable => ~debit.open
    /\ IF AreNew(sync.batch) /\ VestingsAfter(sync.batch).ok
       THEN sync' = [sync EXCEPT !.pc = "commit", !.read = account]
       ELSE SyncGoto("stopped")
    /\ UNCHANGED <<relayVars, ledgerVars, withdrawalVars, faults>>

NextCheckpointVariant ==     \* counts a full batch
    sync.checkpoint + BatchSize
NextCheckpoint == sync.checkpoint + Len(sync.batch)

\* processTaskFeeLogs: the balance read, plus what the batch adds; new rows for
\* addresses that had none.
BalancesAfter ==
    LET batch == sync.batch
    IN [a \in DOMAIN account \cup Touched(batch) |->
          IF a \notin Touched(batch) THEN account[a]
          ELSE IF a \in DOMAIN sync.read THEN sync.read[a] + Merged(batch, a)
          ELSE Merged(batch, a)]

SyncCommit ==
    /\ sync.pc = "commit"
    /\ account' = BalancesAfter
    /\ deposits' = deposits \cup DepositsIn(sync.batch)
    /\ vesting' = VestingsAfter(sync.batch).table
    /\ checkpoint' = NextCheckpoint
    /\ \/ NoFault /\ sync' = [Rest EXCEPT !.pc = "fetch", !.checkpoint = NextCheckpoint]
       \/ Fault("ack") /\ sync' = Rest
    /\ UNCHANGED <<relayVars, withdrawalVars>>

\* An error that is no TaskFeeError ends this pass; the next tick starts over
\* from the checkpoint in the database.
SyncFails ==
    /\ \/ sync.pc = "fetch" /\ Fault("relay")
       \/ sync.pc = "check" /\ DepositLogs(sync.batch) # {} /\ Fault("rpc")
       \/ sync.pc \in {"check", "open", "commit"} /\ Fault("db")
    /\ sync' = Rest
    /\ UNCHANGED <<relayVars, ledgerVars, withdrawalVars>>

-----------------------------------------------------------------------------
(* Withdrawals, as far as they concern the ledger. *)

\* The gate of syncWithdrawalRequests.
IsGatedVariant(w) == IsPublished(w)
IsGated(w) == IsPublished(w) /\ Anchor(w) <= checkpoint

Demanded(S, a) == TotalOf({w \in S : Owner(w) = a})

\* A batch of requests, the oldest first: stored if each account covers what the
\* batch asks of it, and otherwise the task stops.
TakeUp(S) ==
    /\ requests = "running"
    /\ S # {}
    /\ \A w \in S : withdrawal[w] = "relay" /\ IsGated(w)
    /\ \A w \in S, v \in Withdrawal \ S :
          withdrawal[v] = "relay" /\ IsPublished(v) => Anchor(w) < Anchor(v)
    /\ IF \A w \in S : Owner(w) \in DOMAIN account
                       /\ Demanded(S, Owner(w)) <= account[Owner(w)]
       THEN /\ withdrawal' = [w \in Withdrawal |->
                                IF w \in S THEN "pending" ELSE withdrawal[w]]
            /\ UNCHANGED requests
       ELSE requests' = "stopped" /\ UNCHANGED withdrawal
    /\ UNCHANGED <<relayVars, ledgerVars, sync, debit, faults>>

IsCovered(w) == Owner(w) \in DOMAIN account /\ Amount(w) <= account[Owner(w)]

\* One withdrawal at a time: the balance gate before the payout is queued.
Gate(w) ==
    /\ withdrawal[w] = "pending"
    /\ \A v \in Withdrawal : withdrawal[v] \notin {"paying", "paid"}
    /\ withdrawal' = [withdrawal EXCEPT ![w] = IF IsCovered(w) THEN "paying"
                                              ELSE "refused"]
    /\ UNCHANGED <<relayVars, ledgerVars, sync, requests, debit, faults>>

\* The payout is confirmed, or fails or times out and is rejected.
Payout(w) ==
    /\ withdrawal[w] = "paying"
    /\ \E outcome \in {"paid", "rejected"} :
          withdrawal' = [withdrawal EXCEPT ![w] = outcome]
    /\ UNCHANGED <<relayVars, ledgerVars, sync, requests, debit, faults>>

NoDebit == [open |-> FALSE, withdrawal |-> None, balance |-> 0]

DebitOpen(w) ==
    /\ withdrawal[w] = "paid"
    /\ ~debit.open
    /\ Serializable => sync.pc # "commit"
    /\ IsCovered(w)
    /\ debit' = [open |-> TRUE, withdrawal |-> w, balance |-> account[Owner(w)]]
    /\ UNCHANGED <<relayVars, ledgerVars, sync, requests, withdrawal, faults>>

DebitCommit ==
    /\ debit.open
    /\ LET w == debit.withdrawal
       IN /\ account' = [account EXCEPT ![Owner(w)] = debit.balance - Amount(w)]
          /\ withdrawal' = [withdrawal EXCEPT ![w] = "debited"]
    /\ debit' = NoDebit
    /\ UNCHANGED <<relayVars, deposits, vesting, checkpoint, sync, requests, faults>>

-----------------------------------------------------------------------------
(* The process. *)

\* Open transactions are rolled back and every task starts again; a new release
\* first deprecates the vestings that are active.
Restart ==
    /\ \/ Fault("crash") /\ UNCHANGED vesting
       \/ /\ Fault("migrate")
          /\ vesting' = [v \in DOMAIN vesting |->
                            IF vesting[v].status = "active"
                            THEN [vesting[v] EXCEPT !.status = "deprecated"]
                            ELSE vesting[v]]
    /\ sync' = Rest
    /\ requests' = "running"
    /\ debit' = NoDebit
    /\ UNCHANGED <<relayVars, account, deposits, checkpoint, withdrawal>>

Init ==
    /\ log = <<>> /\ day = 0 /\ mined = <<>>
    /\ account = <<>> /\ deposits = {} /\ vesting = <<>> /\ checkpoint = 0
    /\ sync = Rest
    /\ requests = "running"
    /\ withdrawal = [w \in Withdrawal |-> "relay"]
    /\ debit = NoDebit
    /\ faults = 0

Environment ==
    \/ \E e \in Catalogue : Publish(e)
    \/ \E d \in Deposit : Mine(d)
    \/ Tick

Sync == SyncStart \/ SyncFetch \/ SyncCheck \/ SyncOpen \/ SyncCommit

Withdraw ==
    \/ \E S \in SUBSET Withdrawal : TakeUp(S)
    \/ \E w \in Withdrawal : Gate(w) \/ Payout(w) \/ DebitOpen(w)
    \/ DebitCommit

Next == Environment \/ Sync \/ SyncFails \/ Withdraw \/ Restart

Spec == Init /\ [][Next]_vars

\* The tasks run on, and deposits Relay has seen appear on the wallet's node.
\* Relay owes the wallet nothing.
FairSpec ==
    /\ Spec
    /\ \A d \in Deposit : WF_vars(Mine(d))
    /\ WF_vars(Sync)
    /\ WF_vars(\E S \in SUBSET Withdrawal : TakeUp(S))
    /\ \A w \in Withdrawal : WF_vars(Gate(w)) /\ WF_vars(Payout(w))
                             /\ WF_vars(DebitOpen(w))
    /\ WF_vars(DebitCommit)

-----------------------------------------------------------------------------
(* What must hold. *)

\* What Relay has taken from a for withdrawals up to the checkpoint and the
\* wallet has neither debited nor seen refunded.
Outstanding(a) ==
    TotalOf({w \in Withdrawal :
                /\ IsGated(w) /\ Owner(w) = a
                /\ withdrawal[w] # "debited"
                /\ \A i \in 1 .. checkpoint :
                      ~(log[i].type = "withdrawRefund" /\ log[i].subject = w)})

\* A balance is Relay's own at the checkpoint plus what is outstanding: no event
\* is applied twice or skipped, however often applyTaskFeeLogBatch is repeated
\* after a failure, and neither writer undoes the other.
BalancesMatchLog ==
    /\ DOMAIN account = Touched(SubSeq(log, 1, checkpoint))
    /\ \A a \in DOMAIN account :
          account[a] = RelayBalance(a, checkpoint) + Outstanding(a)

\* A deposit is credited at most once, to its sender and with its amount, by the
\* key of deposit_records and validateDepositLog.
DepositsAreReal ==
    \A i \in DepositLogs(SubSeq(log, 1, checkpoint)) :
        /\ log[i].subject \in deposits
        /\ Transfer[log[i].subject] = [from |-> log[i].address, amount |-> log[i].amount]
        /\ \A j \in DepositLogs(SubSeq(log, 1, checkpoint)) :
              log[j].subject = log[i].subject => j = i

\* What was credited for a vesting never exceeds what its signed schedule allows
\* on the day of the event, whatever Relay sends, by applyVestingReleaseLog.
ReleasesWithinSchedule ==
    \A i \in 1 .. checkpoint :
        log[i].type = "vestingRelease" =>
            \E c \in CreatedBefore(log[i].subject, i) :
                LET t == log[c].terms
                IN /\ t.signed
                   /\ t.address = log[i].address
                   /\ t.released + ReleasedBy(log[i].subject, i) <= t.total
                   /\ (t.released + ReleasedBy(log[i].subject, i)) * t.duration
                         <= t.total * (log[i].day - t.start)

\* A vesting that is completed or was deprecated is closed: neither a release nor
\* a repeated VestingCreated touches its record.
ClosedVestingsStay ==
    [][\A v \in DOMAIN vesting :
          vesting[v].status # "active" =>
              v \in DOMAIN vesting' /\ vesting'[v] = vesting[v]]_vars

\* A withdrawal that Relay's ledger covers is never refused for its balance, and a
\* payout finds the balance it is debited from: the gate on the anchor event in
\* syncWithdrawalRequests and the ignored Withdraw events see to it.
BackedWithdrawalsProceed ==
    /\ requests = "running"
    /\ \A w \in Withdrawal :
          /\ withdrawal[w] # "refused"
          /\ withdrawal[w] \in {"paying", "paid"} => IsCovered(w)

\* If Relay keeps its promises the copy catches up with the log: no failure
\* leaves StartSyncTaskFeeLogs stuck, a deposit ahead of the node included.
CatchesUp == <>[](checkpoint = Len(log))

\* A withdrawal that Relay announced is debited or rejected in the end: it passes
\* the anchor gate and every balance check on its way.
AnnouncedIsSettled ==
    \A w \in Withdrawal :
        IsPublished(w) ~> withdrawal[w] \in {"debited", "rejected"}

-----------------------------------------------------------------------------
(* Why it holds: what every step preserves. *)

\* The log holds catalogue events under the day of their publication, never
\* overdraws an account, and has a withdrawal and its refund once.
LogIsPublished ==
    /\ \A i \in DOMAIN log : \E e \in Catalogue : log[i] = [e EXCEPT !.day = log[i].day]
    /\ \A a \in Address : \A n \in 0 .. Len(log) : RelayBalance(a, n) >= 0
    /\ \A i, j \in DOMAIN log :
          /\ log[i].type \in {"withdraw", "withdrawRefund"}
          /\ log[j].type = log[i].type /\ log[j].subject = log[i].subject
          => i = j

\* What the wallet works on has passed the gate; what is refunded has failed.
WithdrawalsFollowLog ==
    /\ \A w \in Withdrawal : withdrawal[w] # "relay" => IsGated(w)
    /\ \A i \in DOMAIN log :
          log[i].type = "withdrawRefund" =>
              withdrawal[log[i].subject] \in {"rejected", "refused"}

\* The batch in memory is the part of the log that follows the checkpoint, and
\* past its checks holds real deposits and vestings that fit the table.
BatchIsNext ==
    /\ sync.pc \in {"fetch", "check", "open", "commit"} => sync.checkpoint = checkpoint
    /\ sync.pc \in {"check", "open", "commit"} =>
          LET end == checkpoint + Len(sync.batch)
          IN end <= Len(log) /\ sync.batch = SubSeq(log, checkpoint + 1, end)
    /\ sync.pc \in {"open", "commit"} =>
          \A i \in DOMAIN sync.batch :
              LET e == sync.batch[i]
              IN /\ e.type = "deposit" =>
                        /\ e.subject \in Deposit
                        /\ Transfer[e.subject] = [from |-> e.address, amount |-> e.amount]
                 /\ e.type \in VestingEvents => e.subject # None
    /\ sync.pc = "commit" => AreNew(sync.batch) /\ VestingsAfter(sync.batch).ok

\* One transaction at a time writes what it has read.
ReadsCurrent ==
    /\ debit.open => /\ debit.withdrawal \in Withdrawal
                     /\ withdrawal[debit.withdrawal] = "paid"
                     /\ Owner(debit.withdrawal) \in DOMAIN account
    /\ Serializable =>
          /\ sync.pc = "commit" => ~debit.open /\ sync.read = account
          /\ debit.open => debit.balance = account[Owner(debit.withdrawal)]

\* A balance is what the log up to the checkpoint adds up to, less the debits.
Debited(a) == {w \in Withdrawal : withdrawal[w] = "debited" /\ Owner(w) = a}
AccountsFollowLog ==
    /\ DOMAIN account = Touched(SubSeq(log, 1, checkpoint))
    /\ \A w \in Withdrawal : withdrawal[w] = "debited" => Owner(w) \in DOMAIN account
    /\ Serializable =>
          \A a \in DOMAIN account :
              account[a] = Merged(SubSeq(log, 1, checkpoint), a) - TotalOf(Debited(a))

\* A vesting record goes back to its creation in the log and counts the releases
\* since.
VestingsFollowLog ==
    /\ \A v \in DOMAIN vesting :
          LET r == vesting[v]
          IN /\ r.terms.signed /\ r.released <= r.terms.total
             /\ r.released = r.terms.released + ReleasedBy(v, checkpoint)
             /\ \E c \in CreatedBefore(v, checkpoint + 1) :
                   /\ log[c].terms = r.terms
                   /\ \A i \in 1 .. checkpoint :
                         log[i].type = "vestingRelease" /\ log[i].subject = v => c < i
    /\ \A i \in 1 .. checkpoint :
          log[i].type = "vestingRelease" => log[i].subject \in DOMAIN vesting

LedgerInv ==
    /\ TypeOK
    /\ LogIsPublished
    /\ WithdrawalsFollowLog
    /\ BatchIsNext
    /\ ReadsCurrent
    /\ AccountsFollowLog
    /\ DepositsAreReal
    /\ VestingsFollowLog

=============================================================================
