----------------------------- MODULE WithdrawalSync -----------------------------
(***************************************************************************)
(* The task that takes withdrawal requests over from Relay                 *)
(* (syncWithdrawalRequests, tasks/process_withdrawal_requests.go): gate,    *)
(* authorization and its replay, daily limits, benefit address, storage     *)
(* and checkpoint.  Around it move Relay's list, the wallet's copy of the   *)
(* account ledger, the benefit address contract, the calendar, and the     *)
(* withdrawal processor, which settles the records that count.             *)
(*                                                                         *)
(* One action is one read, one round of node calls or one database         *)
(* transaction.  The id of a request is its index in Relay's list, and it   *)
(* is also the position of its ledger event: ids and events are in the     *)
(* same order.  The check against balances is RelayAccountLedger's matter.  *)
(***************************************************************************)
EXTENDS Integers, Sequences, FiniteSetsExt

CONSTANTS
    Address,               \* requesters and benefit addresses
    Network,
    Authorization,         \* signed withdrawal messages, by their fingerprint
    None,                  \* no signature, or one that does not verify
    Catalogue,             \* requests that users may make
    BenefitChoice,         \* the benefit address each requester may bind on a network
    BoundBefore,           \* (network, requester) pairs that have bound it before
    MaxWithdrawalsPerDay,  \* per network, the same in Relay's configuration
    BatchSize,
    MaxRequests,           \* bound: length of Relay's list
    MaxDay,                \* bound: days that pass
    MaxFaults,             \* bound: faults in a behaviour
    FaultKinds             \* the faults that may happen

\* "crash": the process dies and is started again; "db": a statement or the
\* transaction fails; "ack": the transaction commits and its answer is lost;
\* "relay", "rpc": a call to Relay or to a node fails.
AllFaultKinds == {"crash", "db", "ack", "relay", "rpc"}

Day == 0 .. MaxDay
\* What parseWithdrawalAmount and the checks on amount, status, account and
\* balance make of a request: "garbled" does not parse, "invalid" parses and is
\* refused.
Form == {"good", "garbled", "invalid"}
Request == [address : Address, benefitAddress : Address, network : Network,
            authorization : Authorization \cup {None}, form : Form, day : Day]

ASSUME SyncAssumption ==
    /\ None \notin Authorization
    /\ Catalogue \subseteq Request
    /\ \A r, s \in Catalogue :       \* the message names all of these
          r.authorization = s.authorization /\ r.authorization # None =>
              /\ r.address = s.address /\ r.benefitAddress = s.benefitAddress
              /\ r.network = s.network
    /\ BenefitChoice \in [Network \X Address -> Address]
    /\ BoundBefore \subseteq Network \X Address
    /\ MaxWithdrawalsPerDay \in [Network -> Nat \ {0}]
    /\ BatchSize \in Nat \ {0}
    /\ MaxRequests \in Nat /\ MaxDay \in Nat /\ MaxFaults \in Nat
    /\ FaultKinds \subseteq AllFaultKinds

VARIABLES
    requests,    \* Relay's list
    anchored,    \* how many of their ledger events the wallet has applied
    day,         \* the UTC day
    bound,       \* (network, address) pairs whose benefit address is bound
    records,     \* withdraw_records by remote_id
    checkpoint,  \* latest_withdrawal_request_id
    sync,        \* the task: next step, cursor and batch in memory, how it ended
    blame,       \* what has happened that may push a count over its limit
    faults       \* faults so far

relayVars == <<requests, anchored, day, bound, blame>>
vars == <<relayVars, records, checkpoint, sync, faults>>

\* "finished" stands for success too: a withdrawal that is paid counts.
RecordStatus == {"pending", "failed", "finished", "finishedRejected"}
\* "rejected": the reject callback has reached Relay.
Record == [created : Day, status : RecordStatus, rejected : BOOLEAN,
           fingerprint : Authorization \cup {None}]
SyncPc == {"idle", "fetch", "authorize", "check", "benefit", "store", "stopped"}
\* The errors that end the task.
Reason == {"none", "garbled", "invalid", "limit", "benefit"}
Id == 1 .. MaxRequests

TypeOK ==
    /\ requests \in Seq(Request) /\ Len(requests) <= MaxRequests
    /\ anchored \in 0 .. Len(requests)
    /\ day \in Day
    /\ bound \subseteq Network \X Address
    /\ DOMAIN records \subseteq 1 .. anchored
    /\ \A i \in DOMAIN records : records[i] \in Record
    /\ checkpoint \in 0 .. anchored
    /\ sync \in [pc : SyncPc, cursor : 0 .. MaxRequests, end : 0 .. MaxRequests,
                 valid : SUBSET Id, reason : Reason]
    /\ sync.cursor <= checkpoint
    /\ sync.reason # "none" <=> sync.pc = "stopped"
    /\ blame \subseteq {"relay", "overnight", "rejecting"}
    /\ faults \in 0 .. MaxFaults

Fault(kind) ==
    /\ kind \in FaultKinds
    /\ faults < MaxFaults
    /\ faults' = faults + 1

NoFault == UNCHANGED faults

-----------------------------------------------------------------------------
(* Relay, the chain and the calendar. *)

\* blockchain.GetBenefitAddress: the requester itself until one is bound.
GetBenefitAddress(n, a) == IF <<n, a>> \in bound THEN BenefitChoice[n, a] ELSE a

SameRequester(r, s) == r.network = s.network /\ r.address = s.address
SameBenefit(r, s) == r.network = s.network /\ r.benefitAddress = s.benefitAddress

\* How many requests of S share the requester of r, or its benefit address,
\* whichever are more.
Load(S, r) ==
    Max({Cardinality({i \in S : SameRequester(requests[i], r)}),
         Cardinality({i \in S : SameBenefit(requests[i], r)})})

\* Relay counts by its own day of the request, and no longer counts a withdrawal
\* once it has been told of its rejection.
CountsAtRelay(i) ==
    requests[i].day = day /\ ~(i \in DOMAIN records /\ records[i].rejected)
WithinRelayLimit(r) ==
    Load({i \in DOMAIN requests : CountsAtRelay(i)}, r)
        < MaxWithdrawalsPerDay[r.network]

\* A rejection Relay knows of and the record does not show yet.
Rejecting ==
    \E i \in DOMAIN records : records[i].rejected /\ records[i].status = "pending"

\* A user's request, with the benefit address the chain shows at that time.
Submit(r) ==
    /\ Len(requests) < MaxRequests
    /\ r.benefitAddress = GetBenefitAddress(r.network, r.address)
    /\ requests' = Append(requests, [r EXCEPT !.day = day])
    /\ blame' = blame \cup (IF WithinRelayLimit(r) THEN {} ELSE {"relay"})
                      \cup (IF Rejecting THEN {"rejecting"} ELSE {})
    /\ UNCHANGED <<anchored, day, bound, records, checkpoint, sync, faults>>

\* The wallet's copy of the ledger comes as far as the event of the next request.
Anchor ==
    /\ anchored < Len(requests)
    /\ anchored' = anchored + 1
    /\ UNCHANGED <<requests, day, bound, blame, records, checkpoint, sync, faults>>

Midnight ==
    /\ day < MaxDay
    /\ day' = day + 1
    /\ blame' = IF checkpoint < Len(requests) THEN blame \cup {"overnight"} ELSE blame
    /\ UNCHANGED <<requests, anchored, bound, records, checkpoint, sync, faults>>

\* A benefit address is bound once and for all.
Bind(n, a) ==
    /\ <<n, a>> \notin bound
    /\ BenefitChoice[n, a] # a
    /\ bound' = bound \cup {<<n, a>>}
    /\ UNCHANGED <<requests, anchored, day, blame, records, checkpoint, sync, faults>>

-----------------------------------------------------------------------------
(* The withdrawal processor, as far as the counts depend on it: it settles one
   record after the other.  A withdrawal that runs into its deadline is still
   pending when Relay is told of its rejection (handleTimeoutWithdrawalRequest). *)

Finished == {"finished", "finishedRejected"}
IsNextToSettle(i) ==
    /\ records[i].status \notin Finished
    /\ \A j \in DOMAIN records : j < i => records[j].status \in Finished

SetStatus(i, status) == records' = [records EXCEPT ![i].status = status]
Settle(i) ==
    /\ IsNextToSettle(i)
    /\ LET r == records[i]
       IN \/ r.status = "pending" /\ ~r.rejected
             /\ \E s \in {"finished", "failed"} : SetStatus(i, s)
          \/ r.status \in {"pending", "failed"} /\ ~r.rejected
             /\ records' = [records EXCEPT ![i].rejected = TRUE]
          \/ r.rejected /\ SetStatus(i, "finishedRejected")
    /\ UNCHANGED <<relayVars, checkpoint, sync, faults>>

-----------------------------------------------------------------------------
(* The task. *)

Batch == (sync.cursor + 1) .. sync.end

Rest == [pc |-> "idle", cursor |-> 0, end |-> 0, valid |-> {}, reason |-> "none"]

SyncGoto(label) == sync' = [sync EXCEPT !.pc = label]
Stop(reason) == sync' = [sync EXCEPT !.pc = "stopped", !.reason = reason]

\* The checkpoint is read once and then kept in memory.
Start ==
    /\ sync.pc = "idle"
    /\ sync' = [Rest EXCEPT !.pc = "fetch", !.cursor = checkpoint]
    /\ UNCHANGED <<relayVars, records, checkpoint, faults>>

\* The position of the ledger copy, then a page of the list, cut at the first
\* request that is ahead of it.  An empty page waits.
Fetch ==
    /\ sync.pc = "fetch"
    /\ LET end == Min({sync.cursor + BatchSize, Len(requests), anchored})
       IN /\ end > sync.cursor
          /\ sync' = [sync EXCEPT !.pc = "authorize", !.end = end]
    /\ UNCHANGED <<relayVars, records, checkpoint, faults>>

SeenBeforeVariant(i) ==          \* in the table only
    \E j \in DOMAIN records : records[j].fingerprint = requests[i].authorization
SeenBefore(i) ==
    \/ \E j \in Batch : j < i /\ requests[j].authorization = requests[i].authorization
    \/ \E j \in DOMAIN records :
          j # i /\ records[j].fingerprint = requests[i].authorization

IsAuthorized(i) == requests[i].authorization # None /\ ~SeenBefore(i)

AfterAuthorizationVariant(valid) ==     \* a batch of refusals is not stored
    IF valid = {} THEN "fetch" ELSE "check"
AfterAuthorization(valid) == IF valid = {} THEN "store" ELSE "check"

Authorize ==
    /\ sync.pc = "authorize"
    /\ IF \E i \in Batch : requests[i].form = "garbled"
       THEN Stop("garbled")
       ELSE LET valid == {i \in Batch : IsAuthorized(i)}
            IN sync' = [sync EXCEPT !.pc = AfterAuthorization(valid), !.valid = valid]
    /\ UNCHANGED <<relayVars, records, checkpoint, faults>>

\* checkWithdrawalDailyLimit: the records of the day that have not failed, and the
\* batch itself.
CountsVariant(i) ==              \* those that are still under way
    records[i].created = day /\ records[i].status = "pending"
CountsRefusedVariant(i) ==       \* failed and rejected ones as well
    records[i].created = day
Counts(i) ==
    records[i].created = day /\ records[i].status \notin {"failed", "finishedRejected"}

WithinDailyLimit(valid) ==
    LET counted == valid \cup {i \in DOMAIN records : Counts(i)}
    IN \A i \in valid :
          Load(counted, requests[i]) <= MaxWithdrawalsPerDay[requests[i].network]

\* checkWithdrawalRequests, up to the node calls
Check ==
    /\ sync.pc = "check"
    /\ IF \E i \in sync.valid : requests[i].form = "invalid" THEN Stop("invalid")
       ELSE IF ~WithinDailyLimit(sync.valid) THEN Stop("limit")
       ELSE SyncGoto("benefit")
    /\ UNCHANGED <<relayVars, records, checkpoint, faults>>

CheckBenefit ==
    /\ sync.pc = "benefit"
    /\ IF \A i \in sync.valid :
             requests[i].benefitAddress
                = GetBenefitAddress(requests[i].network, requests[i].address)
       THEN SyncGoto("store") ELSE Stop("benefit")
    /\ UNCHANGED <<relayVars, records, checkpoint, faults>>

\* The row of a request.  A refused one is failed from the start.
RowOfVariant(i) ==               \* pending, and left to the processor to refuse
    [created |-> day, rejected |-> FALSE, status |-> "pending",
     fingerprint |-> IF i \in sync.valid THEN requests[i].authorization ELSE None]
RowOf(i) ==
    [created |-> day, rejected |-> FALSE,
     status |-> IF i \in sync.valid THEN "pending" ELSE "failed",
     fingerprint |-> IF i \in sync.valid THEN requests[i].authorization ELSE None]

\* OnConflict DoNothing, with remote_id and authorization_fingerprint unique: a
\* row that collides with one of the table or of the batch is left out.
Collides(i) ==
    \/ i \in DOMAIN records
    \/ /\ RowOf(i).fingerprint # None
       /\ \/ \E j \in DOMAIN records : records[j].fingerprint = RowOf(i).fingerprint
          \/ \E j \in Batch : j < i /\ RowOf(j).fingerprint = RowOf(i).fingerprint

NextCheckpointVariant ==         \* the whole page, not what the gate let through
    Min({sync.cursor + BatchSize, Len(requests)})
NextCheckpoint == sync.end

\* The rows and the checkpoint in one database transaction.
Store ==
    /\ sync.pc = "store"
    /\ records' = [i \in DOMAIN records \cup {j \in Batch : ~Collides(j)} |->
                      IF i \in DOMAIN records THEN records[i] ELSE RowOf(i)]
    /\ checkpoint' = NextCheckpoint
    /\ \/ NoFault /\ sync' = [Rest EXCEPT !.pc = "fetch", !.cursor = NextCheckpoint]
       \/ Fault("ack") /\ sync' = Rest
    /\ UNCHANGED relayVars

\* An error that is no WithdrawalRequestError ends this pass, and the next tick
\* reads the checkpoint again; so does an operator's restart.
AfterErrorVariant ==             \* the pass goes on with the cursor in memory
    [Rest EXCEPT !.pc = "fetch", !.cursor = sync.end]
AfterError == Rest

SyncFails ==
    /\ \/ sync.pc = "fetch" /\ Fault("relay")
       \/ sync.pc = "benefit" /\ Fault("rpc")
       \/ sync.pc \in {"authorize", "check", "store"} /\ Fault("db")
    /\ sync' = AfterError
    /\ UNCHANGED <<relayVars, records, checkpoint>>

Crash ==
    /\ Fault("crash")
    /\ sync' = Rest
    /\ UNCHANGED <<relayVars, records, checkpoint>>

Restart ==
    /\ sync.pc = "stopped"
    /\ sync' = Rest
    /\ UNCHANGED <<relayVars, records, checkpoint, faults>>

-----------------------------------------------------------------------------
Init ==
    /\ requests = <<>> /\ anchored = 0 /\ day = 0 /\ bound = BoundBefore
    /\ records = <<>> /\ checkpoint = 0
    /\ sync = Rest
    /\ blame = {}
    /\ faults = 0

Environment ==
    \/ \E r \in Catalogue : Submit(r)
    \/ Anchor
    \/ Midnight
    \/ \E n \in Network, a \in Address : Bind(n, a)
    \/ \E i \in DOMAIN records : Settle(i)

Sync == Start \/ Fetch \/ Authorize \/ Check \/ CheckBenefit \/ Store

Next == Environment \/ Sync \/ SyncFails \/ Crash \/ Restart

Spec == Init /\ [][Next]_vars

\* The task runs on and the ledger copy keeps up.
FairSpec == Spec /\ WF_vars(Sync) /\ WF_vars(Anchor)

-----------------------------------------------------------------------------
(* What must hold. *)

\* The table holds exactly the requests up to the checkpoint: none is skipped
\* because of the gate, a refused authorization, a conflict that Create ignores or
\* an error after the cursor has moved, and none is stored ahead of it.
NoRequestSkipped == DOMAIN records = 1 .. checkpoint

\* An authorization is spent by the first request that carries it and by no other,
\* across batches, failures and restarts; whatever carries none is never paid.
AuthorizationsSpentOnce ==
    \A i \in DOMAIN records :
        LET first == requests[i].authorization # None
                     /\ \A j \in 1 .. (i - 1) :
                           requests[j].authorization # requests[i].authorization
        IN /\ records[i].fingerprint = IF first THEN requests[i].authorization ELSE None
           /\ ~first => records[i].status \in {"failed", "finishedRejected"}

\* Of the withdrawals taken over in one day no more than the limit have not failed,
\* by requester and by benefit address, also when midnight falls between the check
\* of checkWithdrawalDailyLimit and the insertion.
DailyLimitHolds ==
    \A i \in DOMAIN records :
        LET sameDay == {j \in DOMAIN records :
                           /\ records[j].created = records[i].created
                           /\ records[j].status \notin {"failed", "finishedRejected"}}
        IN Load(sameDay, requests[i]) <= MaxWithdrawalsPerDay[requests[i].network]

\* The task ends for the daily limit only if Relay broke it, or a request was left
\* waiting over midnight, or Relay knew of a rejection before the record did:
\* failed, rejected and other networks' withdrawals do not count.
LimitStopHasCause == sync.reason = "limit" => blame # {}

-----------------------------------------------------------------------------
(* Why it holds: what the steps of a pass owe to one another. *)

\* From the read of the checkpoint to the next store the task works on the page
\* right after the table, within the ledger copy, and what it has authorized is
\* what it would authorize now: nobody else writes fingerprints or checkpoint.
PageInv ==
    /\ sync.pc \in {"fetch", "authorize", "check", "benefit", "store"} =>
          sync.cursor = checkpoint
    /\ sync.pc \in {"authorize", "check", "benefit", "store"} =>
          sync.end \in (checkpoint + 1) .. anchored
    /\ sync.pc \in {"check", "benefit", "store"} =>
          sync.valid = {i \in Batch : IsAuthorized(i)}

\* Every authorization that has been taken over has left its fingerprint, at the
\* request that carries it or before.
SpentIsKnown ==
    \A i \in DOMAIN records : requests[i].authorization # None =>
        \E j \in 1 .. i : records[j].fingerprint = requests[i].authorization

\* Days pass for requests, then for records; what is paid was not rejected.
DaysInv ==
    /\ \A i \in DOMAIN requests : requests[i].day <= day
    /\ \A i \in DOMAIN records :
          /\ records[i].created <= day
          /\ records[i].status = "finished" => ~records[i].rejected

\* What checkWithdrawalDailyLimit found stays true until the rows are there.
CheckedInv == sync.pc \in {"benefit", "store"} => WithinDailyLimit(sync.valid)

\* As long as nothing to blame has happened, a request that waits is of today, one
\* taken over was of that day, and what may be open today fits the limits.
OpenToday ==
    {i \in DOMAIN requests :
        /\ requests[i].day = day
        /\ i \in DOMAIN records => records[i].status \notin {"failed", "finishedRejected"}}
CauseInv ==
    blame = {} =>
        /\ \A i \in DOMAIN requests : i > checkpoint => requests[i].day = day
        /\ \A i \in DOMAIN records : records[i].created = requests[i].day
        /\ \A i \in DOMAIN requests :
              Load(OpenToday, requests[i]) <= MaxWithdrawalsPerDay[requests[i].network]

\* The type invariant and these facts: with the four invariants above, inductive.
SyncInv == TypeOK /\ PageInv /\ SpentIsKnown /\ DaysInv /\ CheckedInv /\ CauseInv

\* Relay's list is taken over again and again, refused authorizations included, or the
\* task has ended with an alert.
RequestsAreTakenOver == []<>(checkpoint = Len(requests) \/ sync.pc = "stopped")
=================================================================================
