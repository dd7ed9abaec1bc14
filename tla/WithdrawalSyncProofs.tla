---------------------------- MODULE WithdrawalSyncProofs ----------------------------
(***************************************************************************)
(* Theorems about the synchronisation of withdrawal requests                *)
(* (WithdrawalSync), for every list of requests, every number of networks,  *)
(* every page size and limit, and any number of faults: nothing is skipped, *)
(* an authorization is spent once, the daily limits hold, and the task ends *)
(* for a limit only if somebody else is to blame.                           *)
(***************************************************************************)
EXTENDS WithdrawalSync, FiniteSetTheorems, WellFoundedInduction, NaturalsInduction,
        SequenceTheorems, TLAPS

-----------------------------------------------------------------------------
(* Operators. *)

\* A set of ids has a first one.
LEMMA FirstId ==
  ASSUME NEW S \in SUBSET Nat, S # {}
  PROVE  \E i \in S : \A j \in S : i <= j
<1> DEFINE R == {p \in Nat \X Nat : p[1] < p[2]}
<1>1. IsWellFoundedOn(R, Nat)
  BY NatLessThanWellFounded DEF OpToRel
<1>2. PICK i \in S : \A j \in S : ~ (<<j, i>> \in R)
  <2> HIDE DEF R
  <2> QED BY <1>1, WFMin
<1>3. ASSUME NEW j \in S, j < i PROVE FALSE
  <2>1. <<j, i>> \in R
    BY <1>3
  <2>2. QED
    BY <1>2, <2>1
<1>4. QED
  BY <1>3

\* Max bounds exactly what bounds both.
LEMMA MaxOfTwo ==
  ASSUME NEW m \in Nat, NEW n \in Nat, NEW k \in Nat
  PROVE  Max({m, n}) <= k <=> m <= k /\ n <= k
<1>1. Max({m, n}) = IF m >= n THEN m ELSE n
  BY DEF Max
<1>2. QED
  BY <1>1

\* Min of three is one of them and below all.
LEMMA MinOfThree ==
  ASSUME NEW m \in Nat, NEW n \in Nat, NEW k \in Nat
  PROVE  /\ Min({m, n, k}) \in {m, n, k}
         /\ Min({m, n, k}) <= m /\ Min({m, n, k}) <= n /\ Min({m, n, k}) <= k
<1>1. \E i \in {m, n, k} : \A j \in {m, n, k} : i =< j
  OBVIOUS
<1>2. QED
  BY <1>1 DEF Min

-----------------------------------------------------------------------------
(* Types.  The pages of a list that only grows. *)

\* What Submit appends is a request, of today.
LEMMA SubmittedIsRequest ==
  ASSUME NEW r \in Catalogue, NEW d \in Day
  PROVE  [r EXCEPT !.day = d] \in Request /\ [r EXCEPT !.day = d].day = d
  BY SyncAssumption DEF Request, Day

\* An element of the list stays what it is when another is appended.
LEMMA Appended ==
  ASSUME NEW list \in Seq(Request), NEW r \in Request
  PROVE  /\ Append(list, r) \in Seq(Request)
         /\ Len(Append(list, r)) = Len(list) + 1
         /\ DOMAIN Append(list, r) = 1 .. (Len(list) + 1)
         /\ \A i \in 1 .. Len(list) : Append(list, r)[i] = list[i]
         /\ Append(list, r)[Len(list) + 1] = r
  BY AppendProperties, LenProperties

\* The type of the task's state.
SyncType == [pc : SyncPc, cursor : 0 .. MaxRequests, end : 0 .. MaxRequests,
             valid : SUBSET Id, reason : Reason]

LEMMA RestType ==
         /\ Rest \in SyncType
         /\ Rest.pc = "idle" /\ Rest.cursor = 0 /\ Rest.reason = "none"
         /\ \A n \in 0 .. MaxRequests :
              /\ [Rest EXCEPT !.pc = "fetch", !.cursor = n] \in SyncType
              /\ [Rest EXCEPT !.pc = "fetch", !.cursor = n].pc = "fetch"
              /\ [Rest EXCEPT !.pc = "fetch", !.cursor = n].cursor = n
              /\ [Rest EXCEPT !.pc = "fetch", !.cursor = n].reason = "none"
<1> 0 \in 0 .. MaxRequests /\ {} \in SUBSET Id
  BY SyncAssumption
<1> QED
  BY DEF Rest, SyncType, SyncPc, Reason

\* Processing marks, appended requests and whatever leaves the fingerprints alone do
\* not change what the task would authorize of the page in memory.
LEMMA StillAuthorized ==
  ASSUME TypeOK, sync.end <= Len(requests),
         sync'.cursor = sync.cursor, sync'.end = sync.end,
         \A i \in 1 .. Len(requests) : requests'[i] = requests[i],
         DOMAIN records' = DOMAIN records,
         \A i \in DOMAIN records : records'[i].fingerprint = records[i].fingerprint
  PROVE  /\ Batch' = Batch
         /\ {i \in Batch : IsAuthorized(i)}' = {i \in Batch : IsAuthorized(i)}
<1>1. Batch' = Batch
  BY DEF Batch
<1>2. Batch \subseteq 1 .. Len(requests)
  BY DEF Batch, TypeOK
<1>3. ASSUME NEW i \in Batch PROVE IsAuthorized(i)' <=> IsAuthorized(i)
  <2>1. requests'[i] = requests[i]
    BY <1>2
  <2>2. SeenBefore(i)' <=> SeenBefore(i)
    <3>1. (\E j \in Batch : j < i /\ requests[j].authorization = requests[i].authorization)'
          <=> (\E j \in Batch : j < i /\ requests[j].authorization = requests[i].authorization)
      BY <1>1, <1>2, <2>1
    <3>2. (\E j \in DOMAIN records :
              j # i /\ records[j].fingerprint = requests[i].authorization)'
          <=> (\E j \in DOMAIN records :
                  j # i /\ records[j].fingerprint = requests[i].authorization)
      BY <2>1
    <3>3. QED
      BY <3>1, <3>2 DEF SeenBefore
  <2>3. QED
    BY <2>1, <2>2 DEF IsAuthorized
<1>4. QED
  BY <1>1, <1>3

\* Settling changes one record, and of it neither day nor fingerprint.
LEMMA Settled ==
  ASSUME TypeOK, NEW i \in DOMAIN records, Settle(i)
  PROVE  /\ DOMAIN records' = DOMAIN records
         /\ \A j \in DOMAIN records :
              /\ records'[j] \in Record
              /\ records'[j].fingerprint = records[j].fingerprint
              /\ records'[j].created = records[j].created
              /\ records[j].status \in {"failed", "finishedRejected"} =>
                    records'[j].status \in {"failed", "finishedRejected"}
              /\ (records[j].status = "finished" => ~records[j].rejected) =>
                 (records'[j].status = "finished" => ~records'[j].rejected)
<1>1. records[i] \in Record
  BY DEF TypeOK
<1>2. records[i].status \notin Finished
  BY DEF Settle, IsNextToSettle
<1>3. ASSUME NEW s \in {"finished", "failed"},
             records' = [records EXCEPT ![i].status = s],
             records[i].status = "pending", ~records[i].rejected
      PROVE  /\ DOMAIN records' = DOMAIN records
             /\ records'[i] = [records[i] EXCEPT !.status = s]
             /\ \A j \in DOMAIN records : j # i => records'[j] = records[j]
  BY <1>3
<1>4. CASE records' = [records EXCEPT ![i].rejected = TRUE]
  BY <1>1, <1>2, <1>4 DEF TypeOK, Record, RecordStatus, Finished
<1>5. CASE records' = [records EXCEPT ![i].status = "finishedRejected"]
  BY <1>1, <1>5 DEF TypeOK, Record, RecordStatus
<1>6. CASE \E s \in {"finished", "failed"} :
              /\ records' = [records EXCEPT ![i].status = s]
              /\ records[i].status = "pending" /\ ~records[i].rejected
  <2>1. PICK s \in {"finished", "failed"} : records' = [records EXCEPT ![i].status = s]
    BY <1>6
  <2>2. /\ DOMAIN records' = DOMAIN records
        /\ records'[i] = [records[i] EXCEPT !.status = s]
        /\ \A j \in DOMAIN records : j # i => records'[j] = records[j]
    BY <1>3, <1>6, <2>1
  <2>3. /\ records'[i] \in Record
        /\ records'[i].fingerprint = records[i].fingerprint
        /\ records'[i].created = records[i].created
        /\ ~records'[i].rejected
    BY <1>1, <1>6, <2>2 DEF Record, RecordStatus
  <2>4. ASSUME NEW j \in DOMAIN records, j # i
        PROVE  records'[j] = records[j] /\ records[j] \in Record
    BY <2>2, <2>4 DEF TypeOK
  <2>5. QED
    BY <1>6, <2>2, <2>3, <2>4
<1>7. QED
  BY <1>2, <1>4, <1>5, <1>6 DEF Settle, SetStatus, Finished

-----------------------------------------------------------------------------
(* Types, pages and the table. *)

CoreInv == TypeOK /\ PageInv /\ NoRequestSkipped

LEMMA InitCore == Init => CoreInv
<1> SUFFICES ASSUME Init PROVE CoreInv
  OBVIOUS
<1>1. requests \in Seq(Request) /\ Len(requests) = 0
  BY DEF Init
<1>2. DOMAIN records = {}
  BY DEF Init
<1>3. TypeOK
  <2>1. sync \in SyncType /\ sync.pc = "idle" /\ sync.cursor = 0 /\ sync.reason = "none"
    BY RestType DEF Init
  <2>2. day \in Day /\ faults \in 0 .. MaxFaults /\ bound \subseteq Network \X Address
    BY SyncAssumption DEF Init, Day
  <2>3. Len(requests) <= MaxRequests /\ anchored \in 0 .. Len(requests)
    BY <1>1, SyncAssumption DEF Init
  <2>4. checkpoint \in 0 .. anchored /\ sync.cursor <= checkpoint
    BY <2>1 DEF Init
  <2>5. QED
    BY <1>1, <1>2, <2>1, <2>2, <2>3, <2>4 DEF Init, TypeOK, SyncType
<1>4. PageInv
  BY RestType DEF Init, PageInv
<1>5. NoRequestSkipped
  BY <1>2 DEF Init, NoRequestSkipped
<1>6. QED
  BY <1>3, <1>4, <1>5 DEF CoreInv

\* A step that leaves table and task alone and lets the list and the ledger copy
\* grow keeps the page in memory.
LEMMA PageStays ==
  ASSUME CoreInv, TypeOK', UNCHANGED <<checkpoint, sync>>,
         anchored <= anchored',
         \A i \in 1 .. Len(requests) : requests'[i] = requests[i],
         DOMAIN records' = DOMAIN records,
         \A i \in DOMAIN records : records'[i].fingerprint = records[i].fingerprint
  PROVE  PageInv' /\ NoRequestSkipped'
<1>1. NoRequestSkipped'
  BY DEF CoreInv, NoRequestSkipped
<1>2. CASE sync.pc \in {"check", "benefit", "store"}
  <2>1. sync.end <= Len(requests)
    BY <1>2 DEF CoreInv, PageInv, TypeOK
  <2>2. {i \in Batch : IsAuthorized(i)}' = {i \in Batch : IsAuthorized(i)}
    BY <2>1, StillAuthorized DEF CoreInv
  <2>3. QED
    BY <1>1, <1>2, <2>2 DEF CoreInv, PageInv, TypeOK
<1>3. CASE sync.pc \notin {"check", "benefit", "store"}
  BY <1>1, <1>3 DEF CoreInv, PageInv, TypeOK
<1>4. QED
  BY <1>2, <1>3

LEMMA SubmitCore ==
  ASSUME CoreInv, NEW r \in Catalogue, Submit(r)
  PROVE  CoreInv'
<1> DEFINE q == [r EXCEPT !.day = day]
<1>1. q \in Request
  BY SubmittedIsRequest DEF CoreInv, TypeOK
<1>2. /\ requests' = Append(requests, q)
      /\ UNCHANGED <<anchored, day, bound, records, checkpoint, sync, faults>>
      /\ blame' \subseteq blame \cup {"relay", "rejecting"}
      /\ Len(requests) < MaxRequests
  BY DEF Submit
<1> HIDE DEF q
<1>3. /\ requests' \in Seq(Request) /\ Len(requests') = Len(requests) + 1
      /\ \A i \in 1 .. Len(requests) : requests'[i] = requests[i]
  BY <1>1, <1>2, Appended DEF CoreInv, TypeOK
<1>4. Len(requests) \in Nat
  BY LenProperties DEF CoreInv, TypeOK
<1>5. TypeOK'
  <2>1. Len(requests') <= MaxRequests /\ anchored' \in 0 .. Len(requests')
    BY <1>2, <1>3, <1>4, SyncAssumption DEF CoreInv, TypeOK
  <2>2. blame' \subseteq {"relay", "overnight", "rejecting"}
    BY <1>2 DEF CoreInv, TypeOK
  <2>3. QED
    BY <1>2, <1>3, <2>1, <2>2 DEF CoreInv, TypeOK
<1>6. PageInv' /\ NoRequestSkipped'
  BY <1>2, <1>3, <1>4, <1>5, PageStays DEF CoreInv, TypeOK
<1>7. QED
  BY <1>5, <1>6 DEF CoreInv

LEMMA AnchorCore ==
  ASSUME CoreInv, Anchor
  PROVE  CoreInv'
<1>1. /\ anchored' = anchored + 1 /\ anchored < Len(requests)
      /\ UNCHANGED <<requests, day, bound, blame, records, checkpoint, sync, faults>>
  BY DEF Anchor
<1>2. Len(requests) \in Nat
  BY LenProperties DEF CoreInv, TypeOK
<1>3. TypeOK'
  <2>1. /\ anchored' \in 0 .. Len(requests) /\ checkpoint \in 0 .. anchored'
        /\ DOMAIN records \subseteq 1 .. anchored'
    BY <1>1, <1>2 DEF CoreInv, TypeOK
  <2>2. QED
    BY <1>1, <2>1 DEF CoreInv, TypeOK
<1>4. QED
  BY <1>1, <1>2, <1>3, PageStays DEF CoreInv, TypeOK

LEMMA MidnightCore ==
  ASSUME CoreInv, Midnight
  PROVE  CoreInv'
<1>1. /\ day' = day + 1 /\ day < MaxDay
      /\ blame' \subseteq blame \cup {"overnight"}
      /\ UNCHANGED <<requests, anchored, bound, records, checkpoint, sync, faults>>
  BY DEF Midnight
<1>2. day' \in Day
  BY <1>1, SyncAssumption DEF CoreInv, TypeOK, Day
<1>3. TypeOK'
  BY <1>1, <1>2 DEF CoreInv, TypeOK
<1>4. QED
  BY <1>1, <1>3, PageStays DEF CoreInv, TypeOK

LEMMA BindCore ==
  ASSUME CoreInv, NEW n \in Network, NEW a \in Address, Bind(n, a)
  PROVE  CoreInv'
<1>1. /\ bound' = bound \cup {<<n, a>>}
      /\ UNCHANGED <<requests, anchored, day, blame, records, checkpoint, sync, faults>>
  BY DEF Bind
<1>2. TypeOK'
  BY <1>1 DEF CoreInv, TypeOK
<1>3. QED
  BY <1>1, <1>2, PageStays DEF CoreInv, TypeOK

LEMMA SettleCore ==
  ASSUME CoreInv, NEW i \in DOMAIN records, Settle(i)
  PROVE  CoreInv'
<1>1. UNCHANGED <<requests, anchored, day, bound, blame, checkpoint, sync, faults>>
  BY DEF Settle, relayVars
<1>2. /\ DOMAIN records' = DOMAIN records
      /\ \A j \in DOMAIN records :
            records'[j] \in Record /\ records'[j].fingerprint = records[j].fingerprint
  BY Settled DEF CoreInv
<1>3. TypeOK'
  BY <1>1, <1>2 DEF CoreInv, TypeOK
<1>4. QED
  BY <1>1, <1>2, <1>3, PageStays DEF CoreInv, TypeOK

\* A step of the task that writes nothing.
LEMMA TaskOnly ==
  ASSUME CoreInv, UNCHANGED <<relayVars, records, checkpoint>>,
         faults' \in 0 .. MaxFaults, sync' \in SyncType, sync'.cursor <= checkpoint,
         sync'.reason # "none" <=> sync'.pc = "stopped"
  PROVE  TypeOK' /\ NoRequestSkipped'
<1>1. NoRequestSkipped'
  BY DEF CoreInv, NoRequestSkipped
<1>2. TypeOK'
  BY DEF CoreInv, TypeOK, relayVars, SyncType
<1>3. QED
  BY <1>1, <1>2

\* Back to rest, as after an error, a crash and an operator's restart.
LEMMA RestCore ==
  ASSUME CoreInv, UNCHANGED <<relayVars, records, checkpoint>>,
         faults' \in 0 .. MaxFaults, sync' = Rest
  PROVE  CoreInv'
<1>1. TypeOK' /\ NoRequestSkipped'
  <2>1. sync' \in SyncType /\ sync'.cursor = 0
        /\ sync'.pc = "idle" /\ sync'.reason = "none"
    BY RestType
  <2>2. 0 <= checkpoint
    BY DEF CoreInv, TypeOK
  <2>3. QED
    BY <2>1, <2>2, TaskOnly
<1>2. PageInv'
  BY RestType DEF PageInv
<1>3. QED
  BY <1>1, <1>2 DEF CoreInv

\* The bounds of the page in memory.
LEMMA PageBounds ==
  ASSUME CoreInv
  PROVE  /\ checkpoint \in Nat /\ anchored \in Nat /\ Len(requests) \in Nat
         /\ checkpoint <= anchored /\ anchored <= Len(requests)
         /\ Len(requests) <= MaxRequests
         /\ DOMAIN requests = 1 .. Len(requests)
         /\ sync.pc \in {"authorize", "check", "benefit", "store"} =>
              /\ Batch = (checkpoint + 1) .. sync.end
              /\ sync.end \in Nat /\ checkpoint < sync.end /\ sync.end <= anchored
              /\ Batch \subseteq 1 .. anchored
              /\ Batch \subseteq DOMAIN requests
              /\ Batch \subseteq Id
              /\ Batch \cap DOMAIN records = {}
<1>1. /\ checkpoint \in Nat /\ anchored \in Nat /\ Len(requests) \in Nat
      /\ checkpoint <= anchored /\ anchored <= Len(requests)
      /\ Len(requests) <= MaxRequests
      /\ DOMAIN requests = 1 .. Len(requests)
  BY LenProperties DEF CoreInv, TypeOK
<1>2. ASSUME sync.pc \in {"authorize", "check", "benefit", "store"}
      PROVE  /\ Batch = (checkpoint + 1) .. sync.end
             /\ sync.end \in Nat /\ checkpoint < sync.end /\ sync.end <= anchored
  BY <1>1, <1>2 DEF CoreInv, PageInv, Batch
<1>3. QED
  BY <1>1, <1>2, SyncAssumption DEF CoreInv, NoRequestSkipped, Id

LEMMA StartCore ==
  ASSUME CoreInv, Start
  PROVE  CoreInv'
<1>1. /\ sync' = [Rest EXCEPT !.pc = "fetch", !.cursor = checkpoint]
      /\ UNCHANGED <<relayVars, records, checkpoint, faults>>
  BY DEF Start
<1>2. checkpoint \in 0 .. MaxRequests
  BY PageBounds, SyncAssumption
<1>3. /\ sync' \in SyncType
      /\ sync'.pc = "fetch" /\ sync'.cursor = checkpoint /\ sync'.reason = "none"
  BY <1>1, <1>2, RestType
<1>4. faults' \in 0 .. MaxFaults
  BY <1>1 DEF CoreInv, TypeOK
<1>5. TypeOK' /\ NoRequestSkipped'
  BY <1>1, <1>2, <1>3, <1>4, TaskOnly
<1>6. PageInv'
  BY <1>1, <1>3 DEF PageInv
<1>7. QED
  BY <1>5, <1>6 DEF CoreInv

LEMMA FetchCore ==
  ASSUME CoreInv, Fetch
  PROVE  CoreInv'
<1> DEFINE end == Min({sync.cursor + BatchSize, Len(requests), anchored})
<1>1. /\ sync.pc = "fetch" /\ end > sync.cursor
      /\ sync' = [sync EXCEPT !.pc = "authorize", !.end = end]
      /\ UNCHANGED <<relayVars, records, checkpoint, faults>>
  BY DEF Fetch
<1>2. sync \in SyncType /\ sync.cursor = checkpoint /\ sync.reason = "none"
  BY <1>1 DEF CoreInv, TypeOK, PageInv, SyncType
<1>3. sync.cursor + BatchSize \in Nat
  BY <1>2, PageBounds, SyncAssumption
<1>4. end \in Nat /\ end <= anchored
  BY <1>3, PageBounds, MinOfThree
<1> HIDE DEF end
<1>5. /\ sync' \in SyncType /\ sync'.pc = "authorize" /\ sync'.reason = "none"
      /\ sync'.cursor = checkpoint /\ sync'.end = end
  <2>1. end \in 0 .. MaxRequests
    BY <1>4, PageBounds, SyncAssumption
  <2>2. QED
    BY <1>1, <1>2, <2>1 DEF SyncType, SyncPc
<1>6. TypeOK' /\ NoRequestSkipped'
  <2>1. faults' \in 0 .. MaxFaults
    BY <1>1 DEF CoreInv, TypeOK
  <2>2. QED
    BY <1>1, <1>5, <2>1, TaskOnly, PageBounds
<1>7. PageInv'
  BY <1>1, <1>2, <1>4, <1>5, PageBounds DEF PageInv, relayVars
<1>8. QED
  BY <1>6, <1>7 DEF CoreInv

\* A step within the page, to a further step of the pass or to its end.
LEMMA WithinPage ==
  ASSUME CoreInv, sync.pc \in {"authorize", "check", "benefit"},
         UNCHANGED <<relayVars, records, checkpoint, faults>>,
         NEW pc \in {"check", "benefit", "store", "stopped"},
         NEW valid, NEW reason \in Reason,
         reason # "none" <=> pc = "stopped",
         pc # "stopped" => valid = {i \in Batch : IsAuthorized(i)},
         pc = "stopped" => valid = sync.valid,
         sync' = [sync EXCEPT !.pc = pc, !.valid = valid, !.reason = reason]
  PROVE  CoreInv'
<1>1. sync \in SyncType /\ sync.cursor = checkpoint
  BY DEF CoreInv, TypeOK, PageInv, SyncType
<1>2. valid \in SUBSET Id
  BY <1>1, PageBounds DEF SyncType
<1>3. /\ sync' \in SyncType /\ sync'.pc = pc /\ sync'.reason = reason
      /\ sync'.valid = valid /\ sync'.cursor = sync.cursor /\ sync'.end = sync.end
  BY <1>1, <1>2 DEF SyncType, SyncPc
<1>4. TypeOK' /\ NoRequestSkipped'
  <2>1. faults' \in 0 .. MaxFaults
    BY DEF CoreInv, TypeOK
  <2>2. QED
    BY <1>1, <1>3, <2>1, TaskOnly, PageBounds
<1>5. {i \in Batch : IsAuthorized(i)}' = {i \in Batch : IsAuthorized(i)}
  <2>1. sync.end <= Len(requests)
    BY PageBounds
  <2>2. QED
    BY <1>3, <2>1, StillAuthorized DEF CoreInv, relayVars
<1>6. PageInv'
  BY <1>1, <1>3, <1>5, PageBounds DEF CoreInv, PageInv, relayVars
<1>7. QED
  BY <1>4, <1>6 DEF CoreInv

LEMMA AuthorizeCore ==
  ASSUME CoreInv, Authorize
  PROVE  CoreInv'
<1> DEFINE valid == {i \in Batch : IsAuthorized(i)}
<1>1. sync.pc = "authorize" /\ UNCHANGED <<relayVars, records, checkpoint, faults>>
  BY DEF Authorize
<1>2. sync \in SyncType /\ sync.reason = "none"
  BY <1>1 DEF CoreInv, TypeOK, SyncType
<1>3. CASE Stop("garbled")
  <2>1. sync' = [sync EXCEPT !.pc = "stopped", !.valid = sync.valid, !.reason = "garbled"]
    BY <1>2, <1>3 DEF Stop, SyncType
  <2>2. QED
    BY <1>1, <2>1, WithinPage DEF Reason
<1>4. CASE sync' = [sync EXCEPT !.pc = AfterAuthorization(valid), !.valid = valid]
  <2>1. AfterAuthorization(valid) \in {"check", "store"}
    BY DEF AfterAuthorization
  <2> HIDE DEF valid
  <2>2. sync' = [sync EXCEPT !.pc = AfterAuthorization(valid), !.valid = valid,
                             !.reason = "none"]
    BY <1>2, <1>4 DEF SyncType
  <2>3. valid = {i \in Batch : IsAuthorized(i)}
    BY DEF valid
  <2>4. QED
    BY <1>1, <2>1, <2>2, <2>3, WithinPage DEF Reason
<1>5. QED
  BY <1>3, <1>4 DEF Authorize

LEMMA CheckCore ==
  ASSUME CoreInv, Check \/ CheckBenefit
  PROVE  CoreInv'
<1>1. /\ sync.pc \in {"check", "benefit"}
      /\ UNCHANGED <<relayVars, records, checkpoint, faults>>
  BY DEF Check, CheckBenefit
<1>2. /\ sync \in SyncType /\ sync.reason = "none"
      /\ sync.valid = {i \in Batch : IsAuthorized(i)}
  BY <1>1 DEF CoreInv, TypeOK, PageInv, SyncType
<1>3. ASSUME NEW reason \in {"invalid", "limit", "benefit"}, Stop(reason)
      PROVE  CoreInv'
  <2>1. sync' = [sync EXCEPT !.pc = "stopped", !.valid = sync.valid, !.reason = reason]
    BY <1>2, <1>3 DEF Stop, SyncType
  <2>2. QED
    BY <1>1, <2>1, WithinPage DEF Reason
<1>4. ASSUME NEW label \in {"benefit", "store"}, SyncGoto(label)
      PROVE  CoreInv'
  <2>1. sync' = [sync EXCEPT !.pc = label, !.valid = sync.valid, !.reason = "none"]
    BY <1>2, <1>4 DEF SyncGoto, SyncType
  <2>2. QED
    BY <1>1, <1>2, <2>1, WithinPage DEF Reason
<1>5. QED
  BY <1>3, <1>4 DEF Check, CheckBenefit

-----------------------------------------------------------------------------
(* The store. *)

\* No row of the page collides: the rows of the table are all of earlier requests,
\* and an authorization that is in the table, or earlier in the page, has been
\* refused before.
LEMMA NothingCollides ==
  ASSUME CoreInv, sync.pc = "store", NEW i \in Batch
  PROVE  ~Collides(i)
<1>1. /\ i \notin DOMAIN records
      /\ sync.valid = {j \in Batch : IsAuthorized(j)}
  BY PageBounds DEF CoreInv, PageInv
<1>2. ASSUME RowOf(i).fingerprint # None
      PROVE  /\ IsAuthorized(i) /\ RowOf(i).fingerprint = requests[i].authorization
  BY <1>1, <1>2 DEF RowOf
<1>3. ASSUME RowOf(i).fingerprint # None,
             NEW j \in DOMAIN records, records[j].fingerprint = RowOf(i).fingerprint
      PROVE  FALSE
  BY <1>1, <1>2, <1>3 DEF IsAuthorized, SeenBefore
<1>4. ASSUME RowOf(i).fingerprint # None,
             NEW j \in Batch, j < i, RowOf(j).fingerprint = RowOf(i).fingerprint
      PROVE  FALSE
  <2>1. requests[j].authorization = requests[i].authorization
    BY <1>1, <1>2, <1>4 DEF RowOf
  <2>2. QED
    BY <1>2, <1>4, <2>1 DEF IsAuthorized, SeenBefore
<1>5. QED
  BY <1>1, <1>3, <1>4 DEF Collides

\* So the store adds the page, a row for each request, and nothing else.
LEMMA Stored ==
  ASSUME CoreInv, Store
  PROVE  /\ sync.pc = "store"
         /\ DOMAIN records' = 1 .. sync.end
         /\ \A i \in DOMAIN records : records'[i] = records[i]
         /\ \A i \in Batch : records'[i] = RowOf(i)
         /\ \A i \in 1 .. sync.end : i \in DOMAIN records \/ i \in Batch
         /\ checkpoint' = sync.end
         /\ sync' = Rest \/ sync' = [Rest EXCEPT !.pc = "fetch", !.cursor = sync.end]
         /\ faults' \in 0 .. MaxFaults
         /\ UNCHANGED relayVars
<1>1. /\ sync.pc = "store"
      /\ records' = [i \in DOMAIN records \cup {j \in Batch : ~Collides(j)} |->
                        IF i \in DOMAIN records THEN records[i] ELSE RowOf(i)]
      /\ checkpoint' = sync.end
      /\ sync' = Rest \/ sync' = [Rest EXCEPT !.pc = "fetch", !.cursor = sync.end]
      /\ UNCHANGED relayVars
  BY DEF Store, NextCheckpoint
<1>2. {j \in Batch : ~Collides(j)} = Batch
  BY <1>1, NothingCollides
<1>3. DOMAIN records = 1 .. checkpoint /\ Batch = (checkpoint + 1) .. sync.end
  BY <1>1, PageBounds DEF CoreInv, NoRequestSkipped
<1>4. DOMAIN records \cup Batch = 1 .. sync.end /\ Batch \cap DOMAIN records = {}
  BY <1>1, <1>3, PageBounds
<1>5. faults' \in 0 .. MaxFaults
  BY SyncAssumption DEF Store, NoFault, Fault, CoreInv, TypeOK
<1>6. QED
  BY <1>1, <1>2, <1>4, <1>5

\* A row of the page is a record.
LEMMA RowType ==
  ASSUME CoreInv, sync.pc = "store", NEW i \in Batch
  PROVE  RowOf(i) \in Record
<1>1. requests[i] \in Request
  BY PageBounds, ElementOfSeq DEF CoreInv, TypeOK
<1>2. requests[i].authorization \in Authorization \cup {None} /\ day \in Day
  BY <1>1 DEF Request, CoreInv, TypeOK
<1>3. QED
  BY <1>2 DEF RowOf, Record, RecordStatus

LEMMA StoreCore ==
  ASSUME CoreInv, Store
  PROVE  CoreInv'
<1>1. sync.end \in 0 .. MaxRequests /\ sync.end \in Nat /\ sync.end \in 0 .. anchored
  BY Stored, PageBounds, SyncAssumption
<1>2. /\ sync' \in SyncType /\ sync'.cursor <= sync.end /\ sync'.reason = "none"
      /\ \/ sync'.pc = "idle"
         \/ sync'.pc = "fetch" /\ sync'.cursor = sync.end
  <2>1. CASE sync' = Rest
    <3>1. Rest \in SyncType /\ Rest.pc = "idle" /\ Rest.cursor = 0 /\ Rest.reason = "none"
      BY RestType
    <3>2. QED
      BY <1>1, <2>1, <3>1
  <2>2. CASE sync' = [Rest EXCEPT !.pc = "fetch", !.cursor = sync.end]
    <3> DEFINE s == [Rest EXCEPT !.pc = "fetch", !.cursor = sync.end]
    <3>1. s \in SyncType /\ s.pc = "fetch" /\ s.cursor = sync.end /\ s.reason = "none"
      BY <1>1, RestType
    <3> HIDE DEF s
    <3>2. QED
      BY <1>1, <2>2, <3>1 DEF s
  <2>3. QED
    BY <2>1, <2>2, Stored
<1>3. \A i \in DOMAIN records' : records'[i] \in Record
  BY Stored, RowType DEF CoreInv, TypeOK
<1>4. NoRequestSkipped'
  BY Stored DEF NoRequestSkipped
<1>5. TypeOK'
  <2>1. DOMAIN records' \subseteq 1 .. anchored
    BY <1>1, Stored, PageBounds
  <2>2. QED
    BY <1>1, <1>2, <1>3, <2>1, Stored DEF CoreInv, TypeOK, SyncType, relayVars
<1>6. PageInv'
  BY <1>2, Stored DEF PageInv
<1>7. QED
  BY <1>4, <1>5, <1>6 DEF CoreInv

LEMMA RestartCore ==
  ASSUME CoreInv, SyncFails \/ Crash \/ Restart
  PROVE  CoreInv'
<1>1. faults' \in 0 .. MaxFaults
  BY SyncAssumption DEF SyncFails, Crash, Restart, Fault, CoreInv, TypeOK
<1>2. UNCHANGED <<relayVars, records, checkpoint>> /\ sync' = Rest
  BY DEF SyncFails, AfterError, Crash, Restart
<1>3. QED
  BY <1>1, <1>2, RestCore

LEMMA CoreStep == CoreInv /\ [Next]_vars => CoreInv'
<1> SUFFICES ASSUME CoreInv, [Next]_vars PROVE CoreInv'
  OBVIOUS
<1>1. CASE UNCHANGED vars
  BY <1>1 DEF vars, relayVars, CoreInv, TypeOK, PageInv, NoRequestSkipped, Batch,
              IsAuthorized, SeenBefore
<1>2. CASE Environment
  BY <1>2, SubmitCore, AnchorCore, MidnightCore, BindCore, SettleCore DEF Environment
<1>3. CASE Sync
  BY <1>3, StartCore, FetchCore, AuthorizeCore, CheckCore, StoreCore DEF Sync
<1>4. CASE SyncFails \/ Crash \/ Restart
  BY <1>4, RestartCore
<1>5. QED
  BY <1>1, <1>2, <1>3, <1>4 DEF Next

LEMMA CoreAlways == Spec => []CoreInv
  BY InitCore, CoreStep, PTL DEF Spec

\* Every variable keeps its type, and the cursor stays behind the checkpoint, in every
\* behaviour of syncWithdrawalRequests and of what moves around it.
THEOREM TypeCorrect == Spec => []TypeOK
<1>1. CoreInv => TypeOK
  BY DEF CoreInv
<1>2. QED
  BY <1>1, CoreAlways, PTL

\* The table holds exactly the requests up to the checkpoint: syncWithdrawalRequests
\* skips none, whichever way a page was cut, refused, interrupted or read again.
THEOREM NothingIsSkipped == Spec => []NoRequestSkipped
<1>1. CoreInv => NoRequestSkipped
  BY DEF CoreInv
<1>2. QED
  BY <1>1, CoreAlways, PTL

-----------------------------------------------------------------------------
(* Authorizations. *)

SpentInv == SpentIsKnown /\ AuthorizationsSpentOnce

\* i is the first request that carries its authorization.
IsFirst(i) == /\ requests[i].authorization # None
              /\ \A j \in 1 .. (i - 1) :
                    requests[j].authorization # requests[i].authorization

\* What the task authorizes of a page is what no earlier request carries: the
\* table knows every authorization taken over, and of those in the page that
\* carry the same the first one is in the way of the others.
LEMMA AuthorizedIsFirst ==
  ASSUME CoreInv, SpentInv, sync.pc = "store", NEW i \in Batch
  PROVE  IsAuthorized(i) <=> IsFirst(i)
<1>1. /\ i \in Nat /\ DOMAIN records = 1 .. checkpoint /\ checkpoint \in Nat
      /\ Batch = (checkpoint + 1) .. sync.end /\ sync.end \in Nat
  BY PageBounds DEF CoreInv, NoRequestSkipped
<1>2. ASSUME IsAuthorized(i), NEW j \in 1 .. (i - 1),
             requests[j].authorization = requests[i].authorization
      PROVE  FALSE
  <2>1. requests[i].authorization # None /\ ~SeenBefore(i)
    BY <1>2 DEF IsAuthorized
  <2>2. CASE j \in Batch
    BY <1>1, <1>2, <2>1, <2>2 DEF SeenBefore
  <2>3. CASE j \in DOMAIN records
    <3>1. PICK k \in 1 .. j : records[k].fingerprint = requests[j].authorization
      BY <1>2, <2>1, <2>3 DEF SpentInv, SpentIsKnown
    <3>2. k \in DOMAIN records /\ k # i
      BY <1>1, <2>3, <3>1
    <3>3. QED
      BY <1>2, <2>1, <3>1, <3>2 DEF SeenBefore
  <2>4. QED
    BY <1>1, <2>2, <2>3
<1>3. ASSUME IsFirst(i), NEW j \in DOMAIN records,
             records[j].fingerprint = requests[i].authorization
      PROVE  FALSE
  <2>1. requests[j].authorization = requests[i].authorization
    BY <1>3 DEF SpentInv, AuthorizationsSpentOnce, IsFirst
  <2>2. j \in 1 .. (i - 1)
    BY <1>1
  <2>3. QED
    BY <1>3, <2>1, <2>2 DEF IsFirst
<1>4. ASSUME IsFirst(i), NEW j \in Batch, j < i,
             requests[j].authorization = requests[i].authorization
      PROVE  FALSE
  BY <1>1, <1>4 DEF IsFirst
<1>5. QED
  BY <1>2, <1>3, <1>4 DEF IsAuthorized, IsFirst, SeenBefore

\* A request that is not the first one with its authorization has one before it.
LEMMA FirstBefore ==
  ASSUME NEW i \in Nat, i > 0, requests[i].authorization # None
  PROVE  \E j \in 1 .. i : /\ requests[j].authorization = requests[i].authorization
                           /\ IsFirst(j)
<1> DEFINE S == {j \in 1 .. i : requests[j].authorization = requests[i].authorization}
<1>1. S \in SUBSET Nat /\ i \in S
  OBVIOUS
<1>2. PICK j \in S : \A k \in S : j <= k
  BY <1>1, FirstId
<1>3. ASSUME NEW k \in 1 .. (j - 1), requests[k].authorization = requests[j].authorization
      PROVE  FALSE
  <2>1. k \in S /\ k < j
    BY <1>3
  <2>2. QED
    BY <1>2, <2>1
<1>4. QED
  BY <1>3 DEF IsFirst

\* What every step but a store leaves of list and table.
LEMMA QuietStep ==
  ASSUME CoreInv, [Next]_vars, ~Store
  PROVE  /\ Len(requests) <= Len(requests')
         /\ \A i \in 1 .. Len(requests) : requests'[i] = requests[i]
         /\ checkpoint' = checkpoint
         /\ DOMAIN records' = DOMAIN records
         /\ \A j \in DOMAIN records :
              /\ records'[j].fingerprint = records[j].fingerprint
              /\ records'[j].created = records[j].created
              /\ records[j].status \in {"failed", "finishedRejected"} =>
                    records'[j].status \in {"failed", "finishedRejected"}
              /\ (records[j].status = "finished" => ~records[j].rejected) =>
                 (records'[j].status = "finished" => ~records'[j].rejected)
<1>1. Len(requests) \in Nat
  BY PageBounds
<1>2. ASSUME NEW r \in Catalogue, Submit(r)
      PROVE  /\ Len(requests) <= Len(requests')
             /\ \A i \in 1 .. Len(requests) : requests'[i] = requests[i]
             /\ UNCHANGED <<records, checkpoint>>
  <2>1. [r EXCEPT !.day = day] \in Request /\ requests \in Seq(Request)
    BY SubmittedIsRequest DEF CoreInv, TypeOK
  <2>2. requests' = Append(requests, [r EXCEPT !.day = day])
    BY <1>2 DEF Submit
  <2>3. /\ Len(requests') = Len(requests) + 1
        /\ \A i \in 1 .. Len(requests) : requests'[i] = requests[i]
    BY <2>1, <2>2, Appended
  <2>4. QED
    BY <1>1, <1>2, <2>3 DEF Submit
<1>3. ASSUME NEW i \in DOMAIN records, Settle(i)
      PROVE  UNCHANGED <<requests, checkpoint>>
  BY <1>3 DEF Settle, relayVars
<1>4. CASE Anchor \/ Midnight \/ \E n \in Network, a \in Address : Bind(n, a)
  <2>1. UNCHANGED <<requests, records, checkpoint>>
    BY <1>4 DEF Anchor, Midnight, Bind
  <2>2. QED
    BY <1>1, <2>1
<1>5. CASE Start \/ Fetch \/ Authorize \/ Check \/ CheckBenefit
  BY <1>1, <1>5 DEF Start, Fetch, Authorize, Check, CheckBenefit, relayVars
<1>6. CASE SyncFails \/ Crash \/ Restart
  BY <1>1, <1>6 DEF SyncFails, Crash, Restart, relayVars
<1>7. CASE UNCHANGED vars
  BY <1>1, <1>7 DEF vars, relayVars
<1>8. CASE \E i \in DOMAIN records : Settle(i)
  BY <1>1, <1>3, <1>8, Settled DEF CoreInv
<1>9. CASE \E r \in Catalogue : Submit(r)
  BY <1>2, <1>9
<1>10. QED
  BY <1>4, <1>5, <1>6, <1>7, <1>8, <1>9 DEF Next, Environment, Sync

LEMMA InitSpent == Init => SpentInv
<1>1. Init => DOMAIN records = {}
  BY DEF Init
<1>2. QED
  BY <1>1 DEF SpentInv, SpentIsKnown, AuthorizationsSpentOnce

LEMMA SpentQuietStep ==
  ASSUME CoreInv, SpentInv, [Next]_vars, ~Store
  PROVE  SpentInv'
<1>1. /\ DOMAIN records' = DOMAIN records
      /\ \A i \in DOMAIN records : i \in Nat /\ 1 .. i \subseteq DOMAIN records
      /\ \A i \in DOMAIN records : requests'[i] = requests[i]
      /\ \A i \in DOMAIN records : records'[i].fingerprint = records[i].fingerprint
      /\ \A i \in DOMAIN records :
            records[i].status \in {"failed", "finishedRejected"} =>
               records'[i].status \in {"failed", "finishedRejected"}
  BY QuietStep, PageBounds DEF CoreInv, NoRequestSkipped
<1>2. SpentIsKnown'
  BY <1>1 DEF SpentInv, SpentIsKnown
<1>3. ASSUME NEW i \in DOMAIN records
      PROVE  IsFirst(i)' <=> IsFirst(i)
  BY <1>1 DEF IsFirst
<1>4. AuthorizationsSpentOnce'
  BY <1>1, <1>3 DEF SpentInv, AuthorizationsSpentOnce, IsFirst
<1>5. QED
  BY <1>2, <1>4 DEF SpentInv

LEMMA SpentStore ==
  ASSUME CoreInv, SpentInv, Store
  PROVE  SpentInv'
<1>1. /\ sync.pc = "store" /\ requests' = requests
      /\ DOMAIN records' = 1 .. sync.end
      /\ DOMAIN records = 1 .. checkpoint /\ Batch = (checkpoint + 1) .. sync.end
      /\ checkpoint \in Nat /\ sync.end \in Nat /\ checkpoint < sync.end
      /\ sync.valid = {i \in Batch : IsAuthorized(i)}
  BY Stored, PageBounds DEF CoreInv, NoRequestSkipped, PageInv, relayVars
<1>2. \A i \in DOMAIN records : records'[i] = records[i]
  BY Stored
<1>3. \A i \in Batch :
         /\ records'[i].fingerprint
              = IF IsFirst(i) THEN requests[i].authorization ELSE None
         /\ ~IsFirst(i) => records'[i].status = "failed"
  <2> SUFFICES ASSUME NEW i \in Batch
               PROVE  /\ RowOf(i).fingerprint
                           = IF IsFirst(i) THEN requests[i].authorization ELSE None
                      /\ ~IsFirst(i) => RowOf(i).status = "failed"
    BY Stored
  <2>1. i \in sync.valid <=> IsFirst(i)
    BY <1>1, AuthorizedIsFirst
  <2>2. QED
    BY <2>1 DEF RowOf
<1>4. \A i \in DOMAIN records' : i \in DOMAIN records \/ i \in Batch
  BY <1>1
<1>5. \A i : IsFirst(i)' <=> IsFirst(i)
  BY <1>1 DEF IsFirst
<1>6. AuthorizationsSpentOnce'
  BY <1>1, <1>2, <1>3, <1>4, <1>5 DEF SpentInv, AuthorizationsSpentOnce, IsFirst
<1>7. ASSUME NEW i \in DOMAIN records', requests[i].authorization # None
      PROVE  \E j \in 1 .. i : records'[j].fingerprint = requests[i].authorization
  <2>1. i \in Nat /\ i > 0
    BY <1>1
  <2>2. PICK j \in 1 .. i : /\ requests[j].authorization = requests[i].authorization
                            /\ IsFirst(j)
    BY <1>7, <2>1, FirstBefore
  <2>3. j \in DOMAIN records'
    BY <1>1
  <2>4. QED
    BY <1>1, <1>5, <1>6, <2>2, <2>3 DEF AuthorizationsSpentOnce, IsFirst
<1>8. QED
  BY <1>1, <1>6, <1>7 DEF SpentInv, SpentIsKnown

\* An authorization is spent by the first request that carries it and by no other,
\* across pages, failures, lost answers and restarts (syncWithdrawalRequests,
\* authorization_fingerprint).
THEOREM SpentOnce == Spec => []AuthorizationsSpentOnce
<1>1. CoreInv /\ SpentInv /\ [Next]_vars => SpentInv'
  BY SpentQuietStep, SpentStore
<1>2. SpentInv => AuthorizationsSpentOnce
  BY DEF SpentInv
<1>3. QED
  BY <1>1, <1>2, InitSpent, CoreAlways, PTL DEF Spec

-----------------------------------------------------------------------------
(* Counting.  A limit holds by requester and by benefit address; both relations
   are equivalences, and requests of one group are of one network. *)

Same(b, r, q) == IF b THEN SameRequester(r, q) ELSE SameBenefit(r, q)
Sharing(b, list, S, r) == {i \in S : Same(b, list[i], r)}
FitsLimit(list, S, r) ==
    \A b \in BOOLEAN :
        Cardinality(Sharing(b, list, S, r)) <= MaxWithdrawalsPerDay[r.network]

LEMMA SharingFinite ==
  ASSUME NEW list, NEW n \in Nat, NEW S \in SUBSET (1 .. n), NEW r, NEW b
  PROVE  /\ IsFiniteSet(S) /\ IsFiniteSet(Sharing(b, list, S, r))
         /\ Cardinality(Sharing(b, list, S, r)) \in Nat
<1>1. IsFiniteSet(1 .. n)
  BY FS_Interval
<1>2. Sharing(b, list, S, r) \in SUBSET S
  BY DEF Sharing
<1>3. IsFiniteSet(S)
  BY <1>1, FS_Subset
<1>4. IsFiniteSet(Sharing(b, list, S, r))
  BY <1>2, <1>3, FS_Subset
<1>5. QED
  BY <1>3, <1>4, FS_CardinalityType

\* Load is within a limit when both counts are.
LEMMA LoadFits ==
  ASSUME NEW list, NEW n \in Nat, NEW S \in SUBSET (1 .. n), NEW r, r.network \in Network
  PROVE  /\ Max({Cardinality({i \in S : SameRequester(list[i], r)}),
                 Cardinality({i \in S : SameBenefit(list[i], r)})}) \in Nat
         /\ Max({Cardinality({i \in S : SameRequester(list[i], r)}),
                 Cardinality({i \in S : SameBenefit(list[i], r)})})
               <= MaxWithdrawalsPerDay[r.network]
            <=> FitsLimit(list, S, r)
<1> DEFINE k == Cardinality(Sharing(TRUE, list, S, r))
           l == Cardinality(Sharing(FALSE, list, S, r))
<1>1. /\ k = Cardinality({i \in S : SameRequester(list[i], r)})
      /\ l = Cardinality({i \in S : SameBenefit(list[i], r)})
  BY DEF Sharing, Same
<1>2. k \in Nat /\ l \in Nat
  BY SharingFinite
<1>3. MaxWithdrawalsPerDay[r.network] \in Nat
  BY SyncAssumption
<1>4. FitsLimit(list, S, r)
      <=> k <= MaxWithdrawalsPerDay[r.network] /\ l <= MaxWithdrawalsPerDay[r.network]
  BY DEF FitsLimit
<1> HIDE DEF k, l
<1>5. Max({k, l}) <= MaxWithdrawalsPerDay[r.network]
      <=> k <= MaxWithdrawalsPerDay[r.network] /\ l <= MaxWithdrawalsPerDay[r.network]
  BY <1>2, <1>3, MaxOfTwo
<1>6. Max({k, l}) \in Nat
  BY <1>2 DEF Max
<1>7. QED
  BY <1>1, <1>4, <1>5, <1>6

\* Fewer requests fit as well, and only the requests themselves matter.
LEMMA FewerFit ==
  ASSUME NEW list, NEW list2, NEW n \in Nat, NEW T \in SUBSET (1 .. n),
         NEW S \in SUBSET T, \A i \in S : list2[i] = list[i],
         NEW r, r.network \in Network, FitsLimit(list, T, r)
  PROVE  FitsLimit(list2, S, r)
<1> SUFFICES ASSUME NEW b \in BOOLEAN
             PROVE  Cardinality(Sharing(b, list2, S, r)) <= MaxWithdrawalsPerDay[r.network]
  BY DEF FitsLimit
<1>1. Sharing(b, list2, S, r) \in SUBSET Sharing(b, list, T, r)
  BY DEF Sharing
<1>2. Cardinality(Sharing(b, list2, S, r)) <= Cardinality(Sharing(b, list, T, r))
  BY <1>1, SharingFinite, FS_Subset
<1>3. Cardinality(Sharing(b, list, T, r)) <= MaxWithdrawalsPerDay[r.network]
  BY DEF FitsLimit
<1>4. S \in SUBSET (1 .. n) /\ MaxWithdrawalsPerDay[r.network] \in Nat
  BY SyncAssumption
<1>5. /\ Cardinality(Sharing(b, list2, S, r)) \in Nat
      /\ Cardinality(Sharing(b, list, T, r)) \in Nat
  BY <1>4, SharingFinite
<1>6. QED
  BY <1>2, <1>3, <1>4, <1>5

\* A count by request r is the count by any request of its group.
LEMMA SharingOfSame ==
  ASSUME NEW b \in BOOLEAN, NEW list, NEW S, NEW r, NEW q, Same(b, q, r)
  PROVE  /\ Sharing(b, list, S, r) = Sharing(b, list, S, q)
         /\ r.network = q.network
  BY DEF Sharing, Same, SameRequester, SameBenefit

\* Whoever is counted with nobody of V shares only with S: if all of V fit with S
\* and V, and all of S among themselves, then every request does.
LEMMA JoinFits ==
  ASSUME NEW list, NEW n \in Nat, NEW S \in SUBSET (1 .. n), NEW V \in SUBSET (1 .. n),
         \A i \in S \cup V : list[i].network \in Network,
         \A i \in V : FitsLimit(list, S \cup V, list[i]),
         \A i \in S : FitsLimit(list, S, list[i]),
         NEW r, r.network \in Network
  PROVE  FitsLimit(list, S \cup V, r)
<1> SUFFICES ASSUME NEW b \in BOOLEAN
             PROVE  Cardinality(Sharing(b, list, S \cup V, r))
                       <= MaxWithdrawalsPerDay[r.network]
  BY DEF FitsLimit
<1>1. CASE \E i \in V : Same(b, list[i], r)
  <2>1. PICK i \in V : Same(b, list[i], r)
    BY <1>1
  <2>2. /\ Sharing(b, list, S \cup V, r) = Sharing(b, list, S \cup V, list[i])
        /\ r.network = list[i].network
    BY <2>1, SharingOfSame
  <2>3. QED
    BY <2>2 DEF FitsLimit
<1>2. CASE /\ \A i \in V : ~Same(b, list[i], r)
           /\ \E i \in S : Same(b, list[i], r)
  <2>1. PICK i \in S : Same(b, list[i], r)
    BY <1>2
  <2>2. Sharing(b, list, S \cup V, r) = Sharing(b, list, S, r)
    BY <1>2 DEF Sharing
  <2>3. /\ Sharing(b, list, S, r) = Sharing(b, list, S, list[i])
        /\ r.network = list[i].network
    BY <2>1, SharingOfSame
  <2>4. QED
    BY <2>2, <2>3 DEF FitsLimit
<1>3. CASE \A i \in S \cup V : ~Same(b, list[i], r)
  <2>1. Sharing(b, list, S \cup V, r) = {}
    BY <1>3 DEF Sharing
  <2>2. Cardinality({}) = 0
    BY FS_EmptySet
  <2>3. MaxWithdrawalsPerDay[r.network] \in Nat
    BY SyncAssumption
  <2>4. QED
    BY <2>1, <2>2, <2>3
<1>4. QED
  BY <1>1, <1>2, <1>3

-----------------------------------------------------------------------------
(* Days. *)

LEMMA DaysStep ==
  ASSUME CoreInv, CoreInv', DaysInv, [Next]_vars
  PROVE  DaysInv' /\ day <= day'
<1>1. /\ day \in Nat /\ day' \in Nat /\ checkpoint' \in Nat
      /\ DOMAIN requests = 1 .. Len(requests) /\ Len(requests) \in Nat
      /\ DOMAIN requests' = 1 .. Len(requests')
      /\ DOMAIN records \subseteq 1 .. Len(requests)
      /\ \A i \in DOMAIN requests : requests[i] \in Request /\ requests[i].day \in Nat
      /\ \A i \in DOMAIN records : records[i].created \in Nat
  <2>1. \A i \in DOMAIN requests : requests[i] \in Request
    BY PageBounds, ElementOfSeq DEF CoreInv, TypeOK
  <2>2. DOMAIN requests' = 1 .. Len(requests')
    BY LenProperties DEF CoreInv, TypeOK
  <2>3. \A i \in DOMAIN requests : requests[i].day \in Nat
    BY <2>1 DEF Request, Day
  <2>4. \A i \in DOMAIN records : records[i].created \in Nat
    BY DEF CoreInv, TypeOK, Record, Day
  <2>5. QED
    BY <2>1, <2>2, <2>3, <2>4, PageBounds DEF CoreInv, TypeOK, Day
<1>2. CASE \E r \in Catalogue : Submit(r)
  <2>1. PICK r \in Catalogue : Submit(r)
    BY <1>2
  <2>2. /\ [r EXCEPT !.day = day] \in Request /\ [r EXCEPT !.day = day].day = day
        /\ requests \in Seq(Request)
    BY SubmittedIsRequest DEF CoreInv, TypeOK
  <2>3. requests' = Append(requests, [r EXCEPT !.day = day])
        /\ UNCHANGED <<day, records>>
    BY <2>1 DEF Submit
  <2>4. /\ Len(requests') = Len(requests) + 1
        /\ \A i \in 1 .. Len(requests) : requests'[i] = requests[i]
        /\ requests'[Len(requests) + 1].day = day
    BY <2>2, <2>3, Appended
  <2>5. \A i \in DOMAIN requests' : requests'[i].day <= day
    BY <1>1, <2>4 DEF DaysInv
  <2>6. QED
    BY <1>1, <2>3, <2>5 DEF DaysInv
<1>3. CASE Midnight
  <2>1. day' = day + 1 /\ UNCHANGED <<requests, records>>
    BY <1>3 DEF Midnight
  <2>2. QED
    BY <1>1, <2>1 DEF DaysInv
<1>4. CASE Store
  <2>1. UNCHANGED <<requests, day>> /\ sync.pc = "store"
    BY <1>4, Stored DEF relayVars
  <2>2. \A i \in Batch : /\ RowOf(i).created = day
                         /\ RowOf(i).status \in {"pending", "failed"}
    BY DEF RowOf
  <2>3. \A i \in DOMAIN records' :
            \/ i \in DOMAIN records /\ records'[i] = records[i]
            \/ i \in Batch /\ records'[i] = RowOf(i)
    BY <1>4, Stored
  <2>4. QED
    BY <1>1, <2>1, <2>2, <2>3 DEF DaysInv
<1>5. CASE UNCHANGED <<requests, day>> /\ ~Store
  BY <1>1, <1>5, QuietStep DEF DaysInv
<1>6. CASE UNCHANGED vars
  BY <1>1, <1>6 DEF DaysInv, vars, relayVars
<1>7. UNCHANGED <<requests, day>> \/ Midnight \/ \E r \in Catalogue : Submit(r)
  BY DEF Next, vars, Environment, Anchor, Bind, Settle, Sync, Start, Fetch, Authorize,
         Check, CheckBenefit, Store, SyncFails, Crash, Restart, relayVars
<1>8. QED
  BY <1>2, <1>3, <1>4, <1>5, <1>6, <1>7

-----------------------------------------------------------------------------
(* The daily limit. *)

\* The withdrawals of day d that have not failed, in a state of the table.
OpenIn(table, d) == {j \in DOMAIN table :
                        /\ table[j].created = d
                        /\ table[j].status \notin {"failed", "finishedRejected"}}

\* DailyLimitHolds and CheckedInv in terms of the two counts.
DailyFits == \A i \in DOMAIN records :
    FitsLimit(requests, OpenIn(records, records[i].created), requests[i])
CheckedFits ==
    sync.pc \in {"benefit", "store"} =>
        \A i \in sync.valid : FitsLimit(requests, sync.valid \cup OpenIn(records, day), requests[i])

LEMMA RequestNetwork ==
  ASSUME CoreInv, NEW i \in DOMAIN requests
  PROVE  requests[i] \in Request /\ requests[i].network \in Network
<1>1. requests[i] \in Request
  BY PageBounds, ElementOfSeq DEF CoreInv, TypeOK
<1>2. QED
  BY <1>1 DEF Request

LEMMA RecordIds ==
  ASSUME CoreInv
  PROVE  /\ DOMAIN records \subseteq DOMAIN requests
         /\ DOMAIN requests = 1 .. Len(requests) /\ Len(requests) \in Nat
         /\ \A d : OpenIn(records, d) \in SUBSET (1 .. Len(requests))
<1>1. DOMAIN records \subseteq 1 .. Len(requests)
  BY PageBounds DEF CoreInv, TypeOK
<1>2. QED
  BY <1>1, PageBounds DEF OpenIn

LEMMA DailyMeans == CoreInv => (DailyFits <=> DailyLimitHolds)
<1> SUFFICES ASSUME CoreInv, NEW i \in DOMAIN records
             PROVE  FitsLimit(requests, OpenIn(records, records[i].created), requests[i])
                    <=> Load(OpenIn(records, records[i].created), requests[i])
                           <= MaxWithdrawalsPerDay[requests[i].network]
  BY DEF DailyFits, DailyLimitHolds, OpenIn
<1> DEFINE S == OpenIn(records, records[i].created)
<1>1. S \in SUBSET (1 .. Len(requests)) /\ requests[i].network \in Network
      /\ Len(requests) \in Nat
  BY RecordIds, RequestNetwork
<1> HIDE DEF S
<1>2. FitsLimit(requests, S, requests[i])
      <=> Load(S, requests[i]) <= MaxWithdrawalsPerDay[requests[i].network]
  BY <1>1, LoadFits DEF Load
<1>3. QED
  BY <1>2 DEF S

\* The check of a page, when the page is part of the list.
LEMMA CheckMeans ==
  ASSUME CoreInv, sync.valid \subseteq DOMAIN requests
  PROVE  WithinDailyLimit(sync.valid)
         <=> \A i \in sync.valid :
                FitsLimit(requests, sync.valid \cup OpenIn(records, day), requests[i])
<1> DEFINE S == sync.valid \cup OpenIn(records, day)
<1>1. S \in SUBSET (1 .. Len(requests)) /\ Len(requests) \in Nat
  BY RecordIds
<1>2. S = sync.valid \cup {i \in DOMAIN records : Counts(i)}
  BY DEF OpenIn, Counts
<1> HIDE DEF S
<1>3. \A i \in sync.valid :
         FitsLimit(requests, S, requests[i])
         <=> Load(S, requests[i]) <= MaxWithdrawalsPerDay[requests[i].network]
  BY <1>1, LoadFits, RequestNetwork DEF Load
<1>4. WithinDailyLimit(sync.valid)
      <=> \A i \in sync.valid :
             Load(S, requests[i]) <= MaxWithdrawalsPerDay[requests[i].network]
  BY <1>2 DEF WithinDailyLimit
<1>5. QED
  BY <1>3, <1>4 DEF S

LEMMA ValidInPage ==
  ASSUME CoreInv, sync.pc \in {"check", "benefit", "store"}
  PROVE  /\ sync.valid \subseteq Batch
         /\ sync.valid \in SUBSET (1 .. Len(requests))
         /\ sync.valid \subseteq DOMAIN requests
  BY PageBounds DEF CoreInv, PageInv

LEMMA CheckedMeans == CoreInv => (CheckedFits <=> CheckedInv)
<1> SUFFICES ASSUME CoreInv, sync.pc \in {"benefit", "store"}
             PROVE  WithinDailyLimit(sync.valid)
                    <=> \A i \in sync.valid :
                           FitsLimit(requests, sync.valid \cup OpenIn(records, day), requests[i])
  BY DEF CheckedFits, CheckedInv
<1>1. QED
  BY ValidInPage, CheckMeans

\* No step but a store opens a withdrawal, of whatever day.
LEMMA OpenShrinks ==
  ASSUME CoreInv, [Next]_vars, ~Store, NEW d
  PROVE  OpenIn(records', d) \subseteq OpenIn(records, d)
  BY QuietStep DEF OpenIn

LEMMA DailyQuiet ==
  ASSUME CoreInv, DailyFits, [Next]_vars, ~Store
  PROVE  DailyFits'
<1> SUFFICES ASSUME NEW i \in DOMAIN records'
             PROVE  FitsLimit(requests', OpenIn(records', records'[i].created), requests'[i])
  BY DEF DailyFits
<1> DEFINE d == records[i].created
<1>1. /\ i \in DOMAIN records /\ records'[i].created = d
      /\ requests'[i] = requests[i] /\ requests[i].network \in Network
      /\ \A j \in DOMAIN records : requests'[j] = requests[j]
  BY QuietStep, RecordIds, RequestNetwork
<1>2. OpenIn(records', d) \subseteq OpenIn(records, d)
  BY OpenShrinks
<1> DEFINE S == OpenIn(records', d)
           T == OpenIn(records, d)
<1>3. FitsLimit(requests, T, requests[i])
  BY <1>1 DEF DailyFits
<1>4. \A j \in S : requests'[j] = requests[j]
  BY <1>1, <1>2 DEF OpenIn
<1>5. T \in SUBSET (1 .. Len(requests)) /\ S \in SUBSET T /\ Len(requests) \in Nat
  BY <1>2, RecordIds
<1> HIDE DEF S, T
<1>6. FitsLimit(requests', S, requests[i])
  BY <1>1, <1>3, <1>4, <1>5, FewerFit
<1>7. OpenIn(records', records'[i].created) = S
  BY <1>1 DEF S, OpenIn
<1>8. QED
  BY <1>1, <1>6, <1>7

\* The store adds the checked withdrawals to those of its own day.
LEMMA OpenAfterStore ==
  ASSUME CoreInv, Store, NEW d
  PROVE  OpenIn(records', d) = IF d = day THEN OpenIn(records, day) \cup sync.valid ELSE OpenIn(records, d)
<1>1. /\ sync.pc = "store" /\ DOMAIN records' = 1 .. sync.end
      /\ \A i \in DOMAIN records : records'[i] = records[i]
      /\ \A i \in Batch : records'[i] = RowOf(i)
      /\ \A i \in 1 .. sync.end : i \in DOMAIN records \/ i \in Batch
  BY Stored
<1>2. DOMAIN records' = DOMAIN records \cup Batch /\ DOMAIN records \cap Batch = {}
      /\ sync.valid \subseteq Batch
  BY <1>1, PageBounds, ValidInPage DEF CoreInv, NoRequestSkipped
<1>3. \A i \in Batch : /\ RowOf(i).created = day
                       /\ RowOf(i).status = IF i \in sync.valid THEN "pending" ELSE "failed"
  BY DEF RowOf
<1>4. QED
  BY <1>1, <1>2, <1>3 DEF OpenIn

LEMMA DailyStore ==
  ASSUME CoreInv, DailyFits, CheckedFits, Store
  PROVE  DailyFits'
<1>1. /\ sync.pc = "store" /\ requests' = requests
      /\ \A i \in DOMAIN records : records'[i] = records[i]
      /\ \A i \in Batch : records'[i] = RowOf(i)
      /\ \A i \in DOMAIN records' : i \in DOMAIN records \/ i \in Batch
  BY Stored DEF relayVars
<1> SUFFICES ASSUME NEW i \in DOMAIN records'
             PROVE  FitsLimit(requests, OpenIn(records', records'[i].created), requests[i])
  BY <1>1 DEF DailyFits
<1>2. \A j \in Batch : RowOf(j).created = day
  BY DEF RowOf
<1>3. requests[i].network \in Network
  BY <1>1, PageBounds, RecordIds, RequestNetwork
<1>4. CASE records'[i].created # day
  <2>1. i \in DOMAIN records /\ records'[i] = records[i]
    BY <1>1, <1>2, <1>4
  <2>2. OpenIn(records', records[i].created) = OpenIn(records, records[i].created)
    BY <1>4, <2>1, OpenAfterStore
  <2>3. QED
    BY <2>1, <2>2 DEF DailyFits, OpenIn
<1>5. CASE records'[i].created = day
  <2>1. OpenIn(records', day) = OpenIn(records, day) \cup sync.valid
    BY OpenAfterStore
  <2>2. OpenIn(records', records'[i].created) = OpenIn(records, day) \cup sync.valid
    BY <1>1, <1>5, <2>1, OpenAfterStore DEF OpenIn
  <2> DEFINE S == OpenIn(records, day)
             V == sync.valid
  <2>3. \A j \in V : FitsLimit(requests, S \cup V, requests[j])
    <3>1. S \cup V = V \cup S
      OBVIOUS
    <3>2. QED
      BY <1>1, <3>1 DEF CheckedFits
  <2>4. \A j \in S : FitsLimit(requests, S, requests[j])
    BY DEF DailyFits, OpenIn
  <2>5. S \in SUBSET (1 .. Len(requests)) /\ V \in SUBSET (1 .. Len(requests))
        /\ Len(requests) \in Nat /\ DOMAIN requests = 1 .. Len(requests)
    BY <1>1, RecordIds, ValidInPage
  <2>6. \A j \in S \cup V : requests[j].network \in Network
    BY <2>5, RequestNetwork
  <2> HIDE DEF S, V
  <2>7. FitsLimit(requests, S \cup V, requests[i])
    BY <1>3, <2>3, <2>4, <2>5, <2>6, JoinFits
  <2>8. QED
    BY <2>2, <2>7 DEF S, V
<1>6. QED
  BY <1>4, <1>5

\* A checked page is taken from the check to the store as it is; a page of refusals
\* only skips the check.
LEMMA CheckedPage ==
  ASSUME CoreInv, [Next]_vars, sync'.pc \in {"benefit", "store"}
  PROVE  /\ ~Store
         /\ \/ sync'.valid = {}
            \/ /\ sync.pc = "check" /\ WithinDailyLimit(sync.valid)
               /\ UNCHANGED <<records, day>> /\ sync'.valid = sync.valid
            \/ /\ sync.pc \in {"benefit", "store"} /\ sync'.valid = sync.valid
<1>1. sync \in SyncType
  BY DEF CoreInv, TypeOK, SyncType
<1>2. Rest.pc = "idle" /\ \A n : [Rest EXCEPT !.pc = "fetch", !.cursor = n].pc = "fetch"
  BY DEF Rest
<1> ~Store
  BY <1>2 DEF Store
<1>3. CASE Start \/ SyncFails \/ Crash \/ Restart
  BY <1>2, <1>3 DEF Start, SyncFails, AfterError, Crash, Restart
<1>4. CASE Fetch
  BY <1>1, <1>4 DEF Fetch, SyncType
<1>5. CASE Authorize
  <2> DEFINE valid == {i \in Batch : IsAuthorized(i)}
  <2>1. \/ sync' = [sync EXCEPT !.pc = "stopped", !.reason = "garbled"]
        \/ sync' = [sync EXCEPT !.pc = AfterAuthorization(valid), !.valid = valid]
    BY <1>5 DEF Authorize, Stop
  <2>2. AfterAuthorization(valid) = IF valid = {} THEN "store" ELSE "check"
    BY DEF AfterAuthorization
  <2> HIDE DEF valid
  <2>3. QED
    BY <1>1, <2>1, <2>2 DEF SyncType
<1>6. CASE Check
  <2>1. sync.pc = "check" /\ UNCHANGED <<records, day>>
    BY <1>6 DEF Check, relayVars
  <2>2. \/ \E reason : sync' = [sync EXCEPT !.pc = "stopped", !.reason = reason]
        \/ WithinDailyLimit(sync.valid) /\ sync' = [sync EXCEPT !.pc = "benefit"]
    BY <1>6 DEF Check, Stop, SyncGoto
  <2>3. QED
    BY <1>1, <2>1, <2>2 DEF SyncType
<1>7. CASE CheckBenefit
  <2>1. sync.pc = "benefit"
    BY <1>7 DEF CheckBenefit
  <2>2. \/ sync' = [sync EXCEPT !.pc = "stopped", !.reason = "benefit"]
        \/ sync' = [sync EXCEPT !.pc = "store"]
    BY <1>7 DEF CheckBenefit, Stop, SyncGoto
  <2>3. QED
    BY <1>1, <2>1, <2>2 DEF SyncType
<1>8. CASE UNCHANGED sync
  BY <1>8
<1>9. QED
  <2>1. CASE Environment \/ UNCHANGED vars
    BY <1>8, <2>1 DEF Environment, Submit, Anchor, Midnight, Bind, Settle, vars
  <2>2. QED
    BY <1>3, <1>4, <1>5, <1>6, <1>7, <2>1 DEF Next, Sync

LEMMA CheckedStep ==
  ASSUME CoreInv, CoreInv', DaysInv, CheckedFits, [Next]_vars
  PROVE  CheckedFits'
<1> SUFFICES ASSUME sync'.pc \in {"benefit", "store"}, NEW i \in sync'.valid
             PROVE  FitsLimit(requests', sync'.valid \cup OpenIn(records', day'),
                              requests'[i])
  BY DEF CheckedFits
<1> DEFINE S == sync'.valid \cup OpenIn(records', day')
           T == sync.valid \cup OpenIn(records, day)
<1>1. /\ ~Store /\ sync'.valid = sync.valid
      /\ sync.pc \in {"check", "benefit", "store"}
      /\ sync.pc = "check" => WithinDailyLimit(sync.valid) /\ day' = day
  BY CheckedPage
<1>2. sync.valid \in SUBSET (1 .. Len(requests)) /\ i \in DOMAIN requests
  BY <1>1, ValidInPage
<1>3. FitsLimit(requests, T, requests[i])
  BY <1>1, <1>2, CheckMeans, ValidInPage DEF CheckedFits
<1>4. OpenIn(records', day') \subseteq OpenIn(records, day)
  <2>1. CASE day' = day
    BY <1>1, <2>1, OpenShrinks
  <2>2. CASE day' # day
    <3>1. \A j \in DOMAIN records : records[j].created # day'
      <4>1. day \in Nat /\ day' \in Nat /\ \A j \in DOMAIN records : records[j].created \in Nat
        BY DEF CoreInv, TypeOK, Record, Day
      <4>2. day <= day' /\ \A j \in DOMAIN records : records[j].created <= day
        BY DaysStep DEF DaysInv
      <4>3. QED
        BY <2>2, <4>1, <4>2
    <3>2. OpenIn(records', day') = {}
      BY <1>1, <3>1, QuietStep DEF OpenIn
    <3>3. QED
      BY <3>2
  <2>3. QED
    BY <2>1, <2>2
<1>5. /\ T \in SUBSET (1 .. Len(requests)) /\ S \in SUBSET T /\ Len(requests) \in Nat
      /\ requests[i].network \in Network /\ requests'[i] = requests[i]
      /\ \A j \in S : requests'[j] = requests[j]
  <2>1. T \in SUBSET (1 .. Len(requests)) /\ S \in SUBSET T
    BY <1>1, <1>2, <1>4, RecordIds
  <2>2. QED
    BY <1>1, <1>2, <2>1, RecordIds, RequestNetwork, QuietStep
<1> HIDE DEF S, T
<1>6. FitsLimit(requests', S, requests[i])
  BY <1>3, <1>5, FewerFit
<1>7. QED
  BY <1>5, <1>6 DEF S

\* Of the withdrawals taken over in one day no more than the limit have not failed, by
\* requester and by benefit address, also when midnight falls between the check of
\* checkWithdrawalDailyLimit and the insertion of the page.
THEOREM LimitHolds == Spec => []DailyLimitHolds
<1>1. Init => DaysInv /\ DailyFits /\ CheckedFits
  <2>1. DOMAIN << >> = {}
    OBVIOUS
  <2>2. Init => DOMAIN records = {} /\ DOMAIN requests = {} /\ sync.pc = "idle"
    BY <2>1, RestType DEF Init
  <2>3. QED
    BY <2>2 DEF DaysInv, DailyFits, CheckedFits
<1>2. CoreInv /\ CoreInv' /\ DaysInv /\ [Next]_vars => DaysInv'
  BY DaysStep
<1>3. CoreInv /\ DailyFits /\ CheckedFits /\ [Next]_vars => DailyFits'
  BY DailyQuiet, DailyStore
<1>4. CoreInv /\ CoreInv' /\ DaysInv /\ CheckedFits /\ [Next]_vars => CheckedFits'
  BY CheckedStep
<1>5. QED
  BY <1>1, <1>2, <1>3, <1>4, DailyMeans, CoreAlways, PTL DEF Spec

-----------------------------------------------------------------------------
(* Why the task ends for the limit. *)

CauseFits ==
    blame = {} =>
        /\ \A i \in DOMAIN requests : i > checkpoint => requests[i].day = day
        /\ \A i \in DOMAIN records : records[i].created = requests[i].day
        /\ \A i \in DOMAIN requests : FitsLimit(requests, OpenToday, requests[i])

LEMMA OpenTodayIds ==
  ASSUME CoreInv
  PROVE  OpenToday \in SUBSET (1 .. Len(requests)) /\ Len(requests) \in Nat
  BY RecordIds DEF OpenToday

LEMMA CauseMeans == CoreInv => (CauseFits <=> CauseInv)
<1> SUFFICES ASSUME CoreInv, NEW i \in DOMAIN requests
             PROVE  FitsLimit(requests, OpenToday, requests[i])
                    <=> Load(OpenToday, requests[i])
                           <= MaxWithdrawalsPerDay[requests[i].network]
  BY DEF CauseFits, CauseInv
<1>1. QED
  BY OpenTodayIds, RequestNetwork, LoadFits DEF Load

LEMMA BlameGrows ==
  ASSUME [Next]_vars
  PROVE  blame \subseteq blame'
<1>1. CASE UNCHANGED vars
  BY <1>1 DEF vars, relayVars
<1>2. CASE Environment
  BY <1>2 DEF Environment, Submit, Anchor, Midnight, Bind, Settle, relayVars
<1>3. CASE Sync
  BY <1>3 DEF Sync, Start, Fetch, Authorize, Check, CheckBenefit, Store, relayVars
<1>4. CASE SyncFails \/ Crash \/ Restart
  BY <1>4 DEF SyncFails, Crash, Restart, relayVars
<1>5. QED
  BY <1>1, <1>2, <1>3, <1>4 DEF Next

\* Both counts are within Load.
LEMMA LoadBounds ==
  ASSUME NEW n \in Nat, NEW S \in SUBSET (1 .. n), NEW r, NEW b \in BOOLEAN
  PROVE  /\ Cardinality(Sharing(b, requests, S, r)) <= Load(S, r)
         /\ Load(S, r) \in Nat
<1> DEFINE k == Cardinality(Sharing(TRUE, requests, S, r))
           l == Cardinality(Sharing(FALSE, requests, S, r))
<1>1. Load(S, r) = Max({k, l})
  BY DEF Load, Sharing, Same
<1>2. k \in Nat /\ l \in Nat
  BY SharingFinite
<1>3. b = TRUE \/ b = FALSE
  OBVIOUS
<1> HIDE DEF k, l
<1>4. Max({k, l}) \in Nat /\ k <= Max({k, l}) /\ l <= Max({k, l})
  BY <1>2 DEF Max
<1>5. QED
  BY <1>1, <1>3, <1>4 DEF k, l

\* What may be open today counts at Relay, unless it is being rejected.
LEMMA OpenCountsAtRelay ==
  ASSUME CoreInv, DaysInv, ~Rejecting
  PROVE  OpenToday \subseteq {i \in DOMAIN requests : CountsAtRelay(i)}
<1> SUFFICES ASSUME NEW i \in OpenToday, i \in DOMAIN records, records[i].rejected
             PROVE  FALSE
  BY DEF OpenToday, CountsAtRelay
<1>1. records[i].status \in RecordStatus
  BY DEF CoreInv, TypeOK, Record
<1>2. QED
  BY <1>1 DEF OpenToday, Rejecting, DaysInv, RecordStatus

\* A request that Relay's limit let through leaves the open ones of today within it.
LEMMA SubmitFits ==
  ASSUME CoreInv, CoreInv', DaysInv, CauseFits, blame' = {}, NEW r \in Catalogue, Submit(r)
  PROVE  CauseFits'
<1> DEFINE q == [r EXCEPT !.day = day]
           n == Len(requests)
           R == {i \in DOMAIN requests : CountsAtRelay(i)}
           V == {n + 1}
<1>1. /\ requests' = Append(requests, q)
      /\ UNCHANGED <<day, records, checkpoint>>
      /\ WithinRelayLimit(r) /\ ~Rejecting /\ blame = {}
  BY DEF Submit
<1>2. /\ r \in Request /\ q \in Request /\ q.day = day /\ r.network \in Network
      /\ q.network = r.network /\ q.address = r.address
      /\ q.benefitAddress = r.benefitAddress
  BY SubmittedIsRequest, SyncAssumption DEF Request, CoreInv, TypeOK
<1>3. /\ n \in Nat /\ DOMAIN requests = 1 .. n /\ DOMAIN records \subseteq 1 .. n
      /\ checkpoint \in Nat /\ checkpoint <= n
      /\ Len(requests') = n + 1 /\ DOMAIN requests' = 1 .. (n + 1)
      /\ \A i \in 1 .. n : requests'[i] = requests[i]
      /\ requests'[n + 1] = q
  <2>1. requests \in Seq(Request)
    BY DEF CoreInv, TypeOK
  <2>2. QED
    BY <1>1, <1>2, <2>1, Appended, RecordIds, PageBounds
<1> HIDE DEF q
<1>4. OpenToday' = OpenToday \cup V
  BY <1>1, <1>2, <1>3 DEF OpenToday
<1>5. /\ OpenToday \in SUBSET R /\ R \in SUBSET (1 .. n)
      /\ OpenToday \in SUBSET (1 .. (n + 1)) /\ V \in SUBSET (1 .. (n + 1))
  BY <1>1, <1>3, OpenCountsAtRelay
<1>6. FitsLimit(requests', OpenToday \cup V, q)
  <2> SUFFICES ASSUME NEW b \in BOOLEAN
               PROVE  Cardinality(Sharing(b, requests', OpenToday \cup V, q))
                         <= MaxWithdrawalsPerDay[q.network]
    BY DEF FitsLimit
  <2> DEFINE A == Sharing(b, requests', OpenToday, q)
             B == Sharing(b, requests, R, r)
  <2>1. A \in SUBSET B
    BY <1>2, <1>3, <1>5 DEF Sharing, Same, SameRequester, SameBenefit
  <2>2. Sharing(b, requests', OpenToday \cup V, q) \in SUBSET (A \cup V)
    BY DEF Sharing
  <2>3. IsFiniteSet(B) /\ Cardinality(B) \in Nat
    BY <1>3, <1>5, SharingFinite
  <2>4. Cardinality(B) <= Load(R, r) /\ Load(R, r) \in Nat
    BY <1>3, <1>5, LoadBounds
  <2>5. Load(R, r) < MaxWithdrawalsPerDay[r.network]
    BY <1>1 DEF WithinRelayLimit
  <2>6. MaxWithdrawalsPerDay[r.network] \in Nat
    BY <1>2, SyncAssumption
  <2> HIDE DEF A, B
  <2>7. IsFiniteSet(A) /\ Cardinality(A) <= Cardinality(B) /\ Cardinality(A) \in Nat
    BY <2>1, <2>3, FS_Subset, FS_CardinalityType
  <2>8. IsFiniteSet(A \cup V) /\ Cardinality(A \cup V) <= Cardinality(A) + 1
        /\ Cardinality(A \cup V) \in Nat
    <3>1. /\ IsFiniteSet(A \cup V)
          /\ \/ Cardinality(A \cup V) = Cardinality(A)
             \/ Cardinality(A \cup V) = Cardinality(A) + 1
      BY <2>7, FS_AddElement
    <3>2. QED
      BY <2>7, <3>1
  <2>9. /\ Cardinality(Sharing(b, requests', OpenToday \cup V, q)) <= Cardinality(A \cup V)
        /\ Cardinality(Sharing(b, requests', OpenToday \cup V, q)) \in Nat
    BY <2>2, <2>8, FS_Subset, FS_CardinalityType
  <2>10. QED
    BY <1>2, <2>3, <2>4, <2>5, <2>6, <2>7, <2>8, <2>9
<1>7. \A i \in OpenToday : FitsLimit(requests', OpenToday, requests'[i])
  <2>1. ASSUME NEW i \in OpenToday
        PROVE  FitsLimit(requests', OpenToday, requests[i])
    <3>1. /\ FitsLimit(requests, OpenToday, requests[i]) /\ requests[i].network \in Network
          /\ \A j \in OpenToday : requests'[j] = requests[j]
      BY <1>1, <1>3, <1>5, RequestNetwork DEF CauseFits
    <3>2. QED
      BY <1>3, <1>5, <3>1, FewerFit
  <2>2. QED
    BY <1>3, <1>5, <2>1
<1>8. \A i \in DOMAIN requests' : requests'[i].network \in Network
  BY <1>2, <1>3, RequestNetwork
<1>9. \A i \in DOMAIN requests' : FitsLimit(requests', OpenToday \cup V, requests'[i])
  <2>1. n + 1 \in Nat
    BY <1>3
  <2>2. \A i \in V : FitsLimit(requests', OpenToday \cup V, requests'[i])
    BY <1>3, <1>6
  <2>3. \A i \in OpenToday \cup V : requests'[i].network \in Network
    BY <1>3, <1>5, <1>8
  <2> HIDE DEF V, n
  <2>4. QED
    BY <1>5, <1>7, <1>8, <2>1, <2>2, <2>3, JoinFits
<1>10. \A i \in DOMAIN requests' : i > checkpoint => requests'[i].day = day
  BY <1>1, <1>2, <1>3 DEF CauseFits
<1>11. \A i \in DOMAIN records : records[i].created = requests'[i].day
  BY <1>1, <1>3 DEF CauseFits
<1>12. QED
  BY <1>1, <1>4, <1>9, <1>10, <1>11 DEF CauseFits

\* Every other step leaves fewer open, or starts a day on which nothing is yet.
LEMMA CauseOther ==
  ASSUME CoreInv, CoreInv', DaysInv, CauseFits, blame = {}, blame' = {}, [Next]_vars,
         requests' = requests
  PROVE  CauseFits'
<1>1. /\ DOMAIN requests = 1 .. Len(requests) /\ Len(requests) \in Nat
      /\ DOMAIN records \subseteq 1 .. Len(requests)
      /\ checkpoint \in Nat /\ checkpoint' \in Nat
      /\ checkpoint <= checkpoint'
  <2>1. checkpoint \in Nat /\ checkpoint' \in Nat
    BY DEF CoreInv, TypeOK
  <2>2. ASSUME Store PROVE checkpoint <= checkpoint'
    BY <2>1, <2>2, Stored, PageBounds
  <2>3. ASSUME ~Store PROVE checkpoint <= checkpoint'
    BY <2>1, <2>3, QuietStep
  <2>4. DOMAIN requests = 1 .. Len(requests) /\ Len(requests) \in Nat
        /\ DOMAIN records \subseteq 1 .. Len(requests)
    BY RecordIds
  <2>5. checkpoint <= checkpoint'
    BY <2>2, <2>3
  <2>6. QED
    BY <2>1, <2>4, <2>5
<1>2. ASSUME day' = day PROVE OpenToday' \subseteq OpenToday
  <2>1. CASE Store
    <3>1. \A i \in DOMAIN records : i \in DOMAIN records' /\ records'[i] = records[i]
      BY <1>1, <2>1, Stored, PageBounds DEF CoreInv, NoRequestSkipped
    <3>2. QED
      BY <1>2, <3>1 DEF OpenToday
  <2>2. CASE ~Store
    BY <1>2, <2>2, QuietStep DEF OpenToday
  <2>3. QED
    BY <2>1, <2>2
<1>3. ASSUME day' # day
      PROVE  /\ OpenToday' = {} /\ ~Store
             /\ \A i \in DOMAIN requests : i <= checkpoint
  <2>1. Midnight
    BY <1>3 DEF Next, vars, Environment, Submit, Anchor, Bind, Settle, Sync, Start, Fetch,
                Authorize, Check, CheckBenefit, Store, SyncFails, Crash, Restart, relayVars
  <2>2. day' = day + 1 /\ UNCHANGED <<requests, records, checkpoint>>
        /\ ~(checkpoint < Len(requests))
    BY <2>1 DEF Midnight
  <2>3. \A i \in DOMAIN requests : requests[i].day # day'
    <3>1. \A i \in DOMAIN requests : requests[i].day <= day /\ requests[i].day \in Nat
      BY RequestNetwork DEF DaysInv, Request, Day
    <3>2. day \in Nat
      BY DEF CoreInv, TypeOK, Day
    <3>3. QED
      BY <2>2, <3>1, <3>2
  <2>4. ~Store
    BY <1>3, Stored DEF relayVars
  <2>5. QED
    BY <1>1, <2>2, <2>3, <2>4 DEF OpenToday
<1>4. OpenToday' \subseteq OpenToday
  BY <1>2, <1>3
<1>5. ASSUME NEW i \in DOMAIN requests
      PROVE  FitsLimit(requests, OpenToday', requests[i])
  <2>1. FitsLimit(requests, OpenToday, requests[i]) /\ requests[i].network \in Network
    BY RequestNetwork DEF CauseFits
  <2>2. QED
    BY <1>4, <2>1, OpenTodayIds, FewerFit
<1>6. ASSUME NEW i \in DOMAIN requests, i > checkpoint'
      PROVE  requests[i].day = day'
  <2>1. i > checkpoint
    BY <1>1, <1>6
  <2>2. requests[i].day = day
    BY <2>1 DEF CauseFits
  <2>3. QED
    BY <1>1, <1>3, <2>1, <2>2
<1>7. ASSUME NEW i \in DOMAIN records'
      PROVE  records'[i].created = requests[i].day
  <2>1. CASE Store
    <3>1. CASE i \in DOMAIN records
      BY <2>1, <3>1, Stored DEF CauseFits
    <3>2. CASE i \in Batch
      <4>1. records'[i].created = day
        <5>1. records'[i] = RowOf(i)
          BY <2>1, <3>2, Stored
        <5>2. QED
          BY <5>1 DEF RowOf
      <4>2. i \in DOMAIN requests /\ i > checkpoint
        BY <1>1, <2>1, <3>2, Stored, PageBounds
      <4>3. QED
        BY <4>1, <4>2 DEF CauseFits
    <3>3. QED
      BY <1>7, <2>1, <3>1, <3>2, Stored
  <2>2. CASE ~Store
    BY <1>7, <2>2, QuietStep DEF CauseFits
  <2>3. QED
    BY <2>1, <2>2
<1>8. QED
  BY <1>5, <1>6, <1>7 DEF CauseFits

LEMMA CauseStep ==
  ASSUME CoreInv, CoreInv', DaysInv, CauseFits, [Next]_vars
  PROVE  CauseFits'
<1> SUFFICES ASSUME blame' = {} PROVE CauseFits'
  BY DEF CauseFits
<1>1. blame = {}
  BY BlameGrows
<1>2. CASE \E r \in Catalogue : Submit(r)
  BY <1>1, <1>2, SubmitFits
<1>3. CASE ~ \E r \in Catalogue : Submit(r)
  <2>1. requests' = requests
    BY <1>3 DEF Next, vars, Environment, Anchor, Midnight, Bind, Settle, Sync, Start,
                Fetch, Authorize, Check, CheckBenefit, Store, SyncFails, Crash, Restart,
                relayVars
  <2>2. QED
    BY <1>1, <2>1, CauseOther
<1>4. QED
  BY <1>2, <1>3

\* checkWithdrawalDailyLimit passes as long as there is nothing to blame: what it
\* counts is of today, and open.
LEMMA CheckPasses ==
  ASSUME CoreInv, CauseFits, blame = {}, sync.pc = "check"
  PROVE  WithinDailyLimit(sync.valid)
<1>1. /\ sync.valid \subseteq Batch /\ sync.valid \subseteq DOMAIN requests
      /\ \A i \in Batch : i \notin DOMAIN records /\ i > checkpoint
  <2>1. \A i \in Batch : i > checkpoint
    BY PageBounds
  <2>2. QED
    BY <2>1, ValidInPage, PageBounds
<1>2. sync.valid \subseteq OpenToday
  BY <1>1 DEF CauseFits, OpenToday
<1>3. OpenIn(records, day) \subseteq OpenToday
  BY RecordIds DEF CauseFits, OpenIn, OpenToday
<1> DEFINE S == sync.valid \cup OpenIn(records, day)
<1>4. S \in SUBSET OpenToday
  BY <1>2, <1>3
<1> HIDE DEF S
<1>5. ASSUME NEW i \in sync.valid
      PROVE  FitsLimit(requests, S, requests[i])
  <2>1. FitsLimit(requests, OpenToday, requests[i]) /\ requests[i].network \in Network
    BY <1>1, RequestNetwork DEF CauseFits
  <2>2. QED
    BY <1>4, <2>1, OpenTodayIds, FewerFit
<1>6. QED
  BY <1>1, <1>5, CheckMeans DEF S

LEMMA LimitStopStep ==
  ASSUME CoreInv, CauseFits, LimitStopHasCause, [Next]_vars
  PROVE  LimitStopHasCause'
<1> SUFFICES ASSUME sync'.reason = "limit" PROVE blame' # {}
  BY DEF LimitStopHasCause
<1>1. sync \in SyncType
  BY DEF CoreInv, TypeOK, SyncType
<1>2. /\ Rest.reason = "none"
      /\ \A n : [Rest EXCEPT !.pc = "fetch", !.cursor = n].reason = "none"
  BY DEF Rest
<1>3. \/ sync.reason = "limit"
      \/ Check /\ ~WithinDailyLimit(sync.valid)
  <2>1. CASE Start \/ Store \/ SyncFails \/ Crash \/ Restart
    BY <1>2, <2>1 DEF Start, Store, SyncFails, AfterError, Crash, Restart
  <2>2. CASE Fetch \/ Authorize
    BY <1>1, <2>2 DEF Fetch, Authorize, Stop, SyncType
  <2>3. CASE Check
    BY <1>1, <2>3 DEF Check, Stop, SyncGoto, SyncType
  <2>4. CASE CheckBenefit
    BY <1>1, <2>4 DEF CheckBenefit, Stop, SyncGoto, SyncType
  <2>5. CASE Environment \/ UNCHANGED vars
    BY <2>5 DEF Environment, Submit, Anchor, Midnight, Bind, Settle, vars
  <2>6. QED
    BY <2>1, <2>2, <2>3, <2>4, <2>5 DEF Next, Sync
<1>4. CASE sync.reason = "limit"
  BY <1>4, BlameGrows DEF LimitStopHasCause
<1>5. CASE Check /\ ~WithinDailyLimit(sync.valid)
  <2>1. sync.pc = "check"
    BY <1>5 DEF Check
  <2>2. blame # {}
    BY <1>5, <2>1, CheckPasses
  <2>3. QED
    BY <2>2, BlameGrows
<1>6. QED
  BY <1>3, <1>4, <1>5

\* The strengthening of the four invariants, which is inductive together with them.
THEOREM SyncInvariant == Spec => []SyncInv
<1>1. Init => SpentInv /\ DaysInv /\ DailyFits /\ CheckedFits /\ CauseFits
  <2>1. DOMAIN << >> = {}
    OBVIOUS
  <2>2. Init => DOMAIN records = {} /\ DOMAIN requests = {} /\ sync.pc = "idle"
    BY <2>1, RestType DEF Init
  <2>3. QED
    BY <2>2, InitSpent DEF DaysInv, DailyFits, CheckedFits, CauseFits
<1>2. CoreInv /\ SpentInv /\ [Next]_vars => SpentInv'
  BY SpentQuietStep, SpentStore
<1>3. CoreInv /\ CoreInv' /\ DaysInv /\ [Next]_vars => DaysInv'
  BY DaysStep
<1>4. CoreInv /\ CoreInv' /\ DaysInv /\ CheckedFits /\ [Next]_vars => CheckedFits'
  BY CheckedStep
<1>5. CoreInv /\ CoreInv' /\ DaysInv /\ CauseFits /\ [Next]_vars => CauseFits'
  BY CauseStep
<1>6. /\ CoreInv => TypeOK /\ PageInv
      /\ SpentInv => SpentIsKnown
  BY DEF CoreInv, SpentInv
<1>7. TypeOK /\ PageInv /\ SpentIsKnown /\ DaysInv /\ CheckedInv /\ CauseInv => SyncInv
  BY DEF SyncInv
<1>8. QED
  BY <1>1, <1>2, <1>3, <1>4, <1>5, <1>6, <1>7, CheckedMeans, CauseMeans, CoreAlways,
     PTL DEF Spec

\* The task ends for the daily limit only if Relay broke it, or a request was left
\* waiting over midnight, or Relay knew of a rejection before the record did
\* (checkWithdrawalDailyLimit).
THEOREM LimitStopsHaveCause == Spec => []LimitStopHasCause
<1>1. Init => LimitStopHasCause
  BY RestType DEF Init, LimitStopHasCause
<1>2. CoreInv /\ CauseFits /\ LimitStopHasCause /\ [Next]_vars => LimitStopHasCause'
  BY LimitStopStep
<1>3. SyncInv => CauseInv
  BY DEF SyncInv
<1>4. QED
  BY <1>1, <1>2, <1>3, CauseMeans, SyncInvariant, CoreAlways, PTL DEF Spec
=====================================================================================
