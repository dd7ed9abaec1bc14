------------------------ MODULE RelayAccountLedgerProofs ------------------------
(***************************************************************************)
(* Proofs about RelayAccountLedger, for every catalogue of events, every   *)
(* size of batch and log, and any number of accounts, withdrawals and      *)
(* vestings.  Each part of the invariant has a lemma "Spec => []part" of    *)
(* its own, which later parts cite for the state and the next one:         *)
(*   - the log, the batch and the tasks (Tables), what Relay publishes      *)
(*     (LogIsPublished), withdrawals by their place in the log (Ground);   *)
(*   - a balance is the sum of the log up to the checkpoint less the debits *)
(*     (Exact), and by the split of both sums by type of event Relay's own  *)
(*     balance plus what is outstanding (BalancesMatch);                   *)
(*   - deposits are new rows (CreditsInv), and no withdrawal is refused     *)
(*     when Relay's balance stays above zero (Backed);                     *)
(*   - the fold over the vesting events of a batch is followed event by     *)
(*     event: Runs are its intermediate results, and FollowsLog is what the *)
(*     table owes to the log after each of them (Vestings).                *)
(* An account's balance depends on the order of two transactions, so the    *)
(* results about balances assume Serializable.                             *)
(***************************************************************************)
EXTENDS RelayAccountLedger, FiniteSums, SequenceTheorems

-----------------------------------------------------------------------------
(* The log, the batch and the kinds of the variables that hold no sums. *)

NextBatch ==
    /\ sync.pc \in {"fetch", "check", "open", "commit"} => sync.checkpoint = checkpoint
    /\ sync.pc \in {"check", "open", "commit"} =>
          LET end == checkpoint + Len(sync.batch)
          IN end <= Len(log) /\ sync.batch = SubSeq(log, checkpoint + 1, end)
    /\ sync.pc \in {"open", "commit"} =>
          \A i \in DOMAIN sync.batch :
              LET e == sync.batch[i]
              IN /\ e.type = "deposit" =>
                        /\ e.subject \in Deposit
                        /\ Transfer[e.subject] = [from |-> e.address, amount |-> e.amount]
                 /\ e.type \in VestingEvents => e.subject # None

Relays ==
    /\ log \in Seq(Event) /\ Len(log) <= MaxEvents
    /\ day \in Day
    /\ DOMAIN mined \subseteq Deposit /\ \A d \in DOMAIN mined : mined[d] \in 0 .. day

Syncs ==
    /\ deposits \subseteq Deposit
    /\ checkpoint \in 0 .. Len(log)
    /\ DOMAIN sync = {"pc", "checkpoint", "batch", "read"}
    /\ sync.pc \in SyncPc
    /\ sync.checkpoint \in 0 .. checkpoint
    /\ sync.batch \in Seq(Event) /\ Len(sync.batch) <= BatchSize
    /\ NextBatch

Tasks ==
    /\ requests \in {"running", "stopped"}
    /\ withdrawal \in [Withdrawal -> WithdrawalState]
    /\ faults \in 0 .. MaxFaults

Tables == Relays /\ Syncs /\ Tasks

LEMMA RelaysHold == Spec => []Relays
<1>1. Init => Relays
  BY LedgerAssumption DEF Init, Relays, Day
<1>2. Relays /\ [Next]_vars => Relays'
  <2> SUFFICES ASSUME Relays, [Next]_vars PROVE Relays'
    OBVIOUS
  <2> USE DEF Relays
  <2>1. ASSUME NEW e \in Catalogue, Publish(e) PROVE Relays'
    <3>1. PICK d \in {day, day + 1} : log' = Append(log, [e EXCEPT !.day = d])
      BY <2>1 DEF Publish
    <3>2. e \in Event /\ d \in Nat
      BY LedgerAssumption DEF Day
    <3>3. [e EXCEPT !.day = d] \in Event
      BY <3>2 DEF Event
    <3>4. log' \in Seq(Event) /\ Len(log') = Len(log) + 1
      BY <3>1, <3>3
    <3>5. Len(log) < MaxEvents /\ MaxEvents \in Nat /\ Len(log) \in Nat
      BY <2>1, LedgerAssumption DEF Publish
    <3>6. QED
      BY <2>1, <3>4, <3>5 DEF Publish
  <2>2. ASSUME NEW d \in Deposit, Mine(d) PROVE Relays'
    <3>1. day \in Nat
      BY LedgerAssumption DEF Day
    <3>2. QED
      BY <2>2, <3>1 DEF Mine
  <2>3. CASE Tick
    <3>1. mined' = mined /\ log' = log /\ day \in Nat /\ day' = day + 1 /\ day' \in Day
      BY <2>3, LedgerAssumption DEF Tick, Day
    <3>2. \A d \in DOMAIN mined : mined[d] \in 0 .. day'
      <4> SUFFICES ASSUME NEW d \in DOMAIN mined PROVE mined[d] \in 0 .. day + 1
        BY <3>1
      <4>1. mined[d] \in 0 .. day
        OBVIOUS
      <4>2. QED
        BY <3>1, <4>1
    <3>3. QED
      BY <3>1, <3>2
  <2>4. CASE UNCHANGED relayVars
    BY <2>4 DEF relayVars
  <2>5. QED
    BY <2>1, <2>2, <2>3, <2>4
       DEF Next, vars, Environment, Sync, SyncStart, SyncFetch, SyncCheck, SyncOpen,
           SyncCommit, SyncFails, Withdraw, TakeUp, Gate, Payout, DebitOpen, DebitCommit,
           Restart
<1>3. QED
  BY <1>1, <1>2, PTL DEF Spec

LEMMA SyncsHold == Spec => []Syncs
<1>1. Init => Syncs
  BY LedgerAssumption DEF Init, Syncs, Rest, SyncPc, NextBatch
<1>2. Relays /\ Relays' /\ Syncs /\ [Next]_vars => Syncs'
  <2> SUFFICES ASSUME Relays, Relays', Syncs, [Next]_vars PROVE Syncs'
    OBVIOUS
  <2>t. /\ Len(log) \in Nat /\ checkpoint \in Nat /\ sync.checkpoint \in Nat
        /\ sync.checkpoint <= checkpoint /\ checkpoint <= Len(log)
        /\ Len(sync.batch) \in Nat /\ BatchSize \in Nat /\ BatchSize > 0
    BY LedgerAssumption DEF Syncs, Relays
  \* What is in memory when the task begins anew.
  <2>r. /\ DOMAIN Rest = {"pc", "checkpoint", "batch", "read"}
        /\ Rest.pc = "idle" /\ Rest.checkpoint = 0 /\ Rest.batch = <<>>
    BY DEF Rest
  <2>1. ASSUME NEW e \in Catalogue, Publish(e) PROVE Syncs'
    <3>1. PICK d : log' = Append(log, [e EXCEPT !.day = d])
      BY <2>1 DEF Publish
    <3>2. UNCHANGED <<deposits, checkpoint, sync>>
      BY <2>1 DEF Publish, ledgerVars
    <3>3. log \in Seq(Event) /\ log' \in Seq(Event)
      BY DEF Relays
    <3>4. /\ Len(log') = Len(log) + 1
          /\ \A i \in 1 .. Len(log) : log'[i] = log[i]
      BY <3>1, <3>3
    <3>5. \A m, n \in Nat : n <= Len(log) => SubSeq(log', m + 1, n) = SubSeq(log, m + 1, n)
      BY <3>3, <3>4
    <3>6. sync.pc \in {"check", "open", "commit"} =>
            SubSeq(log', checkpoint + 1, checkpoint + Len(sync.batch))
              = SubSeq(log, checkpoint + 1, checkpoint + Len(sync.batch))
      <4>1. sync.pc \in {"check", "open", "commit"} =>
              checkpoint + Len(sync.batch) \in Nat /\ checkpoint + Len(sync.batch) <= Len(log)
        BY <2>t DEF Syncs, NextBatch
      <4>2. QED
        BY <2>t, <4>1, <3>5
    <3>7. NextBatch'
      BY <2>t, <3>2, <3>4, <3>6 DEF Syncs, NextBatch
    <3>8. QED
      BY <2>t, <3>2, <3>4, <3>7 DEF Syncs
  <2>2. CASE SyncStart
    <3>1. /\ DOMAIN sync' = {"pc", "checkpoint", "batch", "read"}
          /\ sync'.pc = "fetch" /\ sync'.checkpoint = checkpoint /\ sync'.batch = <<>>
      BY <2>2, <2>r DEF SyncStart
    <3>2. UNCHANGED <<log, deposits, checkpoint>>
      BY <2>2 DEF SyncStart, relayVars, ledgerVars
    <3>3. QED
      BY <2>t, <3>1, <3>2 DEF Syncs, NextBatch, SyncPc
  <2>3. CASE SyncFetch
    <3> DEFINE end == Min({sync.checkpoint + BatchSize, Len(log)})
    <3>1. /\ DOMAIN sync' = {"pc", "checkpoint", "batch", "read"}
          /\ sync'.pc = "check" /\ sync'.checkpoint = sync.checkpoint
          /\ sync'.batch = SubSeq(log, sync.checkpoint + 1, end)
      BY <2>3 DEF SyncFetch, Syncs
    <3>2. UNCHANGED <<log, deposits, checkpoint>>
      BY <2>3 DEF SyncFetch, relayVars, ledgerVars
    <3>3. end \in {sync.checkpoint + BatchSize, Len(log)}
          /\ end <= sync.checkpoint + BatchSize /\ end <= Len(log)
      <4> HIDE <2>3
      <4>1. \A x, y \in Int : /\ Min({x, y}) \in {x, y}
                              /\ Min({x, y}) <= x /\ Min({x, y}) <= y
        <5> SUFFICES ASSUME NEW x \in Int, NEW y \in Int
                     PROVE  /\ Min({x, y}) \in {x, y}
                            /\ Min({x, y}) <= x /\ Min({x, y}) <= y
          OBVIOUS
        <5>1. \E m \in {x, y} : \A z \in {x, y} : m <= z
          <6>1. x <= y \/ y <= x
            OBVIOUS
          <6>2. QED
            BY <6>1
        <5>2. QED
          BY <5>1 DEF Min
      <4>2. sync.checkpoint + BatchSize \in Int /\ Len(log) \in Int
        BY <2>t
      <4>3. QED
        BY <4>1, <4>2
    <3>4. sync.checkpoint = checkpoint /\ Len(log) > sync.checkpoint
      BY <2>3 DEF SyncFetch, Syncs, NextBatch
    <3> HIDE DEF end
    <3>5. end \in Nat /\ end > checkpoint
      BY <2>t, <3>3, <3>4
    <3>6. log \in Seq(Event)
      BY DEF Relays
    <3>7. sync'.batch \in Seq(Event) /\ Len(sync'.batch) = end - checkpoint
      BY <2>t, <3>1, <3>3, <3>4, <3>5, <3>6
    <3>8. checkpoint + Len(sync'.batch) = end /\ Len(sync'.batch) <= BatchSize
      BY <2>t, <3>3, <3>4, <3>5, <3>7
    <3>9. NextBatch'
      BY <3>1, <3>2, <3>3, <3>4, <3>8 DEF NextBatch
    <3>10. QED
      BY <2>t, <3>1, <3>2, <3>7, <3>8, <3>9 DEF Syncs, SyncPc
  <2>4. CASE SyncCheck
    <3>1. UNCHANGED <<log, deposits, checkpoint>>
      BY <2>4 DEF SyncCheck, relayVars, ledgerVars
    <3>2. /\ DOMAIN sync' = DOMAIN sync /\ sync'.pc \in {"idle", "stopped", "open"}
          /\ sync'.checkpoint = sync.checkpoint /\ sync'.batch = sync.batch
      BY <2>4 DEF SyncCheck, SyncGoto, Syncs
    <3>3. sync.pc = "check"
      BY <2>4 DEF SyncCheck
    <3>4. sync'.pc = "open" => \A i \in DOMAIN sync.batch : IsAccepted(sync.batch[i])
      BY <2>4 DEF SyncCheck, SyncGoto, Syncs
    <3>5. sync'.pc = "open" =>
            \A i \in DOMAIN sync.batch :
               sync.batch[i].type = "deposit" =>
                  /\ sync.batch[i].subject \in Deposit
                  /\ Transfer[sync.batch[i].subject]
                       = [from |-> sync.batch[i].address, amount |-> sync.batch[i].amount]
      BY <3>4 DEF IsAccepted, DepositMatches, Relays
    <3>6. sync'.pc = "open" =>
            \A i \in DOMAIN sync.batch :
               sync.batch[i].type \in VestingEvents => sync.batch[i].subject # None
      BY <3>4 DEF IsAccepted, VestingEvents
    <3>7. NextBatch'
      BY <3>1, <3>2, <3>3, <3>5, <3>6 DEF Syncs, NextBatch
    <3>8. QED
      BY <3>1, <3>2, <3>7 DEF Syncs, SyncPc
  <2>5. CASE SyncOpen
    <3>1. UNCHANGED <<log, deposits, checkpoint>>
      BY <2>5 DEF SyncOpen, relayVars, ledgerVars
    <3>2. /\ DOMAIN sync' = DOMAIN sync /\ sync'.pc \in {"commit", "stopped"}
          /\ sync'.checkpoint = sync.checkpoint /\ sync'.batch = sync.batch
      BY <2>5 DEF SyncOpen, SyncGoto, Syncs
    <3>3. sync.pc = "open"
      BY <2>5 DEF SyncOpen
    <3>4. NextBatch'
      BY <3>1, <3>2, <3>3 DEF Syncs, NextBatch
    <3>5. QED
      BY <3>1, <3>2, <3>4 DEF Syncs, SyncPc
  <2>6. CASE SyncCommit
    <3>1. /\ log' = log /\ deposits' = deposits \cup DepositsIn(sync.batch)
          /\ checkpoint' = sync.checkpoint + Len(sync.batch)
      BY <2>6 DEF SyncCommit, relayVars, NextCheckpoint
    <3>2. /\ DOMAIN sync' = {"pc", "checkpoint", "batch", "read"}
          /\ sync'.pc \in {"idle", "fetch"} /\ sync'.batch = <<>>
          /\ sync'.pc = "fetch" => sync'.checkpoint = checkpoint'
          /\ sync'.checkpoint \in {0, checkpoint'}
      BY <2>6, <2>r DEF SyncCommit
    <3>3. /\ sync.pc = "commit" /\ sync.checkpoint = checkpoint
          /\ checkpoint + Len(sync.batch) <= Len(log)
      BY <2>6 DEF SyncCommit, Syncs, NextBatch
    <3>4. checkpoint' \in 0 .. Len(log') /\ sync'.checkpoint \in 0 .. checkpoint'
      BY <2>t, <3>1, <3>2, <3>3
    <3>5. deposits' \subseteq Deposit
      BY <3>1, <3>3 DEF Syncs, NextBatch, DepositsIn, DepositLogs
    <3>6. NextBatch'
      BY <3>2 DEF NextBatch
    <3>7. sync'.batch \in Seq(Event) /\ Len(sync'.batch) <= BatchSize
      BY <2>t, <3>2
    <3>8. QED
      BY <3>2, <3>4, <3>5, <3>6, <3>7 DEF Syncs, SyncPc
  <2>7. CASE SyncFails \/ Restart
    <3>1. sync' = Rest /\ UNCHANGED <<log, deposits, checkpoint>>
      BY <2>7 DEF SyncFails, Restart, relayVars, ledgerVars
    <3>2. NextBatch'
      BY <2>r, <3>1 DEF NextBatch
    <3>0. sync'.batch = <<>>
      BY <2>r, <3>1
    <3>3. sync'.batch \in Seq(Event) /\ Len(sync'.batch) <= BatchSize
      BY <2>t, <3>0
    <3>4. deposits' \subseteq Deposit /\ checkpoint' \in 0 .. Len(log')
          /\ sync'.checkpoint \in 0 .. checkpoint'
      BY <2>t, <2>r, <3>1 DEF Syncs
    <3>5. QED
      BY <2>r, <3>1, <3>2, <3>3, <3>4 DEF Syncs, SyncPc
  <2>8. CASE UNCHANGED <<log, deposits, checkpoint, sync>>
    BY <2>8 DEF Syncs, NextBatch
  <2>9. QED
    BY <2>1, <2>2, <2>3, <2>4, <2>5, <2>6, <2>7, <2>8
       DEF Next, vars, relayVars, ledgerVars, Environment, Mine, Tick, Sync, Withdraw,
           TakeUp, Gate, Payout, DebitOpen, DebitCommit
<1>3. QED
  BY <1>1, <1>2, RelaysHold, PTL DEF Spec

LEMMA TasksHold == Spec => []Tasks
<1>1. Init => Tasks
  BY LedgerAssumption DEF Init, Tasks, WithdrawalState
<1>2. Tasks /\ [Next]_vars => Tasks'
  <2> SUFFICES ASSUME Tasks, [Next]_vars PROVE Tasks'
    OBVIOUS
  <2> USE DEF Tasks, WithdrawalState
  <2>f. \A k : Fault(k) => faults' \in 0 .. MaxFaults
    BY LedgerAssumption DEF Fault
  <2>1. CASE Environment
    BY <2>1 DEF Environment, Publish, Mine, Tick, withdrawalVars
  <2>2. CASE Sync \/ SyncFails
    <3>1. UNCHANGED <<requests, withdrawal>>
      BY <2>2 DEF Sync, SyncStart, SyncFetch, SyncCheck, SyncOpen, SyncCommit, SyncFails,
                  withdrawalVars
    <3>2. faults' = faults \/ \E k : Fault(k)
      BY <2>2 DEF Sync, SyncStart, SyncFetch, SyncCheck, SyncOpen, SyncCommit, SyncFails,
                  NoFault
    <3>3. QED
      BY <2>f, <3>1, <3>2
  <2>3. CASE Withdraw
    <3>1. ASSUME NEW S \in SUBSET Withdrawal, TakeUp(S) PROVE Tasks'
      BY <3>1 DEF TakeUp
    <3>2. ASSUME NEW w \in Withdrawal, Gate(w) \/ Payout(w) PROVE Tasks'
      BY <3>2 DEF Gate, Payout
    <3>3. ASSUME NEW w \in Withdrawal, DebitOpen(w) PROVE Tasks'
      BY <3>3 DEF DebitOpen
    <3>4. CASE DebitCommit
      BY <3>4 DEF DebitCommit
    <3>5. QED
      BY <2>3, <3>1, <3>2, <3>3, <3>4 DEF Withdraw
  <2>4. CASE Restart
    BY <2>4, <2>f DEF Restart
  <2>5. CASE UNCHANGED vars
    BY <2>5 DEF vars, withdrawalVars
  <2>6. QED
    BY <2>1, <2>2, <2>3, <2>4, <2>5 DEF Next
<1>3. QED
  BY <1>1, <1>2, PTL DEF Spec

LEMMA TablesHold == Spec => []Tables
<1>1. Relays /\ Syncs /\ Tasks <=> Tables
  BY DEF Tables
<1>2. QED
  BY <1>1, RelaysHold, SyncsHold, TasksHold, PTL

-----------------------------------------------------------------------------
(* Sums over the log. *)

\* An event of the log is one of the catalogue under another day.
Published(e) == \E c \in Catalogue : e = [c EXCEPT !.day = e.day]

LEMMA PublishedFacts ==
  ASSUME NEW e \in Event, Published(e)
  PROVE  /\ e.type \in {"withdraw", "withdrawRefund"} => e.subject \in Withdrawal
         /\ e.type \in VestingEvents => e.subject \in Vesting \cup {None}
         /\ e.type = "vestingCreated" /\ e.subject # None => e.terms \in Terms
         /\ \E c \in Catalogue : /\ c.type = e.type /\ c.subject = e.subject
                                 /\ c.address = e.address /\ c.amount = e.amount
<1>1. PICK c \in Catalogue : e = [c EXCEPT !.day = e.day]
  BY DEF Published
<1>2. /\ c.type = e.type /\ c.subject = e.subject /\ c.terms = e.terms
      /\ c.address = e.address /\ c.amount = e.amount
  BY <1>1, LedgerAssumption DEF Event
<1>3. QED
  BY <1>2, LedgerAssumption DEF WithdrawalEvents

\* The withdraw event of a withdrawal and its refund are of one account and total.
LEMMA PublishedAgree ==
  ASSUME NEW e \in Event, Published(e), NEW f \in Event, Published(f),
         {e.type, f.type} \subseteq {"withdraw", "withdrawRefund"}, e.subject = f.subject
  PROVE  e.address = f.address /\ e.amount = f.amount
<1>1. PICK c \in Catalogue : /\ c.type = e.type /\ c.subject = e.subject
                             /\ c.address = e.address /\ c.amount = e.amount
  BY PublishedFacts
<1>2. PICK d \in Catalogue : /\ d.type = f.type /\ d.subject = f.subject
                             /\ d.address = f.address /\ d.amount = f.amount
  BY PublishedFacts
<1>3. c \in WithdrawalEvents /\ d \in WithdrawalEvents
  BY <1>1, <1>2 DEF WithdrawalEvents
<1>4. QED
  BY <1>1, <1>2, <1>3, LedgerAssumption

LEMMA EventFacts ==
  ASSUME NEW e \in Event
  PROVE  /\ e.type \in EventType /\ e.address \in Address /\ e.amount \in Nat
         /\ Delta(e) \in Int /\ RelayDelta(e) \in Int
BY DEF Event, EventType, Delta, RelayDelta

\* The balance of a by Relay's own book after the first n events of a log s.
BookOf(s, a, n) ==
    SumFunctionOnSet([i \in DOMAIN s |-> RelayDelta(s[i])], {i \in 1 .. n : s[i].address = a})

LEMMA BookType ==
  ASSUME NEW s \in Seq(Event), NEW a, NEW n \in 0 .. Len(s)
  PROVE  BookOf(s, a, n) \in Int
<1> DEFINE F == [i \in DOMAIN s |-> RelayDelta(s[i])]
           S == {i \in 1 .. n : s[i].address = a}
<1>0. IsFiniteSet(1 .. n) /\ S \subseteq 1 .. n
  BY FS_Interval
<1>1. IsFiniteSet(S)
  BY <1>0, FS_Subset
<1>2. \A i \in S : i \in DOMAIN s /\ s[i] \in Event
  OBVIOUS
<1>3. \A i \in S : F[i] \in Int
  BY <1>2, EventFacts
<1> HIDE DEF F, S
<1>4. SumFunctionOnSet(F, S) \in Int
  BY <1>1, <1>3, SumType
<1>5. QED
  BY <1>4 DEF F, S, BookOf

\* An event more in the log leaves the book before it as it was.
LEMMA BookBefore ==
  ASSUME NEW s \in Seq(Event), NEW x \in Event, NEW a, NEW n \in 0 .. Len(s)
  PROVE  BookOf(Append(s, x), a, n) = BookOf(s, a, n)
<1> DEFINE F == [i \in DOMAIN s |-> RelayDelta(s[i])]
           G == [i \in DOMAIN Append(s, x) |-> RelayDelta(Append(s, x)[i])]
           S == {i \in 1 .. n : s[i].address = a}
           T == {i \in 1 .. n : Append(s, x)[i].address = a}
<1>0. IsFiniteSet(1 .. n) /\ S \subseteq 1 .. n
  BY FS_Interval
<1>1. IsFiniteSet(S)
  BY <1>0, FS_Subset
<1>2. \A i \in 1 .. n : i \in DOMAIN s /\ i \in DOMAIN Append(s, x) /\ Append(s, x)[i] = s[i]
  OBVIOUS
<1>3. S = T
  BY <1>2
<1>4. \A i \in S : F[i] = G[i]
  BY <1>2
<1> HIDE DEF F, G, S, T
<1>5. SumFunctionOnSet(F, S) = SumFunctionOnSet(G, T)
  BY <1>1, <1>3, <1>4, SumEqual
<1>6. QED
  BY <1>5 DEF F, G, S, T, BookOf

LEMMA BookAfter ==
  ASSUME NEW s \in Seq(Event), NEW a, NEW n \in 1 .. Len(s)
  PROVE  BookOf(s, a, n)
           = BookOf(s, a, n - 1) + (IF s[n].address = a THEN RelayDelta(s[n]) ELSE 0)
<1> DEFINE F == [i \in DOMAIN s |-> RelayDelta(s[i])]
           S == {i \in 1 .. (n - 1) : s[i].address = a}
           T == {i \in 1 .. n : s[i].address = a}
<1>0. IsFiniteSet(1 .. (n - 1))
  BY FS_Interval
<1>1. IsFiniteSet(S)
  BY <1>0, FS_Subset
<1>2. \A i \in T : i \in DOMAIN s /\ s[i] \in Event
  OBVIOUS
<1>3. \A i \in T : F[i] \in Int
  BY <1>2, EventFacts
<1>4. n \notin S /\ n \in DOMAIN s /\ F[n] = RelayDelta(s[n])
  OBVIOUS
<1>5. CASE s[n].address = a
  <2>1. T = S \cup {n}
    BY <1>5
  <2> HIDE DEF F, S, T
  <2>2. SumFunctionOnSet(F, S \cup {n}) = F[n] + SumFunctionOnSet(F, S)
    BY <1>1, <1>3, <1>4, <2>1, SumAdd
  <2>3. BookOf(s, a, n) = F[n] + BookOf(s, a, n - 1)
    BY <2>1, <2>2 DEF F, S, T, BookOf
  <2>4. F[n] \in Int /\ BookOf(s, a, n - 1) \in Int
    BY <1>3, <2>1, BookType
  <2>5. QED
    BY <1>4, <1>5, <2>3, <2>4
<1>6. CASE s[n].address # a
  <2>1. T = S
    BY <1>6
  <2>2. BookOf(s, a, n) = BookOf(s, a, n - 1)
    BY <2>1 DEF BookOf
  <2>3. QED
    BY <1>6, <2>2, BookType
<1>7. QED
  BY <1>5, <1>6

-----------------------------------------------------------------------------
(* What Relay publishes. *)

LEMMA LogHolds == Spec => []LogIsPublished
<1>1. Init => LogIsPublished
  <2> SUFFICES ASSUME Init PROVE LogIsPublished
    OBVIOUS
  <2>1. log = <<>> /\ DOMAIN log = {} /\ Len(log) = 0
    BY DEF Init
  <2>2. ASSUME NEW a \in Address, NEW n \in 0 .. Len(log) PROVE RelayBalance(a, n) >= 0
    <3>1. {i \in 1 .. n : log[i].address = a} = {}
      BY <2>1
    <3>2. RelayBalance(a, n) = 0
      BY <3>1, SumEmpty DEF RelayBalance
    <3>3. QED
      BY <3>2
  <2>3. \A a \in Address : \A n \in 0 .. Len(log) : RelayBalance(a, n) >= 0
    BY <2>2
  <2>4. QED
    BY <2>1, <2>3 DEF LogIsPublished
<1>2. Relays /\ Relays' /\ LogIsPublished /\ [Next]_vars => LogIsPublished'
  <2> SUFFICES ASSUME Relays, Relays', LogIsPublished, [Next]_vars PROVE LogIsPublished'
    OBVIOUS
  <2>1. ASSUME NEW e \in Catalogue, Publish(e) PROVE LogIsPublished'
    <3>1. PICK d \in {day, day + 1} : log' = Append(log, [e EXCEPT !.day = d])
      BY <2>1 DEF Publish
    <3> DEFINE x == [e EXCEPT !.day = d]
    <3>2. e \in Event /\ d \in Nat
      BY LedgerAssumption DEF Relays, Day
    <3>3. x \in Event
      BY <3>2 DEF Event
    <3>4. /\ x.type = e.type /\ x.subject = e.subject /\ x.address = e.address
          /\ x.amount = e.amount /\ x = [e EXCEPT !.day = x.day]
          /\ RelayDelta(x) = RelayDelta(e)
      BY <3>2 DEF Event, RelayDelta
    <3> HIDE DEF x
    <3>5. /\ log \in Seq(Event) /\ log' \in Seq(Event) /\ log' = Append(log, x)
          /\ Len(log) \in Nat /\ Len(log') = Len(log) + 1
          /\ DOMAIN log = 1 .. Len(log) /\ DOMAIN log' = 1 .. Len(log')
          /\ log'[Len(log')] = x
          /\ \A i \in 1 .. Len(log) : log'[i] = log[i]
      BY <3>1, <3>3 DEF x, Relays
    <3>6. \A i \in DOMAIN log' : \E c \in Catalogue : log'[i] = [c EXCEPT !.day = log'[i].day]
      <4> SUFFICES ASSUME NEW i \in DOMAIN log'
                   PROVE  \E c \in Catalogue : log'[i] = [c EXCEPT !.day = log'[i].day]
        OBVIOUS
      <4>1. i \in DOMAIN log \/ log'[i] = x
        BY <3>5
      <4>2. CASE i \in DOMAIN log
        BY <3>5, <4>2 DEF LogIsPublished
      <4>3. CASE log'[i] = x
        BY <3>4, <4>3
      <4>4. QED
        BY <4>1, <4>2, <4>3
    <3>7. ASSUME NEW a \in Address, NEW n \in 0 .. Len(log') PROVE BookOf(log', a, n) >= 0
      <4>1. \A m \in 0 .. Len(log) : BookOf(log, a, m) >= 0
        BY DEF LogIsPublished, RelayBalance, BookOf
      <4>2. \A m \in 0 .. Len(log) : BookOf(log', a, m) = BookOf(log, a, m)
        BY <3>3, <3>5, BookBefore
      <4>3. CASE n = Len(log')
        <5>1. BookOf(log', a, n)
                = BookOf(log', a, n - 1) + (IF x.address = a THEN RelayDelta(x) ELSE 0)
          <6>1. n \in 1 .. Len(log') /\ log'[n] = x /\ log' \in Seq(Event)
            BY <3>5, <4>3
          <6>2. QED
            BY <6>1, BookAfter
        <5>2. n - 1 = Len(log) /\ Len(log) \in 0 .. Len(log)
          BY <3>5, <4>3
        <5>3. BookOf(log, a, Len(log)) \in Int /\ RelayDelta(x) \in Int
          BY <3>3, <3>5, <5>2, BookType, EventFacts
        <5>4. x.address = a => BookOf(log, a, Len(log)) + RelayDelta(x) >= 0
          BY <2>1, <3>4 DEF Publish, RelayBalance, BookOf
        <5>5. QED
          BY <4>1, <4>2, <5>1, <5>2, <5>3, <5>4
      <4>4. CASE n # Len(log')
        <5>1. n \in 0 .. Len(log)
          BY <3>5, <4>4
        <5>2. QED
          BY <4>1, <4>2, <5>1
      <4>5. QED
        BY <4>3, <4>4
    <3>8. \A a \in Address : \A n \in 0 .. Len(log') : RelayBalance(a, n)' >= 0
      BY <3>7 DEF RelayBalance, BookOf
    <3>9. \A i, j \in DOMAIN log' :
             /\ log'[i].type \in {"withdraw", "withdrawRefund"}
             /\ log'[j].type = log'[i].type /\ log'[j].subject = log'[i].subject
             => i = j
      <4>1. x.type \in {"withdraw", "withdrawRefund"} =>
               \A i \in DOMAIN log : ~(log[i].type = x.type /\ log[i].subject = x.subject)
        BY <2>1, <3>4 DEF Publish, InLog
      <4>2. \A i \in DOMAIN log' : i \in DOMAIN log \/ (i = Len(log') /\ log'[i] = x)
        BY <3>5
      <4>3. \A i \in DOMAIN log : log'[i] = log[i]
        BY <3>5
      <4>4. QED
        BY <4>1, <4>2, <4>3 DEF LogIsPublished
    <3>10. QED
      BY <3>6, <3>8, <3>9 DEF LogIsPublished
  <2>2. CASE UNCHANGED log
    BY <2>2 DEF LogIsPublished, RelayBalance
  <2>3. QED
    BY <2>1, <2>2
       DEF Next, vars, relayVars, Environment, Mine, Tick, Sync, SyncStart, SyncFetch,
           SyncCheck, SyncOpen, SyncCommit, SyncFails, Withdraw, TakeUp, Gate, Payout,
           DebitOpen, DebitCommit, Restart
<1>3. QED
  BY <1>1, <1>2, RelaysHold, PTL DEF Spec

-----------------------------------------------------------------------------
(* Withdrawals and their place in the log. *)

LEMMA LogGrows ==
  ASSUME Relays, Relays', Syncs, Syncs', [Next]_vars
  PROVE  /\ Len(log) <= Len(log')
         /\ \A i \in DOMAIN log : i \in DOMAIN log' /\ log'[i] = log[i]
         /\ checkpoint \in Nat /\ checkpoint' \in Nat /\ checkpoint <= checkpoint'
<1>1. log' = log \/ \E x : log' = Append(log, x)
  BY DEF Next, vars, relayVars, Environment, Publish, Mine, Tick, Sync, SyncStart, SyncFetch,
         SyncCheck, SyncOpen, SyncCommit, SyncFails, Withdraw, TakeUp, Gate, Payout,
         DebitOpen, DebitCommit, Restart
<1>2. checkpoint' = checkpoint \/ SyncCommit
  BY DEF Next, vars, ledgerVars, Environment, Publish, Mine, Tick, Sync, SyncStart, SyncFetch,
         SyncCheck, SyncOpen, SyncFails, Withdraw, TakeUp, Gate, Payout,
         DebitOpen, DebitCommit, Restart
<1>3. SyncCommit => checkpoint' = checkpoint + Len(sync.batch)
  BY DEF SyncCommit, NextCheckpoint, Syncs, NextBatch
<1>4. log \in Seq(Event)
  BY DEF Relays
<1>5. Len(log) <= Len(log') /\ \A i \in DOMAIN log : i \in DOMAIN log' /\ log'[i] = log[i]
  BY <1>1, <1>4
<1>6. checkpoint \in Nat /\ checkpoint' \in Nat /\ Len(sync.batch) \in Nat
  BY DEF Syncs
<1>7. QED
  BY <1>2, <1>3, <1>5, <1>6

LEMMA AnchorFacts ==
  ASSUME Relays, LogIsPublished, NEW w, IsPublished(w)
  PROVE  /\ Anchor(w) \in DOMAIN log /\ Announced(w) = {Anchor(w)}
         /\ log[Anchor(w)].type = "withdraw" /\ log[Anchor(w)].subject = w
         /\ w \in Withdrawal /\ Owner(w) \in Address /\ Amount(w) \in Nat
<1>1. Anchor(w) \in Announced(w)
  BY DEF Anchor, IsPublished
<1>2. /\ Anchor(w) \in DOMAIN log
      /\ log[Anchor(w)].type = "withdraw" /\ log[Anchor(w)].subject = w
  BY <1>1 DEF Announced
<1>3. \A i \in Announced(w) : i = Anchor(w)
  BY <1>2 DEF Announced, LogIsPublished
<1>4. log[Anchor(w)] \in Event /\ Published(log[Anchor(w)])
  BY <1>2 DEF Relays, LogIsPublished, Published
<1>5. w \in Withdrawal /\ Owner(w) \in Address /\ Amount(w) \in Nat
  BY <1>2, <1>4, PublishedFacts, EventFacts DEF Owner, Amount
<1>6. QED
  BY <1>1, <1>2, <1>3, <1>5

LEMMA AnchorStays ==
  ASSUME Relays, Relays', Syncs, Syncs', LogIsPublished, LogIsPublished', [Next]_vars,
         NEW w, IsPublished(w)
  PROVE  /\ IsPublished(w)' /\ Anchor(w)' = Anchor(w)
         /\ Owner(w)' = Owner(w) /\ Amount(w)' = Amount(w)
<1>1. Anchor(w) \in DOMAIN log /\ log[Anchor(w)].type = "withdraw"
      /\ log[Anchor(w)].subject = w
  BY AnchorFacts
<1>2. Anchor(w) \in DOMAIN log' /\ log'[Anchor(w)] = log[Anchor(w)]
  BY <1>1, LogGrows
<1>3. Anchor(w) \in Announced(w)'
  BY <1>1, <1>2 DEF Announced
<1>4. \A i \in Announced(w)' : i = Anchor(w)
  BY <1>1, <1>2, <1>3 DEF Announced, LogIsPublished
<1>5. IsPublished(w)' /\ Anchor(w)' = Anchor(w)
  BY <1>3, <1>4 DEF IsPublished, Anchor
<1>6. QED
  BY <1>2, <1>5 DEF Owner, Amount

LEMMA GateStays ==
  ASSUME Relays, Relays', Syncs, Syncs', LogIsPublished, LogIsPublished', [Next]_vars,
         NEW w, IsGated(w)
  PROVE  IsGated(w)'
<1>1. IsPublished(w) /\ Anchor(w) <= checkpoint
  BY DEF IsGated
<1>2. Anchor(w) \in DOMAIN log /\ IsPublished(w)' /\ Anchor(w)' = Anchor(w)
  BY <1>1, AnchorFacts, AnchorStays
<1>3. checkpoint \in Nat /\ checkpoint' \in Nat /\ checkpoint <= checkpoint'
  BY LogGrows
<1>4. Anchor(w) \in Nat
  BY <1>2 DEF Relays
<1>5. QED
  BY <1>1, <1>2, <1>3, <1>4 DEF IsGated

Paid == debit.open => debit.withdrawal \in Withdrawal /\ withdrawal[debit.withdrawal] = "paid"

\* What a step does to the withdrawals.
LEMMA WithdrawalSteps ==
  ASSUME Tasks, Paid, [Next]_vars
  PROVE  /\ \A w \in Withdrawal :
               withdrawal[w] = "relay" /\ withdrawal'[w] # "relay" => IsGated(w)
         /\ \A w \in Withdrawal :
               withdrawal[w] \in {"rejected", "refused"} => withdrawal'[w] = withdrawal[w]
<1> USE DEF Tasks, WithdrawalState
<1>1. ASSUME NEW S \in SUBSET Withdrawal, TakeUp(S)
      PROVE  \A w \in Withdrawal :
                /\ withdrawal'[w] = withdrawal[w] \/ (withdrawal[w] = "relay" /\ IsGated(w))
  BY <1>1 DEF TakeUp
<1>2. ASSUME NEW w \in Withdrawal, Gate(w) \/ Payout(w)
      PROVE  \A v \in Withdrawal :
                \/ withdrawal'[v] = withdrawal[v]
                \/ withdrawal[v] \in {"pending", "paying"}
  BY <1>2 DEF Gate, Payout
<1>3. CASE DebitCommit
  <2>1. \A v \in Withdrawal : withdrawal'[v] = withdrawal[v] \/ withdrawal[v] = "paid"
    BY <1>3 DEF DebitCommit, Paid
  <2>2. QED
    BY <2>1
<1>4. CASE UNCHANGED withdrawal
  BY <1>4
<1>5. QED
  BY <1>1, <1>2, <1>3, <1>4
     DEF Next, vars, withdrawalVars, Environment, Publish, Mine, Tick, Sync, SyncStart,
         SyncFetch, SyncCheck, SyncOpen, SyncCommit, SyncFails, Withdraw, DebitOpen, Restart

LEMMA PaidHolds == Spec => []Paid
<1>1. Init => Paid
  BY DEF Init, Paid, NoDebit
<1>2. Tasks /\ Paid /\ [Next]_vars => Paid'
  <2> SUFFICES ASSUME Tasks, Paid, [Next]_vars PROVE Paid'
    OBVIOUS
  <2> USE DEF Tasks
  <2>1. ASSUME NEW S \in SUBSET Withdrawal, TakeUp(S) PROVE Paid'
    BY <2>1 DEF TakeUp, Paid
  <2>2. ASSUME NEW w \in Withdrawal, Gate(w) PROVE Paid'
    <3>1. debit' = debit /\ withdrawal[w] = "pending"
      BY <2>2 DEF Gate
    <3>2. \A v \in Withdrawal : v # w => withdrawal'[v] = withdrawal[v]
      BY <2>2 DEF Gate
    <3>3. QED
      BY <3>1, <3>2 DEF Paid
  <2>3. ASSUME NEW w \in Withdrawal, Payout(w) PROVE Paid'
    <3>1. debit' = debit /\ withdrawal[w] = "paying"
      BY <2>3 DEF Payout
    <3>2. \A v \in Withdrawal : v # w => withdrawal'[v] = withdrawal[v]
      BY <2>3 DEF Payout
    <3>3. QED
      BY <3>1, <3>2 DEF Paid
  <2>4. ASSUME NEW w \in Withdrawal, DebitOpen(w) PROVE Paid'
    BY <2>4 DEF DebitOpen, Paid
  <2>5. CASE DebitCommit \/ Restart
    BY <2>5 DEF DebitCommit, Restart, NoDebit, Paid
  <2>6. CASE UNCHANGED <<withdrawal, debit>>
    BY <2>6 DEF Paid
  <2>7. QED
    BY <2>1, <2>2, <2>3, <2>4, <2>5, <2>6
       DEF Next, vars, withdrawalVars, Environment, Publish, Mine, Tick, Sync, SyncStart,
           SyncFetch, SyncCheck, SyncOpen, SyncCommit, SyncFails, Withdraw
<1>3. QED
  BY <1>1, <1>2, TasksHold, PTL DEF Spec

LEMMA WithdrawalsHold == Spec => []WithdrawalsFollowLog
<1>1. Init => WithdrawalsFollowLog
  BY DEF Init, WithdrawalsFollowLog
<1>2. /\ Tables /\ Tables' /\ LogIsPublished /\ LogIsPublished' /\ Paid
      /\ WithdrawalsFollowLog /\ [Next]_vars
      => WithdrawalsFollowLog'
  <2> SUFFICES ASSUME Tables, Tables', LogIsPublished, LogIsPublished', Paid,
                      WithdrawalsFollowLog, [Next]_vars
               PROVE  WithdrawalsFollowLog'
    OBVIOUS
  <2>t. Relays /\ Relays' /\ Syncs /\ Syncs' /\ Tasks
    BY DEF Tables
  <2>1. ASSUME NEW w \in Withdrawal, withdrawal'[w] # "relay" PROVE IsGated(w)'
    <3>1. IsGated(w)
      BY <2>t, <2>1, WithdrawalSteps DEF WithdrawalsFollowLog
    <3>2. QED
      BY <2>t, <3>1, GateStays
  <2>2. ASSUME NEW i \in DOMAIN log', log'[i].type = "withdrawRefund"
        PROVE  withdrawal'[log'[i].subject] \in {"rejected", "refused"}
    <3>1. log'[i].subject \in Withdrawal
      BY <2>t, <2>2, PublishedFacts DEF Relays, LogIsPublished, Published
    <3>2. CASE i \in DOMAIN log
      <4>1. log'[i] = log[i]
        BY <2>t, <3>2, LogGrows
      <4>2. withdrawal[log'[i].subject] \in {"rejected", "refused"}
        BY <2>2, <3>2, <4>1 DEF WithdrawalsFollowLog
      <4>3. QED
        BY <2>t, <3>1, <4>2, WithdrawalSteps
    <3>3. CASE i \notin DOMAIN log
      <4>1. log' # log
        BY <3>3
      <4>2. PICK e \in Catalogue : Publish(e)
        BY <4>1 DEF Next, vars, relayVars, Environment, Mine, Tick, Sync, SyncStart, SyncFetch,
                    SyncCheck, SyncOpen, SyncCommit, SyncFails, Withdraw, TakeUp, Gate, Payout,
                    DebitOpen, DebitCommit, Restart
      <4>3. PICK d \in {day, day + 1} : log' = Append(log, [e EXCEPT !.day = d])
        BY <4>2 DEF Publish
      <4>4. log'[i] = [e EXCEPT !.day = d]
        BY <2>t, <3>3, <4>3 DEF Relays
      <4>5. log'[i].type = e.type /\ log'[i].subject = e.subject
        BY <4>4, LedgerAssumption DEF Event
      <4>6. withdrawal[e.subject] \in {"rejected", "refused"} /\ withdrawal' = withdrawal
        BY <2>2, <4>2, <4>5 DEF Publish, withdrawalVars
      <4>7. QED
        BY <4>5, <4>6
    <3>4. QED
      BY <3>2, <3>3
  <2>3. \A w \in Withdrawal : (withdrawal[w] # "relay" => IsGated(w))'
    BY <2>1
  <2>4. QED
    BY <2>2, <2>3 DEF WithdrawalsFollowLog
<1>3. QED
  BY <1>1, <1>2, TablesHold, LogHolds, PaidHolds, PTL DEF Spec

-----------------------------------------------------------------------------
(* What a batch adds to the accounts. *)

LEMMA TouchedMeans ==
  ASSUME NEW batch, NEW a
  PROVE  a \in Touched(batch)
           <=> \E i \in DOMAIN batch : /\ batch[i].address = a
                                       /\ batch[i].type \notin BalanceIgnored
BY DEF Touched, Applied, ToSet

LEMMA MergedType ==
  ASSUME NEW batch \in Seq(Event), NEW a
  PROVE  /\ Merged(batch, a) \in Int
         /\ a \notin Touched(batch) => Merged(batch, a) = 0
<1> DEFINE F == [i \in DOMAIN batch |-> Delta(batch[i])]
           S == {i \in DOMAIN batch : batch[i].address = a}
<1>1. IsFiniteSet(S)
  <2>1. DOMAIN batch = 1 .. Len(batch) /\ Len(batch) \in Nat
    OBVIOUS
  <2>2. IsFiniteSet(DOMAIN batch)
    BY <2>1, FS_Interval
  <2>3. QED
    BY <2>2, FS_Subset
<1>2. \A i \in S : i \in DOMAIN batch /\ batch[i] \in Event /\ F[i] = Delta(batch[i])
  OBVIOUS
<1>3. \A i \in S : F[i] \in Int
  BY <1>2, EventFacts
<1>4. a \notin Touched(batch) => \A i \in S : F[i] = 0
  <2> SUFFICES ASSUME a \notin Touched(batch), NEW i \in S PROVE F[i] = 0
    OBVIOUS
  <2>1. batch[i].type \in BalanceIgnored
    BY TouchedMeans
  <2>2. QED
    BY <1>2, <2>1 DEF BalanceIgnored, Delta, Credits
<1> HIDE DEF F, S
<1>5. SumFunctionOnSet(F, S) \in Int
  BY <1>1, <1>3, SumType
<1>6. a \notin Touched(batch) => SumFunctionOnSet(F, S) = 0
  BY <1>1, <1>4, SumZero
<1>7. QED
  BY <1>5, <1>6 DEF F, S, Merged

\* What part of a log adds to an account is the sum over its places in the log.
LEMMA MergedPart ==
  ASSUME NEW s \in Seq(Event), NEW a, NEW n \in 0 .. Len(s), NEW m \in 0 .. n
  PROVE  Merged(SubSeq(s, m + 1, n), a)
           = SumFunctionOnSet([i \in DOMAIN s |-> Delta(s[i])],
                              {i \in (m + 1) .. n : s[i].address = a})
<1> DEFINE b == SubSeq(s, m + 1, n)
           F == [i \in DOMAIN b |-> Delta(b[i])]
           S == {i \in DOMAIN b : b[i].address = a}
           G == [i \in DOMAIN s |-> Delta(s[i])]
           T == {i \in (m + 1) .. n : s[i].address = a}
           h == [i \in S |-> i + m]
<1>1. /\ b \in Seq(Event) /\ DOMAIN b = 1 .. (n - m)
      /\ \A i \in 1 .. (n - m) : b[i] = s[i + m] /\ i + m \in (m + 1) .. n
  OBVIOUS
<1>2. IsFiniteSet(S)
  <2>1. n - m \in Int
    OBVIOUS
  <2>2. IsFiniteSet(1 .. (n - m))
    BY <2>1, FS_Interval
  <2>3. QED
    BY <1>1, <2>2, FS_Subset
<1>3. h \in [S -> T]
  BY <1>1
<1>4. \A x, y \in S : h[x] = h[y] => x = y
  BY <1>1
<1>5. \A y \in T : \E x \in S : h[x] = y
  <2> SUFFICES ASSUME NEW y \in T PROVE \E x \in S : h[x] = y
    OBVIOUS
  <2>1. y - m \in 1 .. (n - m) /\ (y - m) + m = y
    OBVIOUS
  <2>2. y - m \in S
    BY <1>1, <2>1
  <2>3. QED
    BY <2>1, <2>2
<1>6. \A x \in S : b[x] = s[h[x]] /\ h[x] \in DOMAIN s /\ b[x] \in Event
  BY <1>1
<1>7. \A x \in S : F[x] \in Int /\ G[h[x]] = F[x]
  BY <1>6, EventFacts
<1> HIDE DEF F, G, S, T, h, b
<1>8. SumFunctionOnSet(F, S) = SumFunctionOnSet(G, T)
  BY <1>2, <1>3, <1>4, <1>5, <1>7, SumReindex
<1>9. QED
  BY <1>8 DEF F, G, S, T, b, Merged

LEMMA MergedSplit ==
  ASSUME NEW s \in Seq(Event), NEW a, NEW n \in 0 .. Len(s), NEW m \in 0 .. n
  PROVE  Merged(SubSeq(s, 1, n), a)
           = Merged(SubSeq(s, 1, m), a) + Merged(SubSeq(s, m + 1, n), a)
<1> DEFINE F == [i \in DOMAIN s |-> Delta(s[i])]
           S(l, h) == {i \in l .. h : s[i].address = a}
<1>0. 0 + 1 = 1 /\ 0 \in 0 .. n /\ m \in 0 .. Len(s) /\ 0 \in 0 .. m
  OBVIOUS
<1>a. Merged(SubSeq(s, 0 + 1, n), a) = SumFunctionOnSet(F, S(0 + 1, n))
  BY <1>0, MergedPart
<1>b. Merged(SubSeq(s, 0 + 1, m), a) = SumFunctionOnSet(F, S(0 + 1, m))
  BY <1>0, MergedPart
<1>c. Merged(SubSeq(s, m + 1, n), a) = SumFunctionOnSet(F, S(m + 1, n))
  BY MergedPart
<1>1. /\ Merged(SubSeq(s, 1, n), a) = SumFunctionOnSet(F, S(1, n))
      /\ Merged(SubSeq(s, 1, m), a) = SumFunctionOnSet(F, S(1, m))
      /\ Merged(SubSeq(s, m + 1, n), a) = SumFunctionOnSet(F, S(m + 1, n))
  BY <1>0, <1>a, <1>b, <1>c
<1>2. S(1, n) = S(1, m) \cup S(m + 1, n) /\ S(1, m) \cap S(m + 1, n) = {}
  OBVIOUS
<1>3. IsFiniteSet(S(1, m)) /\ IsFiniteSet(S(m + 1, n))
  <2>1. IsFiniteSet(1 .. n)
    BY FS_Interval
  <2>2. S(1, m) \subseteq 1 .. n /\ S(m + 1, n) \subseteq 1 .. n
    OBVIOUS
  <2>3. QED
    BY <2>1, <2>2, FS_Subset
<1>4. \A i \in S(1, n) : i \in DOMAIN s /\ s[i] \in Event
  OBVIOUS
<1>5. \A i \in S(1, n) : F[i] \in Int
  BY <1>4, EventFacts
<1> HIDE DEF F, S
<1>6. SumFunctionOnSet(F, S(1, n))
        = SumFunctionOnSet(F, S(1, m)) + SumFunctionOnSet(F, S(m + 1, n))
  BY <1>2, <1>3, <1>5, SumUnion
<1>7. QED
  BY <1>1, <1>6

LEMMA TouchedSplit ==
  ASSUME NEW s \in Seq(Event), NEW n \in 0 .. Len(s), NEW m \in 0 .. n
  PROVE  Touched(SubSeq(s, 1, n)) = Touched(SubSeq(s, 1, m)) \cup Touched(SubSeq(s, m + 1, n))
<1> DEFINE Pay(j, k, a) == \E i \in j .. k : /\ s[i].address = a
                                              /\ s[i].type \notin BalanceIgnored
<1>1. ASSUME NEW l \in 0 .. n, NEW k \in l .. n, NEW a, NEW j, j = l + 1
      PROVE  a \in Touched(SubSeq(s, j, k))
               <=> Pay(j, k, a)
  <2> DEFINE b == SubSeq(s, j, k)
  <2>1. /\ DOMAIN b = 1 .. (k - l)
        /\ \A i \in 1 .. (k - l) : b[i] = s[i + l] /\ i + l \in j .. k
        /\ \A i \in j .. k : i - l \in 1 .. (k - l) /\ b[i - l] = s[i]
    BY <1>1
  <2> HIDE DEF b
  <2>2. a \in Touched(b)
          <=> \E i \in DOMAIN b : b[i].address = a /\ b[i].type \notin BalanceIgnored
    BY TouchedMeans
  <2>3. QED
    BY <2>1, <2>2 DEF b
<1>2. 1 = 0 + 1 /\ 0 \in 0 .. n /\ n \in 0 .. n /\ m \in 0 .. n /\ n \in m .. n
  OBVIOUS
<1>3. \A a : Pay(1, n, a) <=> Pay(1, m, a) \/ Pay(m + 1, n, a)
  <2>1. 1 .. n = (1 .. m) \cup ((m + 1) .. n)
    OBVIOUS
  <2>2. QED
    BY <2>1
<1> HIDE DEF Pay
<1>4. ASSUME NEW a
      PROVE  /\ a \in Touched(SubSeq(s, 1, n)) <=> Pay(1, n, a)
             /\ a \in Touched(SubSeq(s, 1, m)) <=> Pay(1, m, a)
             /\ a \in Touched(SubSeq(s, m + 1, n)) <=> Pay(m + 1, n, a)
  BY <1>1, <1>2
<1>5. ASSUME NEW a
      PROVE  a \in Touched(SubSeq(s, 1, n))
               <=> a \in Touched(SubSeq(s, 1, m)) \/ a \in Touched(SubSeq(s, m + 1, n))
  BY <1>3, <1>4
<1>6. QED
  BY <1>5

-----------------------------------------------------------------------------
(* Totals of withdrawals. *)

Gated == {w \in Withdrawal : IsGated(w)}

LEMMA GatedFinite ==
  ASSUME Relays, Syncs, LogIsPublished
  PROVE  IsFiniteSet(Gated)
<1> DEFINE f == [w \in Gated |-> Anchor(w)]
<1>1. \A w \in Gated : /\ Anchor(w) \in 1 .. checkpoint
                       /\ log[Anchor(w)].subject = w
  <2> SUFFICES ASSUME NEW w \in Gated
               PROVE  Anchor(w) \in 1 .. checkpoint /\ log[Anchor(w)].subject = w
    OBVIOUS
  <2>1. IsPublished(w) /\ Anchor(w) <= checkpoint
    BY DEF Gated, IsGated
  <2>2. Anchor(w) \in DOMAIN log /\ log[Anchor(w)].subject = w
    BY <2>1, AnchorFacts
  <2>3. Anchor(w) \in Nat /\ Anchor(w) >= 1 /\ checkpoint \in Nat
    BY <2>2 DEF Relays, Syncs
  <2>4. QED
    BY <2>1, <2>2, <2>3
<1>2. f \in Injection(Gated, 1 .. checkpoint)
  BY <1>1 DEF Injection, IsInjective
<1>3. checkpoint \in Nat
  BY DEF Syncs
<1>4. IsFiniteSet(1 .. checkpoint)
  BY <1>3, FS_Interval
<1> HIDE DEF f
<1>5. QED
  BY <1>2, <1>4, FS_Injection

LEMMA TotalType ==
  ASSUME Relays, Syncs, LogIsPublished, NEW S \in SUBSET Gated
  PROVE  IsFiniteSet(S) /\ TotalOf(S) \in Nat
<1> DEFINE F == [w \in S |-> Amount(w)]
<1>1. IsFiniteSet(S)
  BY GatedFinite, FS_Subset
<1>2. \A w \in S : F[w] \in Nat
  <2> SUFFICES ASSUME NEW w \in S PROVE Amount(w) \in Nat
    OBVIOUS
  <2>1. IsPublished(w)
    BY DEF Gated, IsGated
  <2>2. QED
    BY <2>1, AnchorFacts
<1> HIDE DEF F
<1>3. SumFunctionOnSet(F, S) \in Nat
  BY <1>1, <1>2, SumNatural
<1>4. QED
  BY <1>1, <1>3 DEF F, TotalOf

LEMMA TotalAdd ==
  ASSUME Relays, Syncs, LogIsPublished, NEW S \in SUBSET Gated, NEW w \in Gated \ S
  PROVE  TotalOf(S \cup {w}) = Amount(w) + TotalOf(S)
<1> DEFINE T == S \cup {w}
           F == [v \in S |-> Amount(v)]
           G == [v \in T |-> Amount(v)]
<1>1. IsFiniteSet(S)
  BY TotalType
<1>2. \A v \in T : G[v] \in Int
  <2> SUFFICES ASSUME NEW v \in T PROVE Amount(v) \in Int
    OBVIOUS
  <2>1. IsPublished(v)
    BY DEF Gated, IsGated
  <2>2. QED
    BY <2>1, AnchorFacts
<1>3. \A v \in S : F[v] = G[v]
  OBVIOUS
<1>4. G[w] = Amount(w)
  OBVIOUS
<1> HIDE DEF F, G
<1>5. SumFunctionOnSet(F, S) = SumFunctionOnSet(G, S)
  BY <1>1, <1>3, SumEqual
<1>6. SumFunctionOnSet(G, S \cup {w}) = G[w] + SumFunctionOnSet(G, S)
  BY <1>1, <1>2, SumAdd
<1>7. QED
  BY <1>4, <1>5, <1>6 DEF F, G, TotalOf

\* A total stays what it was: the log says the same of each withdrawal.
LEMMA TotalStays ==
  ASSUME Relays, Relays', Syncs, Syncs', LogIsPublished, LogIsPublished', [Next]_vars,
         NEW S \in SUBSET Gated
  PROVE  TotalOf(S)' = TotalOf(S)
<1>1. \A w \in S : Amount(w)' = Amount(w)
  <2> SUFFICES ASSUME NEW w \in S PROVE Amount(w)' = Amount(w)
    OBVIOUS
  <2>1. IsPublished(w)
    BY DEF Gated, IsGated
  <2>2. QED
    BY <2>1, AnchorStays
<1>2. [w \in S |-> Amount(w)'] = [w \in S |-> Amount(w)]
  BY <1>1
<1>3. SumFunctionOnSet([w \in S |-> Amount(w)'], S) = SumFunctionOnSet([w \in S |-> Amount(w)], S)
  BY <1>2
<1>4. QED
  BY <1>3 DEF TotalOf

-----------------------------------------------------------------------------
(* The balances and what was read of them. *)

Ground == Tables /\ LogIsPublished /\ Paid /\ WithdrawalsFollowLog

LEMMA GroundHolds == Spec => []Ground
<1>1. Tables /\ LogIsPublished /\ Paid /\ WithdrawalsFollowLog <=> Ground
  BY DEF Ground
<1>2. QED
  BY <1>1, TablesHold, LogHolds, PaidHolds, WithdrawalsHold, PTL

LEMMA GroundParts ==
  ASSUME Ground
  PROVE  /\ Relays /\ Syncs /\ Tasks /\ LogIsPublished /\ Paid /\ WithdrawalsFollowLog
         /\ \A a : Debited(a) \subseteq Gated
         /\ \A w \in Withdrawal : withdrawal[w] # "relay" => IsPublished(w)
BY DEF Ground, Tables, Debited, Gated, WithdrawalsFollowLog, IsGated

DebitsOf(a) == TotalOf(Debited(a))

LEMMA DebitsStay ==
  ASSUME Ground, Ground', [Next]_vars, NEW a,
         \A w \in Withdrawal : withdrawal'[w] = "debited" <=> withdrawal[w] = "debited"
  PROVE  Debited(a)' = Debited(a) /\ DebitsOf(a)' = DebitsOf(a)
<1>1. \A w \in Withdrawal : withdrawal[w] = "debited" => Owner(w)' = Owner(w)
  BY GroundParts, AnchorStays DEF Ground, Tables
<1>2. Debited(a)' = Debited(a)
  BY <1>1 DEF Debited
<1>3. PICK S : S = Debited(a)
  OBVIOUS
<1>4. S \in SUBSET Gated
  BY <1>3, GroundParts
<1>5. TotalOf(S)' = TotalOf(S)
  BY <1>4, TotalStays DEF Ground, Tables
<1>6. TotalOf(Debited(a))' = TotalOf(S)'
  BY <1>2, <1>3 DEF TotalOf
<1>7. TotalOf(Debited(a)) = TotalOf(S)
  BY <1>3
<1>8. DebitsOf(a)' = DebitsOf(a)
  BY <1>5, <1>6, <1>7 DEF DebitsOf
<1>9. QED
  BY <1>2, <1>8

\* What the kinds of the balances rest on.
Balances ==
    /\ DOMAIN account = Touched(SubSeq(log, 1, checkpoint))
    /\ \A a \in DOMAIN account : account[a] \in Int
    /\ sync.pc = "commit" => \A a \in DOMAIN sync.read : sync.read[a] \in Int
    /\ debit \in [open : BOOLEAN, withdrawal : Withdrawal \cup {None}, balance : Int]
    /\ debit.open => Owner(debit.withdrawal) \in DOMAIN account
    /\ \A w \in Withdrawal : withdrawal[w] = "debited" => Owner(w) \in DOMAIN account

\* The steps that touch neither the accounts nor what was read.
LEMMA BooksStay ==
  ASSUME Ground, Ground', [Next]_vars, UNCHANGED <<account, checkpoint>>
  PROVE  /\ \A n \in 0 .. checkpoint : SubSeq(log', 1, n) = SubSeq(log, 1, n)
         /\ \A w \in Withdrawal : withdrawal[w] # "relay" => Owner(w)' = Owner(w)
<1>1. log \in Seq(Event) /\ log' \in Seq(Event) /\ checkpoint \in 0 .. Len(log)
  BY GroundParts DEF Relays, Syncs, Ground, Tables
<1>2. Len(log) <= Len(log') /\ \A i \in DOMAIN log : log'[i] = log[i]
  BY LogGrows DEF Ground, Tables
<1>3. \A n \in 0 .. checkpoint : SubSeq(log', 1, n) = SubSeq(log, 1, n)
  <2> SUFFICES ASSUME NEW n \in 0 .. checkpoint PROVE SubSeq(log', 1, n) = SubSeq(log, 1, n)
    OBVIOUS
  <2>1. \A i \in 1 .. n : log'[i] = log[i]
    BY <1>1, <1>2
  <2>2. n \in 0 .. Len(log) /\ n \in 0 .. Len(log')
    BY <1>1, <1>2
  <2>3. QED
    BY <1>1, <2>1, <2>2
<1>4. \A w \in Withdrawal : withdrawal[w] # "relay" => Owner(w)' = Owner(w)
  BY GroundParts, AnchorStays DEF Ground, Tables
<1>5. QED
  BY <1>3, <1>4

LEMMA BalancesHold == Spec => []Balances
<1>1. Init => Balances
  <2> SUFFICES ASSUME Init PROVE Balances
    OBVIOUS
  <2>1. SubSeq(log, 1, checkpoint) = <<>>
    BY DEF Init
  <2>2. Touched(<<>>) = {}
    BY DEF Touched, Applied, ToSet
  <2>3. sync.pc = "idle" /\ debit \in [open : BOOLEAN, withdrawal : Withdrawal \cup {None},
                                      balance : Int] /\ ~debit.open
    BY DEF Init, Rest, NoDebit
  <2>4. \A w \in Withdrawal : withdrawal[w] # "debited"
    BY DEF Init
  <2>5. DOMAIN account = {}
    BY DEF Init
  <2>6. QED
    BY <2>1, <2>2, <2>3, <2>4, <2>5 DEF Balances
<1>2. Ground /\ Ground' /\ Balances /\ [Next]_vars => Balances'
  <2> SUFFICES ASSUME Ground, Ground', Balances, [Next]_vars PROVE Balances'
    OBVIOUS
  <2>g. Relays /\ Syncs /\ Tasks /\ Paid /\ WithdrawalsFollowLog
    BY GroundParts
  <2>t. withdrawal \in [Withdrawal -> WithdrawalState]
    BY <2>g DEF Tasks
  <2>r. Rest.pc = "idle" /\ NoDebit \in [open : BOOLEAN, withdrawal : Withdrawal \cup {None},
                                        balance : Int] /\ ~NoDebit.open
    BY DEF Rest, NoDebit
  \* Everything but the two commits.
  <2>1. ASSUME UNCHANGED <<account, checkpoint>>,
               \A w \in Withdrawal : withdrawal'[w] = "debited" => withdrawal[w] = "debited",
               sync'.pc = "commit" => \A a \in DOMAIN sync'.read : sync'.read[a] \in Int,
               debit' \in [open : BOOLEAN, withdrawal : Withdrawal \cup {None}, balance : Int],
               debit'.open => /\ debit'.withdrawal \in Withdrawal
                              /\ withdrawal[debit'.withdrawal] = "paid"
                              /\ Owner(debit'.withdrawal) \in DOMAIN account
        PROVE  Balances'
    <3>1. checkpoint \in 0 .. checkpoint
      BY <2>g DEF Syncs
    <3>2. SubSeq(log', 1, checkpoint) = SubSeq(log, 1, checkpoint)
      BY <2>1, <3>1, BooksStay
    <3>3. \A w \in Withdrawal : withdrawal[w] # "relay" => Owner(w)' = Owner(w)
      BY <2>1, BooksStay
    <3>4. DOMAIN account' = Touched(SubSeq(log', 1, checkpoint'))
          /\ \A a \in DOMAIN account' : account'[a] \in Int
      BY <2>1, <3>2 DEF Balances
    <3>5. \A w \in Withdrawal : withdrawal'[w] = "debited" => Owner(w)' \in DOMAIN account'
      BY <2>1, <3>3 DEF Balances
    <3>6. debit'.open => Owner(debit.withdrawal)' \in DOMAIN account'
      <4> SUFFICES ASSUME debit'.open PROVE Owner(debit.withdrawal)' \in DOMAIN account'
        OBVIOUS
      <4>1. PICK w \in Withdrawal : w = debit'.withdrawal
        BY <2>1
      <4>2. withdrawal[w] = "paid" /\ Owner(w) \in DOMAIN account
        BY <2>1, <4>1
      <4>3. Owner(w)' \in DOMAIN account'
        BY <2>1, <3>3, <4>2
      <4>4. Owner(debit.withdrawal)' = Owner(w)'
        BY <4>1 DEF Owner, Anchor, Announced
      <4>5. QED
        BY <4>3, <4>4
    <3>7. QED
      BY <2>1, <3>4, <3>5, <3>6 DEF Balances
  \* Both tasks go on with what they have read, or begin to read.
  <2>d. debit.open => debit.withdrawal \in Withdrawal /\ withdrawal[debit.withdrawal] = "paid"
                      /\ Owner(debit.withdrawal) \in DOMAIN account
    BY <2>g DEF Paid, Balances
  <2>2. CASE Environment
    <3>1. UNCHANGED <<account, checkpoint, sync, withdrawal, debit>>
      BY <2>2 DEF Environment, Publish, Mine, Tick, ledgerVars, withdrawalVars
    <3>2. QED
      BY <2>1, <2>d, <3>1 DEF Balances
  <2>3. CASE SyncStart \/ SyncFetch \/ SyncCheck \/ SyncOpen \/ SyncFails
    <3>1. UNCHANGED <<account, checkpoint, withdrawal, debit>>
      BY <2>3 DEF SyncStart, SyncFetch, SyncCheck, SyncOpen, SyncFails, ledgerVars,
                  withdrawalVars
    <3>2. sync'.pc = "commit" => sync'.read = account
      <4>1. SyncStart => sync'.pc = "fetch"
        BY DEF SyncStart, Rest
      <4>2. SyncFetch => sync'.pc = "check"
        BY <2>g DEF SyncFetch, Syncs
      <4>3. SyncCheck => sync'.pc # "commit"
        BY <2>g DEF SyncCheck, SyncGoto, Syncs
      <4>4. SyncOpen => sync'.pc = "stopped" \/ sync'.read = account
        BY <2>g DEF SyncOpen, SyncGoto, Syncs
      <4>5. SyncFails => sync'.pc = "idle"
        BY <2>r DEF SyncFails
      <4>6. QED
        BY <2>3, <4>1, <4>2, <4>3, <4>4, <4>5
    <3>3. sync'.pc = "commit" => \A a \in DOMAIN sync'.read : sync'.read[a] \in Int
      BY <3>2 DEF Balances
    <3>4. QED
      BY <2>1, <2>d, <3>1, <3>3 DEF Balances
  <2>4. CASE SyncCommit
    <3> DEFINE cp == checkpoint
               end == checkpoint + Len(sync.batch)
    <3>1. /\ account' = BalancesAfter /\ checkpoint' = end /\ log' = log
          /\ UNCHANGED <<withdrawal, debit>> /\ sync'.pc # "commit"
          /\ sync.pc = "commit" /\ end <= Len(log)
          /\ sync.batch = SubSeq(log, cp + 1, end)
      BY <2>4, <2>g, <2>r
         DEF SyncCommit, relayVars, withdrawalVars, NextCheckpoint, Rest, Syncs, NextBatch
    <3>2. /\ log \in Seq(Event) /\ sync.batch \in Seq(Event)
          /\ end \in 0 .. Len(log) /\ cp \in 0 .. end
      BY <2>g, <3>1 DEF Relays, Syncs
    <3>3. DOMAIN account' = DOMAIN account \cup Touched(sync.batch)
      BY <3>1 DEF BalancesAfter
    <3>4. Touched(SubSeq(log, 1, end)) = Touched(SubSeq(log, 1, cp)) \cup Touched(sync.batch)
      <4> HIDE DEF end, cp
      <4>1. QED
        BY <3>1, <3>2, TouchedSplit
    <3>5. \A a \in DOMAIN account' : account'[a] \in Int
      <4> SUFFICES ASSUME NEW a \in DOMAIN account' PROVE account'[a] \in Int
        OBVIOUS
      <4>1. Merged(sync.batch, a) \in Int
        BY <3>2, MergedType
      <4>2. a \in DOMAIN account => account[a] \in Int
        BY DEF Balances
      <4>3. a \in DOMAIN sync.read => sync.read[a] \in Int
        BY <3>1 DEF Balances
      <4>4. account'[a] = IF a \notin Touched(sync.batch) THEN account[a]
                          ELSE IF a \in DOMAIN sync.read THEN sync.read[a] + Merged(sync.batch, a)
                          ELSE Merged(sync.batch, a)
        BY <3>1, <3>3 DEF BalancesAfter
      <4>5. CASE a \notin Touched(sync.batch)
        BY <3>3, <4>2, <4>4, <4>5
      <4>6. CASE a \in Touched(sync.batch)
        BY <4>1, <4>3, <4>4, <4>6
      <4>7. QED
        BY <4>5, <4>6
    <3>6. \A w : Owner(w)' = Owner(w)
      BY <3>1 DEF Owner, Anchor, Announced
    <3>7. Owner(debit.withdrawal)' = Owner(debit.withdrawal)
      BY <3>1 DEF Owner, Anchor, Announced
    <3> HIDE DEF end, cp
    <3>8. QED
      BY <3>1, <3>3, <3>4, <3>5, <3>6, <3>7 DEF Balances, cp
  <2>5. ASSUME NEW S \in SUBSET Withdrawal, TakeUp(S) PROVE Balances'
    <3>1. UNCHANGED <<account, checkpoint, sync, debit>>
      BY <2>5 DEF TakeUp, ledgerVars
    <3>2. \A w \in Withdrawal : withdrawal'[w] = withdrawal[w] \/ withdrawal'[w] = "pending"
      BY <2>5 DEF TakeUp
    <3>3. QED
      BY <2>1, <2>d, <3>1, <3>2 DEF Balances
  <2>6. ASSUME NEW w \in Withdrawal, Gate(w) \/ Payout(w) PROVE Balances'
    <3>1. UNCHANGED <<account, checkpoint, sync, debit>>
      BY <2>6 DEF Gate, Payout, ledgerVars
    <3>2. \A v \in Withdrawal :
             withdrawal'[v] = withdrawal[v]
                \/ withdrawal'[v] \in {"paying", "refused", "paid", "rejected"}
      BY <2>6, <2>t DEF Gate, Payout
    <3>3. QED
      BY <2>1, <2>d, <3>1, <3>2 DEF Balances
  <2>7. ASSUME NEW w \in Withdrawal, DebitOpen(w) PROVE Balances'
    <3>1. UNCHANGED <<account, checkpoint, sync, withdrawal>>
      BY <2>7 DEF DebitOpen, ledgerVars
    <3>2. /\ debit' = [open |-> TRUE, withdrawal |-> w, balance |-> account[Owner(w)]]
          /\ withdrawal[w] = "paid" /\ Owner(w) \in DOMAIN account
      BY <2>7 DEF DebitOpen, IsCovered
    <3>3. account[Owner(w)] \in Int
      BY <3>2 DEF Balances
    <3>4. QED
      BY <2>1, <3>1, <3>2, <3>3 DEF Balances
  <2>8. CASE DebitCommit
    <3>1. PICK w \in Withdrawal : w = debit.withdrawal
      BY <2>8, <2>d DEF DebitCommit
    <3>2. /\ account' = [account EXCEPT ![Owner(w)] = debit.balance - Amount(w)]
          /\ withdrawal' = [withdrawal EXCEPT ![w] = "debited"]
          /\ debit' = NoDebit /\ UNCHANGED <<log, checkpoint, sync>>
          /\ Owner(w) \in DOMAIN account /\ withdrawal[w] = "paid"
      BY <2>8, <2>d, <3>1 DEF DebitCommit, relayVars
    <3>3. Amount(w) \in Nat /\ debit.balance \in Int
      BY <3>2, <2>g, GroundParts, AnchorFacts DEF Ground, Balances
    <3>4. DOMAIN account' = DOMAIN account /\ \A a \in DOMAIN account' : account'[a] \in Int
      BY <3>2, <3>3 DEF Balances
    <3>5. \A v : Owner(v)' = Owner(v)
      BY <3>2 DEF Owner, Anchor, Announced
    <3>6. \A v \in Withdrawal : withdrawal'[v] = "debited" => v = w \/ withdrawal[v] = "debited"
      BY <2>t, <3>2
    <3>7. \A v \in Withdrawal : withdrawal'[v] = "debited" => Owner(v)' \in DOMAIN account'
      BY <3>2, <3>4, <3>5, <3>6 DEF Balances
    <3>8. QED
      BY <2>r, <3>2, <3>4, <3>7 DEF Balances
  <2>9. CASE Restart
    <3>1. UNCHANGED <<account, checkpoint, withdrawal>> /\ sync' = Rest /\ debit' = NoDebit
      BY <2>9 DEF Restart
    <3>2. QED
      BY <2>1, <2>r, <3>1
  <2>10. CASE UNCHANGED vars
    <3>1. UNCHANGED <<account, checkpoint, sync, withdrawal, debit>>
      BY <2>10 DEF vars, ledgerVars, withdrawalVars
    <3>2. QED
      BY <2>1, <2>d, <3>1 DEF Balances
  <2>11. QED
    BY <2>2, <2>3, <2>4, <2>5, <2>6, <2>7, <2>8, <2>9, <2>10 DEF Next, Sync, Withdraw
<1>3. QED
  BY <1>1, <1>2, GroundHolds, PTL DEF Spec

Exact ==
    /\ sync.pc = "commit" => ~debit.open /\ sync.read = account
    /\ debit.open => debit.balance = account[Owner(debit.withdrawal)]
    /\ \A a \in DOMAIN account :
          account[a] = Merged(SubSeq(log, 1, checkpoint), a) - DebitsOf(a)

LEMMA ExactHolds ==
  ASSUME Serializable
  PROVE  Spec => []Exact
<1>1. Init => Exact
  BY DEF Init, Exact, Rest, NoDebit
<1>2. Ground /\ Ground' /\ Balances /\ Balances' /\ Exact /\ [Next]_vars => Exact'
  <2> SUFFICES ASSUME Ground, Ground', Balances, Balances', Exact, [Next]_vars PROVE Exact'
    OBVIOUS
  <2>g. Relays /\ Syncs /\ Tasks /\ Paid /\ WithdrawalsFollowLog /\ LogIsPublished
    BY GroundParts
  <2>t. withdrawal \in [Withdrawal -> WithdrawalState]
    BY <2>g DEF Tasks
  <2>r. Rest.pc = "idle" /\ ~NoDebit.open
    BY DEF Rest, NoDebit
  <2>d. debit.open => debit.withdrawal \in Withdrawal /\ withdrawal[debit.withdrawal] = "paid"
    BY <2>g DEF Paid
  \* Everything but the two commits.
  <2>1. ASSUME UNCHANGED <<account, checkpoint>>,
               \A w \in Withdrawal : withdrawal'[w] = "debited" <=> withdrawal[w] = "debited",
               sync'.pc = "commit" => ~debit'.open /\ sync'.read = account,
               debit'.open => /\ debit'.withdrawal \in Withdrawal
                              /\ withdrawal[debit'.withdrawal] = "paid"
                              /\ debit'.balance = account[Owner(debit'.withdrawal)]
        PROVE  Exact'
    <3>1. checkpoint \in 0 .. checkpoint
      BY <2>g DEF Syncs
    <3>2. SubSeq(log', 1, checkpoint) = SubSeq(log, 1, checkpoint)
      BY <2>1, <3>1, BooksStay
    <3>3. \A w \in Withdrawal : withdrawal[w] # "relay" => Owner(w)' = Owner(w)
      BY <2>1, BooksStay
    <3>4. \A a \in DOMAIN account' :
             account'[a] = Merged(SubSeq(log', 1, checkpoint'), a) - DebitsOf(a)'
      <4> SUFFICES ASSUME NEW a \in DOMAIN account'
                   PROVE  account'[a] = Merged(SubSeq(log', 1, checkpoint'), a) - DebitsOf(a)'
        OBVIOUS
      <4>1. DebitsOf(a)' = DebitsOf(a)
        BY <2>1, DebitsStay
      <4>2. QED
        BY <2>1, <3>2, <4>1 DEF Exact
    <3>5. debit'.open => debit'.balance = account'[Owner(debit.withdrawal)']
      <4> SUFFICES ASSUME debit'.open PROVE debit'.balance = account'[Owner(debit.withdrawal)']
        OBVIOUS
      <4>1. PICK w \in Withdrawal : w = debit'.withdrawal
        BY <2>1
      <4>2. withdrawal[w] = "paid" /\ debit'.balance = account[Owner(w)]
        BY <2>1, <4>1
      <4>3. debit'.balance = account'[Owner(w)']
        BY <2>1, <3>3, <4>2
      <4>4. Owner(debit.withdrawal)' = Owner(w)'
        BY <4>1 DEF Owner, Anchor, Announced
      <4>5. QED
        BY <4>3, <4>4
    <3>6. sync'.pc = "commit" => ~debit'.open /\ sync'.read = account'
      BY <2>1
    <3>7. QED
      BY <3>4, <3>5, <3>6 DEF Exact
  <2>2. CASE Environment
    <3>1. UNCHANGED <<account, checkpoint, sync, withdrawal, debit>>
      BY <2>2 DEF Environment, Publish, Mine, Tick, ledgerVars, withdrawalVars
    <3>2. QED
      BY <2>1, <2>d, <3>1 DEF Exact
  <2>3. CASE SyncStart \/ SyncFetch \/ SyncCheck \/ SyncOpen \/ SyncFails
    <3>1. UNCHANGED <<account, checkpoint, withdrawal, debit>>
      BY <2>3 DEF SyncStart, SyncFetch, SyncCheck, SyncOpen, SyncFails, ledgerVars,
                  withdrawalVars
    <3>2. sync'.pc = "commit" => ~debit.open /\ sync'.read = account
      <4>1. SyncStart => sync'.pc = "fetch"
        BY DEF SyncStart, Rest
      <4>2. SyncFetch => sync'.pc = "check"
        BY <2>g DEF SyncFetch, Syncs
      <4>3. SyncCheck => sync'.pc # "commit"
        BY <2>g DEF SyncCheck, SyncGoto, Syncs
      <4>4. SyncOpen => ~debit.open /\ (sync'.pc = "stopped" \/ sync'.read = account)
        BY <2>g DEF SyncOpen, SyncGoto, Syncs
      <4>5. SyncFails => sync'.pc = "idle"
        BY <2>r DEF SyncFails
      <4>6. QED
        BY <2>3, <4>1, <4>2, <4>3, <4>4, <4>5
    <3>3. QED
      BY <2>1, <2>d, <3>1, <3>2 DEF Exact
  <2>4. CASE SyncCommit
    <3> DEFINE cp == checkpoint
               end == checkpoint + Len(sync.batch)
    <3>1. /\ account' = BalancesAfter /\ checkpoint' = end /\ log' = log
          /\ UNCHANGED <<withdrawal, debit>> /\ sync'.pc # "commit"
          /\ sync.pc = "commit" /\ end <= Len(log)
          /\ sync.batch = SubSeq(log, cp + 1, end)
      BY <2>4, <2>g, <2>r
         DEF SyncCommit, relayVars, withdrawalVars, NextCheckpoint, Rest, Syncs, NextBatch
    <3>2. /\ log \in Seq(Event) /\ sync.batch \in Seq(Event)
          /\ end \in 0 .. Len(log) /\ cp \in 0 .. end
      BY <2>g, <3>1 DEF Relays, Syncs
    <3>3. SubSeq(log, 1, cp) \in Seq(Event)
      BY <3>2
    <3>4. ~debit.open /\ sync.read = account
      BY <3>1 DEF Exact
    <3>5. \A a \in DOMAIN account' :
             account'[a] = Merged(SubSeq(log', 1, checkpoint'), a) - DebitsOf(a)'
      <4> SUFFICES ASSUME NEW a \in DOMAIN account'
                   PROVE  account'[a] = Merged(SubSeq(log', 1, checkpoint'), a) - DebitsOf(a)'
        OBVIOUS
      <4>1. DebitsOf(a)' = DebitsOf(a)
        BY <3>1, DebitsStay
      <4>2. /\ Merged(sync.batch, a) \in Int
            /\ a \notin Touched(sync.batch) => Merged(sync.batch, a) = 0
        BY <3>2, MergedType
      <4>3. /\ Merged(SubSeq(log, 1, cp), a) \in Int
            /\ a \notin Touched(SubSeq(log, 1, cp)) => Merged(SubSeq(log, 1, cp), a) = 0
        BY <3>3, MergedType
      <4>4. Merged(SubSeq(log, 1, end), a)
              = Merged(SubSeq(log, 1, cp), a) + Merged(sync.batch, a)
        <5> HIDE DEF end, cp
        <5>1. QED
          BY <3>1, <3>2, MergedSplit
      <4>5. DebitsOf(a) \in Nat
        BY <2>g, GroundParts, TotalType DEF DebitsOf
      <4> HIDE DEF end
      <4>6. DOMAIN account = Touched(SubSeq(log, 1, cp))
        BY DEF Balances
      <4>7. CASE a \in DOMAIN account
        <5>1. account'[a] = IF a \in Touched(sync.batch) THEN account[a] + Merged(sync.batch, a)
                            ELSE account[a]
          BY <3>1, <3>4, <4>7 DEF BalancesAfter
        <5>2. account[a] = Merged(SubSeq(log, 1, cp), a) - DebitsOf(a)
          BY <4>7 DEF Exact
        <5> HIDE DEF cp
        <5>3. account'[a] = Merged(SubSeq(log, 1, end), a) - DebitsOf(a)
          BY <4>2, <4>3, <4>4, <4>5, <5>1, <5>2
        <5>4. QED
          BY <3>1, <4>1, <5>3
      <4>8. CASE a \notin DOMAIN account
        <5>1. a \in Touched(sync.batch) /\ account'[a] = Merged(sync.batch, a)
          BY <3>1, <3>4, <4>8 DEF BalancesAfter
        <5>2. Debited(a) = {}
          BY <4>8 DEF Debited, Balances
        <5>3. DebitsOf(a) = 0
          BY <5>2, SumEmpty DEF DebitsOf, TotalOf
        <5>4. Merged(SubSeq(log, 1, cp), a) = 0
          BY <4>3, <4>6, <4>8
        <5> HIDE DEF cp
        <5>5. account'[a] = Merged(SubSeq(log, 1, end), a) - DebitsOf(a)
          BY <4>2, <4>4, <5>1, <5>3, <5>4
        <5>6. QED
          BY <3>1, <4>1, <5>5
      <4>9. QED
        BY <4>7, <4>8
    <3>6. ~debit'.open
      BY <3>1, <3>4
    <3> HIDE DEF end, cp
    <3>7. QED
      BY <3>1, <3>5, <3>6 DEF Exact
  <2>5. ASSUME NEW S \in SUBSET Withdrawal, TakeUp(S) PROVE Exact'
    <3>1. UNCHANGED <<account, checkpoint, sync, debit>>
      BY <2>5 DEF TakeUp, ledgerVars
    <3>2. \A w \in Withdrawal : withdrawal'[w] = withdrawal[w]
                                  \/ (withdrawal'[w] = "pending" /\ withdrawal[w] = "relay")
      BY <2>5 DEF TakeUp
    <3>3. QED
      BY <2>1, <2>d, <3>1, <3>2 DEF Exact
  <2>6. ASSUME NEW w \in Withdrawal, Gate(w) \/ Payout(w) PROVE Exact'
    <3>1. UNCHANGED <<account, checkpoint, sync, debit>>
      BY <2>6 DEF Gate, Payout, ledgerVars
    <3>2. \A v \in Withdrawal :
             withdrawal'[v] = withdrawal[v]
                \/ (withdrawal'[v] \in {"paying", "refused", "paid", "rejected"}
                    /\ withdrawal[v] \in {"pending", "paying"})
      BY <2>6, <2>t DEF Gate, Payout
    <3>3. QED
      BY <2>1, <2>d, <3>1, <3>2 DEF Exact
  <2>7. ASSUME NEW w \in Withdrawal, DebitOpen(w) PROVE Exact'
    <3>1. UNCHANGED <<account, checkpoint, sync, withdrawal>> /\ sync.pc # "commit"
      BY <2>7 DEF DebitOpen, ledgerVars
    <3>2. /\ debit' = [open |-> TRUE, withdrawal |-> w, balance |-> account[Owner(w)]]
          /\ withdrawal[w] = "paid"
      BY <2>7 DEF DebitOpen
    <3>3. QED
      BY <2>1, <3>1, <3>2
  <2>8. CASE DebitCommit
    <3>1. PICK w \in Withdrawal : w = debit.withdrawal
      BY <2>8, <2>d DEF DebitCommit
    <3>2. /\ account' = [account EXCEPT ![Owner(w)] = debit.balance - Amount(w)]
          /\ withdrawal' = [withdrawal EXCEPT ![w] = "debited"]
          /\ debit' = NoDebit /\ UNCHANGED <<log, checkpoint, sync>>
          /\ Owner(w) \in DOMAIN account /\ withdrawal[w] = "paid"
          /\ debit.balance = account[Owner(w)] /\ sync.pc # "commit"
      BY <2>8, <2>d, <3>1 DEF DebitCommit, relayVars, Balances, Exact
    <3>3. /\ \A a \in DOMAIN account : a # Owner(w) => account'[a] = account[a]
          /\ account'[Owner(w)] = account[Owner(w)] - Amount(w)
          /\ DOMAIN account' = DOMAIN account
      BY <3>2
    <3>4. \A v : Owner(v)' = Owner(v) /\ Amount(v)' = Amount(v)
      BY <3>2 DEF Owner, Amount, Anchor, Announced
    <3>5. \A v \in Withdrawal : withdrawal'[v] = "debited" <=> v = w \/ withdrawal[v] = "debited"
      BY <2>t, <3>2
    <3>6. w \in Gated /\ Amount(w) \in Nat
      BY <2>g, <3>2, GroundParts, AnchorFacts DEF Gated, WithdrawalsFollowLog
    <3>7. \A a \in DOMAIN account' :
             account'[a] = Merged(SubSeq(log', 1, checkpoint'), a) - DebitsOf(a)'
      <4> SUFFICES ASSUME NEW a \in DOMAIN account'
                   PROVE  account'[a] = Merged(SubSeq(log', 1, checkpoint'), a) - DebitsOf(a)'
        OBVIOUS
      <4>1. PICK S : S = Debited(a)
        OBVIOUS
      <4>2. S \in SUBSET Gated /\ w \notin S
        BY <2>g, <3>2, <4>1, GroundParts DEF Debited
      <4>3. TotalOf(S) \in Nat /\ IsFiniteSet(S)
        BY <2>g, <4>2, TotalType
      <4>4. account[a] = Merged(SubSeq(log, 1, checkpoint), a) - TotalOf(S)
        BY <3>3, <4>1 DEF Exact, DebitsOf
      <4>5. SubSeq(log, 1, checkpoint) \in Seq(Event)
        BY <2>g DEF Relays, Syncs
      <4>6. Merged(SubSeq(log, 1, checkpoint), a) \in Int
        BY <4>5, MergedType
      <4>7. \A R : TotalOf(R)' = TotalOf(R)
        BY <3>4 DEF TotalOf
      <4>8. CASE a = Owner(w)
        <5>1. Debited(a)' = S \cup {w}
          BY <3>4, <3>5, <4>1, <4>8 DEF Debited
        <5>2. TotalOf(S \cup {w}) = Amount(w) + TotalOf(S)
          BY <2>g, <3>6, <4>2, TotalAdd
        <5>3. DebitsOf(a)' = TotalOf(S \cup {w})
          <6>1. PICK T : T = S \cup {w}
            OBVIOUS
          <6>2. DebitsOf(a)' = TotalOf(T)'
            BY <5>1, <6>1 DEF DebitsOf, TotalOf
          <6>3. QED
            BY <4>7, <6>1, <6>2
        <5>4. account'[a] = account[a] - Amount(w)
          BY <3>3, <4>8
        <5>5. account'[a] = Merged(SubSeq(log, 1, checkpoint), a) - (Amount(w) + TotalOf(S))
          BY <3>6, <4>3, <4>4, <4>6, <5>4
        <5>6. QED
          BY <3>2, <5>2, <5>3, <5>5
      <4>9. CASE a # Owner(w)
        <5>1. Debited(a)' = S
          BY <3>4, <3>5, <4>1, <4>9 DEF Debited
        <5>2. DebitsOf(a)' = TotalOf(S)'
          BY <5>1 DEF DebitsOf, TotalOf
        <5>3. QED
          BY <3>2, <3>3, <4>4, <4>7, <4>9, <5>2
      <4>10. QED
        BY <4>8, <4>9
    <3>8. ~debit'.open /\ sync'.pc # "commit"
      BY <2>r, <3>2
    <3>9. QED
      BY <3>7, <3>8 DEF Exact
  <2>9. CASE Restart
    <3>1. UNCHANGED <<account, checkpoint, withdrawal>> /\ sync' = Rest /\ debit' = NoDebit
      BY <2>9 DEF Restart
    <3>2. QED
      BY <2>1, <2>r, <3>1
  <2>10. CASE UNCHANGED vars
    <3>1. UNCHANGED <<account, checkpoint, sync, withdrawal, debit>>
      BY <2>10 DEF vars, ledgerVars, withdrawalVars
    <3>2. QED
      BY <2>1, <2>d, <3>1 DEF Exact
  <2>11. QED
    BY <2>2, <2>3, <2>4, <2>5, <2>6, <2>7, <2>8, <2>9, <2>10 DEF Next, Sync, Withdraw
<1>3. QED
  BY <1>1, <1>2, GroundHolds, BalancesHold, PTL DEF Spec

-----------------------------------------------------------------------------
(* The wallet's balances and Relay's book. *)

\* The totals are sums of one function.
LEMMA TotalIs ==
  ASSUME Relays, Syncs, LogIsPublished, NEW S \in SUBSET Gated
  PROVE  TotalOf(S) = SumFunctionOnSet([w \in Gated |-> Amount(w)], S)
<1> DEFINE F == [w \in S |-> Amount(w)]
           G == [w \in Gated |-> Amount(w)]
<1>1. IsFiniteSet(S)
  BY TotalType
<1>2. \A w \in S : F[w] = G[w]
  OBVIOUS
<1> HIDE DEF F, G
<1>3. SumFunctionOnSet(F, S) = SumFunctionOnSet(G, S)
  BY <1>1, <1>2, SumEqual
<1>4. QED
  BY <1>3 DEF F, G, TotalOf

LEMMA TotalUnion ==
  ASSUME Relays, Syncs, LogIsPublished, NEW S \in SUBSET Gated, NEW T \in SUBSET Gated,
         S \cap T = {}
  PROVE  TotalOf(S \cup T) = TotalOf(S) + TotalOf(T)
<1> DEFINE G == [w \in Gated |-> Amount(w)]
<1>1. IsFiniteSet(S) /\ IsFiniteSet(T)
  BY TotalType
<1>2. \A w \in S \cup T : G[w] \in Int
  <2> SUFFICES ASSUME NEW w \in S \cup T PROVE Amount(w) \in Int
    OBVIOUS
  <2>1. IsPublished(w)
    BY DEF Gated, IsGated
  <2>2. QED
    BY <2>1, AnchorFacts
<1> HIDE DEF G
<1>3. SumFunctionOnSet(G, S \cup T) = SumFunctionOnSet(G, S) + SumFunctionOnSet(G, T)
  BY <1>1, <1>2, SumUnion
<1>4. S \cup T \in SUBSET Gated
  OBVIOUS
<1>5. /\ TotalOf(S \cup T) = SumFunctionOnSet(G, S \cup T)
      /\ TotalOf(S) = SumFunctionOnSet(G, S) /\ TotalOf(T) = SumFunctionOnSet(G, T)
  BY <1>4, TotalIs DEF G
<1>6. QED
  BY <1>3, <1>5

IsRefunded(w) ==
    \E i \in 1 .. checkpoint : log[i].type = "withdrawRefund" /\ log[i].subject = w

GatedOf(a) == {w \in Gated : Owner(w) = a}
RefundedOf(a) == {w \in GatedOf(a) : IsRefunded(w)}
Amounts == [i \in DOMAIN log |-> log[i].amount]
PlacesOf(a, type) == {i \in 1 .. checkpoint : log[i].address = a /\ log[i].type = type}

LEMMA PlaceFacts ==
  ASSUME Ground, NEW a, NEW type
  PROVE  /\ IsFiniteSet(PlacesOf(a, type))
         /\ \A i \in PlacesOf(a, type) :
               /\ i \in DOMAIN log /\ log[i] \in Event /\ Published(log[i])
               /\ Amounts[i] = log[i].amount /\ Amounts[i] \in Nat
<1>1. checkpoint \in Nat /\ checkpoint <= Len(log) /\ log \in Seq(Event)
  BY GroundParts DEF Relays, Syncs
<1>2. IsFiniteSet(PlacesOf(a, type))
  <2>1. IsFiniteSet(1 .. checkpoint)
    BY <1>1, FS_Interval
  <2>2. PlacesOf(a, type) \subseteq 1 .. checkpoint
    BY DEF PlacesOf
  <2>3. QED
    BY <2>1, <2>2, FS_Subset
<1>3. ASSUME NEW i \in PlacesOf(a, type)
      PROVE  /\ i \in DOMAIN log /\ log[i] \in Event /\ Published(log[i])
             /\ Amounts[i] = log[i].amount /\ Amounts[i] \in Nat
  <2>1. i \in DOMAIN log /\ log[i] \in Event
    BY <1>1 DEF PlacesOf
  <2>2. Published(log[i])
    BY <2>1, GroundParts DEF LogIsPublished, Published
  <2>3. QED
    BY <2>1, <2>2, EventFacts DEF Amounts
<1>4. QED
  BY <1>2, <1>3

\* What Relay has taken for withdrawals is the total of those past the gate.
LEMMA TakenIs ==
  ASSUME Ground, NEW a
  PROVE  SumFunctionOnSet(Amounts, PlacesOf(a, "withdraw")) = TotalOf(GatedOf(a))
<1> DEFINE S == GatedOf(a)
           T == PlacesOf(a, "withdraw")
           F == [w \in S |-> Amount(w)]
           h == [w \in S |-> Anchor(w)]
<1>g. Relays /\ Syncs /\ LogIsPublished
  BY GroundParts
<1>1. S \in SUBSET Gated
  BY DEF GatedOf
<1>2. \A w \in S : /\ IsPublished(w) /\ Anchor(w) <= checkpoint /\ Owner(w) = a
  BY DEF GatedOf, Gated, IsGated
<1>3. \A w \in S : /\ Anchor(w) \in DOMAIN log
                   /\ log[Anchor(w)].type = "withdraw" /\ log[Anchor(w)].subject = w
                   /\ log[Anchor(w)].address = a /\ log[Anchor(w)].amount = Amount(w)
                   /\ Amount(w) \in Int
  BY <1>g, <1>2, AnchorFacts DEF Owner, Amount
<1>4. \A w \in S : Anchor(w) \in T
  <2>1. checkpoint \in Nat /\ log \in Seq(Event)
    BY <1>g DEF Relays, Syncs
  <2>2. \A w \in S : Anchor(w) \in 1 .. checkpoint
    BY <1>2, <1>3, <2>1
  <2>3. QED
    BY <1>3, <2>2 DEF PlacesOf
<1>5. \A w, v \in S : h[w] = h[v] => w = v
  BY <1>3
<1>6. ASSUME NEW i \in T PROVE \E w \in S : h[w] = i
  <2>1. /\ i \in DOMAIN log /\ log[i] \in Event /\ Published(log[i])
        /\ log[i].type = "withdraw" /\ log[i].address = a /\ i <= checkpoint
    <3>1. i \in DOMAIN log /\ log[i] \in Event /\ Published(log[i])
      BY PlaceFacts
    <3>2. log[i].type = "withdraw" /\ log[i].address = a /\ i \in 1 .. checkpoint
      BY DEF PlacesOf
    <3>3. checkpoint \in Nat
      BY <1>g DEF Syncs
    <3>4. QED
      BY <3>1, <3>2, <3>3
  <2>2. PICK w \in Withdrawal : w = log[i].subject
    BY <2>1, PublishedFacts
  <2>3. i \in Announced(w)
    BY <2>1, <2>2 DEF Announced
  <2>4. Anchor(w) = i /\ IsPublished(w)
    BY <1>g, <2>3, AnchorFacts DEF IsPublished
  <2>5. w \in S
    BY <2>1, <2>4 DEF GatedOf, Gated, IsGated, Owner
  <2>6. QED
    BY <2>4, <2>5
<1>7. \A w \in S : Amounts[h[w]] = F[w] /\ F[w] \in Int
  BY <1>3 DEF Amounts
<1>8. IsFiniteSet(S)
  BY <1>g, <1>1, TotalType
<1>9. h \in [S -> T]
  BY <1>4
<1> HIDE DEF S, T, F, h
<1>10. SumFunctionOnSet(F, S) = SumFunctionOnSet(Amounts, T)
  BY <1>5, <1>6, <1>7, <1>8, <1>9, SumReindex
<1>11. QED
  BY <1>10 DEF S, T, F, TotalOf

LEMMA RefundFacts ==
  ASSUME Ground, NEW i \in DOMAIN log, log[i].type = "withdrawRefund"
  PROVE  /\ log[i].subject \in Gated
         /\ Owner(log[i].subject) = log[i].address
         /\ Amount(log[i].subject) = log[i].amount
         /\ withdrawal[log[i].subject] \in {"rejected", "refused"}
<1>g. Relays /\ Syncs /\ LogIsPublished /\ WithdrawalsFollowLog
  BY GroundParts
<1> DEFINE w == log[i].subject
<1>1. log[i] \in Event /\ Published(log[i])
  BY <1>g DEF Relays, LogIsPublished, Published
<1>2. w \in Withdrawal /\ withdrawal[w] \in {"rejected", "refused"}
  BY <1>g, <1>1, PublishedFacts DEF WithdrawalsFollowLog
<1>3. IsGated(w)
  BY <1>g, <1>2 DEF WithdrawalsFollowLog
<1>4. /\ Anchor(w) \in DOMAIN log /\ log[Anchor(w)].type = "withdraw"
      /\ log[Anchor(w)].subject = w
  BY <1>g, <1>3, AnchorFacts DEF IsGated
<1>5. log[Anchor(w)] \in Event /\ Published(log[Anchor(w)])
  BY <1>g, <1>4 DEF Relays, LogIsPublished, Published
<1>6. log[Anchor(w)].address = log[i].address /\ log[Anchor(w)].amount = log[i].amount
  BY <1>1, <1>4, <1>5, PublishedAgree
<1>7. QED
  BY <1>2, <1>3, <1>6 DEF Gated, Owner, Amount

\* What Relay has given back is the total of those it has refunded.
LEMMA GivenBackIs ==
  ASSUME Ground, NEW a
  PROVE  SumFunctionOnSet(Amounts, PlacesOf(a, "withdrawRefund")) = TotalOf(RefundedOf(a))
<1> DEFINE S == PlacesOf(a, "withdrawRefund")
           T == RefundedOf(a)
           G == [w \in T |-> Amount(w)]
           h == [i \in S |-> log[i].subject]
<1>g. Relays /\ Syncs /\ LogIsPublished /\ WithdrawalsFollowLog
  BY GroundParts
<1>1. \A i \in S : /\ i \in DOMAIN log /\ log[i].type = "withdrawRefund"
                   /\ log[i].address = a /\ i \in 1 .. checkpoint
                   /\ Amounts[i] = log[i].amount /\ Amounts[i] \in Int
  <2>1. \A i \in S : /\ i \in DOMAIN log
                     /\ Amounts[i] = log[i].amount /\ Amounts[i] \in Nat
    BY PlaceFacts
  <2>2. \A i \in S : /\ log[i].type = "withdrawRefund" /\ log[i].address = a
                     /\ i \in 1 .. checkpoint
    BY DEF PlacesOf
  <2>3. QED
    BY <2>1, <2>2
<1>2. \A i \in S : /\ log[i].subject \in Gated /\ Owner(log[i].subject) = a
                   /\ Amount(log[i].subject) = log[i].amount
  BY <1>1, RefundFacts
<1>3. \A i \in S : log[i].subject \in T
  BY <1>1, <1>2 DEF RefundedOf, GatedOf, IsRefunded
<1>4. \A i, j \in S : h[i] = h[j] => i = j
  BY <1>g, <1>1 DEF LogIsPublished
<1>5. ASSUME NEW w \in T PROVE \E i \in S : h[i] = w
  <2>1. PICK i \in 1 .. checkpoint : log[i].type = "withdrawRefund" /\ log[i].subject = w
    BY DEF RefundedOf, IsRefunded
  <2>2. i \in DOMAIN log
    BY <1>g, <2>1 DEF Relays, Syncs
  <2>3. log[i].address = a
    BY <2>1, <2>2, RefundFacts DEF RefundedOf, GatedOf
  <2>4. i \in S
    BY <2>1, <2>3 DEF PlacesOf
  <2>5. QED
    BY <2>1, <2>4
<1>6. \A i \in S : Amounts[i] \in Int /\ G[h[i]] = Amounts[i]
  BY <1>1, <1>2, <1>3
<1>7. IsFiniteSet(S)
  BY PlaceFacts
<1>8. h \in [S -> T]
  BY <1>3
<1> HIDE DEF S, T, G, h
<1>9. SumFunctionOnSet(Amounts, S) = SumFunctionOnSet(G, T)
  BY <1>4, <1>5, <1>6, <1>7, <1>8, SumReindex
<1>10. QED
  BY <1>9 DEF S, T, G, TotalOf

\* Relay's book is what the batches apply, less what it has taken, and more what
\* it has given back.
LEMMA BookIs ==
  ASSUME Ground, NEW a
  PROVE  /\ RelayBalance(a, checkpoint) \in Int
         /\ RelayBalance(a, checkpoint) + TotalOf(GatedOf(a))
              = Merged(SubSeq(log, 1, checkpoint), a) + TotalOf(RefundedOf(a))
<1> DEFINE n == checkpoint
           S == {i \in 1 .. n : log[i].address = a}
           E == [i \in DOMAIN log |-> RelayDelta(log[i])]
           D == [i \in DOMAIN log |-> Delta(log[i])]
           T == [i \in S |-> IF log[i].type = "withdraw" THEN log[i].amount ELSE 0]
           R == [i \in S |-> IF log[i].type = "withdrawRefund" THEN log[i].amount ELSE 0]
           Q == [i \in S |-> Delta(log[i]) + R[i]]
           SW == PlacesOf(a, "withdraw")
           SR == PlacesOf(a, "withdrawRefund")
<1>g. Relays /\ Syncs /\ LogIsPublished
  BY GroundParts
<1>1. log \in Seq(Event) /\ n \in 0 .. Len(log) /\ n \in Nat
  BY <1>g DEF Relays, Syncs
<1>2. IsFiniteSet(S)
  <2>1. IsFiniteSet(1 .. n)
    BY <1>1, FS_Interval
  <2>2. QED
    BY <2>1, FS_Subset
<1>3. \A i \in S : i \in DOMAIN log /\ log[i] \in Event
  BY <1>1
<1>4. \A i \in S : log[i].amount \in Nat /\ Delta(log[i]) \in Int /\ RelayDelta(log[i]) \in Int
  BY <1>3, EventFacts
<1>5. \A i \in S : E[i] \in Int /\ D[i] \in Int /\ T[i] \in Int /\ R[i] \in Int
  BY <1>3, <1>4
<1>6. \A i \in S : Q[i] = D[i] + R[i]
  BY <1>3
<1>7. ASSUME NEW i \in S PROVE Q[i] = E[i] + T[i]
  <2>1. E[i] = RelayDelta(log[i]) /\ Q[i] = Delta(log[i]) + R[i]
    BY <1>3
  <2>2. log[i].type \in EventType /\ log[i].amount \in Nat
    BY <1>3, EventFacts
  <2>3. PICK e \in Event : e = log[i]
    BY <1>3
  <2> HIDE DEF S
  <2>4. CASE log[i].type = "withdraw"
    <3>1. Delta(log[i]) = 0 /\ RelayDelta(log[i]) = -log[i].amount
      BY <2>4 DEF Delta, RelayDelta, Credits
    <3>2. T[i] = log[i].amount /\ R[i] = 0
      BY <2>4
    <3>3. QED
      BY <2>1, <2>2, <3>1, <3>2
  <2>5. CASE log[i].type = "withdrawRefund"
    <3>1. Delta(log[i]) = 0 /\ RelayDelta(log[i]) = log[i].amount
      BY <2>5 DEF Delta, RelayDelta, Credits
    <3>2. T[i] = 0 /\ R[i] = log[i].amount
      BY <2>5
    <3>3. QED
      BY <2>1, <2>2, <3>1, <3>2
  <2>6. CASE log[i].type \notin {"withdraw", "withdrawRefund"}
    <3>1. Delta(log[i]) = RelayDelta(log[i])
      <4>1. CASE log[i].type \in Credits
        BY <4>1 DEF Delta, RelayDelta, Credits
      <4>2. CASE log[i].type = "taskPayment"
        BY <4>2 DEF Delta, RelayDelta, Credits
      <4>3. CASE log[i].type \notin Credits \cup {"taskPayment"}
        BY <2>6, <4>3 DEF Delta, RelayDelta, Credits
      <4>4. QED
        BY <4>1, <4>2, <4>3
    <3>2. T[i] = 0 /\ R[i] = 0
      BY <2>6
    <3>3. RelayDelta(log[i]) \in Int
      BY <1>4
    <3>4. QED
      BY <2>1, <3>1, <3>2, <3>3
  <2>7. QED
    BY <2>4, <2>5, <2>6
<1>8. SW \in SUBSET S /\ SR \in SUBSET S
  BY DEF PlacesOf
<1>9. /\ \A i \in S \ SW : T[i] = 0
      /\ \A i \in SW : T[i] = Amounts[i]
      /\ \A i \in S \ SR : R[i] = 0
      /\ \A i \in SR : R[i] = Amounts[i]
  BY <1>3 DEF PlacesOf, Amounts
<1>10. RelayBalance(a, checkpoint) = SumFunctionOnSet(E, S)
  BY DEF RelayBalance
<1>11. Merged(SubSeq(log, 1, checkpoint), a) = SumFunctionOnSet(D, S)
  <2>1. 0 \in 0 .. n /\ 0 + 1 = 1
    BY <1>1
  <2>2. Merged(SubSeq(log, 0 + 1, n), a)
          = SumFunctionOnSet(D, {i \in (0 + 1) .. n : log[i].address = a})
    BY <1>1, <2>1, MergedPart
  <2>3. QED
    BY <2>1, <2>2
<1> HIDE DEF n, S, E, D, T, R, Q, SW, SR
<1>12. SumFunctionOnSet(Q, S) = SumFunctionOnSet(D, S) + SumFunctionOnSet(R, S)
  BY <1>2, <1>5, <1>6, SumPlus
<1>13. SumFunctionOnSet(Q, S) = SumFunctionOnSet(E, S) + SumFunctionOnSet(T, S)
  BY <1>2, <1>5, <1>7, SumPlus
<1>14. SumFunctionOnSet(T, S) = TotalOf(GatedOf(a))
  <2>1. SumFunctionOnSet(T, S) = SumFunctionOnSet(T, SW)
    BY <1>2, <1>5, <1>8, <1>9, SumSupport
  <2>2. IsFiniteSet(SW)
    BY <1>2, <1>8, FS_Subset
  <2>3. SumFunctionOnSet(T, SW) = SumFunctionOnSet(Amounts, SW)
    BY <1>9, <2>2, SumEqual
  <2>4. QED
    BY <2>1, <2>3, TakenIs DEF SW
<1>15. SumFunctionOnSet(R, S) = TotalOf(RefundedOf(a))
  <2>1. SumFunctionOnSet(R, S) = SumFunctionOnSet(R, SR)
    BY <1>2, <1>5, <1>8, <1>9, SumSupport
  <2>2. IsFiniteSet(SR)
    BY <1>2, <1>8, FS_Subset
  <2>3. SumFunctionOnSet(R, SR) = SumFunctionOnSet(Amounts, SR)
    BY <1>9, <2>2, SumEqual
  <2>4. QED
    BY <2>1, <2>3, GivenBackIs DEF SR
<1>16. SumFunctionOnSet(E, S) \in Int
  BY <1>2, <1>5, SumType
<1>17. QED
  BY <1>10, <1>11, <1>12, <1>13, <1>14, <1>15, <1>16

OutstandingOf(a) ==
    {w \in Withdrawal : /\ IsGated(w) /\ Owner(w) = a
                        /\ withdrawal[w] # "debited" /\ ~IsRefunded(w)}

LEMMA OutstandingIs ==
  ASSUME NEW a
  PROVE  Outstanding(a) = TotalOf(OutstandingOf(a))
BY DEF Outstanding, OutstandingOf, IsRefunded

\* Of what Relay has taken a part is debited, a part given back, and the rest
\* outstanding.
LEMMA TakenParts ==
  ASSUME Ground, NEW a
  PROVE  /\ OutstandingOf(a) \subseteq Gated /\ Outstanding(a) \in Nat
         /\ DebitsOf(a) \in Nat /\ TotalOf(RefundedOf(a)) \in Nat
         /\ TotalOf(GatedOf(a)) = Outstanding(a) + DebitsOf(a) + TotalOf(RefundedOf(a))
<1>g. Relays /\ Syncs /\ LogIsPublished /\ WithdrawalsFollowLog
  BY GroundParts
<1> DEFINE O == OutstandingOf(a)
           D == Debited(a)
           R == RefundedOf(a)
<1>1. O \in SUBSET Gated /\ D \in SUBSET Gated /\ R \in SUBSET Gated
  <2>1. O \in SUBSET Gated /\ R \in SUBSET Gated
    BY DEF OutstandingOf, RefundedOf, GatedOf, Gated
  <2>2. D \in SUBSET Gated
    BY GroundParts
  <2>3. QED
    BY <2>1, <2>2
<1>2. \A w \in R : withdrawal[w] # "debited"
  <2> SUFFICES ASSUME NEW w \in R PROVE withdrawal[w] # "debited"
    OBVIOUS
  <2>1. PICK i \in 1 .. checkpoint : log[i].type = "withdrawRefund" /\ log[i].subject = w
    BY DEF RefundedOf, IsRefunded
  <2>2. i \in DOMAIN log
    BY <1>g DEF Relays, Syncs
  <2>3. withdrawal[log[i].subject] \in {"rejected", "refused"}
    BY <2>1, <2>2, RefundFacts
  <2>4. QED
    BY <2>1, <2>3
<1>3. O \cap D = {} /\ (O \cup D) \cap R = {}
  BY <1>2 DEF OutstandingOf, Debited, RefundedOf
<1>4. GatedOf(a) = (O \cup D) \cup R
  <2>1. \A w \in GatedOf(a) : w \in O \/ w \in D \/ w \in R
    BY DEF GatedOf, Gated, OutstandingOf, Debited, RefundedOf
  <2>2. O \subseteq GatedOf(a) /\ R \subseteq GatedOf(a)
    BY DEF OutstandingOf, RefundedOf, GatedOf, Gated
  <2>3. D \subseteq GatedOf(a)
    BY <1>1 DEF Debited, GatedOf
  <2>4. QED
    BY <2>1, <2>2, <2>3
<1> HIDE DEF O, D, R
<1>5. TotalOf(O \cup D) = TotalOf(O) + TotalOf(D)
  BY <1>g, <1>1, <1>3, TotalUnion
<1>6. O \cup D \in SUBSET Gated
  BY <1>1
<1>7. TotalOf((O \cup D) \cup R) = TotalOf(O \cup D) + TotalOf(R)
  BY <1>g, <1>1, <1>3, <1>6, TotalUnion
<1>8. TotalOf(O) \in Nat /\ TotalOf(D) \in Nat /\ TotalOf(R) \in Nat
  BY <1>g, <1>1, TotalType
<1>9. Outstanding(a) = TotalOf(O) /\ DebitsOf(a) = TotalOf(D)
  BY OutstandingIs DEF O, D, DebitsOf
<1>10. TotalOf(GatedOf(a)) = TotalOf(O) + TotalOf(D) + TotalOf(R)
  BY <1>4, <1>5, <1>7
<1>11. QED
  BY <1>1, <1>8, <1>9, <1>10 DEF O, R

LEMMA BalancesMatch ==
  ASSUME Ground, Balances, Exact
  PROVE  BalancesMatchLog
<1>1. DOMAIN account = Touched(SubSeq(log, 1, checkpoint))
  BY DEF Balances
<1>2. ASSUME NEW a \in DOMAIN account
      PROVE  account[a] = RelayBalance(a, checkpoint) + Outstanding(a)
  <2>1. account[a] = Merged(SubSeq(log, 1, checkpoint), a) - DebitsOf(a)
    BY DEF Exact
  <2>2. /\ RelayBalance(a, checkpoint) \in Int
        /\ RelayBalance(a, checkpoint) + TotalOf(GatedOf(a))
             = Merged(SubSeq(log, 1, checkpoint), a) + TotalOf(RefundedOf(a))
    BY BookIs
  <2>3. /\ Outstanding(a) \in Nat /\ DebitsOf(a) \in Nat /\ TotalOf(RefundedOf(a)) \in Nat
        /\ TotalOf(GatedOf(a)) = Outstanding(a) + DebitsOf(a) + TotalOf(RefundedOf(a))
    BY TakenParts
  <2>4. SubSeq(log, 1, checkpoint) \in Seq(Event)
    BY GroundParts DEF Relays, Syncs
  <2>5. Merged(SubSeq(log, 1, checkpoint), a) \in Int
    BY <2>4, MergedType
  <2>6. QED
    BY <2>1, <2>2, <2>3, <2>5
<1>3. QED
  BY <1>1, <1>2 DEF BalancesMatchLog

\* A balance is Relay's own at the checkpoint plus what is outstanding: no event of
\* the log is applied twice or skipped by applyTaskFeeLogBatch, whatever fails
\* between its steps, and neither of the two writers of relay_accounts undoes the
\* other, if the database runs one transaction at a time.
THEOREM BalancesFollowTheLog ==
  ASSUME Serializable
  PROVE  Spec => []BalancesMatchLog
<1>1. Ground /\ Balances /\ Exact => BalancesMatchLog
  BY BalancesMatch
<1>2. Spec => []Exact
  BY ExactHolds
<1>3. QED
  BY <1>1, <1>2, GroundHolds, BalancesHold, PTL

-----------------------------------------------------------------------------
(* Deposits. *)

\* As many new rows as deposits: each deposit of the batch is another, and none has
\* a row yet.
LEMMA NewMeans ==
  ASSUME NEW batch \in Seq(Event), AreNew(batch)
  PROVE  /\ \A i \in DepositLogs(batch) : batch[i].subject \notin deposits
         /\ \A i, j \in DepositLogs(batch) : batch[i].subject = batch[j].subject => i = j
<1> DEFINE S == DepositLogs(batch)
           T == DepositsIn(batch)
           f == [i \in S |-> batch[i].subject]
<1>1. IsFiniteSet(S)
  <2>1. DOMAIN batch = 1 .. Len(batch) /\ Len(batch) \in Nat
    OBVIOUS
  <2>2. IsFiniteSet(DOMAIN batch)
    BY <2>1, FS_Interval
  <2>3. QED
    BY <2>2, FS_Subset DEF DepositLogs
<1>2. f \in Surjection(S, T)
  BY DEF Surjection, DepositsIn
<1>3. Cardinality(T \ deposits) = Cardinality(S)
  BY DEF AreNew
<1>4. \A i \in S : f[i] = batch[i].subject /\ f[i] \in T
  BY DEF DepositsIn
<1> HIDE DEF S, T, f
<1>5. /\ IsFiniteSet(T) /\ Cardinality(T) <= Cardinality(S)
      /\ Cardinality(T) = Cardinality(S) <=> f \in Injection(S, T)
  BY <1>1, <1>2, FS_Surjection
<1>6. /\ IsFiniteSet(T \ deposits) /\ Cardinality(T \ deposits) <= Cardinality(T)
      /\ Cardinality(T) = Cardinality(T \ deposits) => T = T \ deposits
  BY <1>5, FS_Subset
<1>7. Cardinality(S) \in Nat /\ Cardinality(T) \in Nat
  BY <1>1, <1>5, FS_CardinalityType
<1>8. Cardinality(T) = Cardinality(S) /\ Cardinality(T) = Cardinality(T \ deposits)
  BY <1>3, <1>5, <1>6, <1>7
<1>9. T = T \ deposits /\ f \in Injection(S, T)
  BY <1>5, <1>6, <1>8
<1>10. \A i, j \in S : f[i] = f[j] => i = j
  BY <1>9 DEF Injection, IsInjective
<1>11. \A i \in S : f[i] \notin deposits
  BY <1>4, <1>9
<1>12. QED
  BY <1>4, <1>10, <1>11 DEF S

Credited ==
    \A i \in 1 .. checkpoint :
        log[i].type = "deposit" =>
            /\ log[i].subject \in deposits
            /\ Transfer[log[i].subject] = [from |-> log[i].address, amount |-> log[i].amount]
            /\ \A j \in 1 .. checkpoint :
                  log[j].type = "deposit" /\ log[j].subject = log[i].subject => j = i

CreditsInv == Credited /\ (sync.pc = "commit" => AreNew(sync.batch))

LEMMA CreditedHolds == Spec => []CreditsInv
<1>1. Init => CreditsInv
  <2> SUFFICES ASSUME Init PROVE CreditsInv
    OBVIOUS
  <2>1. checkpoint = 0 /\ sync.pc = "idle"
    BY DEF Init, Rest
  <2>2. QED
    BY <2>1 DEF CreditsInv, Credited
<1>2. Tables /\ Tables' /\ CreditsInv /\ [Next]_vars => CreditsInv'
  <2> SUFFICES ASSUME Tables, Tables', CreditsInv, [Next]_vars PROVE CreditsInv'
    OBVIOUS
  <2>g. Relays /\ Relays' /\ Syncs /\ Syncs'
    BY DEF Tables
  <2>l. /\ \A i \in 1 .. checkpoint : i \in DOMAIN log /\ log'[i] = log[i]
        /\ checkpoint \in Nat
    <3>1. /\ \A i \in DOMAIN log : log'[i] = log[i]
          /\ checkpoint \in 0 .. Len(log) /\ log \in Seq(Event)
      BY <2>g, LogGrows DEF Relays, Syncs
    <3>2. QED
      BY <3>1
  <2>1. ASSUME UNCHANGED <<checkpoint, deposits>>,
               sync'.pc = "commit" => sync.pc = "commit" /\ sync'.batch = sync.batch
        PROVE  CreditsInv'
    <3>1. Credited'
      BY <2>1, <2>l DEF Credited, CreditsInv
    <3>2. sync'.pc = "commit" => AreNew(sync.batch)'
      <4> SUFFICES ASSUME sync'.pc = "commit" PROVE AreNew(sync.batch)'
        OBVIOUS
      <4>1. sync'.batch = sync.batch /\ deposits' = deposits /\ AreNew(sync.batch)
        BY <2>1 DEF CreditsInv
      <4>2. QED
        BY <4>1 DEF AreNew, DepositsIn, DepositLogs
    <3>3. QED
      BY <3>1, <3>2 DEF CreditsInv
  <2>2. CASE SyncOpen
    <3>1. UNCHANGED <<checkpoint, deposits, log>> /\ sync'.batch = sync.batch
      BY <2>2, <2>g DEF SyncOpen, SyncGoto, ledgerVars, relayVars, Syncs
    <3>2. sync'.pc = "commit" => AreNew(sync.batch)
      BY <2>2, <2>g DEF SyncOpen, SyncGoto, Syncs
    <3>3. Credited'
      BY <2>l, <3>1 DEF Credited, CreditsInv
    <3>4. sync'.pc = "commit" => AreNew(sync.batch)'
      BY <3>1, <3>2 DEF AreNew, DepositsIn, DepositLogs
    <3>5. QED
      BY <3>3, <3>4 DEF CreditsInv
  <2>3. CASE SyncCommit
    <3> DEFINE n == Len(sync.batch)
    <3>0. log' = log /\ sync.pc = "commit" /\ sync'.pc # "commit"
      <4>1. /\ Rest.pc = "idle"
            /\ [Rest EXCEPT !.pc = "fetch", !.checkpoint = NextCheckpoint].pc = "fetch"
        BY DEF Rest
      <4>2. QED
        BY <2>3, <4>1 DEF SyncCommit, relayVars
    <3>1. /\ log' = log /\ deposits' = deposits \cup DepositsIn(sync.batch)
          /\ checkpoint' = checkpoint + n /\ checkpoint + n <= Len(log)
          /\ sync.batch = SubSeq(log, checkpoint + 1, checkpoint + n)
          /\ sync.pc = "commit" /\ sync'.pc # "commit"
      BY <2>3, <2>g, <3>0 DEF SyncCommit, NextCheckpoint, Syncs, NextBatch
    <3>2. AreNew(sync.batch) /\ sync.batch \in Seq(Event) /\ n \in Nat
      BY <2>g, <3>1 DEF CreditsInv, Syncs
    <3>3. /\ \A i \in DepositLogs(sync.batch) : sync.batch[i].subject \notin deposits
          /\ \A i, j \in DepositLogs(sync.batch) :
                sync.batch[i].subject = sync.batch[j].subject => i = j
      BY <3>2, NewMeans
    \* The places of the new part of the log.
    <3>4. ASSUME NEW i \in (checkpoint + 1) .. (checkpoint + n), log[i].type = "deposit"
          PROVE  /\ i - checkpoint \in DepositLogs(sync.batch)
                 /\ sync.batch[i - checkpoint] = log[i]
                 /\ log[i].subject \in deposits' /\ log[i].subject \notin deposits
                 /\ Transfer[log[i].subject]
                      = [from |-> log[i].address, amount |-> log[i].amount]
      <4>1. /\ DOMAIN sync.batch = 1 .. n /\ i - checkpoint \in 1 .. n
        BY <2>l, <3>2
      <4>2. sync.batch[i - checkpoint] = log[i]
        BY <2>g, <2>l, <3>1, <3>2, <4>1 DEF Relays
      <4>3. i - checkpoint \in DepositLogs(sync.batch)
        BY <3>4, <4>1, <4>2 DEF DepositLogs
      <4>4. log[i].subject \in DepositsIn(sync.batch)
        BY <4>2, <4>3 DEF DepositsIn
      <4>5. Transfer[log[i].subject] = [from |-> log[i].address, amount |-> log[i].amount]
        <5>1. \A k \in DOMAIN sync.batch :
                 sync.batch[k].type = "deposit" =>
                    Transfer[sync.batch[k].subject]
                      = [from |-> sync.batch[k].address, amount |-> sync.batch[k].amount]
          BY <2>g, <3>1 DEF Syncs, NextBatch
        <5>2. QED
          BY <3>4, <4>1, <4>2, <5>1
      <4>6. QED
        BY <3>1, <3>3, <4>2, <4>3, <4>4, <4>5
    <3>5. \A i \in 1 .. (checkpoint + n) :
             i \in 1 .. checkpoint \/ i \in (checkpoint + 1) .. (checkpoint + n)
      BY <2>l, <3>2
    <3> HIDE DEF n
    <3>6. ASSUME NEW i \in 1 .. (checkpoint + n), log[i].type = "deposit"
          PROVE  /\ log[i].subject \in deposits'
                 /\ Transfer[log[i].subject]
                      = [from |-> log[i].address, amount |-> log[i].amount]
                 /\ i \in 1 .. checkpoint <=> log[i].subject \in deposits
      BY <3>1, <3>4, <3>5, <3>6 DEF CreditsInv, Credited
    <3>7. ASSUME NEW i \in 1 .. (checkpoint + n), log[i].type = "deposit",
                 NEW j \in 1 .. (checkpoint + n), log[j].type = "deposit",
                 log[j].subject = log[i].subject
          PROVE  j = i
      <4>1. CASE log[i].subject \in deposits
        <5>1. i \in 1 .. checkpoint /\ j \in 1 .. checkpoint
          BY <3>6, <3>7, <4>1
        <5>2. QED
          BY <3>7, <5>1 DEF CreditsInv, Credited
      <4>2. CASE log[i].subject \notin deposits
        <5>1. /\ i \in (checkpoint + 1) .. (checkpoint + n)
              /\ j \in (checkpoint + 1) .. (checkpoint + n)
          BY <3>5, <3>6, <3>7, <4>2
        <5>2. /\ i - checkpoint \in DepositLogs(sync.batch)
              /\ j - checkpoint \in DepositLogs(sync.batch)
              /\ sync.batch[i - checkpoint].subject = sync.batch[j - checkpoint].subject
          BY <3>4, <3>7, <5>1
        <5>3. i - checkpoint = j - checkpoint
          BY <3>3, <5>2
        <5>4. QED
          BY <2>l, <5>3
      <4>3. QED
        BY <4>1, <4>2
    <3>8. Credited'
      BY <3>1, <3>6, <3>7 DEF Credited
    <3>9. QED
      BY <3>1, <3>8 DEF CreditsInv
  <2>4. CASE SyncStart \/ SyncFetch \/ SyncCheck \/ SyncFails \/ Restart
    <3>1. UNCHANGED <<checkpoint, deposits>>
      BY <2>4 DEF SyncStart, SyncFetch, SyncCheck, SyncFails, Restart, ledgerVars
    <3>2. sync'.pc # "commit"
      <4>1. SyncStart => sync'.pc = "fetch"
        BY DEF SyncStart, Rest
      <4>2. SyncFetch => sync'.pc = "check"
        BY <2>g DEF SyncFetch, Syncs
      <4>3. SyncCheck => sync'.pc # "commit"
        BY <2>g DEF SyncCheck, SyncGoto, Syncs
      <4>4. SyncFails \/ Restart => sync'.pc = "idle"
        BY DEF SyncFails, Restart, Rest
      <4>5. QED
        BY <2>4, <4>1, <4>2, <4>3, <4>4
    <3>3. QED
      BY <2>1, <3>1, <3>2
  <2>5. CASE UNCHANGED <<checkpoint, deposits, sync>>
    BY <2>1, <2>5
  <2>6. QED
    BY <2>2, <2>3, <2>4, <2>5
       DEF Next, vars, ledgerVars, Environment, Publish, Mine, Tick, Sync, Withdraw, TakeUp,
           Gate, Payout, DebitOpen, DebitCommit
<1>3. QED
  BY <1>1, <1>2, TablesHold, PTL DEF Spec

LEMMA DepositsReal ==
  ASSUME Tables, Credited
  PROVE  DepositsAreReal
<1>1. /\ DepositLogs(SubSeq(log, 1, checkpoint)) \subseteq 1 .. checkpoint
      /\ \A i \in DepositLogs(SubSeq(log, 1, checkpoint)) : log[i].type = "deposit"
  <2>1. log \in Seq(Event) /\ checkpoint \in 0 .. Len(log)
    BY DEF Tables, Relays, Syncs
  <2>2. /\ DOMAIN SubSeq(log, 1, checkpoint) = 1 .. checkpoint
        /\ \A i \in 1 .. checkpoint : SubSeq(log, 1, checkpoint)[i] = log[i]
    BY <2>1
  <2>3. QED
    BY <2>2 DEF DepositLogs
<1>2. QED
  BY <1>1 DEF DepositsAreReal, Credited

\* A deposit is credited at most once, to its sender and with its amount, whatever
\* Relay sends and whatever fails: validateDepositLog compares the transfer, and
\* saveDepositRecords inserts as many rows as there are deposits or rolls back.
THEOREM CreditedDepositsAreReal == Spec => []DepositsAreReal
<1>1. Tables /\ CreditsInv => DepositsAreReal
  BY DepositsReal DEF CreditsInv
<1>2. QED
  BY <1>1, TablesHold, CreditedHolds, PTL

-----------------------------------------------------------------------------
(* Withdrawals that Relay's ledger covers. *)

LEMMA TotalMonotone ==
  ASSUME Relays, Syncs, LogIsPublished, NEW S \in SUBSET Gated, NEW T \in SUBSET S
  PROVE  TotalOf(T) <= TotalOf(S)
<1> DEFINE G == [w \in Gated |-> Amount(w)]
<1>1. IsFiniteSet(S)
  BY TotalType
<1>2. \A w \in S : G[w] \in Nat
  <2> SUFFICES ASSUME NEW w \in S PROVE Amount(w) \in Nat
    OBVIOUS
  <2>1. IsPublished(w)
    BY DEF Gated, IsGated
  <2>2. QED
    BY <2>1, AnchorFacts
<1>3. T \in SUBSET Gated
  OBVIOUS
<1>4. TotalOf(S) = SumFunctionOnSet(G, S) /\ TotalOf(T) = SumFunctionOnSet(G, T)
  BY <1>3, TotalIs
<1> HIDE DEF G
<1>5. SumFunctionOnSet(G, T) <= SumFunctionOnSet(G, S)
  BY <1>1, <1>2, SumMonotone
<1>6. QED
  BY <1>4, <1>5

LEMMA TotalOfOne ==
  ASSUME Relays, Syncs, LogIsPublished, NEW w \in Gated
  PROVE  TotalOf({w}) = Amount(w)
<1>1. {} \in SUBSET Gated /\ w \in Gated \ {} /\ {} \cup {w} = {w}
  OBVIOUS
<1>2. TotalOf({} \cup {w}) = Amount(w) + TotalOf({})
  BY <1>1, TotalAdd
<1>3. TotalOf({}) = 0
  BY SumEmpty DEF TotalOf
<1>4. Amount(w) \in Nat
  BY AnchorFacts DEF Gated, IsGated
<1>5. QED
  BY <1>1, <1>2, <1>3, <1>4

WithdrawalsArePositive == \A e \in Catalogue : e.type = "withdraw" => e.amount > 0

\* The account of a withdrawal that is on its way holds what is outstanding.
LEMMA OwnersAreCovered ==
  ASSUME WithdrawalsArePositive, Ground, Balances, BalancesMatchLog,
         NEW w \in Withdrawal, IsGated(w),
         withdrawal[w] \notin {"debited", "rejected", "refused"}
  PROVE  /\ w \in OutstandingOf(Owner(w)) /\ Owner(w) \in DOMAIN account
         /\ \A T \in SUBSET OutstandingOf(Owner(w)) : TotalOf(T) <= account[Owner(w)]
         /\ IsCovered(w)
<1>g. Relays /\ Syncs /\ LogIsPublished /\ WithdrawalsFollowLog
  BY GroundParts
<1>1. PICK a \in Address : a = Owner(w)
  BY <1>g, AnchorFacts DEF IsGated
<1>2. w \in OutstandingOf(a)
  <2>1. ASSUME IsRefunded(w) PROVE FALSE
    <3>1. PICK i \in 1 .. checkpoint : log[i].type = "withdrawRefund" /\ log[i].subject = w
      BY <2>1 DEF IsRefunded
    <3>2. i \in DOMAIN log
      BY <1>g DEF Relays, Syncs
    <3>3. QED
      BY <3>1, <3>2 DEF WithdrawalsFollowLog, Ground
  <2>2. QED
    BY <1>1, <2>1 DEF OutstandingOf
<1>3. Amount(w) \in Nat /\ Amount(w) > 0
  <2>1. /\ Anchor(w) \in DOMAIN log /\ log[Anchor(w)].type = "withdraw"
        /\ Amount(w) \in Nat
    BY <1>g, AnchorFacts DEF IsGated
  <2>2. log[Anchor(w)] \in Event /\ Published(log[Anchor(w)])
    BY <1>g, <2>1 DEF Relays, LogIsPublished, Published
  <2>3. PICK c \in Catalogue : c.type = log[Anchor(w)].type /\ c.amount = log[Anchor(w)].amount
    BY <2>2, PublishedFacts
  <2>4. QED
    BY <2>1, <2>3 DEF WithdrawalsArePositive, Amount
<1>4. OutstandingOf(a) \in SUBSET Gated /\ Outstanding(a) = TotalOf(OutstandingOf(a))
  BY OutstandingIs, TakenParts
<1>5. \A T \in SUBSET OutstandingOf(a) : TotalOf(T) <= Outstanding(a) /\ TotalOf(T) \in Nat
  <2> SUFFICES ASSUME NEW T \in SUBSET OutstandingOf(a)
               PROVE  TotalOf(T) <= Outstanding(a) /\ TotalOf(T) \in Nat
    OBVIOUS
  <2>1. T \in SUBSET Gated
    BY <1>4
  <2>2. QED
    BY <1>g, <1>4, <2>1, TotalMonotone, TotalType
<1>6. Amount(w) <= Outstanding(a)
  <2>1. w \in Gated /\ {w} \in SUBSET OutstandingOf(a)
    BY <1>2, <1>4
  <2>2. TotalOf({w}) = Amount(w)
    BY <1>g, <2>1, TotalOfOne
  <2>3. QED
    BY <1>5, <2>1, <2>2
<1>7. RelayBalance(a, checkpoint) >= 0 /\ RelayBalance(a, checkpoint) \in Int
  <2>1. checkpoint \in 0 .. Len(log)
    BY <1>g DEF Syncs
  <2>2. QED
    BY <1>g, <2>1, BookIs DEF LogIsPublished
<1>8. /\ Outstanding(a) \in Nat /\ DebitsOf(a) \in Nat /\ TotalOf(RefundedOf(a)) \in Nat
      /\ TotalOf(GatedOf(a)) = Outstanding(a) + DebitsOf(a) + TotalOf(RefundedOf(a))
      /\ RelayBalance(a, checkpoint) + TotalOf(GatedOf(a))
           = Merged(SubSeq(log, 1, checkpoint), a) + TotalOf(RefundedOf(a))
  BY BookIs, TakenParts
<1>9. a \in DOMAIN account
  <2> SUFFICES ASSUME a \notin DOMAIN account PROVE FALSE
    OBVIOUS
  <2>1. SubSeq(log, 1, checkpoint) \in Seq(Event)
    BY <1>g DEF Relays, Syncs
  <2>2. Merged(SubSeq(log, 1, checkpoint), a) = 0
    BY <2>1, MergedType DEF Balances
  <2>3. QED
    BY <1>3, <1>6, <1>7, <1>8, <2>2
<1>10. account[a] = RelayBalance(a, checkpoint) + Outstanding(a)
  BY <1>9 DEF BalancesMatchLog
<1>11. Outstanding(a) <= account[a] /\ account[a] \in Int
  BY <1>7, <1>8, <1>10
<1>12. \A T \in SUBSET OutstandingOf(a) : TotalOf(T) <= account[a]
  BY <1>5, <1>8, <1>11
<1>13. Amount(w) <= account[a]
  BY <1>3, <1>6, <1>8, <1>11
<1>14. QED
  BY <1>1, <1>2, <1>9, <1>12, <1>13 DEF IsCovered

Backed == requests = "running" /\ \A w \in Withdrawal : withdrawal[w] # "refused"

LEMMA BackedHolds ==
  ASSUME Serializable, WithdrawalsArePositive
  PROVE  Spec => []Backed
<1>1. Init => Backed
  BY DEF Init, Backed
<1>2. Ground /\ Balances /\ BalancesMatchLog /\ Backed /\ [Next]_vars => Backed'
  <2> SUFFICES ASSUME Ground, Balances, BalancesMatchLog, Backed, [Next]_vars PROVE Backed'
    OBVIOUS
  <2>g. Relays /\ Syncs /\ Tasks /\ LogIsPublished /\ WithdrawalsFollowLog
    BY GroundParts
  <2>t. withdrawal \in [Withdrawal -> WithdrawalState]
    BY <2>g DEF Tasks
  <2>1. ASSUME NEW S \in SUBSET Withdrawal, TakeUp(S) PROVE Backed'
    <3>1. ASSUME NEW w \in S
          PROVE  Owner(w) \in DOMAIN account /\ Demanded(S, Owner(w)) <= account[Owner(w)]
      <4>1. IsGated(w) /\ withdrawal[w] = "relay"
        BY <2>1 DEF TakeUp
      <4>2. {v \in S : Owner(v) = Owner(w)} \in SUBSET OutstandingOf(Owner(w))
        <5> SUFFICES ASSUME NEW v \in S, Owner(v) = Owner(w)
                     PROVE  v \in OutstandingOf(Owner(w))
          OBVIOUS
        <5>1. IsGated(v) /\ withdrawal[v] = "relay"
          BY <2>1 DEF TakeUp
        <5>2. v \in OutstandingOf(Owner(v))
          BY <5>1, OwnersAreCovered
        <5>3. QED
          BY <5>2
      <4>3. /\ Owner(w) \in DOMAIN account
            /\ \A T \in SUBSET OutstandingOf(Owner(w)) : TotalOf(T) <= account[Owner(w)]
        BY <4>1, OwnersAreCovered
      <4>4. QED
        BY <4>2, <4>3 DEF Demanded
    <3>2. requests' = requests
      BY <2>1, <3>1 DEF TakeUp
    <3>3. \A w \in Withdrawal : withdrawal'[w] = withdrawal[w] \/ withdrawal'[w] = "pending"
      BY <2>1 DEF TakeUp
    <3>4. QED
      BY <3>2, <3>3 DEF Backed
  <2>2. ASSUME NEW w \in Withdrawal, Gate(w) PROVE Backed'
    <3>1. withdrawal[w] = "pending" /\ requests' = requests
      BY <2>2 DEF Gate
    <3>2. IsGated(w)
      BY <2>g, <3>1 DEF WithdrawalsFollowLog
    <3>3. IsCovered(w)
      BY <3>1, <3>2, OwnersAreCovered
    <3>4. withdrawal' = [withdrawal EXCEPT ![w] = "paying"]
      BY <2>2, <3>3 DEF Gate
    <3>5. QED
      BY <2>t, <3>1, <3>4 DEF Backed
  <2>3. ASSUME NEW w \in Withdrawal, Payout(w) PROVE Backed'
    BY <2>3, <2>t DEF Payout, Backed
  <2>4. CASE DebitCommit
    BY <2>4, <2>t DEF DebitCommit, Backed
  <2>5. CASE Restart
    BY <2>5 DEF Restart, Backed
  <2>6. CASE UNCHANGED <<requests, withdrawal>>
    BY <2>6 DEF Backed
  <2>7. QED
    BY <2>1, <2>2, <2>3, <2>4, <2>5, <2>6
       DEF Next, vars, withdrawalVars, Environment, Publish, Mine, Tick, Sync, SyncStart,
           SyncFetch, SyncCheck, SyncOpen, SyncCommit, SyncFails, Withdraw, DebitOpen
<1>3. Spec => []BalancesMatchLog
  BY BalancesFollowTheLog
<1>4. QED
  BY <1>1, <1>2, <1>3, GroundHolds, BalancesHold, PTL DEF Spec

\* A withdrawal that Relay's ledger covers is never refused for its balance, and the
\* task that takes withdrawals up never stops for one: when the anchor event of a
\* withdrawal has passed the gate of syncWithdrawalRequests the copy holds what the
\* withdrawal needs, to the debit.  Serialised transactions keep the copy exact, and
\* a withdrawal of nothing could be of an account that has no row.
THEOREM CoveredWithdrawalsProceed ==
  ASSUME Serializable, WithdrawalsArePositive
  PROVE  Spec => []BackedWithdrawalsProceed
<1>1. Ground /\ Balances /\ BalancesMatchLog /\ Backed => BackedWithdrawalsProceed
  <2> SUFFICES ASSUME Ground, Balances, BalancesMatchLog, Backed,
                      NEW w \in Withdrawal, withdrawal[w] \in {"paying", "paid"}
               PROVE  IsCovered(w)
    BY DEF Backed, BackedWithdrawalsProceed
  <2>1. IsGated(w)
    BY GroundParts DEF WithdrawalsFollowLog
  <2>2. QED
    BY <2>1, OwnersAreCovered
<1>2. Spec => []BalancesMatchLog
  BY BalancesFollowTheLog
<1>3. Spec => []Backed
  BY BackedHolds
<1>4. QED
  BY <1>1, <1>2, <1>3, GroundHolds, BalancesHold, PTL

-----------------------------------------------------------------------------
(* Vestings: the fold over a batch, event by event. *)

\* Induction over the numbers up to n.
LEMMA UpTo ==
  ASSUME NEW S, NEW n \in Nat, 0 \in S, \A k \in 0 .. (n - 1) : k \in S => k + 1 \in S
  PROVE  \A k \in 0 .. n : k \in S
<1> DEFINE C == {k \in 0 .. n : k \notin S}
<1>1. SUFFICES ASSUME C # {} PROVE FALSE
  OBVIOUS
<1>2. C \in SUBSET Nat
  OBVIOUS
<1>3. PICK k \in C : \A m \in C : k <= m
  <2> HIDE DEF C
  <2>1. QED
    BY <1>1, <1>2, SmallestNumber
<1>4. k \in 0 .. n /\ k # 0
  BY <1>3
<1>5. k - 1 \in 0 .. (n - 1) /\ k - 1 \in 0 .. n /\ (k - 1) + 1 = k
  BY <1>4
<1>6. k - 1 \in S
  BY <1>3, <1>5
<1>7. QED
  BY <1>3, <1>5, <1>6

LEMMA LargestPlace ==
  ASSUME NEW n \in Nat, NEW s \in SUBSET (1 .. n), s # {}
  PROVE  Max(s) \in s /\ \A x \in s : x <= Max(s)
<1> DEFINE C == {k \in Nat : \E x \in s : k = n - x}
<1>1. PICK y \in s : TRUE
  OBVIOUS
<1>2. n - y \in C
  OBVIOUS
<1>3. C \in SUBSET Nat /\ C # {}
  BY <1>2
<1>4. PICK k \in C : \A m \in C : k <= m
  <2> HIDE DEF C
  <2>1. QED
    BY <1>3, SmallestNumber
<1>5. PICK x \in s : k = n - x
  BY <1>4
<1>6. \A z \in s : z <= x
  <2> SUFFICES ASSUME NEW z \in s PROVE z <= x
    OBVIOUS
  <2>1. n - z \in C
    OBVIOUS
  <2>2. k <= n - z
    BY <1>4, <2>1
  <2>3. QED
    BY <1>5, <2>2
<1>7. \E m \in s : \A z \in s : m >= z
  <2>1. \A z \in s : x >= z
    BY <1>6
  <2>2. QED
    BY <2>1
<1>8. Max(s) \in s /\ \A z \in s : Max(s) >= z
  BY <1>7 DEF Max
<1>9. QED
  BY <1>8

\* The equation that the results of a fold over the places of a batch satisfy.
Folds(g, table, batch, today, D) ==
    g = [s \in D |-> IF s = {} THEN [ok |-> TRUE, table |-> table]
                     ELSE ApplyVesting(g[s \ {Max(s)}], batch[Max(s)], today)]

LEMMA FoldsExists ==
  ASSUME NEW table, NEW batch \in Seq(Event), NEW today
  PROVE  \E g : Folds(g, table, batch, today, SUBSET DOMAIN batch)
<1> DEFINE N == Len(batch)
           S == 1 .. N
           base == [ok |-> TRUE, table |-> table]
           \* the subsets whose places do not lie beyond n
           D(n) == {s \in SUBSET S : \A x \in s : x <= n}
           C == {n \in Nat : \E g : Folds(g, table, batch, today, D(n))}
<1>0. N \in Nat /\ DOMAIN batch = S
  OBVIOUS
<1>1. \A s \in SUBSET S : s # {} => Max(s) \in s /\ \A x \in s : x <= Max(s)
  BY <1>0, LargestPlace
<1>2. 0 \in C
  <2> DEFINE g == [s \in D(0) |-> base]
  <2>1. \A s \in D(0) : s = {}
    OBVIOUS
  <2>2. Folds(g, table, batch, today, D(0))
    BY <2>1 DEF Folds
  <2>3. QED
    BY <2>2
<1>3. ASSUME NEW n \in Nat, NEW g, Folds(g, table, batch, today, D(n))
      PROVE  \E h : Folds(h, table, batch, today, D(n + 1))
  <2> DEFINE E == D(n + 1)
             h == [s \in E |-> IF s = {} THEN base
                               ELSE ApplyVesting(g[s \ {Max(s)}], batch[Max(s)], today)]
  <2>0. \A s \in D(n) : s \in E
    OBVIOUS
  <2>1. \A s \in D(n) : h[s] = g[s]
    <3>1. g = [s \in D(n) |-> IF s = {} THEN base
                              ELSE ApplyVesting(g[s \ {Max(s)}], batch[Max(s)], today)]
      BY <1>3 DEF Folds
    <3> HIDE DEF D, base
    <3>2. QED
      BY <2>0, <3>1
  <2>2. ASSUME NEW s \in E, s # {} PROVE s \ {Max(s)} \in D(n)
    <3>1. s \in SUBSET S /\ \A x \in s : x \in Nat /\ x <= n + 1
      OBVIOUS
    <3>2. Max(s) \in s /\ \A x \in s : x <= Max(s)
      BY <1>1, <2>2, <3>1
    <3>3. PICK m \in s : m = Max(s)
      BY <3>2
    <3>4. m \in Nat /\ m <= n + 1 /\ \A x \in s : x \in Nat /\ x <= m
      BY <3>1, <3>2, <3>3
    <3>5. \A x \in s \ {m} : x <= n
      BY <3>4
    <3>6. QED
      BY <3>1, <3>3, <3>5
  <2> HIDE DEF D
  <2>3. \A s \in E : s # {} => h[s \ {Max(s)}] = g[s \ {Max(s)}]
    BY <2>1, <2>2
  <2> HIDE DEF base
  <2>4. h = [s \in E |-> IF s = {} THEN base
                         ELSE ApplyVesting(h[s \ {Max(s)}], batch[Max(s)], today)]
    BY <2>3
  <2>5. QED
    BY <2>4 DEF Folds, base
<1>4. \A k \in 0 .. (N - 1) : k \in C => k + 1 \in C
  <2> SUFFICES ASSUME NEW k \in 0 .. (N - 1), k \in C PROVE k + 1 \in C
    OBVIOUS
  <2>0. k \in Nat /\ \E g : Folds(g, table, batch, today, D(k))
    <3> HIDE DEF D
    <3>1. QED
      OBVIOUS
  <2>1. k \in Nat /\ k + 1 \in Nat /\ \E g : Folds(g, table, batch, today, D(k))
    <3>1. k + 1 \in Nat
      BY <2>0
    <3> HIDE DEF D
    <3>2. QED
      BY <2>0, <3>1
  <2>2. \E h : Folds(h, table, batch, today, D(k + 1))
    <3> HIDE DEF D
    <3>1. QED
      BY <1>3, <2>1
  <2>3. QED
    BY <2>1, <2>2
<1>5. N \in C
  <2> HIDE DEF C
  <2>1. N \in 0 .. N
    BY <1>0
  <2>2. QED
    BY <1>0, <1>2, <1>4, <2>1, UpTo
<1>6. D(N) = SUBSET DOMAIN batch
  BY <1>0
<1>7. QED
  BY <1>5, <1>6

\* The results of a fold after each event of the batch.
Runs(r, table, batch, today) ==
    /\ r[0] = [ok |-> TRUE, table |-> table]
    /\ \A k \in 1 .. Len(batch) : r[k] = ApplyVesting(r[k - 1], batch[k], today)

LEMMA RunsExists ==
  ASSUME NEW table, NEW batch \in Seq(Event), NEW today
  PROVE  \E r : /\ Runs(r, table, batch, today)
                /\ r[Len(batch)] = ApplyVestings(table, batch, today)
<1> DEFINE n == Len(batch)
           g == CHOOSE g : Folds(g, table, batch, today, SUBSET DOMAIN batch)
           r == [k \in 0 .. n |-> g[1 .. k]]
<1>1. Folds(g, table, batch, today, SUBSET DOMAIN batch)
  BY FoldsExists
<1>2. ApplyVestings(table, batch, today) = g[DOMAIN batch]
  BY DEF ApplyVestings, FoldLeft, MapThenFoldSet, Folds
<1>3. n \in Nat /\ DOMAIN batch = 1 .. n
  OBVIOUS
<1>4. g[1 .. 0] = [ok |-> TRUE, table |-> table]
  <2>1. 1 .. 0 = {} /\ {} \in SUBSET DOMAIN batch
    OBVIOUS
  <2> HIDE DEF g
  <2>2. QED
    BY <1>1, <2>1 DEF Folds
<1>5. ASSUME NEW k \in 1 .. n
      PROVE  g[1 .. k] = ApplyVesting(g[1 .. (k - 1)], batch[k], today)
  <2>0. k \in Nat /\ k >= 1 /\ k <= n
    BY <1>3
  <2>1. 1 .. k \in SUBSET DOMAIN batch /\ 1 .. k # {} /\ k \in 1 .. k
    <3>1. k \in 1 .. k
      BY <2>0
    <3>2. \A x \in 1 .. k : x \in 1 .. n
      BY <1>3, <2>0
    <3> HIDE DEF n
    <3>3. QED
      BY <1>3, <3>1, <3>2
  <2>2. Max(1 .. k) = k
    <3>1. k \in Nat
      BY <1>3
    <3>2. Max(1 .. k) \in 1 .. k /\ \A x \in 1 .. k : x <= Max(1 .. k)
      BY <2>1, <3>1, LargestPlace
    <3>3. QED
      BY <2>1, <3>1, <3>2
  <2>3. (1 .. k) \ {k} = 1 .. (k - 1)
    BY <1>3
  <2> HIDE DEF g
  <2>4. g[1 .. k] = ApplyVesting(g[(1 .. k) \ {Max(1 .. k)}], batch[Max(1 .. k)], today)
    BY <1>1, <2>1 DEF Folds
  <2>5. QED
    BY <2>2, <2>3, <2>4
<1> HIDE DEF g
<1>6. Runs(r, table, batch, today)
  <2>1. r[0] = g[1 .. 0] /\ \A k \in 1 .. n : r[k] = g[1 .. k] /\ r[k - 1] = g[1 .. (k - 1)]
    BY <1>3
  <2> HIDE DEF r
  <2>2. QED
    BY <1>4, <1>5, <2>1 DEF Runs
<1>7. r[n] = g[1 .. n]
  BY <1>3
<1>8. QED
  BY <1>2, <1>3, <1>6, <1>7

\* The tables after a creation and after a release that fit.
WithNew(table, e) ==
    [v \in DOMAIN table \cup {e.subject} |->
        IF v \in DOMAIN table THEN table[v] ELSE NewVesting(e.terms)]
WithRelease(table, e) == [table EXCEPT ![e.subject] = Release(@, e.amount)]

\* What an event does to the table of the vestings if it fits.
LEMMA ApplyFacts ==
  ASSUME NEW q, DOMAIN q = {"ok", "table"}, q.ok \in BOOLEAN, NEW e, NEW today,
         NEW after, after = ApplyVesting(q, e, today)
  PROVE  /\ DOMAIN after = {"ok", "table"} /\ after.ok \in BOOLEAN
         /\ after.ok =>
              /\ q.ok
              /\ \/ e.type \notin VestingEvents /\ after = q
                 \/ /\ e.type = "vestingCreated" /\ CanCreate(q.table, e)
                    /\ after.table = WithNew(q.table, e)
                 \/ /\ e.type = "vestingRelease" /\ CanRelease(q.table, e, today)
                    /\ after.table = WithRelease(q.table, e)
<1>1. CASE e.type \notin VestingEvents \/ ~q.ok
  <2>1. after = q
    BY <1>1 DEF ApplyVesting
  <2>2. QED
    BY <1>1, <2>1
<1>2. CASE e.type \in VestingEvents /\ q.ok /\ e.type = "vestingCreated" /\ CanCreate(q.table, e)
  <2> DEFINE T == WithNew(q.table, e)
  <2>1. after = [q EXCEPT !.table = T]
    BY <1>2 DEF ApplyVesting, WithNew
  <2> HIDE DEF T
  <2>2. DOMAIN after = {"ok", "table"} /\ after.ok = q.ok /\ after.table = T
    BY <2>1
  <2>3. QED
    BY <1>2, <2>2 DEF T
<1>3. CASE e.type \in VestingEvents /\ q.ok /\ e.type = "vestingRelease"
           /\ CanRelease(q.table, e, today)
  <2> DEFINE T == WithRelease(q.table, e)
  <2>1. after = [q EXCEPT !.table = T]
    BY <1>3 DEF ApplyVesting, WithRelease
  <2> HIDE DEF T
  <2>2. DOMAIN after = {"ok", "table"} /\ after.ok = q.ok /\ after.table = T
    BY <2>1
  <2>3. QED
    BY <1>3, <2>2 DEF T
<1>4. CASE e.type \in VestingEvents /\ q.ok
           /\ ~(e.type = "vestingCreated" /\ CanCreate(q.table, e))
           /\ ~(e.type = "vestingRelease" /\ CanRelease(q.table, e, today))
  <2>1. after = [q EXCEPT !.ok = FALSE]
    BY <1>4 DEF ApplyVesting
  <2>2. DOMAIN after = {"ok", "table"} /\ after.ok = FALSE
    BY <2>1
  <2>3. QED
    BY <2>2
<1>5. QED
  BY <1>1, <1>2, <1>3, <1>4

\* What a fold carries from event to event, and whether all of them fitted.
IsResult(q) == DOMAIN q = {"ok", "table"} /\ q.ok \in BOOLEAN
Fits(q) == q.ok = TRUE

LEMMA ResultsAreKept ==
  ASSUME NEW q, IsResult(q), NEW e, NEW today
  PROVE  /\ IsResult(ApplyVesting(q, e, today))
         /\ Fits(ApplyVesting(q, e, today)) => Fits(q)
<1> DEFINE after == ApplyVesting(q, e, today)
<1>1. DOMAIN q = {"ok", "table"} /\ q.ok \in BOOLEAN /\ after = ApplyVesting(q, e, today)
  BY DEF IsResult
<1> HIDE DEF after
<1>2. DOMAIN after = {"ok", "table"} /\ after.ok \in BOOLEAN /\ (after.ok => q.ok)
  BY <1>1, ApplyFacts
<1>3. IsResult(after) /\ (Fits(after) => Fits(q))
  BY <1>1, <1>2 DEF IsResult, Fits
<1>4. QED
  BY <1>3 DEF after

LEMMA RunsAreResults ==
  ASSUME NEW table, NEW batch \in Seq(Event), NEW today, NEW r, Runs(r, table, batch, today)
  PROVE  \A k \in 0 .. Len(batch) : IsResult(r[k])
<1> DEFINE n == Len(batch)
           S == {k \in 0 .. n : IsResult(r[k])}
<1>0. n \in Nat
  OBVIOUS
<1>1. \A k \in 0 .. n : k \in S
  <2>1. 0 \in S
    <3>1. r[0] = [ok |-> TRUE, table |-> table]
      BY DEF Runs
    <3>2. DOMAIN r[0] = {"ok", "table"} /\ r[0].ok = TRUE
      BY <3>1
    <3>3. IsResult(r[0])
      BY <3>2 DEF IsResult
    <3>4. 0 \in 0 .. n
      BY <1>0
    <3>5. QED
      BY <3>3, <3>4
  <2>2. \A k \in 0 .. (n - 1) : k \in S => k + 1 \in S
    <3> SUFFICES ASSUME NEW k \in 0 .. (n - 1), k \in S PROVE k + 1 \in S
      OBVIOUS
    <3>1. k + 1 \in 1 .. n /\ k + 1 \in 0 .. n /\ (k + 1) - 1 = k
      BY <1>0
    <3>2. r[k + 1] = ApplyVesting(r[k], batch[k + 1], today)
      BY <3>1 DEF Runs
    <3>3. IsResult(r[k + 1])
      BY <3>2, ResultsAreKept
    <3>4. QED
      BY <3>1, <3>3
  <2> HIDE DEF S, n
  <2>3. QED
    BY <1>0, <2>1, <2>2, UpTo
<1>2. QED
  BY <1>1

\* A batch that fits has fitted event by event.
LEMMA RunsAreOk ==
  ASSUME NEW table, NEW batch \in Seq(Event), NEW today, NEW r, Runs(r, table, batch, today),
         Fits(r[Len(batch)])
  PROVE  \A k \in 0 .. Len(batch) : IsResult(r[k]) /\ Fits(r[k])
<1> DEFINE n == Len(batch)
           T == {k \in 0 .. n : Fits(r[n - k])}
<1>0. n \in Nat
  OBVIOUS
<1>1. \A k \in 0 .. n : IsResult(r[k])
  BY RunsAreResults
<1>2. \A k \in 0 .. n : k \in T
  <2>1. 0 \in T
    BY <1>0
  <2>2. \A k \in 0 .. (n - 1) : k \in T => k + 1 \in T
    <3> SUFFICES ASSUME NEW k \in 0 .. (n - 1), k \in T PROVE k + 1 \in T
      OBVIOUS
    <3>1. /\ n - k \in 1 .. n /\ (n - k) - 1 = n - (k + 1) /\ n - (k + 1) \in 0 .. n
          /\ k + 1 \in 0 .. n
      BY <1>0
    <3>2. r[n - k] = ApplyVesting(r[n - (k + 1)], batch[n - k], today)
      BY <3>1 DEF Runs
    <3>3. IsResult(r[n - (k + 1)])
      BY <1>1, <3>1
    <3>4. Fits(r[n - k])
      OBVIOUS
    <3>5. Fits(r[n - (k + 1)])
      BY <3>2, <3>3, <3>4, ResultsAreKept
    <3>6. QED
      BY <3>1, <3>5
  <2> HIDE DEF T, n
  <2>3. QED
    BY <1>0, <2>1, <2>2, UpTo
<1>3. ASSUME NEW k \in 0 .. n PROVE IsResult(r[k]) /\ Fits(r[k])
  <2>1. n - k \in 0 .. n /\ n - (n - k) = k
    BY <1>0
  <2>2. n - k \in T /\ IsResult(r[k])
    BY <1>1, <1>2, <2>1
  <2>3. Fits(r[n - (n - k)])
    BY <2>2
  <2>4. QED
    BY <2>1, <2>2, <2>3
<1>4. QED
  BY <1>3

-----------------------------------------------------------------------------
(* Vestings: what the table owes to a log s after its first n events. *)

ReleasesOf(s, v, n) == {i \in 1 .. n : s[i].type = "vestingRelease" /\ s[i].subject = v}
ReleasedOf(s, v, n) ==
    SumFunctionOnSet([i \in DOMAIN s |-> s[i].amount], ReleasesOf(s, v, n))
CreationsOf(s, v, n) == {c \in 1 .. n : s[c].type = "vestingCreated" /\ s[c].subject = v}

\* The record r of v goes back to a creation and counts the releases since.
IsSound(s, v, r, n) ==
    /\ r \in VestingRecord /\ r.terms.signed = TRUE /\ r.released <= r.terms.total
    /\ r.released = r.terms.released + ReleasedOf(s, v, n)
    /\ \E c \in CreationsOf(s, v, n) :
          s[c].terms = r.terms /\ \A i \in ReleasesOf(s, v, n) : c < i

\* The release at i keeps to the schedule of a creation before it.
OnSchedule(s, i) ==
    \E c \in CreationsOf(s, s[i].subject, i - 1) :
        LET t == s[c].terms
            x == t.released + ReleasedOf(s, s[i].subject, i)
        IN /\ t.signed = TRUE /\ t.address = s[i].address
           /\ x <= t.total
           /\ x * t.duration <= t.total * (s[i].day - t.start)

FollowsLog(s, table, n) ==
    /\ DOMAIN table \subseteq Vesting
    /\ \A v \in DOMAIN table : IsSound(s, v, table[v], n)
    /\ \A i \in 1 .. n :
          s[i].type = "vestingRelease" => s[i].subject \in DOMAIN table /\ OnSchedule(s, i)

LEMMA ReleasesFinite ==
  ASSUME NEW s, NEW v, NEW n \in Nat
  PROVE  IsFiniteSet(ReleasesOf(s, v, n))
<1>1. IsFiniteSet(1 .. n)
  BY FS_Interval
<1>2. ReleasesOf(s, v, n) \subseteq 1 .. n
  BY DEF ReleasesOf
<1>3. QED
  BY <1>1, <1>2, FS_Subset

LEMMA ReleasedType ==
  ASSUME NEW s \in Seq(Event), NEW v, NEW n \in 0 .. Len(s)
  PROVE  ReleasedOf(s, v, n) \in Nat
<1> DEFINE F == [i \in DOMAIN s |-> s[i].amount]
           S == ReleasesOf(s, v, n)
<1>1. IsFiniteSet(S)
  BY ReleasesFinite
<1>2. \A i \in S : i \in DOMAIN s /\ s[i] \in Event
  BY DEF ReleasesOf
<1>3. \A i \in S : F[i] \in Nat
  BY <1>2, EventFacts
<1> HIDE DEF F, S
<1>4. SumFunctionOnSet(F, S) \in Nat
  BY <1>1, <1>3, SumNatural
<1>5. QED
  BY <1>4 DEF F, S, ReleasedOf

LEMMA ReleasedNext ==
  ASSUME NEW s \in Seq(Event), NEW v, NEW n \in 0 .. Len(s), n + 1 <= Len(s)
  PROVE  IF s[n + 1].type = "vestingRelease" /\ s[n + 1].subject = v
         THEN /\ ReleasesOf(s, v, n + 1) = ReleasesOf(s, v, n) \cup {n + 1}
              /\ ReleasedOf(s, v, n + 1) = ReleasedOf(s, v, n) + s[n + 1].amount
         ELSE /\ ReleasesOf(s, v, n + 1) = ReleasesOf(s, v, n)
              /\ ReleasedOf(s, v, n + 1) = ReleasedOf(s, v, n)
<1> DEFINE F == [i \in DOMAIN s |-> s[i].amount]
           S == ReleasesOf(s, v, n)
<1>0. n \in Nat /\ 1 .. (n + 1) = (1 .. n) \cup {n + 1} /\ n + 1 \notin 1 .. n
  OBVIOUS
<1>1. CASE s[n + 1].type = "vestingRelease" /\ s[n + 1].subject = v
  <2>1. ReleasesOf(s, v, n + 1) = S \cup {n + 1} /\ n + 1 \notin S
    BY <1>0, <1>1 DEF ReleasesOf
  <2>2. IsFiniteSet(S)
    BY <1>0, ReleasesFinite
  <2>3. \A i \in S \cup {n + 1} : i \in DOMAIN s /\ s[i] \in Event
    BY DEF ReleasesOf
  <2>4. \A i \in S \cup {n + 1} : F[i] = s[i].amount /\ F[i] \in Int
    BY <2>3, EventFacts
  <2> HIDE DEF F, S
  <2>5. SumFunctionOnSet(F, S \cup {n + 1}) = F[n + 1] + SumFunctionOnSet(F, S)
    BY <2>1, <2>2, <2>4, SumAdd
  <2>6. ReleasedOf(s, v, n + 1) = F[n + 1] + ReleasedOf(s, v, n)
    BY <2>1, <2>5 DEF F, S, ReleasedOf
  <2>7. F[n + 1] = s[n + 1].amount /\ F[n + 1] \in Int /\ ReleasedOf(s, v, n) \in Nat
    BY <2>4, ReleasedType
  <2>8. ReleasedOf(s, v, n + 1) = ReleasedOf(s, v, n) + s[n + 1].amount
    BY <2>6, <2>7
  <2>9. QED
    BY <1>1, <2>1, <2>8 DEF S
<1>2. CASE ~(s[n + 1].type = "vestingRelease" /\ s[n + 1].subject = v)
  <2>1. ReleasesOf(s, v, n + 1) = ReleasesOf(s, v, n)
    BY <1>0, <1>2 DEF ReleasesOf
  <2>2. QED
    BY <1>2, <2>1 DEF ReleasedOf
<1>3. QED
  BY <1>1, <1>2

\* Two logs that agree on their first n events.
Agree(s, t, n) ==
    /\ s \in Seq(Event) /\ t \in Seq(Event) /\ n \in 0 .. Len(s) /\ n <= Len(t)
    /\ \A i \in 1 .. n : s[i] = t[i]

LEMMA AgreeParts ==
  ASSUME NEW s, NEW t, NEW n, Agree(s, t, n), NEW v
  PROVE  /\ ReleasesOf(s, v, n) = ReleasesOf(t, v, n)
         /\ ReleasedOf(s, v, n) = ReleasedOf(t, v, n)
         /\ CreationsOf(s, v, n) = CreationsOf(t, v, n)
<1> DEFINE F == [i \in DOMAIN s |-> s[i].amount]
           G == [i \in DOMAIN t |-> t[i].amount]
           S == ReleasesOf(s, v, n)
<1>0. n \in Nat /\ \A i \in 1 .. n : i \in DOMAIN s /\ i \in DOMAIN t /\ s[i] = t[i]
  BY DEF Agree
<1>1. S = ReleasesOf(t, v, n) /\ CreationsOf(s, v, n) = CreationsOf(t, v, n)
  BY <1>0 DEF ReleasesOf, CreationsOf
<1>2. IsFiniteSet(S)
  BY <1>0, ReleasesFinite
<1>3. \A i \in S : F[i] = G[i]
  BY <1>0 DEF ReleasesOf
<1> HIDE DEF F, G, S
<1>4. SumFunctionOnSet(F, S) = SumFunctionOnSet(G, S)
  BY <1>2, <1>3, SumEqual
<1>5. ReleasedOf(s, v, n) = ReleasedOf(t, v, n)
  BY <1>1, <1>4 DEF F, G, S, ReleasedOf
<1>6. QED
  BY <1>1, <1>5 DEF S

\* What a table owes to a log does not change with what is appended to it.
LEMMA FollowsPrefix ==
  ASSUME NEW s, NEW t, NEW n, Agree(s, t, n), NEW table, FollowsLog(s, table, n)
  PROVE  FollowsLog(t, table, n)
<1>0. n \in Nat /\ \A i \in 1 .. n : s[i] = t[i]
  BY DEF Agree
<1>1. ASSUME NEW v \in DOMAIN table PROVE IsSound(t, v, table[v], n)
  <2>1. IsSound(s, v, table[v], n)
    BY DEF FollowsLog
  <2>2. \A c \in CreationsOf(s, v, n) : s[c] = t[c]
    BY <1>0 DEF CreationsOf
  <2>3. QED
    BY <2>1, <2>2, AgreeParts DEF IsSound
<1>2. ASSUME NEW i \in 1 .. n, t[i].type = "vestingRelease"
      PROVE  t[i].subject \in DOMAIN table /\ OnSchedule(t, i)
  <2>1. s[i] = t[i] /\ s[i].type = "vestingRelease"
    BY <1>0, <1>2
  <2>2. s[i].subject \in DOMAIN table /\ OnSchedule(s, i)
    BY <2>1 DEF FollowsLog
  <2>3. Agree(s, t, i) /\ Agree(s, t, i - 1)
    BY DEF Agree
  <2>4. \A c \in CreationsOf(s, s[i].subject, i - 1) : s[c] = t[c]
    BY <2>3 DEF CreationsOf, Agree
  <2>5. /\ CreationsOf(t, s[i].subject, i - 1) = CreationsOf(s, s[i].subject, i - 1)
        /\ ReleasedOf(t, s[i].subject, i) = ReleasedOf(s, s[i].subject, i)
    BY <2>3, AgreeParts
  <2>6. OnSchedule(t, i)
    BY <2>1, <2>2, <2>4, <2>5 DEF OnSchedule
  <2>7. QED
    BY <2>1, <2>2, <2>6
<1>3. QED
  BY <1>1, <1>2 DEF FollowsLog

\* An amount that the schedule allows, compared without the division.
LEMMA ScheduleBound ==
  ASSUME NEW t \in Terms, NEW d \in Nat, NEW x \in Nat, x > 0, x <= t.total,
         x <= ShouldReleased(t, d)
  PROVE  x * t.duration <= t.total * (d - t.start)
<1> DEFINE p == t.total
           q == t.duration
           e == d - t.start
<1>1. p \in Nat /\ q \in Nat \ {0} /\ t.start \in Nat /\ e \in Int
  BY LedgerAssumption DEF Terms, Day
<1>2. d >= t.start
  BY <1>1 DEF ShouldReleased
<1>3. e \in Nat
  BY <1>1, <1>2
<1>4. \/ e >= q /\ x <= p
      \/ x <= (p * e) \div q
  BY <1>1, <1>2 DEF ShouldReleased
<1> HIDE DEF p, q, e
<1>5. CASE e >= q /\ x <= p
  <2>1. x * q <= p * q
    BY <1>1, <1>5
  <2>2. p * q <= p * e
    BY <1>1, <1>3, <1>5
  <2>3. x * q \in Nat /\ p * q \in Nat /\ p * e \in Nat
    BY <1>1, <1>3
  <2>4. x * q <= p * e
    BY <2>1, <2>2, <2>3
  <2>5. QED
    BY <2>4 DEF p, q, e
<1>6. CASE x <= (p * e) \div q
  <2>0. p * e \in Nat
    BY <1>1, <1>3
  <2>1. PICK m \in Nat : m = p * e
    BY <2>0
  <2>2. m \div q \in Nat /\ (m \div q) * q <= m
    BY <1>1
  <2>3. PICK k \in Nat : k = m \div q
    BY <2>2
  <2>4. x <= k /\ k * q <= m
    BY <1>6, <2>1, <2>2, <2>3
  <2>5. x * q <= k * q
    BY <1>1, <2>4
  <2>6. x * q \in Nat /\ k * q \in Nat
    BY <1>1
  <2>7. x * q <= p * e
    BY <2>1, <2>4, <2>5, <2>6
  <2>8. QED
    BY <2>7 DEF p, q, e
<1>7. QED
  BY <1>4, <1>5, <1>6

\* Places of the log a table already follows count for more events as well.
LEMMA SchedulesStay ==
  ASSUME NEW s \in Seq(Event), NEW n \in 0 .. Len(s), n + 1 <= Len(s), NEW v, NEW r,
         IsSound(s, v, r, n),
         ~(s[n + 1].type = "vestingRelease" /\ s[n + 1].subject = v)
  PROVE  IsSound(s, v, r, n + 1)
<1>1. ReleasesOf(s, v, n + 1) = ReleasesOf(s, v, n)
      /\ ReleasedOf(s, v, n + 1) = ReleasedOf(s, v, n)
  BY ReleasedNext
<1>2. CreationsOf(s, v, n) \subseteq CreationsOf(s, v, n + 1)
  BY DEF CreationsOf
<1>3. QED
  BY <1>1, <1>2 DEF IsSound

\* applyVestingCreatedLog for a vesting the table does not hold.
LEMMA CreationIsSound ==
  ASSUME NEW s \in Seq(Event), NEW n \in 0 .. Len(s), n + 1 <= Len(s), NEW table,
         FollowsLog(s, table, n), NEW e, e = s[n + 1], e.type = "vestingCreated",
         e.terms \in Terms, CanCreate(table, e), e.subject \notin DOMAIN table
  PROVE  IsSound(s, e.subject, NewVesting(e.terms), n + 1)
<1> DEFINE v == e.subject
           r == NewVesting(e.terms)
<1>1. e.terms.signed = TRUE /\ e.terms.released <= e.terms.total
  BY DEF CanCreate, Terms
<1>2. r \in VestingRecord /\ r.terms = e.terms /\ r.released = e.terms.released
  BY DEF NewVesting, VestingRecord, VestingStatus, Terms
<1>3. ReleasesOf(s, v, n) = {}
  BY DEF ReleasesOf, FollowsLog
<1>4. ReleasesOf(s, v, n + 1) = {} /\ ReleasedOf(s, v, n + 1) = 0
  <2>1. ReleasesOf(s, v, n + 1) = ReleasesOf(s, v, n)
    BY ReleasedNext
  <2>2. QED
    BY <1>3, <2>1, SumEmpty DEF ReleasedOf
<1>5. n + 1 \in CreationsOf(s, v, n + 1)
  BY DEF CreationsOf
<1>6. r.released = r.terms.released + 0
  BY <1>2 DEF Terms
<1> HIDE DEF r, v
<1>7. IsSound(s, v, r, n + 1)
  BY <1>1, <1>2, <1>4, <1>5, <1>6 DEF IsSound
<1>8. QED
  BY <1>7 DEF r, v

\* applyVestingReleaseLog.
LEMMA ReleaseIsSound ==
  ASSUME NEW s \in Seq(Event), NEW n \in 0 .. Len(s), n + 1 <= Len(s), NEW table,
         FollowsLog(s, table, n), NEW e, e = s[n + 1], e.type = "vestingRelease",
         NEW today, CanRelease(table, e, today)
  PROVE  /\ IsSound(s, e.subject, Release(table[e.subject], e.amount), n + 1)
         /\ OnSchedule(s, n + 1)
<1> DEFINE v == e.subject
           p == Release(table[v], e.amount)
<1>0. PICK r : r = table[v]
  OBVIOUS
<1>1. /\ e.amount > 0 /\ v \in DOMAIN table /\ r.terms.address = e.address
      /\ r.released + e.amount <= r.terms.total
      /\ r.released + e.amount <= ShouldReleased(r.terms, e.day)
  BY <1>0 DEF CanRelease
<1>2. IsSound(s, v, r, n)
  BY <1>0, <1>1 DEF FollowsLog
<1>3. e.amount \in Nat /\ e.day \in Nat
  <2>1. n + 1 \in 1 .. Len(s)
    OBVIOUS
  <2>2. e \in Event
    BY <2>1
  <2>3. QED
    BY <2>2 DEF Event
<1>4. r \in VestingRecord /\ r.terms \in Terms /\ r.released \in Nat
  BY <1>2 DEF IsSound, VestingRecord
<1>5. r.terms.released \in Nat /\ r.terms.total \in Nat
  BY <1>4 DEF Terms
<1>6. /\ ReleasesOf(s, v, n + 1) = ReleasesOf(s, v, n) \cup {n + 1}
      /\ ReleasedOf(s, v, n + 1) = ReleasedOf(s, v, n) + e.amount
  BY ReleasedNext
<1>7. ReleasedOf(s, v, n) \in Nat
  BY ReleasedType
<1>8. PICK c \in CreationsOf(s, v, n) :
         s[c].terms = r.terms /\ \A i \in ReleasesOf(s, v, n) : c < i
  BY <1>2 DEF IsSound
<1>9. PICK status \in VestingStatus :
         p = [r EXCEPT !.released = r.released + e.amount, !.status = status]
  BY <1>0 DEF Release, VestingStatus
<1>10. p \in VestingRecord /\ p.terms = r.terms /\ p.released = r.released + e.amount
  <2>1. PICK x \in Nat : x = r.released + e.amount
    BY <1>3, <1>4
  <2>2. p = [r EXCEPT !.released = x, !.status = status]
    BY <1>9, <2>1
  <2> HIDE DEF p
  <2>3. p \in VestingRecord /\ p.terms = r.terms /\ p.released = x
    BY <1>4, <2>2 DEF VestingRecord
  <2>4. QED
    BY <2>1, <2>3
<1>11. r.released + e.amount = r.terms.released + ReleasedOf(s, v, n + 1)
  <2>1. r.released = r.terms.released + ReleasedOf(s, v, n)
    BY <1>2 DEF IsSound
  <2>2. QED
    BY <1>3, <1>4, <1>5, <1>6, <1>7, <2>1
<1>12. c \in CreationsOf(s, v, n + 1) /\ \A i \in ReleasesOf(s, v, n + 1) : c < i
  <2>1. c \in 1 .. n /\ c < n + 1 /\ c \in 1 .. (n + 1)
    BY DEF CreationsOf
  <2>2. QED
    BY <1>6, <1>8, <2>1 DEF CreationsOf
<1>13. r.terms.signed = TRUE
  BY <1>2 DEF IsSound
<1> HIDE DEF v, p
<1>14. IsSound(s, v, p, n + 1)
  BY <1>1, <1>8, <1>10, <1>11, <1>12, <1>13 DEF IsSound
<1>15. OnSchedule(s, n + 1)
  <2>1. PICK x : x = r.released + e.amount
    OBVIOUS
  <2>2. x \in Nat /\ x > 0 /\ x <= r.terms.total /\ x <= ShouldReleased(r.terms, e.day)
    BY <1>1, <1>3, <1>4, <2>1
  <2>3. x * r.terms.duration <= r.terms.total * (e.day - r.terms.start)
    BY <1>3, <1>4, <2>2, ScheduleBound
  <2>4. x = r.terms.released + ReleasedOf(s, v, n + 1)
    BY <1>11, <2>1
  <2>5. (n + 1) - 1 = n /\ s[n + 1].subject = v /\ s[n + 1] = e
    BY DEF v
  <2>6. QED
    BY <1>1, <1>8, <1>13, <2>2, <2>3, <2>4, <2>5 DEF OnSchedule
<1>16. QED
  BY <1>14, <1>15 DEF v, p

\* A vesting event that names its vesting, with a payload that parses.
NamesVesting(e) ==
    /\ e.type \in VestingEvents => e.subject \in Vesting
    /\ e.type = "vestingCreated" => e.terms \in Terms

\* An event that fits takes the table one event further.
LEMMA EventFollows ==
  ASSUME NEW s \in Seq(Event), NEW n \in 0 .. Len(s), n + 1 <= Len(s), NEW q, IsResult(q),
         FollowsLog(s, q.table, n), NamesVesting(s[n + 1]), NEW today,
         Fits(ApplyVesting(q, s[n + 1], today))
  PROVE  FollowsLog(s, ApplyVesting(q, s[n + 1], today).table, n + 1)
<1> DEFINE e == s[n + 1]
           after == ApplyVesting(q, e, today)
<1>0. n \in Nat /\ n + 1 \in 1 .. Len(s) /\ 1 .. (n + 1) = (1 .. n) \cup {n + 1}
  OBVIOUS
<1>1. PICK table : table = q.table
  OBVIOUS
<1>2. FollowsLog(s, table, n)
  BY <1>1
<1>3. DOMAIN q = {"ok", "table"} /\ q.ok \in BOOLEAN /\ after.ok
  BY DEF IsResult, Fits
<1> HIDE DEF after
<1>4. \/ e.type \notin VestingEvents /\ after = q
      \/ /\ e.type = "vestingCreated" /\ CanCreate(table, e)
         /\ after.table = WithNew(table, e)
      \/ /\ e.type = "vestingRelease" /\ CanRelease(table, e, today)
         /\ after.table = WithRelease(table, e)
  <2>1. after = ApplyVesting(q, e, today)
    BY DEF after
  <2> HIDE DEF e
  <2>2. after.ok =>
          \/ e.type \notin VestingEvents /\ after = q
          \/ /\ e.type = "vestingCreated" /\ CanCreate(q.table, e)
             /\ after.table = WithNew(q.table, e)
          \/ /\ e.type = "vestingRelease" /\ CanRelease(q.table, e, today)
             /\ after.table = WithRelease(q.table, e)
    BY <1>3, <2>1, ApplyFacts
  <2>3. QED
    BY <1>1, <1>3, <2>2
<1> HIDE DEF e
<1>e. e = s[n + 1]
  BY DEF e
\* The releases before keep to their schedules.
<1>5. ASSUME NEW T, DOMAIN table \subseteq DOMAIN T,
             e.type = "vestingRelease" => e.subject \in DOMAIN T /\ OnSchedule(s, n + 1)
      PROVE  \A i \in 1 .. (n + 1) :
                s[i].type = "vestingRelease" => s[i].subject \in DOMAIN T /\ OnSchedule(s, i)
  BY <1>0, <1>2, <1>5, <1>e DEF FollowsLog
<1>6. CASE e.type \notin VestingEvents /\ after = q
  <2>1. e.type # "vestingRelease" /\ after.table = table
    BY <1>1, <1>6 DEF VestingEvents
  <2>2. \A v \in DOMAIN table : IsSound(s, v, table[v], n + 1)
    BY <1>2, <1>e, <2>1, SchedulesStay DEF FollowsLog
  <2>3. FollowsLog(s, table, n + 1)
    BY <1>2, <1>5, <2>1, <2>2 DEF FollowsLog
  <2>4. QED
    BY <1>e, <2>1, <2>3 DEF after
<1>7. CASE /\ e.type = "vestingCreated" /\ CanCreate(table, e)
           /\ after.table = WithNew(table, e)
  <2>1. PICK T : T = after.table
    OBVIOUS
  <2>2. DOMAIN T = DOMAIN table \cup {e.subject}
        /\ \A v \in DOMAIN T :
              T[v] = IF v \in DOMAIN table THEN table[v] ELSE NewVesting(e.terms)
    BY <1>7, <2>1 DEF WithNew
  <2>3. e.subject \in Vesting /\ e.terms \in Terms
    BY <1>7, <1>e DEF NamesVesting, VestingEvents
  <2>4. \A v \in DOMAIN table : IsSound(s, v, table[v], n + 1)
    BY <1>2, <1>7, <1>e, SchedulesStay DEF FollowsLog
  <2>5. e.subject \notin DOMAIN table =>
           IsSound(s, e.subject, NewVesting(e.terms), n + 1)
    BY <1>2, <1>7, <1>e, <2>3, CreationIsSound
  <2>6. ASSUME NEW v \in DOMAIN T PROVE IsSound(s, v, T[v], n + 1)
    <3>1. CASE v \in DOMAIN table
      BY <2>2, <2>4, <3>1
    <3>2. CASE v \notin DOMAIN table
      <4>1. v = e.subject /\ T[v] = NewVesting(e.terms)
        BY <2>2, <3>2
      <4>2. QED
        BY <2>5, <3>2, <4>1
    <3>3. QED
      BY <3>1, <3>2
  <2>7. DOMAIN T \subseteq Vesting /\ DOMAIN table \subseteq DOMAIN T
    BY <1>2, <2>2, <2>3 DEF FollowsLog
  <2>8. e.type # "vestingRelease"
    BY <1>7
  <2>9. FollowsLog(s, T, n + 1)
    BY <1>5, <2>6, <2>7, <2>8 DEF FollowsLog
  <2>10. QED
    BY <1>e, <2>1, <2>9 DEF after
<1>8. CASE /\ e.type = "vestingRelease" /\ CanRelease(table, e, today)
           /\ after.table = WithRelease(table, e)
  <2>1. PICK T : T = after.table
    OBVIOUS
  <2>2. e.subject \in DOMAIN table
    BY <1>8 DEF CanRelease
  <2>3. /\ DOMAIN T = DOMAIN table
        /\ T[e.subject] = Release(table[e.subject], e.amount)
        /\ \A v \in DOMAIN table : v # e.subject => T[v] = table[v]
    BY <1>8, <2>1, <2>2 DEF WithRelease
  <2>4. /\ IsSound(s, e.subject, Release(table[e.subject], e.amount), n + 1)
        /\ OnSchedule(s, n + 1)
    BY <1>2, <1>8, <1>e, ReleaseIsSound
  <2>5. ASSUME NEW v \in DOMAIN table, v # e.subject PROVE IsSound(s, v, table[v], n + 1)
    BY <1>2, <1>e, <2>5, SchedulesStay DEF FollowsLog
  <2>6. \A v \in DOMAIN T : IsSound(s, v, T[v], n + 1)
    BY <2>3, <2>4, <2>5
  <2>7. FollowsLog(s, T, n + 1)
    BY <1>2, <1>5, <2>2, <2>3, <2>4, <2>6 DEF FollowsLog
  <2>8. QED
    BY <1>e, <2>1, <2>7 DEF after
<1>9. QED
  BY <1>4, <1>6, <1>7, <1>8

\* The events of a batch that follows the first n of a log.
Follows(batch, s, n) ==
    /\ s \in Seq(Event) /\ batch \in Seq(Event)
    /\ n \in Nat /\ n + Len(batch) <= Len(s)
    /\ \A k \in 1 .. Len(batch) : batch[k] = s[n + k]

LEMMA BatchFollows ==
  ASSUME NEW s, NEW batch, NEW n, Follows(batch, s, n), NEW table, FollowsLog(s, table, n),
         \A k \in 1 .. Len(batch) : NamesVesting(batch[k]),
         NEW today, Fits(ApplyVestings(table, batch, today))
  PROVE  FollowsLog(s, ApplyVestings(table, batch, today).table, n + Len(batch))
<1>0. /\ s \in Seq(Event) /\ batch \in Seq(Event) /\ Len(batch) \in Nat /\ Len(s) \in Nat
      /\ n \in Nat /\ n + Len(batch) <= Len(s)
  BY DEF Follows
<1>1. PICK r : Runs(r, table, batch, today)
               /\ r[Len(batch)] = ApplyVestings(table, batch, today)
  BY <1>0, RunsExists
<1>2. \A k \in 0 .. Len(batch) : IsResult(r[k]) /\ Fits(r[k])
  BY <1>0, <1>1, RunsAreOk
<1> DEFINE S == {k \in 0 .. Len(batch) : FollowsLog(s, r[k].table, n + k)}
<1>3. 0 \in S
  <2>1. r[0].table = table /\ n + 0 = n
    BY <1>0, <1>1 DEF Runs
  <2>2. FollowsLog(s, r[0].table, n + 0)
    BY <2>1
  <2>3. 0 \in 0 .. Len(batch)
    BY <1>0
  <2>4. QED
    BY <2>2, <2>3
<1>4. \A k \in 0 .. (Len(batch) - 1) : k \in S => k + 1 \in S
  <2> SUFFICES ASSUME NEW k \in 0 .. (Len(batch) - 1), k \in S PROVE k + 1 \in S
    OBVIOUS
  <2>1. /\ k + 1 \in 1 .. Len(batch) /\ k + 1 \in 0 .. Len(batch) /\ (k + 1) - 1 = k
        /\ n + k \in 0 .. Len(s) /\ (n + k) + 1 <= Len(s) /\ n + (k + 1) = (n + k) + 1
        /\ k \in 0 .. Len(batch)
    BY <1>0
  <2>2. r[k + 1] = ApplyVesting(r[k], batch[k + 1], today)
    BY <1>1, <2>1 DEF Runs
  <2>3. batch[k + 1] = s[(n + k) + 1] /\ NamesVesting(s[(n + k) + 1])
    <3>1. batch[k + 1] = s[n + (k + 1)] /\ NamesVesting(batch[k + 1])
      BY <2>1 DEF Follows
    <3>2. QED
      BY <2>1, <3>1
  <2>4. IsResult(r[k]) /\ Fits(r[k + 1]) /\ FollowsLog(s, r[k].table, n + k)
    BY <1>2, <2>1
  <2>5. FollowsLog(s, ApplyVesting(r[k], s[(n + k) + 1], today).table, (n + k) + 1)
    <3>1. PICK m : m = n + k
      OBVIOUS
    <3>2. FollowsLog(s, ApplyVesting(r[k], s[m + 1], today).table, m + 1)
      <4>1. /\ m \in 0 .. Len(s) /\ m + 1 <= Len(s) /\ FollowsLog(s, r[k].table, m)
            /\ NamesVesting(s[m + 1]) /\ Fits(ApplyVesting(r[k], s[m + 1], today))
        BY <2>1, <2>2, <2>3, <2>4, <3>1
      <4>2. QED
        BY <1>0, <2>4, <4>1, EventFollows
    <3>3. QED
      BY <3>1, <3>2
  <2>6. FollowsLog(s, r[k + 1].table, n + (k + 1))
    BY <2>1, <2>2, <2>3, <2>5
  <2>7. QED
    BY <2>1, <2>6
<1> HIDE DEF S
<1>5. Len(batch) \in S
  <2>1. Len(batch) \in 0 .. Len(batch)
    BY <1>0
  <2>2. QED
    BY <1>0, <1>3, <1>4, <2>1, UpTo
<1>6. QED
  BY <1>1, <1>5 DEF S

LEMMA FoldIsResult ==
  ASSUME NEW table, NEW batch \in Seq(Event), NEW today
  PROVE  IsResult(ApplyVestings(table, batch, today))
<1>1. PICK r : Runs(r, table, batch, today)
               /\ r[Len(batch)] = ApplyVestings(table, batch, today)
  BY RunsExists
<1>2. Len(batch) \in 0 .. Len(batch)
  OBVIOUS
<1>3. IsResult(r[Len(batch)])
  BY <1>1, <1>2, RunsAreResults
<1>4. QED
  BY <1>1, <1>3

\* An event that fits today fits tomorrow.
LEMMA EventFitsLater ==
  ASSUME NEW q, IsResult(q), NEW e \in Event, NEW today \in Nat,
         Fits(ApplyVesting(q, e, today))
  PROVE  ApplyVesting(q, e, today + 1) = ApplyVesting(q, e, today)
<1>1. e.day \in Nat
  BY LedgerAssumption DEF Event, Day
<1>2. CanRelease(q.table, e, today) => CanRelease(q.table, e, today + 1)
  <2>1. e.day <= today => e.day <= today + 1
    BY <1>1
  <2>2. QED
    BY <2>1 DEF CanRelease
<1>3. CASE e.type \notin VestingEvents \/ ~q.ok
  BY <1>3 DEF ApplyVesting
<1>4. CASE e.type \in VestingEvents /\ q.ok /\ e.type = "vestingCreated" /\ CanCreate(q.table, e)
  BY <1>4 DEF ApplyVesting
<1>5. CASE e.type \in VestingEvents /\ q.ok /\ e.type = "vestingRelease"
           /\ CanRelease(q.table, e, today)
  BY <1>2, <1>5 DEF ApplyVesting
<1>6. CASE e.type \in VestingEvents /\ q.ok
           /\ ~(e.type = "vestingCreated" /\ CanCreate(q.table, e))
           /\ ~(e.type = "vestingRelease" /\ CanRelease(q.table, e, today))
  <2>1. ApplyVesting(q, e, today) = [q EXCEPT !.ok = FALSE]
    BY <1>6 DEF ApplyVesting
  <2>2. ApplyVesting(q, e, today).ok = FALSE
    BY <2>1 DEF IsResult
  <2>3. QED
    BY <2>2 DEF Fits
<1>7. QED
  BY <1>3, <1>4, <1>5, <1>6

LEMMA BatchFitsLater ==
  ASSUME NEW table, NEW batch \in Seq(Event), NEW today \in Nat,
         Fits(ApplyVestings(table, batch, today))
  PROVE  ApplyVestings(table, batch, today + 1) = ApplyVestings(table, batch, today)
<1>0. Len(batch) \in Nat
  OBVIOUS
<1>1. PICK r : Runs(r, table, batch, today)
               /\ r[Len(batch)] = ApplyVestings(table, batch, today)
  BY RunsExists
<1>2. PICK p : Runs(p, table, batch, today + 1)
               /\ p[Len(batch)] = ApplyVestings(table, batch, today + 1)
  BY RunsExists
<1>3. \A k \in 0 .. Len(batch) : IsResult(r[k]) /\ Fits(r[k])
  BY <1>1, RunsAreOk
<1> DEFINE S == {k \in 0 .. Len(batch) : p[k] = r[k]}
<1>4. 0 \in S
  <2>1. p[0] = r[0] /\ 0 \in 0 .. Len(batch)
    BY <1>0, <1>1, <1>2 DEF Runs
  <2>2. QED
    BY <2>1
<1>5. \A k \in 0 .. (Len(batch) - 1) : k \in S => k + 1 \in S
  <2> SUFFICES ASSUME NEW k \in 0 .. (Len(batch) - 1), k \in S PROVE k + 1 \in S
    OBVIOUS
  <2>1. /\ k + 1 \in 1 .. Len(batch) /\ k + 1 \in 0 .. Len(batch) /\ (k + 1) - 1 = k
        /\ k \in 0 .. Len(batch) /\ batch[k + 1] \in Event
    BY <1>0
  <2>2. /\ r[k + 1] = ApplyVesting(r[k], batch[k + 1], today)
        /\ p[k + 1] = ApplyVesting(p[k], batch[k + 1], today + 1)
    BY <1>1, <1>2, <2>1 DEF Runs
  <2>3. IsResult(r[k]) /\ Fits(r[k + 1])
    BY <1>3, <2>1
  <2>4. ApplyVesting(r[k], batch[k + 1], today + 1) = ApplyVesting(r[k], batch[k + 1], today)
    BY <2>1, <2>2, <2>3, EventFitsLater
  <2>5. p[k + 1] = r[k + 1]
    BY <2>2, <2>4
  <2>6. QED
    BY <2>1, <2>5
<1> HIDE DEF S
<1>6. Len(batch) \in S
  <2>1. Len(batch) \in 0 .. Len(batch)
    BY <1>0
  <2>2. QED
    BY <1>0, <1>4, <1>5, <2>1, UpTo
<1>7. QED
  BY <1>1, <1>2, <1>6 DEF S

\* A record that is not active is in the table with what it holds, for good.
Holds(table, v, r) == v \in DOMAIN table /\ table[v] = r

LEMMA EventSkipsClosed ==
  ASSUME NEW q, IsResult(q), NEW e, NEW today, NEW v, NEW r, r.status # "active",
         Holds(q.table, v, r), Fits(ApplyVesting(q, e, today))
  PROVE  Holds(ApplyVesting(q, e, today).table, v, r)
<1> DEFINE after == ApplyVesting(q, e, today)
<1>1. PICK table : table = q.table
  OBVIOUS
<1>2. DOMAIN q = {"ok", "table"} /\ q.ok \in BOOLEAN /\ after.ok
      /\ after = ApplyVesting(q, e, today)
  BY DEF IsResult, Fits
<1> HIDE DEF after
<1>3. after.ok =>
        \/ e.type \notin VestingEvents /\ after = q
        \/ /\ e.type = "vestingCreated" /\ CanCreate(q.table, e)
           /\ after.table = WithNew(q.table, e)
        \/ /\ e.type = "vestingRelease" /\ CanRelease(q.table, e, today)
           /\ after.table = WithRelease(q.table, e)
  BY <1>2, ApplyFacts
<1>4. v \in DOMAIN table /\ table[v] = r
  BY <1>1 DEF Holds
<1>5. CASE after.table = table
  BY <1>1, <1>5 DEF after
<1>6. CASE after.table = WithNew(table, e)
  <2>1. Holds(WithNew(table, e), v, r)
    BY <1>4 DEF WithNew, Holds
  <2>2. QED
    BY <1>6, <2>1 DEF after
<1>7. CASE CanRelease(table, e, today) /\ after.table = WithRelease(table, e)
  <2>1. e.subject # v
    BY <1>4, <1>7 DEF CanRelease
  <2>2. Holds(WithRelease(table, e), v, r)
    BY <1>4, <2>1 DEF WithRelease, Holds
  <2>3. QED
    BY <1>7, <2>2 DEF after
<1>8. QED
  BY <1>1, <1>2, <1>3, <1>5, <1>6, <1>7

LEMMA BatchSkipsClosed ==
  ASSUME NEW table, NEW batch \in Seq(Event), NEW today, NEW v, NEW rec,
         rec.status # "active", Holds(table, v, rec), Fits(ApplyVestings(table, batch, today))
  PROVE  Holds(ApplyVestings(table, batch, today).table, v, rec)
<1>0. Len(batch) \in Nat
  OBVIOUS
<1>1. PICK r : Runs(r, table, batch, today)
               /\ r[Len(batch)] = ApplyVestings(table, batch, today)
  BY RunsExists
<1>2. \A k \in 0 .. Len(batch) : IsResult(r[k]) /\ Fits(r[k])
  BY <1>1, RunsAreOk
<1> DEFINE S == {k \in 0 .. Len(batch) : Holds(r[k].table, v, rec)}
<1>3. 0 \in S
  <2>1. r[0].table = table
    BY <1>1 DEF Runs
  <2>2. Holds(r[0].table, v, rec) /\ 0 \in 0 .. Len(batch)
    BY <1>0, <2>1
  <2>3. QED
    BY <2>2
<1>4. \A k \in 0 .. (Len(batch) - 1) : k \in S => k + 1 \in S
  <2> SUFFICES ASSUME NEW k \in 0 .. (Len(batch) - 1), k \in S PROVE k + 1 \in S
    OBVIOUS
  <2>1. /\ k + 1 \in 1 .. Len(batch) /\ k + 1 \in 0 .. Len(batch) /\ (k + 1) - 1 = k
        /\ k \in 0 .. Len(batch)
    BY <1>0
  <2>2. r[k + 1] = ApplyVesting(r[k], batch[k + 1], today)
    BY <1>1, <2>1 DEF Runs
  <2>3. IsResult(r[k]) /\ Fits(r[k + 1]) /\ Holds(r[k].table, v, rec)
    BY <1>2, <2>1
  <2>4. Holds(r[k + 1].table, v, rec)
    BY <2>2, <2>3, EventSkipsClosed
  <2>5. QED
    BY <2>1, <2>4
<1> HIDE DEF S
<1>5. Len(batch) \in S
  <2>1. Len(batch) \in 0 .. Len(batch)
    BY <1>0
  <2>2. QED
    BY <1>0, <1>3, <1>4, <2>1, UpTo
<1>6. QED
  BY <1>1, <1>5 DEF S

-----------------------------------------------------------------------------
(* Vestings: every step. *)

Vestings ==
    /\ FollowsLog(log, vesting, checkpoint)
    /\ sync.pc = "commit" => Fits(ApplyVestings(vesting, sync.batch, day))

\* The batch of an open transaction names its vestings.
LEMMA BatchNamesVestings ==
  ASSUME Tables, LogIsPublished, sync.pc = "commit"
  PROVE  /\ Follows(sync.batch, log, checkpoint)
         /\ \A k \in 1 .. Len(sync.batch) : NamesVesting(sync.batch[k])
<1> DEFINE n == Len(sync.batch)
<1>1. /\ log \in Seq(Event) /\ sync.batch \in Seq(Event) /\ n \in Nat
      /\ checkpoint \in Nat /\ checkpoint + n <= Len(log)
      /\ sync.batch = SubSeq(log, checkpoint + 1, checkpoint + n)
  BY DEF Tables, Relays, Syncs, NextBatch
<1>2. \A k \in 1 .. n : sync.batch[k] = log[checkpoint + k] /\ checkpoint + k \in DOMAIN log
  <2>1. PICK m \in Nat : m = n
    BY <1>1
  <2>2. \A k \in 1 .. m : SubSeq(log, checkpoint + 1, checkpoint + m)[k] = log[checkpoint + k]
                          /\ checkpoint + k \in DOMAIN log
    BY <1>1, <2>1
  <2> HIDE DEF n
  <2>3. QED
    BY <1>1, <2>1, <2>2
<1>3. Follows(sync.batch, log, checkpoint)
  BY <1>1, <1>2 DEF Follows
<1>4. ASSUME NEW k \in 1 .. n PROVE NamesVesting(sync.batch[k])
  <2>1. PICK e : e = sync.batch[k]
    OBVIOUS
  <2>2. e \in Event /\ Published(e)
    <3>1. PICK j \in DOMAIN log : e = log[j]
      BY <1>2, <2>1
    <3>2. e \in Event
      BY <1>1, <3>1
    <3>3. Published(e)
      BY <3>1 DEF LogIsPublished, Published
    <3>4. QED
      BY <3>2, <3>3
  <2>3. e.type \in VestingEvents => e.subject # None
    <3>1. k \in DOMAIN sync.batch
      BY <1>1
    <3>2. QED
      BY <2>1, <3>1 DEF Tables, Syncs, NextBatch
  <2>4. "vestingCreated" \in VestingEvents
    BY DEF VestingEvents
  <2>5. NamesVesting(e)
    BY <2>2, <2>3, <2>4, PublishedFacts DEF NamesVesting
  <2>6. QED
    BY <2>1, <2>5
<1>5. QED
  BY <1>3, <1>4

\* The migration of a release deprecates the active vestings and no more.
LEMMA MigrationFollows ==
  ASSUME NEW s, NEW table, NEW n, FollowsLog(s, table, n), NEW after,
         after = [v \in DOMAIN table |->
                     IF table[v].status = "active" THEN [table[v] EXCEPT !.status = "deprecated"]
                     ELSE table[v]]
  PROVE  FollowsLog(s, after, n)
<1>1. DOMAIN after = DOMAIN table
  OBVIOUS
<1>2. ASSUME NEW v \in DOMAIN table PROVE IsSound(s, v, after[v], n)
  <2>1. PICK r : r = table[v]
    OBVIOUS
  <2>2. IsSound(s, v, r, n)
    BY <2>1 DEF FollowsLog
  <2>3. after[v] = r \/ after[v] = [r EXCEPT !.status = "deprecated"]
    BY <2>1
  <2>4. r \in VestingRecord
    BY <2>2 DEF IsSound
  <2>5. after[v] \in VestingRecord /\ after[v].terms = r.terms /\ after[v].released = r.released
    BY <2>3, <2>4 DEF VestingRecord, VestingStatus
  <2>6. PICK p : p = after[v]
    OBVIOUS
  <2>7. p \in VestingRecord /\ p.terms = r.terms /\ p.released = r.released
    BY <2>5, <2>6
  <2>8. IsSound(s, v, p, n)
    BY <2>2, <2>7 DEF IsSound
  <2>9. QED
    BY <2>6, <2>8
<1>3. QED
  BY <1>1, <1>2 DEF FollowsLog

LEMMA VestingsHold == Spec => []Vestings
<1>1. Init => Vestings
  <2> SUFFICES ASSUME Init PROVE Vestings
    OBVIOUS
  <2>1. checkpoint = 0 /\ vesting = <<>> /\ sync.pc = "idle"
    BY DEF Init, Rest
  <2>2. DOMAIN vesting = {} /\ 1 .. checkpoint = {}
    BY <2>1
  <2>3. QED
    BY <2>1, <2>2 DEF Vestings, FollowsLog
<1>2. Ground /\ Ground' /\ Vestings /\ [Next]_vars => Vestings'
  <2> SUFFICES ASSUME Ground, Ground', Vestings, [Next]_vars PROVE Vestings'
    OBVIOUS
  <2>g. Tables /\ Relays /\ Relays' /\ Syncs /\ Syncs' /\ LogIsPublished
    BY DEF Ground, Tables
  <2>a. Agree(log, log', checkpoint)
    <3>1. /\ \A i \in DOMAIN log : log'[i] = log[i]
          /\ Len(log) <= Len(log') /\ checkpoint \in 0 .. Len(log)
          /\ log \in Seq(Event) /\ log' \in Seq(Event)
      BY <2>g, LogGrows DEF Relays, Syncs
    <3>2. QED
      BY <3>1 DEF Agree
  \* What the table owes to the log before the step it owes to the log after it.
  <2>f. FollowsLog(log', vesting, checkpoint)
    BY <2>a, FollowsPrefix DEF Vestings
  <2>r. /\ Rest.pc = "idle"
        /\ [Rest EXCEPT !.pc = "fetch", !.checkpoint = NextCheckpoint].pc = "fetch"
    BY DEF Rest
  <2>1. CASE SyncOpen
    <3>1. UNCHANGED <<checkpoint, vesting, log, day>> /\ sync'.batch = sync.batch
      BY <2>1, <2>g DEF SyncOpen, SyncGoto, ledgerVars, relayVars, Syncs
    <3>2. sync'.pc = "commit" => ApplyVestings(vesting, sync.batch, day).ok
      BY <2>1, <2>g DEF SyncOpen, SyncGoto, Syncs, VestingsAfter
    <3>3. IsResult(ApplyVestings(vesting, sync.batch, day))
      BY <2>g, FoldIsResult DEF Syncs
    <3>4. sync'.pc = "commit" => Fits(ApplyVestings(vesting, sync.batch, day))
      <4>1. PICK q : q = ApplyVestings(vesting, sync.batch, day)
        OBVIOUS
      <4>2. q.ok \in BOOLEAN /\ (sync'.pc = "commit" => q.ok)
        BY <3>2, <3>3, <4>1 DEF IsResult
      <4>3. sync'.pc = "commit" => q.ok = TRUE
        BY <4>2
      <4>4. QED
        BY <4>1, <4>3 DEF Fits
    <3>5. QED
      BY <3>1, <3>4 DEF Vestings
  <2>2. CASE SyncCommit
    <3>1. /\ log' = log /\ vesting' = ApplyVestings(vesting, sync.batch, day).table
          /\ checkpoint' = checkpoint + Len(sync.batch)
          /\ sync.pc = "commit" /\ sync'.pc # "commit"
      BY <2>2, <2>g, <2>r
         DEF SyncCommit, relayVars, NextCheckpoint, VestingsAfter, Syncs, NextBatch
    <3>2. FollowsLog(log, ApplyVestings(vesting, sync.batch, day).table,
                     checkpoint + Len(sync.batch))
      <4>1. /\ Follows(sync.batch, log, checkpoint)
            /\ \A k \in 1 .. Len(sync.batch) : NamesVesting(sync.batch[k])
        BY <2>g, <3>1, BatchNamesVestings
      <4>2. FollowsLog(log, vesting, checkpoint) /\ Fits(ApplyVestings(vesting, sync.batch, day))
        BY <3>1 DEF Vestings
      <4>3. QED
        BY <4>1, <4>2, BatchFollows
    <3>3. QED
      BY <3>1, <3>2 DEF Vestings
  <2>3. CASE Tick
    <3>1. UNCHANGED <<checkpoint, vesting, sync, log>> /\ day' = day + 1
      BY <2>3 DEF Tick, ledgerVars
    <3>2. day \in Nat /\ sync.batch \in Seq(Event)
      BY <2>g, LedgerAssumption DEF Relays, Syncs, Day
    <3>3. sync.pc = "commit" => Fits(ApplyVestings(vesting, sync.batch, day + 1))
      BY <3>2, BatchFitsLater DEF Vestings
    <3>4. QED
      BY <2>f, <3>1, <3>3 DEF Vestings
  <2>4. CASE Restart
    <3>1. checkpoint' = checkpoint /\ log' = log /\ sync'.pc = "idle"
      BY <2>4, <2>r DEF Restart, relayVars
    <3>2. \/ vesting' = vesting
          \/ vesting' = [v \in DOMAIN vesting |->
                            IF vesting[v].status = "active"
                            THEN [vesting[v] EXCEPT !.status = "deprecated"]
                            ELSE vesting[v]]
      BY <2>4 DEF Restart
    <3>3. FollowsLog(log, vesting, checkpoint)
      BY DEF Vestings
    <3>4. FollowsLog(log, vesting', checkpoint)
      BY <3>2, <3>3, MigrationFollows
    <3>5. QED
      BY <3>1, <3>4 DEF Vestings
  <2>5. CASE SyncStart \/ SyncFetch \/ SyncCheck \/ SyncFails
    <3>1. UNCHANGED <<checkpoint, vesting>>
      BY <2>5 DEF SyncStart, SyncFetch, SyncCheck, SyncFails, ledgerVars
    <3>2. sync'.pc # "commit"
      <4>1. SyncStart => sync'.pc = "fetch"
        BY DEF SyncStart, Rest
      <4>2. SyncFetch => sync'.pc = "check"
        BY <2>g DEF SyncFetch, Syncs
      <4>3. SyncCheck => sync'.pc # "commit"
        BY <2>g DEF SyncCheck, SyncGoto, Syncs
      <4>4. SyncFails => sync'.pc = "idle"
        BY <2>r DEF SyncFails
      <4>5. QED
        BY <2>5, <4>1, <4>2, <4>3, <4>4
    <3>3. QED
      BY <2>f, <3>1, <3>2 DEF Vestings
  <2>6. CASE UNCHANGED <<checkpoint, vesting, sync, day>>
    BY <2>f, <2>6 DEF Vestings
  <2>7. QED
    BY <2>1, <2>2, <2>3, <2>4, <2>5, <2>6
       DEF Next, vars, ledgerVars, relayVars, Environment, Publish, Mine, Sync, Withdraw,
           TakeUp, Gate, Payout, DebitOpen, DebitCommit
<1>3. QED
  BY <1>1, <1>2, GroundHolds, PTL DEF Spec

\* What was credited for a vesting stays within its signed schedule on the day of
\* the event, whatever Relay sends: applyVestingReleaseLog compares every release
\* with the record, which a creation in the log accounts for.
THEOREM ReleasesKeepToSchedule == Spec => []ReleasesWithinSchedule
<1>1. Tables /\ Vestings => ReleasesWithinSchedule
  <2> SUFFICES ASSUME Tables, Vestings, NEW i \in 1 .. checkpoint,
                      log[i].type = "vestingRelease"
               PROVE  \E c \in CreatedBefore(log[i].subject, i) :
                         LET t == log[c].terms
                         IN /\ t.signed
                            /\ t.address = log[i].address
                            /\ t.released + ReleasedBy(log[i].subject, i) <= t.total
                            /\ (t.released + ReleasedBy(log[i].subject, i)) * t.duration
                                  <= t.total * (log[i].day - t.start)
    BY DEF ReleasesWithinSchedule
  <2>1. OnSchedule(log, i)
    BY DEF Vestings, FollowsLog
  <2>2. \A v : CreatedBefore(v, i) = CreationsOf(log, v, i - 1)
    BY DEF CreatedBefore, CreationsOf
  <2>3. \A v : ReleasedBy(v, i) = ReleasedOf(log, v, i)
    BY DEF ReleasedBy, ReleasedOf, ReleasesOf
  <2>4. QED
    BY <2>1, <2>2, <2>3 DEF OnSchedule
<1>2. QED
  BY <1>1, TablesHold, VestingsHold, PTL

\* A vesting that is completed or was deprecated is closed for good: a release needs
\* an active record, a repeated VestingCreated leaves the record alone, and the
\* migration touches the active ones.
THEOREM ClosedForGood == Spec => ClosedVestingsStay
<1>1. Tables /\ Vestings /\ [Next]_vars =>
        \A v \in DOMAIN vesting :
           vesting[v].status # "active" => v \in DOMAIN vesting' /\ vesting'[v] = vesting[v]
  <2> SUFFICES ASSUME Tables, Vestings, [Next]_vars, NEW v \in DOMAIN vesting,
                      vesting[v].status # "active"
               PROVE  v \in DOMAIN vesting' /\ vesting'[v] = vesting[v]
    OBVIOUS
  <2>1. CASE SyncCommit
    <3>1. vesting' = ApplyVestings(vesting, sync.batch, day).table /\ sync.pc = "commit"
      BY <2>1 DEF SyncCommit, VestingsAfter
    <3>2. Fits(ApplyVestings(vesting, sync.batch, day)) /\ sync.batch \in Seq(Event)
      BY <3>1 DEF Vestings, Tables, Syncs
    <3>3. Holds(vesting, v, vesting[v])
      BY DEF Holds
    <3>4. Holds(ApplyVestings(vesting, sync.batch, day).table, v, vesting[v])
      BY <3>2, <3>3, BatchSkipsClosed
    <3>5. QED
      BY <3>1, <3>4 DEF Holds
  <2>2. CASE Restart
    BY <2>2 DEF Restart
  <2>3. CASE UNCHANGED vesting
    BY <2>3
  <2>4. QED
    BY <2>1, <2>2, <2>3
       DEF Next, vars, ledgerVars, Environment, Publish, Mine, Tick, Sync, SyncStart,
           SyncFetch, SyncCheck, SyncOpen, SyncFails, Withdraw, TakeUp, Gate, Payout,
           DebitOpen, DebitCommit
<1>2. QED
  BY <1>1, TablesHold, VestingsHold, PTL DEF Spec, ClosedVestingsStay

-----------------------------------------------------------------------------
(* The invariant as a whole. *)

Facts == Ground /\ Balances /\ CreditsInv /\ Vestings

LEMMA FactsHold == Spec => []Facts
<1>1. Ground /\ Balances /\ CreditsInv /\ Vestings <=> Facts
  BY DEF Facts
<1>2. QED
  BY <1>1, GroundHolds, BalancesHold, CreditedHolds, VestingsHold, PTL

LEMMA FactsType ==
  ASSUME Facts
  PROVE  TypeOK
<1>1. Relays /\ Syncs /\ Tasks
  BY DEF Facts, Ground, Tables
<1>2. DOMAIN account \subseteq Address
  <2>1. log \in Seq(Event) /\ checkpoint \in 0 .. Len(log)
    BY <1>1 DEF Relays, Syncs
  <2>2. SubSeq(log, 1, checkpoint) \in Seq(Event)
    BY <2>1
  <2>3. PICK s \in Seq(Event) : s = SubSeq(log, 1, checkpoint)
    BY <2>2
  <2>4. Touched(s) \subseteq Address
    <3>1. \A i \in DOMAIN s : s[i] \in Event
      OBVIOUS
    <3>2. QED
      BY <3>1, EventFacts DEF Touched, Applied, ToSet
  <2>5. QED
    BY <2>3, <2>4 DEF Facts, Balances
<1>3. \A a \in DOMAIN account : account[a] \in Int
  BY DEF Facts, Balances
<1>4. debit \in [open : BOOLEAN, withdrawal : Withdrawal \cup {None}, balance : Int]
  BY DEF Facts, Balances
<1>5. DOMAIN vesting \subseteq Vesting /\ \A v \in DOMAIN vesting : vesting[v] \in VestingRecord
  BY DEF Facts, Vestings, FollowsLog, IsSound
<1>6. QED
  BY <1>1, <1>2, <1>3, <1>4, <1>5 DEF Relays, Syncs, Tasks, TypeOK

\* Every variable keeps its kind.
THEOREM TypeCorrect == Spec => []TypeOK
<1>1. QED
  BY FactsType, FactsHold, PTL

LEMMA FactsVestings ==
  ASSUME Facts
  PROVE  VestingsFollowLog
<1>1. FollowsLog(log, vesting, checkpoint) /\ checkpoint \in Nat
  BY DEF Facts, Vestings, Ground, Tables, Syncs
<1>2. \A v : ReleasedBy(v, checkpoint) = ReleasedOf(log, v, checkpoint)
  BY DEF ReleasedBy, ReleasedOf, ReleasesOf
<1>3. \A v : CreatedBefore(v, checkpoint + 1) = CreationsOf(log, v, checkpoint)
  <2>1. (checkpoint + 1) - 1 = checkpoint
    BY <1>1
  <2>2. QED
    BY <2>1 DEF CreatedBefore, CreationsOf
<1>4. ASSUME NEW v \in DOMAIN vesting
      PROVE  LET r == vesting[v]
             IN /\ r.terms.signed /\ r.released <= r.terms.total
                /\ r.released = r.terms.released + ReleasedBy(v, checkpoint)
                /\ \E c \in CreatedBefore(v, checkpoint + 1) :
                      /\ log[c].terms = r.terms
                      /\ \A i \in 1 .. checkpoint :
                            log[i].type = "vestingRelease" /\ log[i].subject = v => c < i
  <2>1. PICK r : r = vesting[v]
    OBVIOUS
  <2>2. IsSound(log, v, r, checkpoint)
    BY <1>1, <2>1 DEF FollowsLog
  <2>3. /\ r.terms.signed /\ r.released <= r.terms.total
        /\ r.released = r.terms.released + ReleasedBy(v, checkpoint)
    BY <1>2, <2>2 DEF IsSound
  <2>4. PICK c \in CreationsOf(log, v, checkpoint) :
           log[c].terms = r.terms /\ \A i \in ReleasesOf(log, v, checkpoint) : c < i
    BY <2>2 DEF IsSound
  <2>5. \A i \in 1 .. checkpoint :
           log[i].type = "vestingRelease" /\ log[i].subject = v => c < i
    BY <2>4 DEF ReleasesOf
  <2>6. c \in CreatedBefore(v, checkpoint + 1)
    BY <1>3
  <2>7. QED
    BY <2>1, <2>3, <2>4, <2>5, <2>6
<1>5. \A i \in 1 .. checkpoint :
         log[i].type = "vestingRelease" => log[i].subject \in DOMAIN vesting
  BY <1>1 DEF FollowsLog
<1>6. QED
  BY <1>4, <1>5 DEF VestingsFollowLog

LEMMA FactsBatch ==
  ASSUME Facts
  PROVE  BatchIsNext
<1>1. NextBatch /\ CreditsInv /\ Vestings
  BY DEF Facts, Ground, Tables, Syncs
<1>2. sync.pc = "commit" => AreNew(sync.batch) /\ VestingsAfter(sync.batch).ok
  BY <1>1 DEF CreditsInv, Vestings, Fits, VestingsAfter
<1>3. QED
  BY <1>1, <1>2 DEF NextBatch, BatchIsNext

\* The inductive invariant of the runs, with every part of it.
THEOREM LedgerInvariant == Spec => []LedgerInv
<1>1. ASSUME Serializable PROVE Spec => []LedgerInv
  <2>1. Facts /\ Exact => LedgerInv
    <3> SUFFICES ASSUME Facts, Exact PROVE LedgerInv
      OBVIOUS
    <3>1. LogIsPublished /\ WithdrawalsFollowLog /\ Paid
      BY DEF Facts, Ground
    <3>2. ReadsCurrent
      BY <3>1 DEF Facts, Balances, Exact, Paid, ReadsCurrent
    <3>3. AccountsFollowLog
      BY DEF Facts, Balances, Exact, DebitsOf, AccountsFollowLog
    <3>4. DepositsAreReal
      BY DepositsReal DEF Facts, Ground, CreditsInv
    <3>5. QED
      BY <3>1, <3>2, <3>3, <3>4, FactsType, FactsBatch, FactsVestings DEF LedgerInv
  <2>2. Spec => []Exact
    BY <1>1, ExactHolds
  <2>3. QED
    BY <2>1, <2>2, FactsHold, PTL
<1>2. ASSUME ~Serializable PROVE Spec => []LedgerInv
  <2>1. Facts => LedgerInv
    <3> SUFFICES ASSUME Facts PROVE LedgerInv
      OBVIOUS
    <3>1. LogIsPublished /\ WithdrawalsFollowLog /\ Paid
      BY DEF Facts, Ground
    <3>2. ReadsCurrent
      BY <1>2, <3>1 DEF Facts, Balances, Paid, ReadsCurrent
    <3>3. AccountsFollowLog
      BY <1>2 DEF Facts, Balances, AccountsFollowLog
    <3>4. DepositsAreReal
      BY DepositsReal DEF Facts, Ground, CreditsInv
    <3>5. QED
      BY <3>1, <3>2, <3>3, <3>4, FactsType, FactsBatch, FactsVestings DEF LedgerInv
  <2>2. QED
    BY <2>1, FactsHold, PTL
<1>3. QED
  BY <1>1, <1>2

=============================================================================
