# Crynux Relay Wallet: formal models and proofs

The wallet pays withdrawals that users request from Crynux Relay: it copies the
requests and the ledger of relay accounts from Relay into its own database, pays each
request on an EVM network from a hot wallet, debits the account and reports the outcome.
Money is lost when a withdrawal is paid twice, paid and refunded, or paid and not
debited. The modules here model the parts where that is decided, TLC checks them on
small instances, and TLAPS proves their safety for every size.

## 1. The system

| Part | State | Operations | Talks to |
|---|---|---|---|
| Transaction table, `models/blockchain_transaction.go` | one row per payment attempt: status, signed payload, block, cancellation request, retry chain | conditional updates, each one SQL statement | everybody below |
| Transaction sender, `blockchain/transaction_sender.go` | a queue, the set of rows in work | one goroutine: claim, sign, store the payload, send, acknowledge; recovery of unresolved broadcasts on every poll | table, node, nonce cache |
| Transaction confirmer, `blockchain/transaction_confirmer.go` | a queue, the set of rows in work | one poll, concurrent checks: receipt, header, conditional update, retry | table, node |
| Client, `blockchain/client.go` | the cached nonce per network | read, advance, drop the nonce; RPC | node |
| Manager start, `blockchain/transaction_manager.go`, `main.go` | none | repair `sending` rows, start the goroutines | table |
| Withdrawal processor, `tasks/process_withdrawal_requests.go` (lines 278-300, 602-1120) | the withdrawal record and copies of it and of the current attempt in memory | serial: authorize, gate, create, wait, debit, report; timeout handler; retry loop | table, accounts, Relay |
| Withdrawal sync, same file (28-128, 255-276, 301-600) | the request checkpoint, new records, a batch and the cursor in memory | fetch, gate, authorize, daily limits, benefit address, store | Relay, node, accounts |
| Gas and fees, `blockchain/transaction_sender.go` (399-652) | none | balances, gas estimate and buffer, fee caps, limits, alerts | node |
| Task fee log sync, `tasks/sync_task_fee_logs.go` | accounts, checkpoint, deposits, vestings | fetch a batch, validate, apply in one database transaction | Relay, node, accounts |
| Relay client, configuration, alerts, heartbeat, migrations | | I/O | |

The parts share the database and nothing else: the processor inserts a `pending` row and
watches it, the sender and the confirmer move it on, and a cancellation request is a
column that the sender's next conditional update takes notice of.

What is hard: every statement and RPC call of four goroutines interleaves; the process
may die between any two; an answer may be lost after the effect; the chain reorganises
and nodes forget or lag; copies of rows in memory outlive the rows; the deadline of a
withdrawal passes anywhere; the retry loop goes on with a copy that an error left behind.
`PROJECT.json` lists each such hazard at its line, with the properties that cover it.

What makes each part correct:

- table: a signed payload is never taken back; an update does nothing when its guard fails;
- sender: at most one unresolved broadcast per network, no nonce used twice, nothing sent
  that the table does not hold, a retry only after proof that earlier attempts failed;
- confirmer: an outcome is recorded only when the chain keeps it, one retry per failure;
- processor: refund and payout exclude each other, one debit per payout, a debit before
  the report, no orphaned attempt, every withdrawal settles;
- withdrawal sync: every request stored once and in order, an authorization spent once,
  daily limits kept, no stop without a cause;
- gas and fees: what is signed has gas, a fee cap that lasts and the money for both, and
  what is refused is alerted and signed later;
- ledger: balances are Relay's plus what is outstanding, deposits and releases are real.

## 2. The modules

| Module | Models | Builds on |
|---|---|---|
| `BlockchainTransaction` | rows and conditional updates as operators; no state | |
| `TransactionManager` | sender, confirmer, nonce cache, crash and start, against a chain | `BlockchainTransaction` |
| `TransactionLifecycle` | the abstract promise: the table and the set of attempts that are paid, nothing else | `BlockchainTransaction` |
| `WithdrawalPayout` | the abstract promise to a requester: debited for a payout that stays, or refunded when none can follow | |
| `WithdrawalProcessor` | one withdrawal from record to Relay callback | `TransactionLifecycle`, `WithdrawalPayout` |
| `WithdrawalSync` | the task that takes requests over from Relay, with Relay's list, the calendar, the benefit addresses and the records' fate around it | |
| `PayoutFees` | the five answers of a node behind one signed payout, and the refusals in between | |
| `RelayAccountLedger` | the account ledger with its two writers: batches of Relay's event log (deposits, vestings, thresholds, checkpoint) and the debit | |
| `TransactionManagerProofs`, `TransactionManagerAttempts`, `TransactionManagerRefinement` | theorems about `TransactionManager`: outcomes and double payments; attempts and nonces; that it implements `TransactionLifecycle` | `TransactionManager` |
| `WithdrawalProcessorProofs`, `WithdrawalSyncProofs`, `PayoutFeesProofs`, `RelayAccountLedgerProofs` | theorems about the module of that name | that module |
| `FiniteSums` | lemmas about sums over finite sets | |
| `MCTransactionManager`, `MCWithdrawalProcessor`, `MCWithdrawalSync`, `MCPayoutFees`, `MCRelayAccountLedger` | the roots TLC runs | |

**Composition.** `TransactionManager` implements `TransactionLifecycle` (property
`LifecycleSpec`, with `paid` mapped to the attempts whose transfer is on the chain), and
`WithdrawalProcessor` runs over `TransactionLifecycle`. So the processor is checked
against everything the manager can do without carrying queues, nonces and blocks. It
implements `WithdrawalPayout` in turn (property `PayoutSpec`): four variables in which a
withdrawal is pending, given up, debited, reported or refunded, and its payout open,
executed, paid for good or void. The refinement holds step by step up to the first lapse,
if there is one: a debit that is rolled back under a copy that says success, or a crash that
forgets a refund only the copy knew of (`lapses`, finding 3).
`RelayAccountLedger` stands beside it: there the outcome of a payout is a choice, and the
balance, one number that moves freely in `WithdrawalProcessor`, is what is modelled.

**The requests.** `WithdrawalSync` cuts `syncWithdrawalRequests` at its reads: `Start`
(checkpoint), `Fetch` (ledger position and page, cut at the gate), `Authorize`, `Check`
(amounts and daily limits), `CheckBenefit` (node calls), `Store`. A request's id is its
index in Relay's list and the position of its ledger event. What amounts, status, account
and balance make of it is one word, `form`; the balance check itself is `TakeUp` in
`RelayAccountLedger`. An authorization is the fingerprint of its message, and requests with
the same one agree in what the message names. The insertion that ignores conflicts is
`Collides`. The processor is reduced to what the daily counts see of it (`Settle`). The
history variable `blame` remembers what may push the wallet's count past a limit that
Relay kept: a request left waiting over midnight (Relay counts by its day of the request,
the wallet by its own day of the record, as `README.md:68` of the repository says), or a
rejection Relay has been told of and the record does not show yet. That section says that
a breach means a bypassed limit or diverging configurations; how Relay counts is not in
this repository, so the model assumes it and the two other causes are no finding here.

**Gas and fees.** In `PayoutFees` every answer of the node is an action, with blocks,
deposits, mined payouts and other answers between any two. Gas is counted in words
(`% Word`), money is not, as in the code (`uint64`, `big.Int`). A status message is its kind
and the two numbers that are printed in it, which is what `alertHotWalletBalanceError`
compares. The alert and the release behind it are one step: a crash between them repeats
the alert. `age` counts the blocks since the header the fee cap was computed from.

**The ledger.** Relay appends events to `log`; the id of an event is its index. The sync
task is `SyncStart`, `SyncFetch`, `SyncCheck` (`checkTaskFeeLogs`), `SyncOpen` and
`SyncCommit` (`applyTaskFeeLogBatch`, cut at the read of the balances); an error that is no
`TaskFeeError` leads back to `idle`, one that is to `stopped`. The debit is `DebitOpen` and
`DebitCommit`, cut likewise. `Serializable` is SQLite, whose pool has one connection;
without it the two transactions interleave as on MySQL and PostgreSQL at their default
isolation, where a plain SELECT locks nothing. `Honest` says whether Relay keeps to its
documents; with it unset, any event of the catalogue may come at any time. The amount of a
`WithdrawalFeeIncome` event is compared with no threshold: `checkTaskFeeLogs` compares only
in the last branch of its else-if chain.

**Correspondence.** An operation of the table is a pair: the WHERE clause is a predicate
(`Claimable`), the SET clause the new row (`ClaimedRow`). An action of
`TransactionManager` or `WithdrawalProcessor` is one SQL statement, one database
transaction or one RPC/Relay call with the local code up to the next one; `sender.pc`,
`check[t].pc` and `pc` name the next one. `PROJECT.json` gives each definition its lines.

Abstractions that matter when reading:

- `tx_hash`, `nonce`, `signed_raw_tx` are written by one update and never again, so
  `payload` stands for the three: the nonce, or `NoPayload`.
- The queues and `processingTxs` only choose which row comes next and the sender reads it
  again, so `SenderSync` takes any row. The confirmer does not read again: `polled` holds
  what its last poll saw.
- Blocks are counted from the head and capped, as the code only compares the difference.
- `next_retry_at` is not modelled: `CreateRetryTransaction` builds it without `Valid`, so
  it is stored as NULL and a retry is eligible at once.
- Amounts: one withdrawal total is 1 unit of `balance`.
- The processor takes records one after the other, so one record is enough.
- `mem`, the processor's copy of the record, follows what gorm does to the struct:
  `Model(w).Update` sets the status of the copy while it builds the UPDATE and leaves it
  there when the UPDATE fails, inside the debit's transaction too; a transaction that does
  not begin leaves the copy alone. So after a failed statement the copy may be ahead of its
  row and is never behind (`CopyInv`). The root set in front of `tx.Save` behaves alike.
- `lapses` is a history variable that no action reads: it notes a debit rolled back under a
  copy that says success, and a crash after a refund of a withdrawal that only the copy knew
  to be given up. Properties that such an event breaks name it, and say what still holds.
- `CanRelease` leaves out the hour that `sync_task_fee_logs.go:447` allows for clocks that
  differ; the properties about releases are stated per day of the event and do not depend on it.
- Amounts of events are natural numbers; a signature is a verdict in the event, a deposit
  transaction is what it moves (`Transfer`) and the day the node shows it.
- Time in the ledger is days, the grain of the vesting schedule.
- Operators named `...Variant` are plausible mistakes in the operator that follows
  them. No specification uses one; substituting one must break a property, which shows
  that the property depends on that line of code.

## 3. Faults

`FaultKinds` names the faults of a run and `MaxFaults` bounds their number.

| Kind | Meaning |
|---|---|
| `crash` | the process dies; memory is lost, the database and the chain stay |
| `db` | a statement fails, or a transaction at its begin, midway or at its commit; the database is as before, a copy in memory may not be |
| `ack` | it takes effect and its answer is lost |
| `rpc` | a node call fails before or after the node acted |
| `relay` | a Relay call fails before or after Relay acted |
| `migrate` | a restart that runs the migration deprecating active vestings |
| `slow` | the 30 seconds to finalize a timed-out record run out |
| `reorg`, `drop` | blocks are replaced; a node forgets a pooled transaction |
| `staleReceipt` | a reorganisation may fall between the two RPC calls of one check |
| `payment` | ledger events change the balance between two steps of the processor |

## 4. The runs

Manager (`MCTransactionManager`):

| Run | Question | Bounds and why they are enough |
|---|---|---|
| `manager_retries` | Is a payout made at most once; is what the table records final and ahead of the node; does the manager implement the lifecycle? | one root and two retries (a retry whose ancestors are a root and a retry), 2 confirmations, a reorganisation of one block, a node one block behind, 3 faults of all kinds, an old timed-out failure as a second initial state |
| `manager_liveness` | Do nonces differ, does the broadcast gate hold, do cancellations hold and settle, do broadcasts end? | two payouts of one network and a limit of two, so that they meet at the gate and the nonce; one crash, node error or reorganisation anywhere. No `db`: a row whose release failed stays `sending` until a restart, and no liveness property holds of it before; that the repair at the restart neither loses a request nor takes back a payload is in `manager_retries` |
| `manager_stale_receipt` | finding 1 | expected violation |
| `manager_lost_ack` | finding 2 | expected violation |

Processor (`MCWithdrawalProcessor`):

| Run | Question | Bounds and why they are enough |
|---|---|---|
| `withdrawal_refund` | Do refund and payout exclude each other; one debit; no orphan; does the processor implement `WithdrawalPayout`; does every withdrawal settle? | one withdrawal with a root and one retry, four histories (fresh, queued, two left by older releases), valid or refused authorization, 4 faults of every kind: the refund that a crash forgets takes three (a failed check, a failed UPDATE, the crash), and one more may fall on what follows |
| `withdrawal_undebited` | finding 3, by one failed statement | expected violation |
| `withdrawal_unauthorized` | finding 4 | expected violation |

Requests and fees (`MCWithdrawalSync`, `MCPayoutFees`):

| Run | Question | Bounds and why they are enough |
|---|---|---|
| `sync_requests` | Is every request stored once and in order, an authorization spent once, are the daily limits kept, does the task stop only for a cause, does it keep up? | three requests of six kinds in pages of two, so that two share a batch and the third meets the stored ones; limits of one and two; two requesters who come to share a benefit address on one network; midnight once; one fault of any kind. A user may repeat a request, so replays fall in one batch and across two |
| `payout_fees` | Are gas, fee cap and balances of a signed payout enough; is a shortage alerted; is a refused payout signed in the end? | a native network with every limit set and an ERC20 one with none; words of 1024, so that the buffer overflows for the estimate 16 (unlimited) and is refused at 8 (limited to 8); five blocks, the number a cap of twice the base fee withstands; a wallet empty or full, one deposit; one fault |

Ledger (`MCRelayAccountLedger`):

| Run | Question | Bounds and why they are enough |
|---|---|---|
| `ledger_batches` | Do the wallet's balances stay Relay's plus what is outstanding? Is no covered withdrawal refused? Does the copy catch up, does every announced withdrawal settle? | an honest Relay; logs of four events (deposit, payment, two withdrawals, a refund, a vesting and its release) in batches of two, so that what belongs together spans batches; one failure anywhere, deposits ahead of the node; serializable |
| `ledger_validation` | Is nothing credited twice, to others, or ahead of the vesting schedule? | a Relay that sends anything: wrong sender, repeated deposit, forged or changed schedule, a part released before, early release, clock ahead; three days against a schedule of two; a lost answer or the migration |
| `ledger_lost_update` | finding 5 | expected violation |

Every manager run has one network: networks share neither nonces, nor the gate, nor the
chain, and the proofs cover any number of them.

Deadlock checking is off: with bounded roots, faults and blocks a finished system has
nothing left to do.

**Fairness.** Goroutines run on, so each step of the sender and the confirmer is weakly
fair; a row is offered to the sender by every poll while other rows take their turns,
hence strong fairness for `SenderSync`. Blocks are produced and pooled transactions
mined. For the processor: it runs on, the deadline and the end of a context come, and an
operator restarts a stopped processor. Of the manager only acknowledgement, outcome and
release are fair, all shown by the manager's own liveness run; that a payout is ever
signed is not assumed, since fee caps may forbid it until the deadline. For the ledger: the
tasks run on, and a deposit Relay has seen appears on the wallet's node; Relay need not
publish anything. For the requests: the sync task runs on and the ledger copy keeps up
(`CatchesUp`); an operator need not restart it. For fees: the sender polls and goes on.

`WithdrawalSettles` assumes `Settleable`: the requester's balance covers the debit again
and again (otherwise the processor stops in front of it at every start), the record is not
given up behind a broadcast (finding 4), and no attempt failed without proof (a chain left by
an older release, which the documents leave to an operator). `PayoutIsSigned` assumes that
from some time on the node's estimate and tip stand still at values within the limits and
the money is there: answers that would each do at one time need not do at two.

## 5. Findings

1. `manager_stale_receipt`: `confirmTransaction` reads the receipt, then the header, and
   applies the receipt. A reorganisation in between lets it record an outcome of a
   replaced block, whatever the confirmation depth; `docs/withdrawal_processing.md:141`
   excludes that.
2. `manager_lost_ack`: a `MarkSent` that takes effect and returns an error skips
   `AdvanceNoncePast`. The next payload of the network is signed with the used nonce,
   refused for ever, and holds its network (`docs/withdrawal_processing.md:139`).
3. `withdrawal_undebited`: gorm sets the in-memory status while it builds the UPDATE of
   `UpdateStatus`. When that UPDATE, or the commit, of the debit transaction fails, the
   debit is rolled back, the copy says success, and the retry loop reports and finishes a
   withdrawal that was never debited (`docs/withdrawal_fee_processing.md:53`). One failed
   statement is enough. The same assignment has two more consequences. A copy can be given
   up while its row is pending: the authorization check meets a database error, the UPDATE
   to failed fails too, the retry loop rejects at Relay, and the process dies before
   `finishedRejected` is stored. After the restart the row is authorised, queued and paid:
   refunded and paid. `RefundIsSafe` names this as its one exception (`"refund" \in lapses`);
   without that disjunct TLC finds the trace with three faults. And a copy that says finished
   over a row that does not is taken to the reject path, whose gate sees the payout and stops
   the processor until an operator restarts it.
4. `withdrawal_unauthorized`: the sender signs between the committed-broadcast check and
   the read of the row. The record becomes `failed`; the safety gate then stops the
   processor for good instead of letting the record converge from the chain
   (`docs/architecture.md:33`).
5. `ledger_lost_update`: the debit and `processTaskFeeLogs` both read balances and write
   absolute values. Where the database lets both read first, a debit or a batch's credits
   disappear (`docs/relay_account_log_processing.md:99`). SQLite is safe, by its single
   connection.

## 6. The proofs

Every safety property of a passing run is a theorem, and so are both refinements. They
hold for every value of the constants: table sizes, networks, retries, pages, batches,
catalogues of events, limits, and any number and kinds of faults except where a
hypothesis below says otherwise. The assumptions on constants are those the modules name;
those with content are: a reorganisation is no deeper than the confirmation depth
(`ManagerAssumption`); the buffered percentage fits the machine word and the base fee is at
least 5, below which five increases by one more than double it (`FeesAssumption`;
blocks, deposits, attempts and faults of `PayoutFees` have bounds of any size); a payload
that parses has the type of its event, and a withdrawal and its refund are of one account
and total (`LedgerAssumption`).

Each component has an inductive invariant, which the component's run checks in place of the
type invariant it contains:

| Run, invariant | What it adds to types and properties, and why |
|---|---|
| `manager_retries`, `ManagerInv` | `NoDoublePayout` says nothing of why two attempts cannot both be on the chain. `TableInv` (rows are consistent, the table is ahead of the node, a retry follows proof) needs nothing of the chain; `ChecksCurrent` (a check in flight holds the receipt the chain has) and `BlocksFinal` (a recorded block is too deep to be replaced) do |
| `withdrawal_refund`, `ProcessorInv` | what the processor knows at each statement (`ProgressInv`), how far a failed statement may have put its copy ahead of the record (`CopyInv`), what record, table and Relay owe each other (`RecordInv`), that before the deadline a refund follows giving up and where that is remembered: the record, its attempt, or the copy alone (`RefundInv`), and what the balance was charged for (`ChargeInv`) |
| `sync_requests`, `SyncInv` | the page in memory follows the checkpoint and holds what would be authorized now (`PageInv`), an authorization taken over has left its fingerprint (`SpentIsKnown`), what the limit check found stays true until the rows are stored (`CheckedInv`, `DaysInv`), and with nothing to blame what is open today fits the limits (`CauseInv`) |
| `payout_fees`, `FeesInv` | what each answer in memory is still good for after blocks and deposits have moved the node on (`DraftInv`), and the same of what is signed (`SignedInv`) |
| `ledger_batches`, `LedgerInv` | what Relay published, the place of a withdrawal in the log, the batch that follows the checkpoint, the balances an open transaction read, and what accounts and vestings owe to the log |

The hypotheses, each beside the property that fails without it:

- `ReceiptsFresh` (no reorganisation falls between the two RPC calls of one check) for
  `ManagerInv`, `OutcomeIsFinal`, `NoDoublePayout` and `LifecycleSpec`: finding 1.
- None for the processor. What finding 3 breaks is excepted in the properties themselves, by
  the event and not by the kind of fault: `DebitedOnce` once a debit was rolled back under a
  copy that says success (that nothing debits twice is `NeverDebitedTwice`, without exception),
  `RefundIsSafe` once a crash has forgotten a refund, `PayoutSpec` from the first such event.
- `Serializable` for `BalancesMatchLog` and `BackedWithdrawalsProceed`: finding 5. The latter
  also assumes that withdrawals move more than nothing: `checkWithdrawalRequests` refuses
  other totals (`tasks/process_withdrawal_requests.go:316`), a case `TakeUp` leaves out.
- `NodeKeeps` for `NoncesDiffer`: the node drops no pooled transaction, no answer of the
  database is lost (finding 2), and the table is not an older release's.
- `LegacyChain => MaxRetries > 0` for `OneRetryPerFailure`: a table in which an older release
  left a retry comes from a configuration that allows one.

How the longer arguments run:

- *A payout is made once* (`PayoutIsMadeOnce`): of two attempts of a chain the later was
  signed only after the earlier had a failed receipt, and that receipt is final.
- *Nonces* (`NoncesNeverCompete`): the nonces of a network are given out without gaps, the
  last belongs to its one unresolved broadcast (`BroadcastsTakeTurns`), and the cache is
  above the acknowledged ones whenever it holds a value.
- *Lifecycle* (`ImplementsLifecycle`): each statement of the manager is one lifecycle step or
  none; an attempt leaves `paid` only by a reorganisation that leaves its row open.
- *Refund or payout* (`RefundExcludesPayout`): the check before a rejection has seen every
  attempt of the chain proven to have failed, and nothing that may happen to those rows afterwards
  can pay them. A new attempt would have to be queued: the record, its root or the copy in
  memory stands against that (`RefundInv`), unless the process dies while only the copy does,
  which is the lapse. The refinement `ImplementsPayout` maps each step of the processor, of the
  lifecycle and of the environment to one of `WithdrawalPayout` or to a stutter, unless the
  step is or follows a lapse.
- *Daily limits* (`LimitHolds`): a stored day cannot grow but by `Store`, and what `Store`
  adds was counted together with what was stored; midnight between the two only empties
  the day it is stored under.
- *Balances* (`BalancesFollowTheLog`): a balance is the sum of the log up to the checkpoint
  less the debits, because one transaction at a time writes what it read; Relay's own balance
  is another sum over the same events; the difference, split by type of event, is what
  was announced and neither refunded nor debited, one event per withdrawal.
- *No covered withdrawal is refused* (`CoveredWithdrawalsProceed`): Relay's balance is never
  below zero, and what is outstanding contains the withdrawal at hand.
- *Vestings* (`ReleasesKeepToSchedule`, `ClosedForGood`): the fold over a batch is replaced by
  the sequence of its intermediate results (`RunsExists`), and each event takes the table one
  event further along the log (`EventFollows`). A day more changes no result (`BatchFitsLater`),
  so what `SyncOpen` found fitting still fits when `SyncCommit` writes it.

`FiniteSums` proves what the ledger needs of sums over finite sets: existence, type, union,
removal, monotony, change of index. An induction over sets or numbers is an argument by the
smallest counterexample in all modules: the subsets that break a claim, if there are any, have
a minimal one (`SmallestSubset`, `SmallestNumber`).

Only model-checked: liveness (`CancellationSettles`, `BroadcastReachesOutcome`,
`WithdrawalSettles`, `RequestsAreTakenOver`, `PayoutIsSigned`, `CatchesUp`,
`AnnouncedIsSettled`), since fairness and ENABLED are out of the prover's reach.

## 7. Not modelled

- Relay's HTTP exchange and the signing of its requests, configuration files, database
  set-up, logging, alert delivery and the heartbeat are I/O; what they decide appears as
  a call that may fail or an assumption on a constant.
- The schema migrations are one-off; rows of older releases appear as initial states.
- The contract bindings are generated.
- `MarkFailed` is called by tests only; `Stop`, `SendETH` and
  `ValidateTransactionFeeCaps` by nothing.
- Signature recovery and amount parsing are verdicts: what is checked is what the code
  does with them.
- The limit of sent transactions (`SenderLimit`) is modelled, its bound is not checked; a
  deposit that grows too old while the wallet is down, and one that a reorganisation takes
  back after its credit, are accepted by the documents. `PROJECT.json` notes all three.

## 8. Plan

Done: the table and manager, the lifecycle and the manager's refinement; the processor with
liveness and its refinement of `WithdrawalPayout`; the ledger with its two writers; the
request sync; gas and fees; and the proofs of all their safety properties. Left, the most
important first:

1. The bound on unconfirmed payloads (`SenderLimit`) as a property and a theorem.
2. What weaker provision than `NodeKeeps` keeps nonces apart, and what a dropped payload of
   an acknowledged row may still do.
3. Balances without `Serializable`: how far a lost update can take a balance off the log.
