------------------------ MODULE BlockchainTransaction ------------------------
(***************************************************************************)
(* The blockchain_transactions table and the operations the model type     *)
(* offers on it (models/blockchain_transaction.go).  Every write of that   *)
(* file is one conditional UPDATE, so an operation is modelled by a pair:  *)
(* the WHERE clause as a predicate on the row, and the row after the       *)
(* UPDATE, which is the unchanged row when the WHERE clause does not hold. *)
(* Nothing here has state; TransactionManager and WithdrawalProcessor      *)
(* apply these operators to their variable tx.                             *)
(*                                                                         *)
(* An operator whose name ends in Variant is a plausible mistake in the    *)
(* operator defined after it; no specification uses one.                   *)
(*                                                                         *)
(* tx_hash, nonce and signed_raw_tx are written by one UPDATE              *)
(* (PrepareBroadcast) and never again, so one field, payload, stands for   *)
(* the three: it is the nonce the payload was signed with, or NoPayload.   *)
(***************************************************************************)
EXTENDS Integers

CONSTANTS
    MaxTx,       \* bound: rows the table can hold
    Network,     \* the configured networks
    MaxRetries   \* max_retries of the configuration, copied into each row

ASSUME TableAssumption ==
    /\ MaxTx \in Nat \ {0}
    /\ Network # {}
    /\ MaxRetries \in Nat

TxId == 1 .. MaxTx

NoRoot == 0           \* retry_transaction_id IS NULL
NoPayload == -1       \* tx_hash IS NULL AND signed_raw_tx IS NULL

\* "absent" marks an id the table has not given out yet.
Status == {"absent", "pending", "sent", "confirmed", "failed", "sending",
           "cancelled", "broadcasting"}

\* status_message, as far as the code reads it back.
Message == {"plain", "delayed", "timedOut"}

Row == [status          : Status,
        network         : Network,
        root            : TxId \cup {NoRoot},
        retryCount      : Nat,
        payload         : Nat \cup {NoPayload},
        hasBlock        : BOOLEAN,   \* block_number IS NOT NULL AND > 0
        cancelRequested : BOOLEAN,   \* cancellation_requested_at IS NOT NULL
        message         : Message]

-----------------------------------------------------------------------------
(* Rows as they are inserted. *)

AbsentRow ==
    [status |-> "absent", network |-> CHOOSE n \in Network : TRUE, root |-> NoRoot, retryCount |-> 0,
     payload |-> NoPayload, hasBlock |-> FALSE, cancelRequested |-> FALSE,
     message |-> "plain"]

\* NewSendETHTransaction, NewSendERC20Transaction: the row of a new payout.
NewTransaction(n) ==
    [AbsentRow EXCEPT !.status = "pending", !.network = n]

\* RootTransactionID: a retry names the first row of its chain, a root itself.
RootTransactionID(tx, t) == IF tx[t].root # NoRoot THEN tx[t].root ELSE t

\* CreateRetryTransaction: the row it inserts after the failure of row t.
\* (next_retry_at is stored as NULL, the NullTime is built without Valid, so a
\* retry is eligible at once.)
RetryOf(tx, t) ==
    [NewTransaction(tx[t].network) EXCEPT
        !.root = RootTransactionID(tx, t),
        !.retryCount = tx[t].retryCount + 1]

\* The auto-increment key: the least id not given out.
IsNextId(tx, t) ==
    /\ tx[t].status = "absent"
    /\ \A u \in TxId : u < t => tx[u].status # "absent"

-----------------------------------------------------------------------------
(* Predicates on a row. *)

Exists(r) == r.status # "absent"

IsReceiptTimeoutFailure(r) == r.status = "failed" /\ r.message = "timedOut"

HasCommittedBroadcast(r) ==
    r.payload # NoPayload \/ r.status \in {"broadcasting", "sent"}

IsProvenUnbroadcastedCancellation(r) ==
    r.status = "cancelled" /\ ~HasCommittedBroadcast(r)

IsProvenOnChainFailure(r) ==
    /\ r.status = "failed"
    /\ r.payload # NoPayload
    /\ r.hasBlock
    /\ ~IsReceiptTimeoutFailure(r)

IsProvenTerminalFailure(r) ==
    IsProvenUnbroadcastedCancellation(r) \/ IsProvenOnChainFailure(r)

-----------------------------------------------------------------------------
(* The conditional updates, in the order of a row's life. *)

\* ClaimForSending, the UPDATE: pending -> sending.
Claimable(r) ==
    r.status = "pending" /\ r.payload = NoPayload /\ ~r.cancelRequested
ClaimedRow(r) == [r EXCEPT !.status = "sending"]

\* ClaimForSending, the chain check that precedes the UPDATE in the same
\* database transaction: rows of the chain with a smaller id.
ChainVariant(tx, root) ==      \* forgets the root row
    {t \in TxId : Exists(tx[t]) /\ tx[t].root = root}
Chain(tx, root) ==
    {t \in TxId : Exists(tx[t]) /\ (t = root \/ tx[t].root = root)}
RetryAncestorsSafeVariant(tx, t) ==      \* takes a recorded failure for a proof
    tx[t].root # NoRoot =>
        \A a \in Chain(tx, tx[t].root) : a < t => tx[a].status = "failed"
RetryAncestorsSafe(tx, t) ==
    tx[t].root # NoRoot =>
        \A a \in Chain(tx, tx[t].root) : a < t => IsProvenOnChainFailure(tx[a])

\* ReleaseSending: sending -> pending, or -> cancelled once asked to cancel.
ReleasableVariant(r) == r.status \in {"sending", "broadcasting"}
Releasable(r) == r.status = "sending" /\ r.payload = NoPayload
ReleasedRowVariant(r) ==       \* does not look for a cancellation request
    IF Releasable(r) THEN [r EXCEPT !.status = "pending", !.message = "plain"] ELSE r
ReleasedRow(r) ==
    IF ~Releasable(r) THEN r
    ELSE IF r.cancelRequested THEN [r EXCEPT !.status = "cancelled"]
    ELSE [r EXCEPT !.status = "pending", !.message = "plain"]

\* PrepareBroadcast: sending -> broadcasting, with the signed payload.
PreparableVariant(r) == r.status = "sending" /\ r.payload = NoPayload
Preparable(r) ==
    r.status = "sending" /\ r.payload = NoPayload /\ ~r.cancelRequested
PreparedRow(r, nonce) ==
    [r EXCEPT !.status = "broadcasting", !.payload = nonce]

\* MarkSent: broadcasting -> sent.
MarkedSentRow(r) ==
    IF r.status = "broadcasting" /\ r.payload # NoPayload
    THEN [r EXCEPT !.status = "sent"] ELSE r

\* MarkConfirmed: sent -> confirmed.
MarkedConfirmedRow(r) ==
    IF r.status = "sent"
    THEN [r EXCEPT !.status = "confirmed", !.hasBlock = TRUE] ELSE r

\* MarkFailedFromSent: sent -> failed, by a receipt with status 0.
CanFailFromSent(r) == r.status = "sent" /\ r.payload # NoPayload
FailedFromSentRow(r) ==
    IF CanFailFromSent(r)
    THEN [r EXCEPT !.status = "failed", !.hasBlock = TRUE, !.message = "plain"]
    ELSE r

\* MarkReceiptDelayed: a message on a sent row, written at most once.
CanMarkDelayed(r) == r.status = "sent" /\ r.message # "delayed"
MarkedDelayedRow(r) ==
    IF CanMarkDelayed(r) THEN [r EXCEPT !.message = "delayed"] ELSE r

\* RequestCancellation: pending or sending, nothing signed, not yet asked.
CancellationRequestable(r) ==
    /\ r.status \in {"pending", "sending"}
    /\ r.payload = NoPayload
    /\ ~r.cancelRequested
CancellationRequestedRow(r) ==
    IF CancellationRequestable(r)
    THEN [r EXCEPT !.cancelRequested = TRUE, !.message = "plain"] ELSE r

\* CancelRequestedUnbroadcasted: pending and asked to cancel -> cancelled.
Cancellable(r) ==
    r.status = "pending" /\ r.payload = NoPayload /\ r.cancelRequested
CancelledRow(r) ==
    IF Cancellable(r) THEN [r EXCEPT !.status = "cancelled"] ELSE r

\* RecoverLegacySendingTransactions: the table after the start-up repair.
RecoveredTable(tx) ==
    [t \in TxId |->
        IF tx[t].status = "sending" /\ tx[t].payload = NoPayload
        THEN [tx[t] EXCEPT !.status =
                  IF tx[t].cancelRequested THEN "cancelled" ELSE "pending"]
        ELSE tx[t]]

-----------------------------------------------------------------------------
(* What an older release may have left: a root that failed because its      *)
(* receipt was late, whatever became of its payload, and the retry that     *)
(* release queued for it.                                                   *)
LegacyTable(n) ==
    [t \in TxId |->
        IF t = 1 THEN [NewTransaction(n) EXCEPT !.status = "failed",
                          !.payload = 0, !.message = "timedOut"]
        ELSE IF t = 2 THEN [NewTransaction(n) EXCEPT !.root = 1,
                               !.retryCount = 1]
        ELSE AbsentRow]
=============================================================================
