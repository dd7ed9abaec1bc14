-------------------------- MODULE TransactionManager --------------------------
(***************************************************************************)
(* The blockchain transaction manager: the sender goroutine                *)
(* (blockchain/transaction_sender.go), the confirmer's poll and its        *)
(* concurrent checks (blockchain/transaction_confirmer.go), the cached     *)
(* nonce of a network's client (blockchain/client.go), process crash and   *)
(* start (blockchain/transaction_manager.go), over the rows of             *)
(* BlockchainTransaction, against a chain that mines, reorganises and      *)
(* forgets.  One action is one database statement or one RPC call with the *)
(* local code up to the next one; any two actions of different goroutines  *)
(* interleave.                                                             *)
(*                                                                         *)
(* Block heights are counted from the head: depth = latest - block, capped *)
(* at DepthCap, because the code only compares that difference with        *)
(* receipt_confirmation_blocks.                                            *)
(***************************************************************************)
EXTENDS BlockchainTransaction, FiniteSets

CONSTANTS
    SentLimit,      \* sent_transaction_count_limit
    Confirmations,  \* receipt_confirmation_blocks
    MaxReorg,       \* bound: blocks a reorganisation replaces
    MaxLag,         \* bound: blocks the node that answers the header is behind
    MaxRoots,       \* bound: payouts queued
    MaxFaults,      \* bound: faults in a behaviour
    FaultKinds,     \* the faults that may happen
    LegacyChain     \* TRUE: the table may hold a receipt-timeout failure

\* "crash": the process dies; "rpc": a node call fails or its answer is lost;
\* "db": a statement fails and changes nothing; "ack": a statement takes
\* effect and its answer is lost; "reorg": blocks are replaced; "drop": the
\* node forgets a transaction it has not mined; "staleReceipt": a reorg may
\* fall between the two RPC calls of one confirmer check.
AllFaultKinds ==
    {"crash", "rpc", "db", "ack", "reorg", "drop", "staleReceipt"}

ASSUME ManagerAssumption ==
    /\ SentLimit \in Nat
    /\ Confirmations \in Nat
    /\ MaxReorg \in Nat
    /\ MaxReorg <= Confirmations    \* the confirmation depth is final
    /\ MaxLag \in Nat
    /\ MaxRoots \in Nat
    /\ MaxFaults \in Nat
    /\ FaultKinds \subseteq AllFaultKinds
    /\ LegacyChain \in BOOLEAN

VARIABLES
    tx,      \* the table: one row per id
    chain,   \* what the network knows of the payload of row t
    cache,   \* per network, client.Nonce
    sender,  \* the sender goroutine: where it is, its row, its nonce
    polled,  \* rows the confirmer's last poll read as sent, not yet queued
    check,   \* per row, the confirmTransaction in flight
    up,      \* the process runs
    faults   \* faults so far

vars == <<tx, chain, cache, sender, polled, check, up, faults>>

DepthCap == Confirmations + MaxLag
Depth == 0 .. DepthCap
Deeper(d) == IF d < DepthCap THEN d + 1 ELSE d

Unseen == [st |-> "unseen", depth |-> 0]
InPool == [st |-> "pool", depth |-> 0]
ChainState == [st : {"unseen", "pool", "ok", "reverted"}, depth : Depth]
Mined(t) == chain[t].st \in {"ok", "reverted"}
Visible(t) == chain[t].st # "unseen"     \* isTransactionVisibleOnChain

NoNonce == -1                            \* client.Nonce == nil
Idle == [pc |-> "idle", t |-> NoRoot, nonce |-> NoNonce]
SenderPc == {"idle", "gate", "claim", "limit", "build", "prepare", "release",
             "send", "check", "look", "mark"}
Quiet == [pc |-> "idle", ok |-> FALSE, depth |-> 0]
CheckPc == {"idle", "receipt", "header", "apply", "late"}

TypeOK ==
    /\ tx \in [TxId -> Row]
    /\ chain \in [TxId -> ChainState]
    /\ cache \in [Network -> Nat \cup {NoNonce}]
    /\ sender \in [pc : SenderPc, t : TxId \cup {NoRoot},
                   nonce : Nat \cup {NoNonce}]
    /\ sender.pc # "idle" => sender.t \in TxId
    /\ sender.pc = "prepare" => sender.nonce \in 0 .. MaxTx
    /\ polled \subseteq TxId
    /\ check \in [TxId -> [pc : CheckPc, ok : BOOLEAN, depth : Depth]]
    /\ up \in BOOLEAN
    /\ faults \in 0 .. MaxFaults

Fault(kind) ==
    /\ kind \in FaultKinds
    /\ faults < MaxFaults
    /\ faults' = faults + 1

NoFault == UNCHANGED faults

-----------------------------------------------------------------------------
(* The network: nonces of the hot wallet, mining, reorganisation. *)

Holds(n, t, nonce) == tx[t].network = n /\ tx[t].payload = nonce

\* PendingNonceAt: the first nonce no pooled or mined transaction has.
IsPendingNonce(n, nonce) ==
    /\ \A t \in TxId : Holds(n, t, nonce) => ~Visible(t)
    /\ \A m \in 0 .. nonce - 1 : \E t \in TxId : Holds(n, t, m) /\ Visible(t)

\* A transaction is mined when every smaller nonce of its wallet is.
NextToMine(n, t) ==
    /\ tx[t].network = n
    /\ chain[t].st = "pool"
    /\ \A m \in 0 .. tx[t].payload - 1 :
           \E u \in TxId : Holds(n, u, m) /\ Mined(u)

SameNonce(t, u) ==
    u # t /\ tx[u].network = tx[t].network /\ tx[u].payload = tx[t].payload

\* One block: every mined transaction and every receipt already read gets one
\* block deeper; the block holds one transaction (inc) or none of ours.  A
\* pooled transaction whose nonce it uses up is forgotten.
Deepened(n) ==
    [t \in TxId |-> IF tx[t].network = n /\ Mined(t)
                    THEN [chain[t] EXCEPT !.depth = Deeper(@)] ELSE chain[t]]
DeepenedChecks(n) ==
    [t \in TxId |-> IF tx[t].network = n /\ check[t].pc = "header"
                    THEN [check[t] EXCEPT !.depth = Deeper(@)] ELSE check[t]]

EmptyBlock(n) ==
    /\ chain' = Deepened(n)
    /\ check' = DeepenedChecks(n)
    /\ UNCHANGED <<tx, cache, sender, polled, up, faults>>

MineTransaction(n, t, outcome) ==
    /\ NextToMine(n, t)
    /\ chain' = [u \in TxId |->
                    IF u = t THEN [st |-> outcome, depth |-> 0]
                    ELSE IF SameNonce(t, u) /\ chain[u].st = "pool" THEN Unseen
                    ELSE Deepened(n)[u]]
    /\ check' = DeepenedChecks(n)
    /\ UNCHANGED <<tx, cache, sender, polled, up, faults>>

\* The last d blocks are replaced: what they held is pending again.  Unless
\* staleReceipt is assumed, no check of such a transaction is between its
\* receipt and its header.
Reorg(n, d) ==
    LET Orphaned == {t \in TxId : tx[t].network = n /\ Mined(t)
                                  /\ chain[t].depth < d}
    IN /\ Orphaned # {}
       /\ Fault("reorg")
       /\ \/ "staleReceipt" \in FaultKinds
          \/ \A t \in Orphaned : check[t].pc \notin {"header", "apply"}
       /\ chain' = [t \in TxId |-> IF t \in Orphaned THEN InPool ELSE chain[t]]
       /\ UNCHANGED <<tx, cache, sender, polled, check, up>>

\* The node drops a pooled transaction.
DropFromPool(t) ==
    /\ chain[t].st = "pool"
    /\ Fault("drop")
    /\ chain' = [chain EXCEPT ![t] = Unseen]
    /\ UNCHANGED <<tx, cache, sender, polled, check, up>>

-----------------------------------------------------------------------------
(* The withdrawal processor's side: rows queued, cancellations requested. *)

Roots == {t \in TxId : Exists(tx[t]) /\ tx[t].root = NoRoot}

QueueTransaction(n) ==
    /\ up
    /\ Cardinality(Roots) < MaxRoots
    /\ \E t \in TxId : /\ IsNextId(tx, t)
                       /\ tx' = [tx EXCEPT ![t] = NewTransaction(n)]
    /\ UNCHANGED <<chain, cache, sender, polled, check, up, faults>>

RequestCancellation(t) ==
    /\ up
    /\ CancellationRequestable(tx[t])
    /\ tx' = [tx EXCEPT ![t] = CancellationRequestedRow(@)]
    /\ UNCHANGED <<chain, cache, sender, polled, check, up, faults>>

CancelRequestedUnbroadcasted(t) ==
    /\ up
    /\ Cancellable(tx[t])
    /\ tx' = [tx EXCEPT ![t] = CancelledRow(@)]
    /\ UNCHANGED <<chain, cache, sender, polled, check, up, faults>>

-----------------------------------------------------------------------------
(* The sender: sendTransaction, statement by statement.  The queue and      *)
(* processingTxs only decide which row comes next, and sendTransaction      *)
(* reads the row again (Sync), so any row may come next.                    *)

Goto(pc) == sender' = [sender EXCEPT !.pc = pc]
Done == sender' = Idle
Current == sender.t

SenderSync(t) ==
    /\ up
    /\ sender.pc = "idle"
    /\ \/ /\ tx[t].status = "broadcasting" /\ tx[t].payload # NoPayload
          /\ sender' = [Idle EXCEPT !.pc = "look", !.t = t]
       \/ /\ tx[t].status = "pending" /\ tx[t].payload = NoPayload
          /\ sender' = [Idle EXCEPT !.pc = "gate", !.t = t]
    /\ UNCHANGED <<tx, chain, cache, polled, check, up, faults>>

OnNetwork(n, statuses) ==
    {t \in TxId : tx[t].network = n /\ tx[t].status \in statuses}

\* GetBroadcastingTransactionCountByNetwork
SenderGateVariant ==           \* no gate
    /\ sender.pc = "gate"
    /\ Goto("claim")
    /\ UNCHANGED <<tx, chain, cache, polled, check, up, faults>>
SenderGate ==
    /\ sender.pc = "gate"
    /\ \/ /\ NoFault
          /\ IF OnNetwork(tx[Current].network, {"broadcasting"}) # {}
             THEN Done ELSE Goto("claim")
       \/ Fault("db") /\ Done
    /\ UNCHANGED <<tx, chain, cache, polled, check, up>>

\* ClaimForSending
SenderClaim ==
    /\ sender.pc = "claim"
    /\ \/ /\ RetryAncestorsSafe(tx, Current)
          /\ Claimable(tx[Current])
          /\ tx' = [tx EXCEPT ![Current] = ClaimedRow(@)]
          /\ Goto("limit")
          /\ NoFault
       \/ /\ ~(RetryAncestorsSafe(tx, Current) /\ Claimable(tx[Current]))
          /\ Done
          /\ NoFault
          /\ UNCHANGED tx
       \/ /\ Fault("db")
          /\ Done
          /\ UNCHANGED tx
    /\ UNCHANGED <<chain, cache, polled, check, up>>

\* GetSentTransactionCountByNetwork against the limit
SenderLimit ==
    /\ sender.pc = "limit"
    /\ \/ /\ NoFault
          /\ IF Cardinality(OnNetwork(tx[Current].network,
                                      {"sent", "broadcasting"})) >= SentLimit
             THEN Goto("release") ELSE Goto("build")
       \/ Fault("db") /\ Goto("release")
    /\ UNCHANGED <<tx, chain, cache, polled, check, up>>

\* GetNonce, buildSignedTransaction.  A build error whose text mentions a nonce
\* empties the cache (processSendingTxError), any other keeps it.
SenderBuild ==
    /\ sender.pc = "build"
    /\ LET n == tx[Current].network
       IN \E nonce \in 0 .. MaxTx :
             /\ IF cache[n] = NoNonce THEN IsPendingNonce(n, nonce)
                                      ELSE nonce = cache[n]
             /\ \/ /\ NoFault
                   /\ sender' = [sender EXCEPT !.pc = "prepare",
                                               !.nonce = nonce]
                   /\ cache' = [cache EXCEPT ![n] = nonce]
                \/ /\ Fault("rpc")
                   /\ Goto("release")
                   /\ \E c \in {cache[n], nonce, NoNonce} :
                         cache' = [cache EXCEPT ![n] = c]
    /\ UNCHANGED <<tx, chain, polled, check, up>>

\* PrepareBroadcast
SenderPrepareVariant ==        \* sends although the payload was not stored
    /\ sender.pc = "prepare"
    /\ Goto("send")
    /\ \/ /\ Preparable(tx[Current])
          /\ tx' = [tx EXCEPT ![Current] = PreparedRow(@, sender.nonce)]
          /\ NoFault
       \/ Fault("db") /\ UNCHANGED tx
    /\ UNCHANGED <<chain, cache, polled, check, up>>
SenderPrepare ==
    /\ sender.pc = "prepare"
    /\ \/ /\ Preparable(tx[Current])
          /\ tx' = [tx EXCEPT ![Current] = PreparedRow(@, sender.nonce)]
          /\ \/ NoFault /\ Goto("send")
             \/ Fault("ack") /\ Goto("release")
       \/ /\ ~Preparable(tx[Current])
          /\ Goto("release")
          /\ NoFault
          /\ UNCHANGED tx
       \/ /\ Fault("db")
          /\ Goto("release")
          /\ UNCHANGED tx
    /\ UNCHANGED <<chain, cache, polled, check, up>>

\* ReleaseSending
SenderRelease ==
    /\ sender.pc = "release"
    /\ Done
    /\ \/ /\ tx' = [tx EXCEPT ![Current] = ReleasedRow(@)]
          /\ NoFault
       \/ /\ Fault("db")
          /\ UNCHANGED tx
    /\ UNCHANGED <<chain, cache, polled, check, up>>

NonceMined(t) == \E u \in TxId : (u = t \/ SameNonce(t, u)) /\ Mined(u)
NoncePooled(t) == \E u \in TxId : SameNonce(t, u) /\ chain[u].st = "pool"

\* SendSignedRawTransaction.  The node takes the transaction, in the place of a
\* pooled one of the same nonce if there is one; or knows it already; or
\* refuses a nonce that is used up (the error empties the cache) or pooled; or
\* the call fails, before or after the node took it.
SenderSend ==
    /\ sender.pc = "send"
    /\ \/ /\ ~Visible(Current)
          /\ ~NonceMined(Current)
          /\ chain' = [u \in TxId |->
                IF u = Current THEN InPool
                ELSE IF SameNonce(Current, u) THEN Unseen ELSE chain[u]]
          /\ \/ NoFault /\ Goto("mark")
             \/ Fault("rpc") /\ Goto("check")
          /\ UNCHANGED cache
       \/ /\ chain[Current].st = "pool"             \* already known
          /\ Goto("mark")
          /\ NoFault
          /\ UNCHANGED <<chain, cache>>
       \/ /\ NonceMined(Current)                    \* nonce too low
          /\ Goto("check")
          /\ cache' = [cache EXCEPT ![tx[Current].network] = NoNonce]
          /\ NoFault
          /\ UNCHANGED chain
       \/ /\ ~Visible(Current)
          /\ NoncePooled(Current)                   \* replacement underpriced
          /\ Goto("check")
          /\ NoFault
          /\ UNCHANGED <<chain, cache>>
       \/ /\ Fault("rpc")
          /\ Goto("check")
          /\ UNCHANGED <<chain, cache>>
    /\ UNCHANGED <<tx, polled, check, up>>

\* isTransactionVisibleOnChain after a failed send
SenderCheck ==
    /\ sender.pc = "check"
    /\ \/ NoFault /\ IF Visible(Current) THEN Goto("mark") ELSE Done
       \/ Fault("rpc") /\ Done
    /\ UNCHANGED <<tx, chain, cache, polled, check, up>>

\* isTransactionVisibleOnChain in recoverBroadcastingTransaction; the node that
\* answers may not have seen the transaction yet
SenderLookVariant ==           \* waits for the node to find it by itself
    /\ sender.pc = "look"
    /\ \/ NoFault /\ IF Visible(Current) THEN Goto("mark") ELSE Done
       \/ Fault("rpc") /\ Done
    /\ UNCHANGED <<tx, chain, cache, polled, check, up>>
SenderLook ==
    /\ sender.pc = "look"
    /\ \/ NoFault /\ IF Visible(Current) THEN Goto("mark") ELSE Goto("send")
       \/ Fault("rpc") /\ (Done \/ Goto("send"))
    /\ UNCHANGED <<tx, chain, cache, polled, check, up>>

\* markBroadcastAcknowledged: MarkSent, then AdvanceNoncePast
AdvancedVariant(c, nonce) ==
    IF c = NoNonce \/ c < nonce THEN nonce + 1 ELSE c
Advanced(c, nonce) == IF c = NoNonce \/ c < nonce + 1 THEN nonce + 1 ELSE c
SenderMark ==
    /\ sender.pc = "mark"
    /\ Done
    /\ \/ /\ NoFault
          /\ tx' = [tx EXCEPT ![Current] = MarkedSentRow(@)]
          /\ IF tx'[Current].status = "sent"
             THEN cache' = [cache EXCEPT ![tx[Current].network] =
                                Advanced(@, tx[Current].payload)]
             ELSE UNCHANGED cache
       \/ /\ Fault("ack")
          /\ tx' = [tx EXCEPT ![Current] = MarkedSentRow(@)]
          /\ UNCHANGED cache
       \/ /\ Fault("db")
          /\ UNCHANGED <<tx, cache>>
    /\ UNCHANGED <<chain, polled, check, up>>

Sender ==
    \/ \E t \in TxId : SenderSync(t)
    \/ SenderGate \/ SenderClaim \/ SenderLimit \/ SenderBuild
    \/ SenderPrepare \/ SenderRelease \/ SenderSend \/ SenderCheck
    \/ SenderLook \/ SenderMark

-----------------------------------------------------------------------------
(* The confirmer.  A poll reads the sent rows; each is handed to a          *)
(* goroutine unless one already works on it.  The row is not read again, so *)
(* a check may run on a snapshot that an earlier check has made stale.      *)

ConfirmerPoll ==
    /\ up
    /\ polled = {}
    /\ polled' = {t \in TxId : tx[t].status = "sent"}
    /\ UNCHANGED <<tx, chain, cache, sender, check, up, faults>>

ConfirmerEnqueue(t) ==
    /\ t \in polled
    /\ polled' = polled \ {t}
    /\ check' = IF check[t].pc = "idle"
                THEN [check EXCEPT ![t].pc = "receipt"] ELSE check
    /\ UNCHANGED <<tx, chain, cache, sender, up, faults>>

CheckEnds(t) == check' = [check EXCEPT ![t] = Quiet]

\* TransactionReceipt; receipt_wait_time may or may not have passed
ConfirmerReceipt(t) ==
    /\ check[t].pc = "receipt"
    /\ \/ /\ Mined(t)
          /\ check' = [check EXCEPT ![t] =
                [pc |-> "header", ok |-> chain[t].st = "ok",
                 depth |-> chain[t].depth]]
          /\ NoFault
       \/ /\ ~Mined(t)
          /\ CheckEnds(t) \/ check' = [check EXCEPT ![t].pc = "late"]
          /\ NoFault
       \/ Fault("rpc") /\ CheckEnds(t)
    /\ UNCHANGED <<tx, chain, cache, sender, polled, up>>

\* receiptHasRequiredConfirmations; the difference of two uint64 is taken only
\* when the header is not behind the receipt
RequiredConfirmationsVariant(depth, lag) ==    \* the uint64 difference wraps
    depth < lag \/ depth - lag >= Confirmations
RequiredConfirmations(depth, lag) ==
    depth >= lag /\ depth - lag >= Confirmations

\* HeaderByNumber, from a node that may be lag blocks behind
ConfirmerHeader(t) ==
    /\ check[t].pc = "header"
    /\ \/ \E lag \in 0 .. MaxLag :
             /\ NoFault
             /\ IF RequiredConfirmations(check[t].depth, lag)
                THEN check' = [check EXCEPT ![t].pc = "apply"]
                ELSE CheckEnds(t)
       \/ Fault("rpc") /\ CheckEnds(t)
    /\ UNCHANGED <<tx, chain, cache, sender, polled, up>>

\* handleSuccessfulTransaction, handleFailedTransaction.  The failure and the
\* retry are one database transaction; only the update that took the row out of
\* sent creates the retry.
FailAndRetryVariant(t) ==      \* retries also when the update found no row
    IF tx[t].retryCount < MaxRetries
    THEN \E u \in TxId :
            /\ IsNextId(tx, u)
            /\ tx' = [tx EXCEPT ![t] = FailedFromSentRow(@),
                                ![u] = RetryOf(tx, t)]
    ELSE tx' = [tx EXCEPT ![t] = FailedFromSentRow(@)]
FailAndRetry(t) ==
    IF CanFailFromSent(tx[t]) /\ tx[t].retryCount < MaxRetries
    THEN \E u \in TxId :
            /\ IsNextId(tx, u)
            /\ tx' = [tx EXCEPT ![t] = FailedFromSentRow(@),
                                ![u] = RetryOf(tx, t)]
    ELSE tx' = [tx EXCEPT ![t] = FailedFromSentRow(@)]

ConfirmerApply(t) ==
    /\ check[t].pc = "apply"
    /\ CheckEnds(t)
    /\ \/ /\ NoFault \/ Fault("ack")
          /\ IF check[t].ok
             THEN tx' = [tx EXCEPT ![t] = MarkedConfirmedRow(@)]
             ELSE FailAndRetry(t)
       \/ Fault("db") /\ UNCHANGED tx
    /\ UNCHANGED <<chain, cache, sender, polled, up>>

\* handleDelayedReceipt
ConfirmerDelayed(t) ==
    /\ check[t].pc = "late"
    /\ CheckEnds(t)
    /\ \/ NoFault /\ tx' = [tx EXCEPT ![t] = MarkedDelayedRow(@)]
       \/ Fault("db") /\ UNCHANGED tx
    /\ UNCHANGED <<chain, cache, sender, polled, up>>

Confirmer ==
    \/ ConfirmerPoll
    \/ \E t \in TxId : \/ ConfirmerEnqueue(t) \/ ConfirmerReceipt(t)
                       \/ ConfirmerHeader(t) \/ ConfirmerApply(t)
                       \/ ConfirmerDelayed(t)

-----------------------------------------------------------------------------
(* The process. *)

Crash ==
    /\ up
    /\ Fault("crash")
    /\ up' = FALSE
    /\ sender' = Idle
    /\ polled' = {}
    /\ check' = [t \in TxId |-> Quiet]
    /\ cache' = [n \in Network |-> NoNonce]
    /\ UNCHANGED <<tx, chain>>

\* blockchain.Init reads every nonce, then TransactionManager.Start repairs the
\* sending rows and starts the workers.
Start ==
    /\ ~up
    /\ up' = TRUE
    /\ tx' = RecoveredTable(tx)
    /\ cache' \in [Network -> 0 .. MaxTx]
    /\ \A n \in Network : IsPendingNonce(n, cache'[n])
    /\ UNCHANGED <<chain, sender, polled, check, faults>>

-----------------------------------------------------------------------------
Init ==
    /\ \/ /\ tx = [t \in TxId |-> AbsentRow]
          /\ chain = [t \in TxId |-> Unseen]
       \/ /\ LegacyChain
          /\ tx \in {LegacyTable(n) : n \in Network}
          /\ chain \in {[t \in TxId |-> IF t = 1 THEN c ELSE Unseen] :
                           c \in {Unseen, InPool}}
    /\ cache = [n \in Network |-> NoNonce]
    /\ sender = Idle
    /\ polled = {}
    /\ check = [t \in TxId |-> Quiet]
    /\ up = FALSE
    /\ faults = 0

ChainNext ==
    \/ \E n \in Network :
          \/ EmptyBlock(n)
          \/ \E t \in TxId, outcome \in {"ok", "reverted"} :
                MineTransaction(n, t, outcome)
          \/ \E d \in 1 .. MaxReorg : Reorg(n, d)
    \/ \E t \in TxId : DropFromPool(t)

ProcessorNext ==
    \/ \E n \in Network : QueueTransaction(n)
    \/ \E t \in TxId : RequestCancellation(t) \/ CancelRequestedUnbroadcasted(t)

Next == ProcessorNext \/ Sender \/ Confirmer \/ ChainNext \/ Crash \/ Start

Spec == Init /\ [][Next]_vars

-----------------------------------------------------------------------------
(* Safety. *)

SameChain(t, u) ==
    /\ Exists(tx[t]) /\ Exists(tx[u])
    /\ RootTransactionID(tx, t) = RootTransactionID(tx, u)

\* A payout is made at most once: of a root and its retries at most one
\* transfer ever succeeds on the chain, whatever crashes, lost answers and
\* reorganisations happen (ClaimForSending, handleFailedTransaction).
NoDoublePayout ==
    \A t, u \in TxId :
        SameChain(t, u) /\ chain[t].st = "ok" /\ chain[u].st = "ok" => t = u

\* A retry is signed only after every earlier attempt of its chain has a
\* receipt with status 0, also where the table still holds failures an older
\* release recorded for a late receipt (ErrRetryAncestorsUnsafe).
RetryOnlyAfterProof ==
    \A t, a \in TxId :
        /\ SameChain(t, a) /\ a < t
        /\ tx[t].status = "sending" \/ tx[t].payload # NoPayload
        => IsProvenOnChainFailure(tx[a])

\* What the table says of an outcome is what the chain will always say: a
\* confirmed row is a successful transfer and a proven failure a reverted one,
\* each too deep to be reorganised away (confirmTransaction).
OutcomeIsFinal ==
    \A t \in TxId :
        /\ tx[t].status = "confirmed" =>
              chain[t].st = "ok" /\ chain[t].depth >= Confirmations
        /\ IsProvenOnChainFailure(tx[t]) =>
              chain[t].st = "reverted" /\ chain[t].depth >= Confirmations

\* The node never sees a payload the table does not hold, so a crash after
\* SendTransaction never loses a transfer, and a cancelled row was never sent
\* and never will be (PrepareBroadcast before SendTransaction).
NothingSentUnrecorded ==
    \A t \in TxId :
        /\ Visible(t) \/ (sender.t = t /\ sender.pc \in {"send", "mark"}) =>
              /\ tx[t].payload # NoPayload
              /\ tx[t].status \in {"broadcasting", "sent", "confirmed", "failed"}
        /\ tx[t].status = "cancelled" => tx[t].payload = NoPayload

\* A failure is retried once: two rows of a chain are different attempts, and
\* no attempt goes past max_retries, although a check may apply a receipt to a
\* snapshot an earlier check has already failed (MarkFailedFromSent).
OneRetryPerFailure ==
    \A t, u \in TxId :
        SameChain(t, u) =>
            /\ tx[t].retryCount = tx[u].retryCount => t = u
            /\ tx[t].retryCount <= MaxRetries

\* A network has at most one payload whose broadcast is unresolved
\* (GetBroadcastingTransactionCountByNetwork).
OneBroadcastAtATime ==
    \A n \in Network : \A t, u \in OnNetwork(n, {"broadcasting"}) : t = u

\* Two payloads of a network never compete for one nonce.  Holds while the
\* node keeps what it accepted and no database answer is lost (GetNonce,
\* AdvanceNoncePast).
NoncesDiffer ==
    \A t, u \in TxId : tx[t].payload # NoPayload => ~SameNonce(t, u)

-----------------------------------------------------------------------------
(* What a step may never do. *)

\* Once signed, a payload is kept as it is and its row only moves forward: it
\* is not released, cancelled or signed again, not even by a restart.
CommittedStep ==
    \A t \in TxId :
        tx[t].payload # NoPayload =>
            /\ tx'[t].payload = tx[t].payload
            /\ tx[t].status = "broadcasting" =>
                  tx'[t].status \in {"broadcasting", "sent"}
            /\ tx[t].status = "sent" =>
                  tx'[t].status \in {"sent", "confirmed", "failed"}
            /\ tx[t].status \in {"confirmed", "failed"} =>
                  tx'[t].status = tx[t].status

CommittedStays == [][CommittedStep]_vars

\* A cancellation request is never forgotten, and a row that carries one is
\* never claimed or signed again.
CancellationHolds ==
    [][\A t \in TxId :
          tx[t].cancelRequested =>
              /\ tx'[t].cancelRequested
              /\ tx'[t].payload = NoPayload
              /\ tx'[t].status = "sending" => tx[t].status = "sending"]_vars

-----------------------------------------------------------------------------
(* Refinement. *)

Paid == {t \in TxId : chain[t].st = "ok"}

Promise == INSTANCE TransactionLifecycle WITH paid <- Paid, Nonces <- 0 .. MaxTx

\* The sender, the confirmer and the start-up repair, with everything that may
\* fail or interleave between their statements, change the table only by the
\* lifecycle's steps, and record an outcome only when the chain keeps it.
LifecycleSpec == Promise!Lifecycle

-----------------------------------------------------------------------------
(* Liveness, under the scheduling of the goroutines and a chain that makes  *)
(* progress.  The poll offers every row again and again while the sender    *)
(* takes them one by one, hence strong fairness for SenderSync.             *)

Fairness ==
    /\ WF_vars(Start)
    /\ \A t \in TxId : SF_vars(SenderSync(t))
    /\ WF_vars(SenderGate) /\ WF_vars(SenderClaim) /\ WF_vars(SenderLimit)
    /\ WF_vars(SenderBuild) /\ WF_vars(SenderPrepare) /\ WF_vars(SenderRelease)
    /\ WF_vars(SenderSend) /\ WF_vars(SenderCheck) /\ WF_vars(SenderLook)
    /\ WF_vars(SenderMark)
    /\ WF_vars(ConfirmerPoll)
    /\ \A t \in TxId :
          /\ WF_vars(ConfirmerEnqueue(t)) /\ WF_vars(ConfirmerReceipt(t))
          /\ WF_vars(ConfirmerHeader(t)) /\ WF_vars(ConfirmerApply(t))
          /\ WF_vars(ConfirmerDelayed(t))
    /\ \A n \in Network :
          /\ WF_vars(EmptyBlock(n))
          /\ \A t \in TxId :
                WF_vars(\E o \in {"ok", "reverted"} : MineTransaction(n, t, o))

FairSpec == Spec /\ Fairness

\* A cancellation requested while the sender holds the row takes effect: the
\* sender cannot prepare the broadcast and releases the row as cancelled, or
\* the restart does (ReleaseSending, RecoverLegacySendingTransactions).
CancellationSettles ==
    \A t \in TxId :
        tx[t].status = "sending" /\ tx[t].cancelRequested
            ~> tx[t].status = "cancelled"

\* A committed broadcast is acknowledged: the sender gets every signed payload
\* to the node, so that its network is free for the next payout
\* (recoverBroadcastingTransaction).
BroadcastIsAcknowledged ==
    \A t \in TxId :
        tx[t].status = "broadcasting"
            ~> tx[t].status \in {"sent", "confirmed", "failed"}

\* A committed broadcast reaches an outcome: every signed payload becomes
\* confirmed or failed from chain evidence.
BroadcastReachesOutcome ==
    \A t \in TxId :
        tx[t].status = "broadcasting" ~> tx[t].status \in {"confirmed", "failed"}
-----------------------------------------------------------------------------
(* Why a payout is made once: the inductive invariant behind NoDoublePayout. *)

\* A retry's root is an older row, ids are given out in order, a payload goes
\* with the statuses after PrepareBroadcast, a block number with an outcome.
RowsConsistent ==
    /\ \A t \in TxId :
          /\ tx[t].root < t
          /\ tx[t].payload # NoPayload <=>
                tx[t].status \in {"broadcasting", "sent", "confirmed", "failed"}
          /\ tx[t].hasBlock => tx[t].status \in {"confirmed", "failed"}
          /\ tx[t].status = "confirmed" => tx[t].hasBlock
    /\ \A t, u \in TxId :
          t < u /\ tx[t].status = "absent" => tx[u].status = "absent"

\* The table holds a payload before the sender lets the node see it.
PayloadFirst ==
    /\ \A t \in TxId : Visible(t) => tx[t].payload # NoPayload
    /\ sender.pc \in {"send", "check", "look", "mark"} =>
          tx[sender.t].payload # NoPayload

\* The part that holds of the table whatever the chain does.
TableInv ==
    /\ TypeOK
    /\ RowsConsistent
    /\ PayloadFirst
    /\ RetryOnlyAfterProof

\* No reorganisation falls between the two RPC calls of one check.
ReceiptsFresh == "staleReceipt" \notin FaultKinds

\* A check holds the receipt the chain has now, and by the time it applies it
\* the receipt is final.
ChecksCurrent ==
    \A t \in TxId :
        /\ check[t].pc \in {"header", "apply"} =>
              Mined(t) /\ check[t].ok = (chain[t].st = "ok")
        /\ check[t].pc = "header" => check[t].depth = chain[t].depth
        /\ check[t].pc = "apply" => chain[t].depth >= Confirmations

\* A block number is written only for a final receipt.
BlocksFinal ==
    \A t \in TxId :
        tx[t].hasBlock =>
            /\ Mined(t)
            /\ chain[t].depth >= Confirmations
            /\ (chain[t].st = "ok") <=> (tx[t].status = "confirmed")

\* The whole, which ReceiptsFresh makes inductive.
ManagerInv == TableInv /\ ChecksCurrent /\ BlocksFinal
=============================================================================
