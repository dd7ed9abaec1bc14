-------------------------- MODULE TransactionLifecycle -------------------------
(***************************************************************************)
(* What the blockchain transaction manager promises its client: the table  *)
(* of payouts, changed by the conditional updates of BlockchainTransaction *)
(* one at a time in any order, and the set of payouts that succeed on the  *)
(* chain.  No queue, no RPC, no nonce cache, no process: TransactionManager *)
(* has those and implements this module (LifecycleSpec there), and         *)
(* WithdrawalProcessor is composed with this module instead of with them.  *)
(***************************************************************************)
EXTENDS BlockchainTransaction, FiniteSets

CONSTANTS
    Nonces,       \* the nonces a payload may be signed with
    MaxRoots,     \* bound: payouts queued
    LegacyChain   \* TRUE: the table may hold a receipt-timeout failure

ASSUME LifecycleAssumption ==
    /\ Nonces \subseteq Nat
    /\ MaxRoots \in Nat
    /\ LegacyChain \in BOOLEAN

VARIABLES
    tx,    \* the table: one row per id
    paid   \* the rows whose transfer the chain, as it is now, has executed

lifecycleVars == <<tx, paid>>

LifecycleTypeOK ==
    /\ tx \in [TxId -> Row]
    /\ paid \subseteq TxId

-----------------------------------------------------------------------------
(* The client's operations. *)

Queue(n) ==
    /\ Cardinality({t \in TxId : Exists(tx[t]) /\ tx[t].root = NoRoot}) < MaxRoots
    /\ \E t \in TxId : /\ IsNextId(tx, t)
                       /\ tx' = [tx EXCEPT ![t] = NewTransaction(n)]
    /\ UNCHANGED paid

AskToCancel(t) ==
    /\ CancellationRequestable(tx[t])
    /\ tx' = [tx EXCEPT ![t] = CancellationRequestedRow(@)]
    /\ UNCHANGED paid

Cancel(t) ==
    /\ Cancellable(tx[t])
    /\ tx' = [tx EXCEPT ![t] = CancelledRow(@)]
    /\ UNCHANGED paid

-----------------------------------------------------------------------------
(* The manager's. *)

Claim(t) ==
    /\ RetryAncestorsSafe(tx, t)
    /\ Claimable(tx[t])
    /\ tx' = [tx EXCEPT ![t] = ClaimedRow(@)]
    /\ UNCHANGED paid

Release(t) ==
    /\ Releasable(tx[t])
    /\ tx' = [tx EXCEPT ![t] = ReleasedRow(@)]
    /\ UNCHANGED paid

Prepare(t) ==
    /\ Preparable(tx[t])
    /\ \E nonce \in Nonces : tx' = [tx EXCEPT ![t] = PreparedRow(@, nonce)]
    /\ UNCHANGED paid

Acknowledge(t) ==
    /\ tx[t].status = "broadcasting"
    /\ tx' = [tx EXCEPT ![t] = MarkedSentRow(@)]
    /\ UNCHANGED paid

\* An outcome is recorded as the chain has it, and the chain keeps it.
Confirm(t) ==
    /\ tx[t].status = "sent"
    /\ t \in paid
    /\ tx' = [tx EXCEPT ![t] = MarkedConfirmedRow(@)]
    /\ UNCHANGED paid

Fail(t) ==
    /\ CanFailFromSent(tx[t])
    /\ t \notin paid
    /\ IF tx[t].retryCount < MaxRetries
       THEN \E u \in TxId : /\ IsNextId(tx, u)
                            /\ tx' = [tx EXCEPT ![t] = FailedFromSentRow(@),
                                                ![u] = RetryOf(tx, t)]
       ELSE tx' = [tx EXCEPT ![t] = FailedFromSentRow(@)]
    /\ UNCHANGED paid

Delay(t) ==
    /\ CanMarkDelayed(tx[t])
    /\ tx' = [tx EXCEPT ![t] = MarkedDelayedRow(@)]
    /\ UNCHANGED paid

Repair ==
    /\ tx' = RecoveredTable(tx)
    /\ UNCHANGED paid

\* Blocks come and go: any signed payout without a recorded outcome may be
\* executed, undone by a reorganisation, or executed again.
Open == {t \in TxId : tx[t].payload # NoPayload /\ ~tx[t].hasBlock}
ChainMoves ==
    /\ \E S \in SUBSET Open : paid' = (paid \ Open) \cup S
    /\ UNCHANGED tx

ManagerMoves ==
    \/ \E t \in TxId :
          \/ Claim(t) \/ Release(t) \/ Prepare(t) \/ Acknowledge(t)
          \/ Confirm(t) \/ Fail(t) \/ Delay(t)
    \/ Repair
    \/ ChainMoves

ClientMoves ==
    \/ \E n \in Network : Queue(n)
    \/ \E t \in TxId : AskToCancel(t) \/ Cancel(t)

-----------------------------------------------------------------------------
LifecycleInit ==
    /\ \/ tx = [t \in TxId |-> AbsentRow]
       \/ LegacyChain /\ tx \in {LegacyTable(n) : n \in Network}
    /\ paid = {}

LifecycleNext == ManagerMoves \/ ClientMoves

Lifecycle == LifecycleInit /\ [][LifecycleNext]_lifecycleVars
=============================================================================
