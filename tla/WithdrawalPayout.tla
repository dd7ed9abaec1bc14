---------------------------- MODULE WithdrawalPayout ----------------------------
(***************************************************************************)
(* What the wallet promises to one requester: the withdrawal is debited    *)
(* for a payout that the chain keeps, or refunded by Relay when no payout   *)
(* can ever happen, in this order and never both.  No transactions, no      *)
(* retries, no deadline, no copies in memory, no failures:                  *)
(* WithdrawalProcessor has those and implements this module                 *)
(* (PayoutSpec there).                                                      *)
(***************************************************************************)

VARIABLES
    status,    \* of the withdrawal record
    payout,    \* what became of the payment on the chain
    debited,   \* the balance has been charged
    told       \* what Relay has been told

vars == <<status, payout, debited, told>>

\* "executed" may be undone by a reorganisation, "paid" may not; "void": nothing
\* was paid and nothing will be.
Payout == {"open", "executed", "paid", "void"}

Init ==
    /\ status = "pending"
    /\ payout = "open"
    /\ debited = FALSE
    /\ told = {}

\* A block with the payment comes or goes.
Execute ==
    /\ payout \in {"open", "executed"}
    /\ payout' \in {"open", "executed"}
    /\ UNCHANGED <<status, debited, told>>

Settle ==
    /\ payout = "executed"
    /\ payout' = "paid"
    /\ UNCHANGED <<status, debited, told>>

\* The charge and the status, together.
Debit ==
    /\ status = "pending"
    /\ payout = "paid"
    /\ status' = "success"
    /\ debited' = TRUE
    /\ UNCHANGED <<payout, told>>

TellFulfilled ==
    /\ status = "success"
    /\ told' = told \cup {"fulfilled"}
    /\ UNCHANGED <<status, payout, debited>>

Finish ==
    /\ status = "success"
    /\ "fulfilled" \in told
    /\ status' = "finished"
    /\ UNCHANGED <<payout, debited, told>>

\* A withdrawal may be given up before it is known that nothing will be paid.
GiveUp ==
    /\ status = "pending"
    /\ status' = "failed"
    /\ UNCHANGED <<payout, debited, told>>

\* The refund: Relay returns the amount, and with that the payment is void.  A
\* withdrawal that has timed out is refunded without being given up first.
TellRejected ==
    /\ status \in {"pending", "failed"}
    /\ payout = "open"
    /\ payout' = "void"
    /\ told' = told \cup {"rejected"}
    /\ UNCHANGED <<status, debited>>

FinishRejected ==
    /\ status \in {"pending", "failed"}
    /\ "rejected" \in told
    /\ status' = "finishedRejected"
    /\ UNCHANGED <<payout, debited, told>>

Next ==
    \/ Execute \/ Settle
    \/ Debit \/ TellFulfilled \/ Finish
    \/ GiveUp \/ TellRejected \/ FinishRejected

Spec == Init /\ [][Next]_vars
=================================================================================
