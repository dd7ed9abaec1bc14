-------------------------- MODULE MCRelayAccountLedger --------------------------
(* The accounts, deposits and events of the runs of RelayAccountLedger. *)
EXTENDS RelayAccountLedger

CONSTANTS a1, a2, d1, v1, w1, w2

Moves == [d \in Deposit |-> [from |-> a1, amount |-> 2]]

Plain(type, a, n, s) ==
    [type |-> type, address |-> a, amount |-> n, subject |-> s, terms |-> None, day |-> 0]
\* A schedule of n over two days, r of it released before, and its creation event.
Schedule(a, n, r, isSigned) ==
    [total |-> n, released |-> r, start |-> 0, duration |-> 2, address |-> a,
     signed |-> isSigned]
Created(t) ==
    [type |-> "vestingCreated", address |-> t.address, amount |-> 0, subject |-> v1,
     terms |-> t, day |-> 0]

\* A deposit, a vesting, a task paid for and withdrawals that spend the rest.
Traffic ==
    {Plain("deposit", a1, 2, d1), Plain("taskPayment", a1, 1, None),
     Plain("withdraw", a1, 1, w1), Plain("withdrawRefund", a1, 1, w1),
     Plain("withdraw", a1, 1, w2),
     Created(Schedule(a2, 2, 0, TRUE)), Plain("vestingRelease", a2, 1, v1)}

\* Deposits and vestings, right and wrong.
Disputed ==
    {Plain("deposit", a1, 2, d1), Plain("deposit", a2, 2, d1),
     Plain("unknown", a2, 1, None),
     Created(Schedule(a1, 2, 0, TRUE)), Created(Schedule(a1, 4, 0, TRUE)),
     Created(Schedule(a1, 2, 1, TRUE)), Created(Schedule(a1, 2, 0, FALSE)),
     Plain("vestingRelease", a1, 1, v1), Plain("vestingRelease", a2, 1, v1)}
=================================================================================
