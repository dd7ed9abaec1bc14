---------------------------- MODULE MCWithdrawalSync ----------------------------
(* The requesters, limits and requests of the runs of WithdrawalSync. *)
EXTENDS WithdrawalSync

CONSTANTS a, b, x, n1, n2, s1, s2, s3, s4

\* Two requesters with the same benefit address on one network: b has bound it, a
\* may do so.  The limit is one on that network and two on the other.
Choice == [p \in Network \X Address |-> IF p[1] = n1 THEN x ELSE p[2]]
BoundByB == {<<n1, b>>}
Limits == [n \in Network |-> IF n = n1 THEN 1 ELSE 2]

Ask(c, d, n, s, form) ==
    [address |-> c, benefitAddress |-> d, network |-> n, authorization |-> s,
     form |-> form, day |-> 0]

\* a before and after binding x, b with x as well, a elsewhere, and two requests
\* that are not signed: one below the minimum amount, one that does not parse.
Mixed ==
    {Ask(a, a, n1, s1, "good"), Ask(a, x, n1, s2, "good"), Ask(b, x, n1, s3, "good"),
     Ask(a, a, n2, s4, "good"),
     Ask(a, a, n1, None, "invalid"), Ask(a, a, n1, None, "garbled")}
=================================================================================
