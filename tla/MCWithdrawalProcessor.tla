------------------------ MODULE MCWithdrawalProcessor ------------------------
(***************************************************************************)
(* WithdrawalProcessor for TLC; the withdrawal_*.cfg files give the bounds. *)
(***************************************************************************)
EXTENDS WithdrawalProcessor
=============================================================================
