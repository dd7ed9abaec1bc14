------------------------- MODULE MCTransactionManager -------------------------
(* TransactionManager on small instances. *)
EXTENDS TransactionManager

=============================================================================
