------------------------------ MODULE MCPayoutFees ------------------------------
(* The networks of the run of PayoutFees. *)
EXTENDS PayoutFees

\* A native network with all limits, and an ERC20 one without any.
Networks ==
    {[native |-> TRUE, bufferPercent |-> 20, gasLimit |-> 8,
      maxFeePerGas |-> 25, maxPriorityFeePerGas |-> 2],
     [native |-> FALSE, bufferPercent |-> 20, gasLimit |-> 0,
      maxFeePerGas |-> 0, maxPriorityFeePerGas |-> 0]}
=================================================================================
