-------------------------- MODULE MCSalaryPayment --------------------------
(* Instances of SalaryPayment for TLC: two payable lines of different net   *)
(* and one whose net is zero.                                               *)
EXTENDS SalaryPayout, TLC

CONSTANTS l1, l2, l0, b1, b2

Nets == (l1 :> 1) @@ (l2 :> 2) @@ (l0 :> 0)

BatchSymmetry == Permutations(Batch)
=============================================================================
