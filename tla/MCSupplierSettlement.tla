------------------------ MODULE MCSupplierSettlement ------------------------
(* Two suppliers.  The second may end at nothing to pay or below it.  *)
EXTENDS SupplierPayout, TLC

CONSTANTS s1, s2, a1, a2

Earned == s1 :> 1 @@ s2 :> 1
Owners == a1 :> s2 @@ a2 :> s2
Deduction == {-1}

(* The built-in Finance Reviewer and Finance Manager, and a profile of the *)
(* company's own with an approval of the other workspace.                  *)
Profiles ==
  ("reviewer" :> {"view", "approve_adjustments", "approve"})
  @@ ("manager" :> Rental)
  @@ ("assistant" :> {"view", "prepare", "internal_approve"})

Interchangeable == Permutations({a1, a2})
=============================================================================
