--------------------------- MODULE MCTrashCascade ---------------------------
(* Instances of TrashCascade for TLC. *)
EXTENDS TrashCascade, TLC

CONSTANTS b, d, p, e1, e2, t1, t2

(* e1 is in a branch and in a department; e2, a stock row, in a project. *)
Owners == {<<b, e1>>, <<d, e1>>, <<p, e2>>}

(* A project with two stock rows. *)
ProjectOwners == {<<p, e1>>, <<p, e2>>}

TabSymmetry == Permutations(Tab)
=============================================================================
