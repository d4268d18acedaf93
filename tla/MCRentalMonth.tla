--------------------------- MODULE MCRentalMonth ---------------------------
(* One worker of one supplier, two projects and a month of two days.      *)
EXTENDS RentalMonth, TLC
CONSTANTS w1, f1, p1, p2
Suppliers == [w \in Worker |-> f1]
Months    == <<1, 1>>
SiteSymmetry == Permutations(Site)
=============================================================================
