--------------------------- MODULE MCStockLedger ---------------------------
(* Small instances of StockLedger.  Each set of forms is one question.     *)
EXTENDS StockPromise, TLC

CONSTANTS c1, c2, k1, k2, k3, k4, project, office, steel

New(l)  == [loc |-> l, mat |-> steel, cond |-> "new"]
Used(l) == [loc |-> l, mat |-> steel, cond |-> "used"]

Single(kind, i, q) == [kind |-> kind, item |-> i, qty |-> q]
Undo(k)            == [kind |-> "UNDO", of |-> k]
Line(i, o, q)      == [item |-> i, outcome |-> o, qty |-> q]
Move(a, b, lines)  == [kind |-> "TRANSFER", src |-> a, dst |-> b, lines |-> lines]

(* Receipts, openings, usage, adjustments and reversals of one record. *)
SingleRowForms ==
  {Single("ADDITION", New(project), 2), Single("OPENING", New(project), 1),
   Single("USAGE", New(project), 1), Single("USAGE", New(project), 2),
   Single("ADJUSTMENT_IN", New(project), 1), Single("ADJUSTMENT_OUT", New(project), 2)}
  \cup {[kind |-> "REVERSAL", item |-> New(project), pos |-> n] : n \in 1..3}

(* Stock goes to the office and back, in one or two lines, some of it lost, *)
(* some of it used there, and the transfers are reversed.                   *)
TransferForms ==
  {Single("ADDITION", New(project), 2), Single("USAGE", Used(office), 1),
   Move(project, office, <<Line(New(project), "used", 1), Line(New(project), "used", 1)>>),
   Move(project, office, <<Line(New(project), "used", 1), Line(New(project), "lost", 1)>>),
   Move(office, project, <<Line(Used(office), "new", 1)>>),
   Undo(k2), Undo(k3)}

(* The first form is the receipt that the others need. *)
StockedInit == Init /\ form[k1] = Single("ADDITION", New(project), 2)

StockedSpec == StockedInit /\ [][Next]_vars
StockedFairSpec == StockedSpec /\ \A c \in Client : SF_vars(Step(c))

(* Requests are interchangeable; keys are, unless a form names one. *)
RequestSymmetry == Permutations(Client)
FormSymmetry    == Permutations(Client) \cup Permutations(Key)
=============================================================================
