---------------------------- MODULE StockAccount ----------------------------
(***************************************************************************)
(* What the inventory promises, with no rows, locks, lines or movements:   *)
(* each form is an order to change some balances by given amounts.  It is  *)
(* carried out as a whole and at most once, it may be undone as a whole    *)
(* and at most once, and no balance is ever negative.                      *)
(***************************************************************************)
EXTENDS Integers

CONSTANTS Record, Form, NoOrder

VARIABLES balance,   \* [Record -> Nat]
          order,     \* [Form -> [Record -> Int] or NoOrder, for a form that undoes another]
          carried,   \* forms carried out
          undone     \* forms undone since

Init ==
  /\ balance = [r \in Record |-> 0]
  /\ order \in [Form -> [Record -> Int] \cup {NoOrder}]
  /\ carried = {}
  /\ undone = {}

Shift(f, sign) ==
  /\ \A r \in Record : balance[r] + sign * order[f][r] >= 0
  /\ balance' = [r \in Record |-> balance[r] + sign * order[f][r]]

CarryOut(f) ==
  /\ f \notin carried /\ order[f] # NoOrder
  /\ Shift(f, 1)
  /\ carried' = carried \cup {f}
  /\ UNCHANGED <<order, undone>>

Undo(f, g) ==
  /\ f \notin carried /\ order[f] = NoOrder
  /\ g \in carried \ undone /\ order[g] # NoOrder
  /\ Shift(g, -1)
  /\ carried' = carried \cup {f}
  /\ undone' = undone \cup {g}
  /\ UNCHANGED order

Next == \E f \in Form : CarryOut(f) \/ \E g \in Form : Undo(f, g)

Spec == Init /\ [][Next]_<<balance, order, carried, undone>>
=============================================================================
