---------------------------- MODULE StockPromise ----------------------------
(***************************************************************************)
(* StockLedger implements StockAccount.  A form's order is what its fields *)
(* ask for; the form is carried out when a movement with its key is        *)
(* committed, and undone when a reversal of such a movement is.            *)
(***************************************************************************)
EXTENDS StockLedger, Functions

(* What line n of a transfer does to the balance of row i. *)
NetOf(f, n, i) ==
  (IF Arrives(f, n) /\ Destination(f, n) = i THEN f.lines[n].qty ELSE 0)
  - (IF f.lines[n].item = i THEN f.lines[n].qty ELSE 0)

Net(f, i) == [n \in DOMAIN f.lines |-> NetOf(f, n, i)]

Amount(f, i) ==
  CASE f.kind = "TRANSFER" -> SumFunctionOnSet(Net(f, i), DOMAIN f.lines)
    [] f.kind \in SingleRowOps ->
         IF i # f.item THEN 0 ELSE IF f.kind \in InboundTypes THEN f.qty ELSE -f.qty

ASSUME NoOrderAssumption == None \notin [Item -> Int]

OrderOf(k) ==
  IF form[k].kind \in {"REVERSAL", "UNDO"} THEN None ELSE [i \in Item |-> Amount(form[k], i)]

FormsOf(movements) == {m.key[1] : m \in movements}

Movements == UNION {{stock[i].log[m] : m \in DOMAIN stock[i].log} : i \in Item}

ReversedMovements ==
  UNION {{stock[i].log[stock[i].log[m].rev] : m \in {r \in DOMAIN stock[i].log : stock[i].log[r].rev # 0}}
         : i \in Item}

Balance == [i \in Item |-> stock[i].qty]
Orders  == [k \in Key |-> OrderOf(k)]
Carried == FormsOf(Movements)
Undone  == FormsOf(ReversedMovements)

Account == INSTANCE StockAccount
  WITH Record  <- Item,
       Form    <- Key,
       NoOrder <- None,
       balance <- Balance,
       order   <- Orders,
       carried <- Carried,
       undone  <- Undone

(* Every interleaving of requests, aborts, archive and Trash steps changes  *)
(* balances only by carrying out or undoing one whole form once.            *)
KeepsPromise == Account!Spec
=============================================================================
