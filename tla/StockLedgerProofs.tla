------------------------- MODULE StockLedgerProofs -------------------------
(***************************************************************************)
(* The ledger of StockLedger for every set of locations, materials,        *)
(* requests, keys and forms, and in every interleaving.  First: balances   *)
(* reconcile with the movements.  Then: the histories only grow, each form *)
(* is in them at most once, a transfer is in them as a whole, and what is  *)
(* undone is undone once.  Last, the ledger implements StockAccount.       *)
(***************************************************************************)
EXTENDS StockPromise, SumTheorems

MovementType == InboundTypes \cup OutboundTypes \cup {"REVERSAL"}

(* What a running request may rely on.  Its key is a key; a transfer in    *)
(* its lines has all its source rows, and a reversal all its rows, locked. *)
Started(c) ==
  /\ txn[c].pc # "idle" => txn[c].key \in Key
  /\ txn[c].pc = "lines" =>
       /\ form[txn[c].key].kind = "TRANSFER"
       /\ txn[c].n > 0
       /\ SourceRows(form[txn[c].key]) \subseteq DOMAIN held[c]
  /\ txn[c].pc = "undo" =>
       /\ form[txn[c].key].kind = "UNDO"
       /\ UndoAt(c).kind = "TRANSFER"
       /\ txn[c].n <= Len(UndoAt(c).lines)

HeldReconciles == \A c \in Client : \A i \in DOMAIN held[c] : Reconciles(held[c][i])

TransfersAsked == \A k \in Key : transfers[k] # None => form[k].kind = "TRANSFER"

(* The inductive invariant: committed rows reconcile because the rows that *)
(* a transaction has locked and written do.                                *)
IInv ==
  /\ TypeOK
  /\ LedgerReconciles
  /\ HeldReconciles
  /\ TransfersAsked
  /\ \A c \in Client : Started(c)

----------------------------------------------------------------------------
(* Rows *)

(* A posted movement leaves a well-formed row (_create_movement).          *)
LEMMA PostedRow ==
  ASSUME NEW row \in Row, NEW type \in MovementType, NEW qty \in Quantity,
         NEW new \in Nat, NEW key \in MovementKey, NEW rev \in Nat
  PROVE  Posted(row, type, qty, new, key, rev) \in Row
<1> DEFINE r == [type |-> type, qty |-> qty, prev |-> row.qty, new |-> new,
                 key |-> key, rev |-> rev]
<1>1. r \in Movement
  BY DEF Movement, MovementType, Row
<1>2. Append(row.log, r) \in Seq(Movement)
  BY <1>1 DEF Row
<1> QED
  BY <1>2 DEF Posted, Row

(* A movement whose new balance is what its type says extends a history    *)
(* that reconciles to one that does.                                       *)
LEMMA PostedReconciles ==
  ASSUME NEW row \in Row, NEW type \in MovementType, NEW qty \in Quantity,
         NEW new \in Nat, NEW key \in MovementKey, NEW rev \in Nat,
         Reconciles(row),
         type # "REVERSAL" => new = row.qty + IF type \in InboundTypes THEN qty ELSE -qty
  PROVE  Reconciles(Posted(row, type, qty, new, key, rev))
<1> DEFINE r   == [type |-> type, qty |-> qty, prev |-> row.qty, new |-> new,
                   key |-> key, rev |-> rev]
           out == Posted(row, type, qty, new, key, rev)
           len == Len(row.log)
<1>1. row.log \in Seq(Movement) /\ len \in Nat
  BY DEF Row
<1>2. out.log = Append(row.log, r) /\ out.qty = new
  BY DEF Posted, Row
<1>3. /\ Len(out.log) = len + 1 /\ out.log[len + 1] = r
      /\ DOMAIN out.log = 1..(len + 1)
      /\ \A m \in 1..len : out.log[m] = row.log[m]
  BY <1>1, <1>2
<1>4. out.qty = IF out.log = <<>> THEN 0 ELSE out.log[Len(out.log)].new
  <2>1. r.new = new
    OBVIOUS
  <2>2. out.log # <<>>
    BY <1>1, <1>2
  <2> HIDE DEF out, r
  <2> QED
    BY <1>1, <1>2, <1>3, <2>1, <2>2
<1>5. ASSUME NEW m \in DOMAIN out.log
      PROVE  /\ out.log[m].prev = IF m = 1 THEN 0 ELSE out.log[m-1].new
             /\ out.log[m].type # "REVERSAL" =>
                  out.log[m].new = out.log[m].prev + Effect(out.log[m])
  <2>1. CASE m = len + 1
    <3>1. row.qty = IF m = 1 THEN 0 ELSE out.log[m-1].new
      <4>1. CASE len = 0
        BY <2>1, <4>1, <1>1 DEF Reconciles
      <4>2. CASE len # 0
        <5>1. row.log # <<>> /\ len \in 1..len
          BY <1>1, <4>2
        <5>2. m # 1 /\ out.log[m-1] = row.log[len]
          BY <2>1, <4>2, <5>1, <1>1, <1>3
        <5> QED
          BY <5>1, <5>2 DEF Reconciles
      <4> QED
        BY <4>1, <4>2
    <3>2. r.type # "REVERSAL" => r.new = r.prev + Effect(r)
      BY DEF Effect
    <3> QED
      BY <2>1, <3>1, <3>2, <1>3
  <2>2. CASE m \in 1..len
    <3>1. /\ out.log[m] = row.log[m]
          /\ m # 1 => out.log[m-1] = row.log[m-1]
      <4>1. m # 1 => m - 1 \in 1..len
        BY <2>2, <1>1
      <4> HIDE DEF out
      <4> QED
        BY <2>2, <4>1, <1>3
    <3>2. m \in DOMAIN row.log
      BY <2>2, <1>1
    <3> QED
      BY <3>1, <3>2 DEF Reconciles
  <2> QED
    BY <2>1, <2>2, <1>1, <1>3
<1> QED
  BY <1>4, <1>5 DEF Reconciles

(* Archive, Trash and their restores leave the history of a row alone.     *)
LEMMA MarkedRow ==
  ASSUME NEW row \in Row, NEW s \in {"absent", "active", "archived"}, NEW t \in BOOLEAN
  PROVE  /\ [row EXCEPT !.status = s] \in Row
         /\ [row EXCEPT !.trashed = t] \in Row
         /\ [row EXCEPT !.status = s].qty = row.qty
         /\ [row EXCEPT !.status = s].log = row.log
         /\ Reconciles(row) => Reconciles([row EXCEPT !.status = s])
         /\ Reconciles(row) => Reconciles([row EXCEPT !.trashed = t])
BY DEF Row, Reconciles

(* The two legs of a transfer line: the source row and the destination row. *)
LEMMA RowMovedOut ==
  ASSUME NEW row \in Row, Reconciles(row), NEW qty \in Quantity, Storable(row.qty - qty),
         NEW type \in {"TRANSFER_OUT", "LOSS"}, NEW key \in MovementKey
  PROVE  /\ Posted(row, type, qty, row.qty - qty, key, 0) \in Row
         /\ Reconciles(Posted(row, type, qty, row.qty - qty, key, 0))
<1>1. type \in MovementType /\ type \notin InboundTypes /\ type # "REVERSAL"
  BY DEF MovementType, InboundTypes, OutboundTypes
<1>2. row.qty \in Nat /\ qty \in Nat
  BY DEF Row, Quantity
<1>3. row.qty - qty \in Nat /\ row.qty - qty = row.qty + (-qty)
  BY <1>2 DEF Storable
<1> QED
  BY <1>1, <1>3, PostedRow, PostedReconciles

LEMMA RowMovedIn ==
  ASSUME NEW row \in Row, Reconciles(row), NEW qty \in Quantity, NEW key \in MovementKey
  PROVE  LET in == Posted([row EXCEPT !.status = "active"], "TRANSFER_IN", qty,
                          row.qty + qty, key, 0)
         IN  in \in Row /\ Reconciles(in)
<1> DEFINE active == [row EXCEPT !.status = "active"]
<1>1. active \in Row /\ Reconciles(active) /\ active.qty = row.qty
  BY MarkedRow
<1>2. "TRANSFER_IN" \in MovementType /\ "TRANSFER_IN" \in InboundTypes
  BY DEF MovementType, InboundTypes
<1>3. row.qty + qty \in Nat
  BY DEF Row, Quantity
<1> HIDE DEF active
<1>4. /\ Posted(active, "TRANSFER_IN", qty, row.qty + qty, key, 0) \in Row
      /\ Reconciles(Posted(active, "TRANSFER_IN", qty, row.qty + qty, key, 0))
  BY <1>1, <1>2, <1>3, PostedRow, PostedReconciles
<1> QED
  BY <1>4 DEF active

LEMMA AbsentReconciles == Absent \in Row /\ Reconciles(Absent)
BY DEF Absent, Row, Reconciles

(* Undoing a leg of a transfer line keeps a row well formed and reconciled. *)
LEMMA LegUndoneRow ==
  ASSUME NEW row \in Row, Reconciles(row), NEW original, NEW shift \in Int,
         NEW qty \in Quantity, NEW key \in MovementKey, row.qty + shift >= 0
  PROVE  /\ LegUndone(row, original, shift, qty, key) \in Row
         /\ Reconciles(LegUndone(row, original, shift, qty, key))
<1>1. CASE Originals(row, original) = {}
  BY <1>1 DEF LegUndone
<1>2. CASE Originals(row, original) # {}
  <2> DEFINE m == CHOOSE o \in Originals(row, original) : TRUE
  <2>1. m \in Originals(row, original)
    BY <1>2
  <2>2. m \in Nat
    BY <2>1 DEF Originals, Row
  <2>3. row.qty + shift \in Nat /\ "REVERSAL" \in MovementType
    BY DEF Row, MovementType
  <2> HIDE DEF m
  <2>4. LegUndone(row, original, shift, qty, key)
          = Posted(row, "REVERSAL", qty, row.qty + shift, key, m)
    BY <1>2 DEF LegUndone, m
  <2> QED
    BY <2>2, <2>3, <2>4, PostedRow, PostedReconciles
<1> QED
  BY <1>1, <1>2

(* The fields of a form, by what it asks for. *)
LEMMA FormFields ==
  ASSUME TypeOK, NEW k \in Key
  PROVE  /\ form[k].kind \in SingleRowOps => form[k].item \in Item /\ form[k].qty \in Quantity
         /\ form[k].kind = "REVERSAL" => form[k].item \in Item /\ form[k].pos \in Quantity
         /\ form[k].kind = "UNDO" => form[k].of \in Key
         /\ form[k].kind = "TRANSFER" =>
              /\ form[k].dst \in Location
              /\ form[k].lines \in Seq(TransferLine)
         /\ form[k].kind \in SingleRowOps \cup {"REVERSAL", "TRANSFER", "UNDO"}
<1>1. form[k] \in Operation
  BY FormsAssumption DEF TypeOK
<1> QED
  BY <1>1 DEF Operation, SingleRowOps

(* The fields of a movement of a row. *)
LEMMA MovementFields ==
  ASSUME NEW row \in Row, NEW m \in DOMAIN row.log
  PROVE  /\ m \in Nat /\ row.qty \in Nat
         /\ row.log[m].qty \in Quantity
         /\ row.log[m].prev \in Nat /\ row.log[m].new \in Nat
<1>1. row.log \in Seq(Movement) /\ row.qty \in Nat
  BY DEF Row
<1>2. row.log[m] \in Movement /\ m \in Nat
  BY <1>1
<1> QED
  BY <1>1, <1>2 DEF Movement

(* The fields of a transfer line, and the row its units arrive in. *)
LEMMA LineFields ==
  ASSUME TypeOK, NEW k \in Key, form[k].kind = "TRANSFER", NEW n \in DOMAIN form[k].lines
  PROVE  /\ n \in Nat
         /\ form[k].lines[n].item \in Item
         /\ form[k].lines[n].qty \in Quantity
         /\ Arrives(form[k], n) => Destination(form[k], n) \in Item
<1>1. form[k].lines \in Seq(TransferLine) /\ form[k].dst \in Location
  BY FormFields
<1>2. form[k].lines[n] \in TransferLine /\ n \in Nat
  BY <1>1
<1>3. /\ form[k].lines[n].item \in Item /\ form[k].lines[n].qty \in Quantity
      /\ form[k].lines[n].outcome \in Outcome
  BY <1>2 DEF TransferLine
<1>4. form[k].lines[n].item.mat \in Material
  BY <1>3 DEF Item
<1> QED
  BY <1>1, <1>2, <1>3, <1>4 DEF Arrives, Destination, Item, Outcome

(* The rows a transfer touches are stock records. *)
LEMMA TransferRows ==
  ASSUME TypeOK, NEW k \in Key, form[k].kind = "TRANSFER"
  PROVE  SourceRows(form[k]) \subseteq Item /\ ArrivalRows(form[k]) \subseteq Item
<1>1. \A n \in DOMAIN form[k].lines : form[k].lines[n].item \in Item
  BY LineFields
<1>2. \A n \in DOMAIN form[k].lines : Arrives(form[k], n) => Destination(form[k], n) \in Item
  BY LineFields
<1>3. SourceRows(form[k]) \subseteq Item
  BY <1>1 DEF SourceRows
<1>4. ASSUME NEW i \in ArrivalRows(form[k])
      PROVE  i \in Item
  <2>1. PICK n \in DOMAIN form[k].lines : Arrives(form[k], n) /\ i = Destination(form[k], n)
    BY <1>4, Zenon DEF ArrivalRows
  <2> QED
    BY <1>2, <2>1
<1> QED
  BY <1>3, <1>4

----------------------------------------------------------------------------
(* What every step shares *)

LEMMA SeenRow ==
  ASSUME IInv, NEW c \in Client, NEW i \in Item
  PROVE  Seen(c, i) \in Row /\ Reconciles(Seen(c, i))
BY DEF IInv, TypeOK, LedgerReconciles, HeldReconciles, Seen

(* Replacing one committed row by a good one. *)
LEMMA RowWritten ==
  ASSUME IInv, NEW i \in Item, NEW row \in Row, Reconciles(row),
         stock' = [stock EXCEPT ![i] = row]
  PROVE  stock' \in [Item -> Row] /\ LedgerReconciles'
BY DEF IInv, TypeOK, LedgerReconciles

(* Ending a request leaves the others as they were. *)
LEMMA RequestEnded ==
  ASSUME IInv, NEW c \in Client, Finish(c), form' = form,
         \A d \in Client \ {c} : held'[d] = held[d]
  PROVE  txn' \in [Client -> Request] /\ \A d \in Client : Started(d)'
<1>1. txn' = [txn EXCEPT ![c] = Idle] /\ txn \in [Client -> Request]
  BY DEF Finish, IInv, TypeOK
<1>2. Idle \in Request
  BY DEF Idle, Request
<1>3. ASSUME NEW d \in Client
      PROVE  Started(d)'
  <2>1. CASE d = c
    <3>1. txn'[c].pc = "idle"
      BY <1>1 DEF Idle
    <3> QED
      BY <2>1, <3>1 DEF Started
  <2>2. CASE d # c
    <3>1. txn'[d] = txn[d] /\ held'[d] = held[d]
      BY <1>1, <2>2
    <3>2. Started(d)
      BY DEF IInv
    <3> QED
      BY <3>1, <3>2 DEF Started, UndoAt
  <2> QED
    BY <2>1, <2>2
<1> QED
  BY <1>1, <1>2, <1>3

(* Moving request c on, with its own rows rewritten. *)
LEMMA RequestMoved ==
  ASSUME IInv, NEW c \in Client, NEW req \in Request, NEW rows,
         txn' = [txn EXCEPT ![c] = req],
         DOMAIN held' = Client, held'[c] = rows, \A d \in Client \ {c} : held'[d] = held[d],
         UNCHANGED <<stock, transfers, site, completing, form>>,
         DOMAIN rows \subseteq Item,
         \A i \in DOMAIN rows : rows[i] \in Row /\ Reconciles(rows[i]),
         Started(c)'
  PROVE  IInv'
<1>1. /\ txn'[c] = req
      /\ \A d \in Client \ {c} : txn'[d] = txn[d]
      /\ txn' \in [Client -> Request]
  BY DEF IInv, TypeOK
<1>2. TypeOK'
  BY <1>1 DEF IInv, TypeOK
<1>3. HeldReconciles'
  BY <1>1 DEF IInv, HeldReconciles
<1>4. LedgerReconciles' /\ TransfersAsked'
  BY DEF IInv, LedgerReconciles, TransfersAsked
<1>5. \A d \in Client : Started(d)'
  <2> TAKE d \in Client
  <2>1. CASE d = c
    BY <2>1
  <2>2. CASE d # c
    BY <2>2, <1>1 DEF IInv, Started, UndoAt
  <2> QED
    BY <2>1, <2>2
<1> QED
  BY <1>2, <1>3, <1>4, <1>5 DEF IInv

(* An error, a crash or a deadlock discards what the request has written. *)
LEMMA RolledBack ==
  ASSUME IInv, NEW c \in Client, RollBack(c)
  PROVE  IInv'
<1>1. Idle \in Request /\ txn' = [txn EXCEPT ![c] = Idle]
  BY DEF Idle, Request, RollBack, Finish
<1>2. Started(c)'
  <2>1. txn'[c].pc = "idle"
    BY <1>1 DEF IInv, TypeOK, Idle
  <2> QED
    BY <2>1 DEF Started
<1>3. /\ DOMAIN NoRows = {} /\ DOMAIN held' = Client /\ held'[c] = NoRows
      /\ \A d \in Client \ {c} : held'[d] = held[d]
  BY DEF RollBack, NoRows, IInv, TypeOK
<1> QED
  BY <1>1, <1>2, <1>3, RequestMoved DEF RollBack

(* A committed transaction publishes rows that reconcile. *)
LEMMA Published ==
  ASSUME IInv, NEW c \in Client, Publish(c),
         transfers' \in [Key -> Transfer \cup {None}], TransfersAsked'
  PROVE  IInv'
<1>1. /\ held' = [held EXCEPT ![c] = NoRows] /\ DOMAIN NoRows = {}
      /\ UNCHANGED <<site, completing, form>> /\ Finish(c)
      /\ stock' = [i \in Item |-> Seen(c, i)]
  BY DEF Publish, NoRows
<1>2. stock' \in [Item -> Row] /\ LedgerReconciles'
  BY <1>1, SeenRow DEF LedgerReconciles
<1>3. /\ DOMAIN held' = Client /\ held'[c] = NoRows
      /\ \A d \in Client \ {c} : held'[d] = held[d]
  BY <1>1 DEF IInv, TypeOK
<1>4. txn' \in [Client -> Request] /\ \A d \in Client : Started(d)'
  BY <1>1, <1>3, RequestEnded
<1>5. TypeOK'
  BY <1>1, <1>2, <1>3, <1>4 DEF IInv, TypeOK
<1>6. HeldReconciles'
  BY <1>1, <1>3 DEF IInv, HeldReconciles
<1> QED
  BY <1>2, <1>4, <1>5, <1>6 DEF IInv

(* A single-row operation replaces one row and ends its request. *)
LEMMA RowPosted ==
  ASSUME IInv, NEW c \in Client, NEW i \in Item, NEW row \in Row, Reconciles(row),
         stock' = [stock EXCEPT ![i] = row], Finish(c),
         UNCHANGED <<transfers, site, completing, form, held>>
  PROVE  IInv'
<1>1. stock' \in [Item -> Row] /\ LedgerReconciles'
  BY RowWritten
<1>2. txn' \in [Client -> Request] /\ \A d \in Client : Started(d)'
  BY RequestEnded
<1>3. TypeOK' /\ HeldReconciles' /\ TransfersAsked'
  BY <1>1, <1>2 DEF IInv, TypeOK, HeldReconciles, TransfersAsked
<1> QED
  BY <1>1, <1>2, <1>3 DEF IInv

----------------------------------------------------------------------------
(* One lemma per handler *)

LEMMA InitIInv == Init => IInv
<1> SUFFICES ASSUME Init PROVE IInv
  OBVIOUS
<1>1. Idle \in Request /\ DOMAIN NoRows = {}
  BY DEF Idle, Request, NoRows
<1>2. TypeOK
  BY <1>1, AbsentReconciles DEF Init, TypeOK
<1>3. LedgerReconciles /\ HeldReconciles /\ TransfersAsked
  BY <1>1, AbsentReconciles DEF Init, LedgerReconciles, HeldReconciles, TransfersAsked
<1>4. \A c \in Client : Started(c)
  BY DEF Init, Idle, Started
<1> QED
  BY <1>2, <1>3, <1>4 DEF IInv

LEMMA SubmitKeeps ==
  ASSUME IInv, NEW c \in Client, NEW k \in Key, Submit(c, k)
  PROVE  IInv'
<1> DEFINE req == [pc |-> "checked", key |-> k, n |-> 0]
<1>1. req \in Request /\ txn' = [txn EXCEPT ![c] = req]
  BY DEF Submit, Request
<1>2. /\ held' = held /\ DOMAIN held = Client
      /\ DOMAIN held[c] \subseteq Item
      /\ \A i \in DOMAIN held[c] : held[c][i] \in Row /\ Reconciles(held[c][i])
  BY DEF Submit, IInv, TypeOK, HeldReconciles
<1>3. txn'[c] = req
  BY <1>1 DEF IInv, TypeOK
<1>4. Started(c)'
  BY <1>3 DEF Started
<1> QED
  BY <1>1, <1>2, <1>4, RequestMoved DEF Submit

LEMMA PostSingleKeeps ==
  ASSUME IInv, NEW c \in Client, PostSingle(c)
  PROVE  IInv'
<1> DEFINE k   == txn[c].key
           f   == form[k]
           row == [stock[f.item] EXCEPT !.status = "active"]
           new == NewBalance(f)
<1>1. k \in Key
  BY DEF IInv, Started, PostSingle, Locked
<1>2. /\ f.kind \in SingleRowOps /\ Allowed(k)
      /\ stock' = [stock EXCEPT ![f.item] =
                      Posted([stock[f.item] EXCEPT !.status = "active"],
                             f.kind, f.qty, new, OwnKey(k), 0)]
      /\ Finish(c) /\ UNCHANGED <<transfers, site, completing, form, held>>
  BY DEF PostSingle
<1>3. f.item \in Item /\ f.qty \in Quantity
  BY <1>1, <1>2, FormFields DEF IInv
<1>4. stock[f.item] \in Row /\ Reconciles(stock[f.item])
  BY <1>3 DEF IInv, TypeOK, LedgerReconciles
<1>5. row \in Row /\ Reconciles(row) /\ row.qty = stock[f.item].qty
  BY <1>4, MarkedRow DEF Row
<1>6. f.kind \in {"USAGE", "ADJUSTMENT_OUT"} => f.qty <= stock[f.item].qty
  BY <1>2 DEF Allowed, UsageAllowed
<1>7. new \in Nat /\ new = row.qty + IF f.kind \in InboundTypes THEN f.qty ELSE -f.qty
  <2>1. stock[f.item].qty \in Nat /\ f.qty \in Nat
    BY <1>3, <1>4 DEF Row, Quantity
  <2>2. f.kind \notin InboundTypes => f.kind \in {"USAGE", "ADJUSTMENT_OUT"}
    BY <1>2 DEF SingleRowOps, InboundTypes
  <2>3. new = IF f.kind \in InboundTypes THEN stock[f.item].qty + f.qty ELSE stock[f.item].qty - f.qty
    BY DEF NewBalance
  <2> DEFINE q == stock[f.item].qty
             d == f.qty
  <2>4. q \in Nat /\ d \in Nat /\ row.qty = q
    BY <2>1, <1>5
  <2>5. f.kind \notin InboundTypes => d <= q
    BY <2>2, <1>6
  <2>6. new = IF f.kind \in InboundTypes THEN q + d ELSE q - d
    BY <2>3
  <2> HIDE DEF new, q, row
  <2>7. new \in Nat /\ new = row.qty + IF f.kind \in InboundTypes THEN d ELSE -d
    <3> HIDE DEF d, f
    <3> QED
      BY <2>4, <2>5, <2>6
  <2> QED
    BY <2>7
<1>8. f.kind \in MovementType /\ f.kind # "REVERSAL"
  BY <1>2 DEF SingleRowOps, MovementType, InboundTypes, OutboundTypes
<1>9. OwnKey(k) \in MovementKey /\ 0 \in Nat
  BY <1>1 DEF OwnKey, MovementKey, Leg
<1> HIDE DEF k, f, row, new
<1>10. /\ Posted(row, f.kind, f.qty, new, OwnKey(k), 0) \in Row
       /\ Reconciles(Posted(row, f.kind, f.qty, new, OwnKey(k), 0))
  BY <1>3, <1>5, <1>7, <1>8, <1>9, PostedRow, PostedReconciles
<1> QED
  BY <1>2, <1>3, <1>10, RowPosted DEF row

LEMMA ReverseMovementKeeps ==
  ASSUME IInv, NEW c \in Client, ReverseMovement(c)
  PROVE  IInv'
<1> DEFINE k   == txn[c].key
           f   == form[k]
           row == stock[f.item]
           original == row.log[f.pos]
           new == row.qty - (original.new - original.prev)
<1>1. k \in Key
  BY DEF IInv, Started, ReverseMovement, Locked
<1>2. /\ f.kind = "REVERSAL" /\ Allowed(k)
      /\ stock' = [stock EXCEPT ![f.item] =
                      Posted(row, "REVERSAL", original.qty, new, OwnKey(k), f.pos)]
      /\ Finish(c) /\ UNCHANGED <<transfers, site, completing, form, held>>
  BY DEF ReverseMovement
<1>3. f.item \in Item /\ f.pos \in Nat
  BY <1>1, <1>2, FormFields DEF IInv, Quantity
<1>4. row \in Row /\ Reconciles(row)
  BY <1>3 DEF IInv, TypeOK, LedgerReconciles
<1>5. f.pos \in DOMAIN row.log /\ row.qty - (original.new - original.prev) >= 0
  BY <1>2 DEF Allowed, ReversalAllowed
<1>6. /\ row.qty \in Nat /\ original.qty \in Quantity
      /\ original.new \in Nat /\ original.prev \in Nat
  BY <1>4, <1>5, MovementFields
<1>7. new \in Nat
  <2> HIDE DEF row, original
  <2> QED
    BY <1>5, <1>6
<1>8. "REVERSAL" \in MovementType /\ OwnKey(k) \in MovementKey
  BY <1>1 DEF OwnKey, MovementKey, Leg, MovementType
<1> HIDE DEF k, f, row, new, original
<1>9. /\ Posted(row, "REVERSAL", original.qty, new, OwnKey(k), f.pos) \in Row
      /\ Reconciles(Posted(row, "REVERSAL", original.qty, new, OwnKey(k), f.pos))
  BY <1>3, <1>4, <1>6, <1>7, <1>8, PostedRow, PostedReconciles
<1> QED
  BY <1>2, <1>3, <1>9, RowPosted

LEMMA BeginTransferKeeps ==
  ASSUME IInv, NEW c \in Client, BeginTransfer(c)
  PROVE  IInv'
<1> DEFINE k    == txn[c].key
           f    == form[k]
           rows == [i \in SourceRows(f) |-> stock[i]]
           req  == [txn[c] EXCEPT !.pc = "lines", !.n = 1]
<1>1. k \in Key /\ f.kind = "TRANSFER"
  BY DEF IInv, Started, BeginTransfer, Locked
<1>3. SourceRows(f) \subseteq Item
  BY <1>1, LineFields DEF IInv, SourceRows
<1>4. \A i \in DOMAIN rows : rows[i] \in Row /\ Reconciles(rows[i])
  BY <1>3 DEF IInv, TypeOK, LedgerReconciles
<1>5. req \in Request /\ req.pc = "lines" /\ req.n = 1 /\ req.key = k
  BY DEF IInv, TypeOK, Request
<1>6. txn' = [txn EXCEPT ![c] = req] /\ held' = [held EXCEPT ![c] = rows] /\ form' = form
  BY DEF BeginTransfer
<1>7. /\ txn'[c] = req /\ held'[c] = rows /\ DOMAIN rows = SourceRows(f)
      /\ DOMAIN held' = Client /\ \A d \in Client \ {c} : held'[d] = held[d]
  BY <1>6 DEF IInv, TypeOK
<1>8. Started(c)'
  <2> HIDE DEF rows, req
  <2>1. SourceRows(form'[k]) = SourceRows(f)
    BY <1>6 DEF SourceRows
  <2> QED
    BY <1>1, <1>5, <1>6, <1>7, <2>1 DEF Started
<1> QED
  BY <1>3, <1>4, <1>5, <1>6, <1>7, <1>8, RequestMoved DEF BeginTransfer

LEMMA MoveLineKeeps ==
  ASSUME IInv, NEW c \in Client, MoveLine(c)
  PROVE  IInv'
<1> DEFINE k    == txn[c].key
           f    == form[k]
           n    == txn[c].n
           line == f.lines[n]
           src  == held[c][line.item]
           dest == Destination(f, n)
           type == IF Arrives(f, n) THEN "TRANSFER_OUT" ELSE "LOSS"
           out  == Posted(src, type, line.qty, src.qty - line.qty, <<k, n, "out">>, 0)
           inn  == Posted([Seen(c, dest) EXCEPT !.status = "active"], "TRANSFER_IN",
                          line.qty, Seen(c, dest).qty + line.qty, <<k, n, "in">>, 0)
           rows == [i \in DOMAIN held[c] \cup (IF Arrives(f, n) THEN {dest} ELSE {}) |->
                      IF i = line.item THEN out
                      ELSE IF Arrives(f, n) /\ i = dest THEN inn ELSE held[c][i]]
           req  == [txn[c] EXCEPT !.n = n + 1]
<1>1. /\ txn[c].pc = "lines" /\ n <= Len(f.lines)
      /\ Storable(src.qty - line.qty)
      /\ held' = [held EXCEPT ![c] = rows] /\ txn' = [txn EXCEPT ![c].n = n + 1]
      /\ UNCHANGED <<stock, transfers, site, completing, form>>
  BY DEF MoveLine, AtLine, LineAllowed
<1>2. /\ k \in Key /\ f.kind = "TRANSFER" /\ n > 0 /\ n \in Nat
      /\ SourceRows(f) \subseteq DOMAIN held[c]
  BY <1>1 DEF IInv, Started, TypeOK, Request
<1>3. n \in DOMAIN f.lines
  <2>1. f.lines \in Seq(TransferLine)
    BY <1>2, FormFields DEF IInv
  <2>2. DOMAIN f.lines = 1..Len(f.lines) /\ Len(f.lines) \in Nat
    BY <2>1
  <2> HIDE DEF n, f
  <2> QED
    BY <1>1, <1>2, <2>2
<1>4. /\ line.item \in Item /\ line.qty \in Quantity
      /\ Arrives(f, n) => dest \in Item
  BY <1>2, <1>3, LineFields DEF IInv
<1>5. line.item \in DOMAIN held[c]
  BY <1>2, <1>3 DEF SourceRows
<1>6. src \in Row /\ Reconciles(src)
  BY <1>5 DEF IInv, TypeOK, HeldReconciles
<1>7. <<k, n, "out">> \in MovementKey /\ <<k, n, "in">> \in MovementKey
  BY <1>2 DEF MovementKey, Leg
<1>8. out \in Row /\ Reconciles(out)
  BY <1>1, <1>4, <1>6, <1>7, RowMovedOut
<1>9. ASSUME Arrives(f, n)
      PROVE  inn \in Row /\ Reconciles(inn)
  <2>1. Seen(c, dest) \in Row /\ Reconciles(Seen(c, dest))
    BY <1>4, <1>9, SeenRow
  <2> QED
    BY <2>1, <1>4, <1>7, RowMovedIn
<1>10. /\ DOMAIN held[c] \subseteq Item
       /\ \A i \in DOMAIN held[c] : held[c][i] \in Row /\ Reconciles(held[c][i])
  BY DEF IInv, TypeOK, HeldReconciles
<1>11. txn[c] \in Request /\ DOMAIN held = Client /\ txn \in [Client -> Request]
  BY DEF IInv, TypeOK
<1>12. /\ req \in Request /\ req.pc = "lines" /\ req.key = k /\ req.n > 0
       /\ txn' = [txn EXCEPT ![c] = req]
  <2>1. txn' = [txn EXCEPT ![c] = req]
    BY <1>1
  <2>2. n + 1 \in Nat /\ n + 1 > 0
    <3> HIDE DEF n
    <3> QED
      BY <1>2
  <2>3. req \in Request /\ req.pc = "lines" /\ req.key = k /\ req.n = n + 1
    BY <1>1, <1>11, <2>2 DEF Request
  <2> QED
    BY <2>1, <2>2, <2>3
<1>13. /\ DOMAIN rows = DOMAIN held[c] \cup (IF Arrives(f, n) THEN {dest} ELSE {})
       /\ \A i \in DOMAIN rows :
            \/ rows[i] = out
            \/ Arrives(f, n) /\ rows[i] = inn
            \/ i \in DOMAIN held[c] /\ rows[i] = held[c][i]
  <2> HIDE DEF out, inn, dest, line, f, n
  <2> QED
    OBVIOUS
<1> HIDE DEF rows, out, inn, req
<1>14. /\ DOMAIN rows \subseteq Item /\ SourceRows(f) \subseteq DOMAIN rows
       /\ \A i \in DOMAIN rows : rows[i] \in Row /\ Reconciles(rows[i])
  <2> HIDE DEF line, dest, f, n
  <2> QED
    BY <1>2, <1>4, <1>8, <1>9, <1>10, <1>13
<1>15. /\ txn'[c] = req /\ held'[c] = rows /\ DOMAIN held' = Client
       /\ \A d \in Client \ {c} : held'[d] = held[d]
  BY <1>1, <1>11, <1>12
<1>16. Started(c)'
  <2>1. SourceRows(form'[k]) = SourceRows(f)
    BY <1>1 DEF SourceRows
  <2> QED
    BY <2>1, <1>1, <1>2, <1>12, <1>14, <1>15 DEF Started
<1> QED
  BY <1>1, <1>12, <1>14, <1>15, <1>16, RequestMoved

LEMMA CommitTransferKeeps ==
  ASSUME IInv, NEW c \in Client, CommitTransfer(c)
  PROVE  IInv'
<1> DEFINE k == txn[c].key
           t == [status |-> "completed", revKey |-> None]
<1>1. k \in Key /\ form[k].kind = "TRANSFER"
  BY DEF IInv, Started, CommitTransfer
<1>2. t \in Transfer /\ transfers' = [transfers EXCEPT ![k] = t]
      /\ transfers \in [Key -> Transfer \cup {None}] /\ Publish(c) /\ form' = form
  BY DEF Transfer, CommitTransfer, Publish, IInv, TypeOK
<1> HIDE DEF k, t
<1>3. transfers' \in [Key -> Transfer \cup {None}] /\ TransfersAsked'
  BY <1>1, <1>2 DEF IInv, TransfersAsked
<1> QED
  BY <1>2, <1>3, Published

LEMMA BeginUndoKeeps ==
  ASSUME IInv, NEW c \in Client, BeginUndo(c)
  PROVE  IInv'
<1> DEFINE k    == txn[c].key
           f    == form[k]
           t    == form[f.of]
           rows == [i \in RowsLocked(f) |-> stock[i]]
           req  == [txn[c] EXCEPT !.pc = "undo", !.n = Len(t.lines)]
<1>1. /\ txn[c].pc = "checked" /\ f.kind = "UNDO" /\ Allowed(k)
      /\ held' = [held EXCEPT ![c] = rows]
      /\ txn' = [txn EXCEPT ![c].pc = "undo", ![c].n = Len(form[f.of].lines)]
      /\ UNCHANGED <<stock, transfers, site, completing, form>>
  BY DEF BeginUndo, Locked
<1>2. k \in Key /\ f.of \in Key
  BY <1>1, FormFields DEF IInv, Started
<1>3. t.kind = "TRANSFER"
  BY <1>1, <1>2 DEF IInv, Allowed, UndoAllowed, TransfersAsked
<1>4. Len(t.lines) \in Nat
  <2>1. t.lines \in Seq(TransferLine)
    BY <1>2, <1>3, FormFields DEF IInv
  <2> HIDE DEF t
  <2> QED
    BY <2>1
<1>5. DOMAIN rows \subseteq Item
  <2>1. DOMAIN rows = SourceRows(t) \cup ArrivalRows(t)
    BY <1>1 DEF RowsLocked
  <2>2. SourceRows(t) \subseteq Item /\ ArrivalRows(t) \subseteq Item
    BY <1>2, <1>3, TransferRows DEF IInv
  <2> QED
    BY <2>1, <2>2
<1>6. \A i \in DOMAIN rows : rows[i] \in Row /\ Reconciles(rows[i])
  BY <1>5 DEF IInv, TypeOK, LedgerReconciles
<1>7. txn[c] \in Request /\ txn \in [Client -> Request] /\ DOMAIN held = Client
  BY DEF IInv, TypeOK
<1>8. req \in Request /\ req.pc = "undo" /\ req.key = k /\ req.n = Len(t.lines)
  BY <1>4, <1>7 DEF Request
<1>9. txn' = [txn EXCEPT ![c] = req]
  BY <1>1
<1> HIDE DEF rows, req
<1>10. /\ txn'[c] = req /\ held'[c] = rows /\ DOMAIN held' = Client
       /\ \A d \in Client \ {c} : held'[d] = held[d]
  BY <1>1, <1>7, <1>9
<1>11. Started(c)'
  <2>1. /\ form' = form /\ txn'[c].pc = "undo" /\ txn'[c].key = k /\ txn'[c].n = Len(t.lines)
    BY <1>1, <1>8, <1>10
  <2> QED
    BY <1>1, <1>2, <1>3, <1>4, <2>1 DEF Started, UndoAt
<1> QED
  BY <1>1, <1>5, <1>6, <1>8, <1>9, <1>10, <1>11, RequestMoved

LEMMA UndoLineKeeps ==
  ASSUME IInv, NEW c \in Client, UndoLine(c)
  PROVE  IInv'
<1> DEFINE k    == txn[c].key
           of   == form[k].of
           f    == form[of]
           n    == txn[c].n
           line == f.lines[n]
           outKey == <<k, n, "reverse-out">>
           inKey  == <<k, n, "reverse-in">>
           Out(i) == LegUndone(held[c][i], <<of, n, "out">>, line.qty, line.qty, outKey)
           In(i)  == LegUndone(held[c][i], <<of, n, "in">>, -line.qty, line.qty, inKey)
           dest == Destination(f, n)
           rows == [i \in DOMAIN held[c] |->
                      IF i = line.item THEN Out(i)
                      ELSE IF Arrives(f, n) /\ i = dest THEN In(i) ELSE held[c][i]]
           req  == [txn[c] EXCEPT !.n = n - 1]
<1>1. /\ txn[c].pc = "undo" /\ n > 0
      /\ Arrives(f, n) => Storable(held[c][dest].qty - line.qty)
      /\ held' = [held EXCEPT ![c] = rows] /\ txn' = [txn EXCEPT ![c].n = n - 1]
      /\ UNCHANGED <<stock, transfers, site, completing, form>>
  BY DEF UndoLine, AtUndo, UndoLineAllowed, UndoAt
<1>2. /\ k \in Key /\ form[k].kind = "UNDO" /\ f.kind = "TRANSFER"
      /\ n <= Len(f.lines) /\ n \in Nat
  BY <1>1 DEF IInv, Started, TypeOK, Request, UndoAt
<1>3. of \in Key
  BY <1>2, FormFields DEF IInv
<1>4. n \in DOMAIN f.lines
  <2>1. f.lines \in Seq(TransferLine)
    BY <1>2, <1>3, FormFields DEF IInv
  <2>2. DOMAIN f.lines = 1..Len(f.lines) /\ Len(f.lines) \in Nat
    BY <2>1, SMTT(30)
  <2> HIDE DEF n, f
  <2> QED
    BY <1>1, <1>2, <2>2
<1>5. line.qty \in Quantity /\ line.qty \in Int /\ line.qty >= 0 /\ -line.qty \in Int
  <2>1. line.qty \in Quantity
    BY <1>2, <1>3, <1>4, LineFields DEF IInv
  <2> HIDE DEF line
  <2> QED
    BY <2>1 DEF Quantity
<1>6. outKey \in MovementKey /\ inKey \in MovementKey
  BY <1>2 DEF MovementKey, Leg
<1>7. /\ DOMAIN held[c] \subseteq Item
      /\ \A i \in DOMAIN held[c] : held[c][i] \in Row /\ Reconciles(held[c][i])
  BY DEF IInv, TypeOK, HeldReconciles
<1>8. ASSUME NEW i \in DOMAIN held[c]
      PROVE  /\ Out(i) \in Row /\ Reconciles(Out(i))
             /\ Arrives(f, n) /\ i = dest => In(i) \in Row /\ Reconciles(In(i))
  <2>1. held[c][i] \in Row /\ Reconciles(held[c][i]) /\ held[c][i].qty \in Nat
    BY <1>7 DEF Row
  <2>2. held[c][i].qty + line.qty >= 0
    <3> HIDE DEF line
    <3> QED
      BY <2>1, <1>5
  <2> HIDE DEF line, outKey, inKey, n, f, of, dest
  <2>3. Arrives(f, n) /\ i = dest => held[c][i].qty + (-line.qty) >= 0
    BY <1>1, <1>5, <2>1 DEF Storable
  <2> QED
    BY <1>5, <1>6, <2>1, <2>2, <2>3, LegUndoneRow
<1>9. txn[c] \in Request /\ txn \in [Client -> Request] /\ DOMAIN held = Client
  BY DEF IInv, TypeOK
<1>10. n - 1 \in Nat /\ n - 1 <= Len(f.lines)
  <2>1. Len(f.lines) \in Nat
    BY <1>2, <1>3, FormFields DEF IInv
  <2> HIDE DEF n, f
  <2> QED
    BY <1>1, <1>2, <2>1
<1>11. req \in Request /\ req.pc = "undo" /\ req.key = k /\ req.n = n - 1
  BY <1>1, <1>9, <1>10 DEF Request
<1>12. txn' = [txn EXCEPT ![c] = req]
  BY <1>1
<1>13. /\ DOMAIN rows = DOMAIN held[c]
       /\ \A i \in DOMAIN rows : \/ rows[i] = Out(i)
                                 \/ Arrives(f, n) /\ i = dest /\ rows[i] = In(i)
                                 \/ rows[i] = held[c][i]
  <2> HIDE DEF Out, In, line, dest, f, n
  <2> QED
    OBVIOUS
<1> HIDE DEF rows, req, Out, In
<1>14. /\ DOMAIN rows \subseteq Item
       /\ \A i \in DOMAIN rows : rows[i] \in Row /\ Reconciles(rows[i])
  <2> HIDE DEF dest, f, n
  <2> QED
    BY <1>7, <1>8, <1>13
<1>15. /\ txn'[c] = req /\ held'[c] = rows /\ DOMAIN held' = Client
       /\ \A d \in Client \ {c} : held'[d] = held[d]
  BY <1>1, <1>9, <1>12
<1>16. Started(c)'
  BY <1>1, <1>2, <1>10, <1>11, <1>15 DEF Started, UndoAt
<1> QED
  BY <1>1, <1>11, <1>12, <1>14, <1>15, <1>16, RequestMoved

LEMMA CommitUndoKeeps ==
  ASSUME IInv, NEW c \in Client, CommitUndo(c)
  PROVE  IInv'
<1> DEFINE k == txn[c].key
           of == form[k].of
           t  == [status |-> "reversed", revKey |-> k]
<1>1. k \in Key /\ form[k].kind = "UNDO" /\ form[of].kind = "TRANSFER"
  BY DEF IInv, Started, CommitUndo, UndoAt
<1>2. t \in Transfer /\ transfers' = [transfers EXCEPT ![of] = t]
      /\ transfers \in [Key -> Transfer \cup {None}] /\ Publish(c) /\ form' = form
  BY <1>1 DEF Transfer, CommitUndo, Publish, IInv, TypeOK
<1>3. of \in Key
  BY <1>1, FormFields DEF IInv
<1> HIDE DEF of, t
<1>4. transfers' \in [Key -> Transfer \cup {None}] /\ TransfersAsked'
  BY <1>1, <1>2, <1>3 DEF IInv, TransfersAsked
<1> QED
  BY <1>2, <1>4, Published

(* Archive, Trash and their restores, and the project statuses. *)
LEMMA LifecycleKeeps ==
  ASSUME IInv, Lifecycle
  PROVE  IInv'
<1>1. ASSUME NEW i \in Item, NEW row \in Row, Reconciles(row),
             stock' = [stock EXCEPT ![i] = row],
             UNCHANGED <<transfers, site, completing, form, txn, held>>
      PROVE  IInv'
  <2>1. stock' \in [Item -> Row] /\ LedgerReconciles'
    BY <1>1, RowWritten
  <2>2. \A c \in Client : Started(c)'
    BY <1>1 DEF IInv, Started, UndoAt
  <2> QED
    BY <1>1, <2>1, <2>2 DEF IInv, TypeOK, HeldReconciles, TransfersAsked
<1>2. \A i \in Item : stock[i] \in Row /\ Reconciles(stock[i])
  BY DEF IInv, TypeOK, LedgerReconciles
<1>3. ASSUME NEW i \in Item, ArchiveItem(i) \/ RestoreItem(i) \/ TrashItem(i) \/ UntrashItem(i)
      PROVE  IInv'
  <2>1. PICK row \in {[stock[i] EXCEPT !.status = "archived"],
                      [stock[i] EXCEPT !.status = "active"],
                      [stock[i] EXCEPT !.trashed = TRUE],
                      [stock[i] EXCEPT !.trashed = FALSE]} :
               /\ stock' = [stock EXCEPT ![i] = row]
               /\ UNCHANGED <<transfers, site, completing, form, txn, held>>
    BY <1>3 DEF ArchiveItem, RestoreItem, TrashItem, UntrashItem
  <2>2. row \in Row /\ Reconciles(row)
    BY <1>2, MarkedRow, ZenonT(40)
  <2> QED
    BY <1>1, <2>1, <2>2
<1>4. ASSUME NEW l \in Location,
             CheckCompletion(l) \/ CompleteProject(l)
               \/ \E s \in {"active", "on_hold"} : SetProjectStatus(l, s)
      PROVE  IInv'
  <2>1. /\ site' \in [Location -> {"active", "on_hold", "completed"}]
        /\ completing' \in SUBSET Location
        /\ UNCHANGED <<stock, transfers, form, txn, held>>
    BY <1>4 DEF IInv, TypeOK, CheckCompletion, CompleteProject, SetProjectStatus
  <2>2. \A c \in Client : Started(c)'
    BY <2>1 DEF IInv, Started, UndoAt
  <2> QED
    BY <2>1, <2>2 DEF IInv, TypeOK, LedgerReconciles, HeldReconciles, TransfersAsked
<1> QED
  BY <1>3, <1>4 DEF Lifecycle

LEMMA RefuseKeeps ==
  ASSUME IInv, NEW c \in Client, Refuse(c)
  PROVE  IInv'
<1>1. Finish(c) /\ UNCHANGED <<stock, transfers, site, completing, form, held>>
  BY DEF Refuse
<1>2. txn' \in [Client -> Request] /\ \A d \in Client : Started(d)'
  BY <1>1, RequestEnded
<1> QED
  BY <1>1, <1>2 DEF IInv, TypeOK, LedgerReconciles, HeldReconciles, TransfersAsked

----------------------------------------------------------------------------
(* The theorems *)

LEMMA NextKeepsIInv == IInv /\ [Next]_vars => IInv'
<1> SUFFICES ASSUME IInv, [Next]_vars PROVE IInv'
  OBVIOUS
<1>1. ASSUME NEW c \in Client, NEW k \in Key, Submit(c, k) PROVE IInv'
  BY <1>1, SubmitKeeps
<1>2. ASSUME NEW c \in Client, Step(c) PROVE IInv'
  <2>1. CASE Refuse(c)
    BY <2>1, RefuseKeeps
  <2>2. CASE PostSingle(c)
    BY <2>2, PostSingleKeeps
  <2>3. CASE ReverseMovement(c)
    BY <2>3, ReverseMovementKeeps
  <2>4. CASE BeginTransfer(c)
    BY <2>4, BeginTransferKeeps
  <2>5. CASE MoveLine(c)
    BY <2>5, MoveLineKeeps
  <2>6. CASE RefuseLine(c)
    BY <2>6, RolledBack DEF RefuseLine
  <2>7. CASE CommitTransfer(c)
    BY <2>7, CommitTransferKeeps
  <2>8. CASE BeginUndo(c)
    BY <2>8, BeginUndoKeeps
  <2>9. CASE UndoLine(c)
    BY <2>9, UndoLineKeeps
  <2>10. CASE RefuseUndoLine(c)
    BY <2>10, RolledBack DEF RefuseUndoLine
  <2>11. CASE CommitUndo(c)
    BY <2>11, CommitUndoKeeps
  <2> QED
    BY <1>2, <2>1, <2>2, <2>3, <2>4, <2>5, <2>6, <2>7, <2>8, <2>9, <2>10, <2>11 DEF Step
<1>3. ASSUME NEW c \in Client, Abort(c) PROVE IInv'
  BY <1>3, RolledBack DEF Abort
<1>4. CASE Lifecycle
  BY <1>4, LifecycleKeeps
<1>5. CASE UNCHANGED vars
  <2>1. \A c \in Client : Started(c)'
    BY <1>5 DEF IInv, vars, Started, UndoAt
  <2> QED
    BY <1>5, <2>1 DEF IInv, vars, TypeOK, LedgerReconciles, HeldReconciles, TransfersAsked
<1> QED
  BY <1>1, <1>2, <1>3, <1>4, <1>5 DEF Next

(* The strengthened invariant holds in every reachable state. *)
THEOREM LedgerInductive == Spec => []IInv
BY InitIInv, NextKeepsIInv, PTL DEF Spec

(* No balance, now or in a history, is ever below zero (the "cannot be     *)
(* negative" rules of stock.py), the cached balance of every stock record  *)
(* is where its movement history ends, and every movement moves the        *)
(* balance by what its type says, for every set of clients, keys,          *)
(* locations and forms.                                                    *)
THEOREM LedgerAlwaysReconciles == Spec => []LedgerInv
<1>1. IInv => LedgerInv
  BY DEF IInv, LedgerInv
<1> QED
  BY <1>1, LedgerInductive, PTL

----------------------------------------------------------------------------
(* The histories *)

(* What a movement's key says of the movement, for a given set of forms g:  *)
(* the form it belongs to, the line, and the row that this leg is in.       *)
LegOf(g, t, n, i, leg) ==
  /\ t \in Key /\ g[t].kind = "TRANSFER" /\ n \in DOMAIN g[t].lines
  /\ IF leg = "in" THEN Arrives(g[t], n) /\ i = Destination(g[t], n)
                     ELSE i = g[t].lines[n].item

Fits(g, i, m) ==
  LET k == m.key[1]  n == m.key[2]  leg == m.key[3] IN
  /\ k \in Key
  /\ leg \in Leg
  /\ m.key = <<k, n, leg>>
  /\ leg = "self" => /\ n = 0 /\ g[k].kind \in SingleRowOps \cup {"REVERSAL"} /\ i = g[k].item
                     /\ m.type = g[k].kind
                     /\ m.type # "REVERSAL" => m.qty = g[k].qty
  /\ leg = "out" => /\ LegOf(g, k, n, i, "out") /\ m.qty = g[k].lines[n].qty
                    /\ m.type \in {"TRANSFER_OUT", "LOSS"}
  /\ leg = "in" => /\ LegOf(g, k, n, i, "in") /\ m.qty = g[k].lines[n].qty
                   /\ m.type = "TRANSFER_IN"
  /\ leg = "reverse-out" => /\ g[k].kind = "UNDO" /\ LegOf(g, g[k].of, n, i, "out")
                            /\ m.type = "REVERSAL"
  /\ leg = "reverse-in" => /\ g[k].kind = "UNDO" /\ LegOf(g, g[k].of, n, i, "in")
                           /\ m.type = "REVERSAL"

(* The movement r reverses the movement o of the same row. *)
Undoes(g, r, o) ==
  /\ r.key[3] = "self" => o.key[3] = "self"
  /\ r.key[3] = "reverse-out" => o.key = <<g[r.key[1]].of, r.key[2], "out">>
  /\ r.key[3] = "reverse-in" => o.key = <<g[r.key[1]].of, r.key[2], "in">>

KeysOnce(row) ==
  \A m, n \in DOMAIN row.log : row.log[m].key = row.log[n].key => m = n

RowSound(g, i, row) ==
  /\ \A m \in DOMAIN row.log : Fits(g, i, row.log[m])
  /\ KeysOnce(row)
  /\ \A m \in DOMAIN row.log :
       row.log[m].rev # 0 => Undoes(g, row.log[m], row.log[row.log[m].rev])
  /\ ReversesOnce(row)
  /\ \A m \in DOMAIN row.log : row.log[m].type = "OPENING" => m = 1

Extends(new, old) == DOMAIN old \subseteq DOMAIN new /\ \A m \in DOMAIN old : new[m] = old[m]

Has(row, key, q) == \E m \in DOMAIN row.log : row.log[m].key = key /\ row.log[m].qty = q

(* A leg of a line is in the history only once its transfer is recorded,    *)
(* and undone only once the transfer is recorded as reversed.               *)
KeyCommitted(g, done, key) ==
  /\ key[3] \in {"out", "in"} => done[key[1]] # None
  /\ key[3] \in {"reverse-out", "reverse-in"} =>
       done[g[key[1]].of] # None /\ done[g[key[1]].of].status = "reversed"

HistorySound(i) ==
  /\ RowSound(form, i, stock[i])
  /\ \A m \in DOMAIN stock[i].log : KeyCommitted(form, transfers, stock[i].log[m].key)

(* What a request that holds rows has written to them so far. *)
Own(req, key) ==
  /\ key[1] = req.key
  /\ \/ req.pc = "lines" /\ key[3] \in {"out", "in"} /\ key[2] < req.n
     \/ req.pc = "undo" /\ key[3] \in {"reverse-out", "reverse-in"} /\ key[2] > req.n

HeldSound(c, i) ==
  /\ Extends(held[c][i].log, stock[i].log)
  /\ RowSound(form, i, held[c][i])
  /\ \A m \in DOMAIN held[c][i].log \ DOMAIN stock[i].log : Own(txn[c], held[c][i].log[m].key)

LineIn(rows, f, k, n, out, in) ==
  /\ f.lines[n].item \in DOMAIN rows
  /\ Has(rows[f.lines[n].item], <<k, n, out>>, f.lines[n].qty)
  /\ Arrives(f, n) =>
       /\ Destination(f, n) \in DOMAIN rows
       /\ Has(rows[Destination(f, n)], <<k, n, in>>, f.lines[n].qty)

LinesSound(c) ==
  LET k == txn[c].key IN
  txn[c].pc = "lines" =>
    /\ transfers[k] = None
    /\ \A n \in DOMAIN form[k].lines : n < txn[c].n => LineIn(held[c], form[k], k, n, "out", "in")

UndoSound(c) ==
  LET k == txn[c].key
      t == form[k].of IN
  txn[c].pc = "undo" =>
    /\ RowsLocked(form[k]) \subseteq DOMAIN held[c]
    /\ transfers[t] # None /\ transfers[t].status = "completed"
    /\ \A n \in DOMAIN form[t].lines :
         n > txn[c].n => LineIn(held[c], form[t], k, n, "reverse-out", "reverse-in")

ClientSound(c) ==
  /\ txn[c].pc \in {"idle", "checked"} => DOMAIN held[c] = {}
  /\ \A i \in DOMAIN held[c] : HeldSound(c, i)
  /\ LinesSound(c)
  /\ UndoSound(c)

(* Row locks are exclusive. *)
LocksExclusive ==
  \A c, d \in Client : c # d => DOMAIN held[c] \cap DOMAIN held[d] = {}

Whole(k) ==
  transfers[k] # None =>
    \A n \in DOMAIN form[k].lines :
      /\ LineIn(stock, form[k], k, n, "out", "in")
      /\ transfers[k].revKey # None =>
           LineIn(stock, form[k], transfers[k].revKey, n, "reverse-out", "reverse-in")

(* The inductive invariant of the histories, on top of IInv. *)
HInv ==
  /\ LocksExclusive
  /\ \A i \in Item : HistorySound(i)
  /\ \A c \in Client : ClientSound(c)
  /\ \A k \in Key : Whole(k)

----------------------------------------------------------------------------
(* Rows *)

(* The log of a row is a sequence of movements. *)
LEMMA LogOf ==
  ASSUME NEW row \in Row
  PROVE  /\ Len(row.log) \in Nat /\ DOMAIN row.log = 1..Len(row.log)
         /\ row.log \in Seq(Movement)
         /\ \A m \in DOMAIN row.log : row.log[m] \in Movement
         /\ \A r : /\ DOMAIN Append(row.log, r) = 1..(Len(row.log) + 1)
                   /\ Append(row.log, r)[Len(row.log) + 1] = r
                   /\ \A m \in DOMAIN row.log : Append(row.log, r)[m] = row.log[m]
                   /\ Len(Append(row.log, r)) = Len(row.log) + 1
<1>1. row.log \in Seq(Movement)
  BY DEF Row
<1> QED
  BY <1>1

(* Only the history of a row decides whether it is sound. *)
LEMMA SameHistory ==
  ASSUME NEW g, NEW i, NEW row, NEW other, other.log = row.log, RowSound(g, i, row)
  PROVE  RowSound(g, i, other)
BY DEF RowSound, KeysOnce, ReversesOnce

LEMMA ExtendsItself == ASSUME NEW log PROVE Extends(log, log)
BY DEF Extends

LEMMA ExtendsOn ==
  ASSUME NEW a, NEW b, NEW c, Extends(a, b), Extends(b, c)
  PROVE  Extends(a, c)
BY DEF Extends

LEMMA HasStill ==
  ASSUME NEW new, NEW old, Extends(new.log, old.log), NEW key, NEW q, Has(old, key, q)
  PROVE  Has(new, key, q)
BY DEF Extends, Has

(* A movement posted to a sound history leaves it sound when its key is     *)
(* new, opening stock meets no history, and a reversal is of a movement     *)
(* that is no reversal, is not reversed yet and is undone exactly.          *)
LEMMA PostedSound ==
  ASSUME NEW row \in Row, NEW g, NEW i, RowSound(g, i, row),
         NEW type, NEW qty, NEW new, NEW key, NEW rev,
         Fits(g, i, [type |-> type, qty |-> qty, prev |-> row.qty, new |-> new,
                     key |-> key, rev |-> rev]),
         \A m \in DOMAIN row.log : row.log[m].key # key,
         type = "OPENING" => row.log = <<>>,
         (rev # 0) <=> (type = "REVERSAL"),
         rev # 0 => /\ rev \in DOMAIN row.log
                    /\ row.log[rev].type # "REVERSAL"
                    /\ new - row.qty = row.log[rev].prev - row.log[rev].new
                    /\ \A o \in DOMAIN row.log : row.log[o].rev # rev
                    /\ Undoes(g, [type |-> type, qty |-> qty, prev |-> row.qty, new |-> new,
                                  key |-> key, rev |-> rev], row.log[rev])
  PROVE  /\ RowSound(g, i, Posted(row, type, qty, new, key, rev))
         /\ Extends(Posted(row, type, qty, new, key, rev).log, row.log)
         /\ DOMAIN Posted(row, type, qty, new, key, rev).log \ DOMAIN row.log = {Len(row.log) + 1}
         /\ Posted(row, type, qty, new, key, rev).log[Len(row.log) + 1].key = key
         /\ Posted(row, type, qty, new, key, rev).log[Len(row.log) + 1].qty = qty
         /\ Len(row.log) + 1 \in DOMAIN Posted(row, type, qty, new, key, rev).log
<1> DEFINE r   == [type |-> type, qty |-> qty, prev |-> row.qty, new |-> new,
                   key |-> key, rev |-> rev]
           out == Posted(row, type, qty, new, key, rev)
           len == Len(row.log)
<1>1. /\ r.type = type /\ r.qty = qty /\ r.prev = row.qty /\ r.new = new
      /\ r.key = key /\ r.rev = rev
  OBVIOUS
<1>2. /\ out.log = Append(row.log, r) /\ len \in Nat /\ DOMAIN row.log = 1..len
      /\ DOMAIN out.log = 1..(len + 1) /\ out.log[len + 1] = r
      /\ \A m \in 1..len : out.log[m] = row.log[m]
  BY LogOf DEF Posted, Row
<1>3. Fits(g, i, r) /\ (rev # 0 => Undoes(g, r, row.log[rev]))
  OBVIOUS
<1> HIDE DEF r, out, len
<1>4. /\ \A m \in 1..(len + 1) : m = len + 1 \/ m \in 1..len
      /\ len + 1 \notin 1..len /\ 1..len \subseteq 1..(len + 1) /\ len + 1 \in 1..(len + 1)
      /\ \A m \in 1..len : m < len + 1
      /\ 1..(len + 1) \ 1..len = {len + 1}
  BY <1>2
<1>5. \A m \in DOMAIN out.log : Fits(g, i, out.log[m])
  BY <1>2, <1>3, <1>4 DEF RowSound
<1>6. KeysOnce(out)
  <2>1. \A m \in 1..len : row.log[m].key # r.key
    BY <1>1, <1>2
  <2> QED
    BY <2>1, <1>2, <1>4 DEF RowSound, KeysOnce
<1>7. \A m \in 1..len : /\ (row.log[m].rev # 0) <=> (row.log[m].type = "REVERSAL")
                        /\ row.log[m].rev # 0 => row.log[m].rev \in 1..len
  <2>1. ASSUME NEW m \in 1..len, row.log[m].rev # 0 PROVE row.log[m].rev \in 1..len
    <3>1. row.log[m] \in Movement /\ row.log[m].rev < m
      BY <1>2, <2>1, LogOf DEF RowSound, ReversesOnce
    <3>2. row.log[m].rev \in Nat
      BY <3>1 DEF Movement
    <3> QED
      BY <3>1, <3>2, <2>1, <1>2
  <2> QED
    BY <2>1, <1>2 DEF RowSound, ReversesOnce
<1>8. \A m \in DOMAIN out.log :
        out.log[m].rev # 0 => Undoes(g, out.log[m], out.log[out.log[m].rev])
  <2> TAKE m \in DOMAIN out.log
  <2>1. CASE m = len + 1
    BY <2>1, <1>1, <1>2, <1>3
  <2>2. CASE m \in 1..len
    BY <2>2, <1>2, <1>7 DEF RowSound
  <2> QED
    BY <2>1, <2>2, <1>2, <1>4
<1>9. ReversesOnce(out)
  <2> SUFFICES ASSUME NEW m \in DOMAIN out.log
               PROVE  /\ (out.log[m].rev # 0) <=> (out.log[m].type = "REVERSAL")
                      /\ out.log[m].rev # 0 =>
                           /\ out.log[m].rev < m
                           /\ out.log[out.log[m].rev].type # "REVERSAL"
                           /\ out.log[m].new - out.log[m].prev
                                = out.log[out.log[m].rev].prev - out.log[out.log[m].rev].new
                           /\ \A o \in DOMAIN out.log : out.log[o].rev = out.log[m].rev => o = m
    BY DEF ReversesOnce
  <2>1. CASE m = len + 1
    <3>1. out.log[m] = r
      BY <2>1, <1>2
    <3>2. (r.rev # 0) <=> (r.type = "REVERSAL")
      BY <1>1
    <3>3. ASSUME rev # 0
          PROVE  /\ rev \in 1..len /\ out.log[rev] = row.log[rev]
                 /\ \A o \in DOMAIN out.log : out.log[o].rev = rev => o = m
      <4>1. rev \in 1..len /\ \A o \in 1..len : row.log[o].rev # rev
        BY <3>3, <1>2
      <4> QED
        BY <4>1, <2>1, <1>2, <1>4
    <3> QED
      BY <3>1, <3>2, <3>3, <2>1, <1>1, <1>2, <1>4
  <2>2. CASE m \in 1..len
    <3>1. out.log[m] = row.log[m]
      BY <2>2, <1>2
    <3>2. /\ (row.log[m].rev # 0) <=> (row.log[m].type = "REVERSAL")
          /\ row.log[m].rev # 0 =>
                /\ row.log[m].rev < m
                /\ row.log[row.log[m].rev].type # "REVERSAL"
                /\ row.log[m].new - row.log[m].prev
                     = row.log[row.log[m].rev].prev - row.log[row.log[m].rev].new
                /\ \A o \in DOMAIN row.log : row.log[o].rev = row.log[m].rev => o = m
      BY <2>2, <1>2 DEF RowSound, ReversesOnce
    <3>3. ASSUME row.log[m].rev # 0
          PROVE  /\ out.log[row.log[m].rev] = row.log[row.log[m].rev]
                 /\ \A o \in DOMAIN out.log : out.log[o].rev = row.log[m].rev => o = m
      <4>1. row.log[m].rev \in 1..len
        BY <3>3, <2>2, <1>7
      <4>2. r.rev # row.log[m].rev
        BY <3>3, <2>2, <1>1, <1>2
      <4> QED
        BY <4>1, <4>2, <3>2, <3>3, <1>2, <1>4
    <3> QED
      BY <3>1, <3>2, <3>3
  <2> QED
    BY <2>1, <2>2, <1>2, <1>4
<1>10. \A m \in DOMAIN out.log : out.log[m].type = "OPENING" => m = 1
  <2>1. type = "OPENING" => len = 0
    BY DEF len
  <2> QED
    BY <2>1, <1>1, <1>2, <1>4 DEF RowSound
<1>11. RowSound(g, i, out)
  BY <1>5, <1>6, <1>8, <1>9, <1>10 DEF RowSound
<1>12. Extends(out.log, row.log)
  BY <1>2, <1>4 DEF Extends
<1>13. /\ DOMAIN out.log \ DOMAIN row.log = {len + 1}
       /\ out.log[len + 1].key = key /\ out.log[len + 1].qty = qty
       /\ len + 1 \in DOMAIN out.log
  BY <1>1, <1>2, <1>4
<1> QED
  BY <1>11, <1>12, <1>13 DEF out, len
----------------------------------------------------------------------------
(* What a step leaves alone *)

LEMMA OtherSound ==
  ASSUME NEW d, ClientSound(d), txn'[d] = txn[d], held'[d] = held[d], form' = form,
         \A i \in DOMAIN held[d] : stock'[i] = stock[i],
         txn[d].pc = "lines" => transfers'[txn[d].key] = transfers[txn[d].key],
         txn[d].pc = "undo" =>
           transfers'[form[txn[d].key].of] = transfers[form[txn[d].key].of]
  PROVE  ClientSound(d)'
<1>1. /\ txn[d].pc \in {"idle", "checked"} => DOMAIN held[d] = {}
      /\ \A i \in DOMAIN held[d] : HeldSound(d, i)
      /\ LinesSound(d) /\ UndoSound(d)
  BY DEF ClientSound
<1>2. \A i \in DOMAIN held'[d] : HeldSound(d, i)'
  BY <1>1 DEF HeldSound, Own
<1>3. LinesSound(d)'
  BY <1>1 DEF LinesSound
<1>4. UndoSound(d)'
  BY <1>1 DEF UndoSound, RowsLocked
<1> QED
  BY <1>1, <1>2, <1>3, <1>4 DEF ClientSound

(* A request that holds no row is sound. *)
LEMMA EmptySound ==
  ASSUME NEW c, txn[c].pc \in {"idle", "checked"}, DOMAIN held[c] = {}
  PROVE  ClientSound(c)
BY DEF ClientSound, LinesSound, UndoSound

LEMMA LineStill ==
  ASSUME NEW f, NEW k, NEW n, NEW out, NEW in, NEW old, NEW new,
         DOMAIN old \subseteq DOMAIN new,
         \A i \in DOMAIN old : Extends(new[i].log, old[i].log),
         LineIn(old, f, k, n, out, in)
  PROVE  LineIn(new, f, k, n, out, in)
BY HasStill DEF LineIn

(* Requests that end without a trace, or begin. *)
LEMMA NothingWritten ==
  ASSUME IInv, HInv, NEW c \in Client, UNCHANGED <<stock, transfers, form>>,
         txn'[c].pc \in {"idle", "checked"}, DOMAIN held'[c] = {},
         \A d \in Client \ {c} : txn'[d] = txn[d] /\ held'[d] = held[d]
  PROVE  HInv'
<1>1. LocksExclusive'
  BY DEF HInv, LocksExclusive
<1>2. \A i \in Item : HistorySound(i)'
  BY DEF HInv, HistorySound, KeyCommitted
<1>3. \A k \in Key : Whole(k)'
  BY DEF HInv, Whole
<1>4. ClientSound(c)'
  BY DEF ClientSound, LinesSound, UndoSound
<1>5. \A d \in Client \ {c} : ClientSound(d)'
  BY OtherSound DEF HInv
<1> QED
  BY <1>1, <1>2, <1>3, <1>4, <1>5 DEF HInv

(* A request takes locks, or writes to the rows it holds. *)
LEMMA RowsHeld ==
  ASSUME IInv, HInv, NEW c \in Client, UNCHANGED <<stock, transfers, form>>,
         ClientSound(c)',
         \A d \in Client \ {c} : /\ txn'[d] = txn[d] /\ held'[d] = held[d]
                                 /\ DOMAIN held'[c] \cap DOMAIN held[d] = {}
  PROVE  HInv'
<1>1. LocksExclusive'
  BY DEF HInv, LocksExclusive
<1>2. \A i \in Item : HistorySound(i)'
  BY DEF HInv, HistorySound, KeyCommitted
<1>3. \A k \in Key : Whole(k)'
  BY DEF HInv, Whole
<1>5. \A d \in Client \ {c} : ClientSound(d)'
  BY OtherSound DEF HInv
<1> QED
  BY <1>1, <1>2, <1>3, <1>5 DEF HInv

(* One row that no request holds is replaced by a longer one. *)
LEMMA RowReplaced ==
  ASSUME IInv, HInv, NEW i \in Item, NEW row, stock' = [stock EXCEPT ![i] = row],
         UNCHANGED <<transfers, form, held>>,
         \A d \in Client : i \notin DOMAIN held[d],
         \A d \in Client : \/ txn'[d] = txn[d]
                           \/ txn'[d].pc = "idle" /\ DOMAIN held[d] = {},
         RowSound(form, i, row), Extends(row.log, stock[i].log),
         \A m \in DOMAIN row.log \ DOMAIN stock[i].log : KeyCommitted(form, transfers, row.log[m].key)
  PROVE  HInv'
<1>1. LocksExclusive'
  BY DEF HInv, LocksExclusive
<1>2. stock \in [Item -> Row] /\ stock'[i] = row /\ \A j \in Item \ {i} : stock'[j] = stock[j]
  BY DEF IInv, TypeOK
<1>3. ASSUME NEW j \in Item PROVE HistorySound(j)'
  <2>1. CASE j # i
    BY <2>1, <1>2, ZenonT(40) DEF HInv, HistorySound, KeyCommitted
  <2>2. CASE j = i
    <3>1. \A m \in DOMAIN row.log : KeyCommitted(form, transfers, row.log[m].key)
      BY DEF HInv, HistorySound, Extends
    <3> QED
      BY <2>2, <3>1, <1>2 DEF HistorySound, KeyCommitted
  <2> QED
    BY <2>1, <2>2
<1>4. DOMAIN stock = Item /\ DOMAIN stock' = Item
  BY <1>2
<1>5. \A j \in Item : Extends(stock'[j].log, stock[j].log)
  BY <1>2, ExtendsItself
<1>6. \A k \in Key : Whole(k)'
  BY <1>4, <1>5, LineStill DEF HInv, Whole
<1>7. ASSUME NEW d \in Client PROVE ClientSound(d)'
  <2>1. CASE txn'[d] = txn[d]
    <3>1. \A j \in DOMAIN held[d] : stock'[j] = stock[j]
      BY <1>2
    <3> QED
      BY <2>1, <3>1, OtherSound DEF HInv
  <2>2. CASE txn'[d].pc = "idle" /\ DOMAIN held[d] = {}
    BY <2>2 DEF ClientSound, LinesSound, UndoSound
  <2> QED
    BY <2>1, <2>2
<1> QED
  BY <1>1, <1>3, <1>6, <1>7 DEF HInv
(* The transfer that a request records or reverses. *)
TransferAt(c) == IF txn[c].pc = "lines" THEN txn[c].key ELSE form[txn[c].key].of

LEMMA WriterHolds ==
  ASSUME IInv, HInv, NEW c \in Client, txn[c].pc \in {"lines", "undo"}
  PROVE  /\ TransferAt(c) \in Key /\ form[TransferAt(c)].kind = "TRANSFER"
         /\ SourceRows(form[TransferAt(c)]) \subseteq DOMAIN held[c]
         /\ SourceRows(form[TransferAt(c)]) # {}
<1>1. Started(c) /\ ClientSound(c) /\ TypeOK
  BY DEF IInv, HInv
<1>2. /\ TransferAt(c) \in Key /\ form[TransferAt(c)].kind = "TRANSFER"
      /\ SourceRows(form[TransferAt(c)]) \subseteq DOMAIN held[c]
  <2>1. CASE txn[c].pc = "lines"
    BY <1>1, <2>1 DEF TransferAt, Started
  <2>2. CASE txn[c].pc = "undo"
    <3>1. /\ txn[c].key \in Key /\ form[txn[c].key].kind = "UNDO"
          /\ form[form[txn[c].key].of].kind = "TRANSFER"
      BY <1>1, <2>2 DEF Started, UndoAt
    <3>2. RowsLocked(form[txn[c].key]) \subseteq DOMAIN held[c]
      BY <1>1, <2>2 DEF ClientSound, UndoSound
    <3>3. form[txn[c].key].of \in Key
      BY <1>1, <3>1, FormFields
    <3> QED
      BY <2>2, <3>1, <3>2, <3>3 DEF TransferAt, RowsLocked
  <2> QED
    BY <2>1, <2>2
<1>3. form[TransferAt(c)].lines \in Seq(TransferLine) /\ form[TransferAt(c)].lines # <<>>
  <2>1. form[TransferAt(c)] \in Forms
    BY <1>1, <1>2 DEF TypeOK
  <2> QED
    BY <1>1, <1>2, <2>1, FormFields, FormsAssumption
<1>4. 1 \in DOMAIN form[TransferAt(c)].lines
  <2> DEFINE lines == form[TransferAt(c)].lines
  <2>1. lines \in Seq(TransferLine) /\ lines # <<>>
    BY <1>3
  <2> HIDE DEF lines
  <2>2. 1 \in DOMAIN lines
    BY <2>1
  <2> QED
    BY <2>2 DEF lines
<1>5. form[TransferAt(c)].lines[1].item \in SourceRows(form[TransferAt(c)])
  BY <1>4 DEF SourceRows
<1> QED
  BY <1>2, <1>5

(* Two requests never write the same transfer: both would hold its rows.    *)
LEMMA OneWriter ==
  ASSUME IInv, HInv, NEW c \in Client, NEW d \in Client, c # d,
         txn[c].pc \in {"lines", "undo"}, txn[d].pc \in {"lines", "undo"}
  PROVE  TransferAt(c) # TransferAt(d)
BY WriterHolds DEF HInv, LocksExclusive

(* A commit: the rows of the request become the rows of the ledger, and     *)
(* the record of its transfer t changes.                                    *)
LEMMA HistoryPublished ==
  ASSUME IInv, HInv, NEW c \in Client, Publish(c), txn[c].pc \in {"lines", "undo"},
         NEW new, NEW t \in Key, t = TransferAt(c), transfers' = [transfers EXCEPT ![t] = new],
         \A i, m : /\ Fits(form, i, m)
                   /\ KeyCommitted(form, transfers, m.key) \/ Own(txn[c], m.key)
                   => KeyCommitted(form, transfers', m.key),
         Whole(t)'
  PROVE  HInv'
<1>1. /\ stock' = [i \in Item |-> Seen(c, i)]
      /\ held' = [held EXCEPT ![c] = NoRows] /\ DOMAIN NoRows = {}
      /\ txn' = [txn EXCEPT ![c] = Idle] /\ form' = form
  BY DEF Publish, Finish, NoRows
<1>2. /\ held'[c] = NoRows /\ \A d \in Client \ {c} : held'[d] = held[d]
      /\ txn'[c] = Idle /\ \A d \in Client \ {c} : txn'[d] = txn[d]
      /\ \A k \in Key \ {t} : transfers'[k] = transfers[k]
  BY <1>1 DEF IInv, TypeOK
<1>3. \A i \in DOMAIN held[c] : i \in Item /\ HeldSound(c, i) /\ stock'[i] = held[c][i]
  BY <1>1 DEF HInv, ClientSound, IInv, TypeOK, Seen
<1>4. \A i \in Item \ DOMAIN held[c] : stock'[i] = stock[i]
  BY <1>1 DEF Seen
<1>5. \A i \in Item : Extends(stock'[i].log, stock[i].log)
  BY <1>3, <1>4, ExtendsItself DEF HeldSound
<1>6. DOMAIN stock = Item /\ DOMAIN stock' = Item
  BY <1>1 DEF IInv, TypeOK
<1>7. LocksExclusive'
  BY <1>1, <1>2 DEF HInv, LocksExclusive
<1>8. ASSUME NEW i \in Item PROVE HistorySound(i)'
  <2>1. CASE i \in DOMAIN held[c]
    <3>1. RowSound(form, i, held[c][i]) /\ stock'[i] = held[c][i]
      BY <1>3, <2>1 DEF HeldSound
    <3>2. \A m \in DOMAIN held[c][i].log : KeyCommitted(form, transfers', held[c][i].log[m].key)
      <4>1. \A m \in DOMAIN stock[i].log : KeyCommitted(form, transfers, stock[i].log[m].key)
        BY DEF HInv, HistorySound
      <4>2. \A m \in DOMAIN held[c][i].log \ DOMAIN stock[i].log : Own(txn[c], held[c][i].log[m].key)
        BY <1>3, <2>1 DEF HeldSound
      <4>3. \A m \in DOMAIN stock[i].log : held[c][i].log[m] = stock[i].log[m]
        BY <1>3, <2>1 DEF HeldSound, Extends
      <4>4. \A m \in DOMAIN held[c][i].log : Fits(form, i, held[c][i].log[m])
        BY <3>1 DEF RowSound
      <4> QED
        BY <4>1, <4>2, <4>3, <4>4
    <3> QED
      BY <3>1, <3>2, <1>1, ZenonT(40) DEF HistorySound, KeyCommitted
  <2>2. CASE i \notin DOMAIN held[c]
    <3>1. stock'[i] = stock[i] /\ HistorySound(i)
      BY <1>4, <2>2 DEF HInv
    <3>2. \A m \in DOMAIN stock[i].log : KeyCommitted(form, transfers', stock[i].log[m].key)
      BY <3>1 DEF HistorySound, RowSound
    <3> QED
      BY <3>1, <3>2, <1>1, ZenonT(40) DEF HistorySound, KeyCommitted
  <2> QED
    BY <2>1, <2>2
<1>9. ASSUME NEW k \in Key PROVE Whole(k)'
  <2>1. CASE k # t
    <3>1. Whole(k) /\ transfers'[k] = transfers[k]
      BY <2>1, <1>2 DEF HInv
    <3> QED
      BY <3>1, <1>1, <1>5, <1>6, LineStill DEF Whole
  <2> QED
    BY <2>1
<1>10. ClientSound(c)'
  BY <1>1, <1>2 DEF ClientSound, LinesSound, UndoSound, Idle
<1>11. ASSUME NEW d \in Client \ {c} PROVE ClientSound(d)'
  <2>1. \A i \in DOMAIN held[d] : i \in Item \ DOMAIN held[c]
    BY DEF HInv, LocksExclusive, IInv, TypeOK
  <2>2. /\ txn[d].pc = "lines" => TransferAt(d) = txn[d].key
        /\ txn[d].pc = "undo" => TransferAt(d) = form[txn[d].key].of
    BY DEF TransferAt
  <2>3. txn[d].pc \in {"lines", "undo"} => TransferAt(d) \in Key \ {t}
    BY OneWriter, WriterHolds
  <2>4. ClientSound(d)
    BY DEF HInv
  <2>5. \A i \in DOMAIN held[d] : stock'[i] = stock[i]
    BY <2>1, <1>4
  <2>6. /\ txn[d].pc = "lines" => transfers'[txn[d].key] = transfers[txn[d].key]
        /\ txn[d].pc = "undo" =>
             transfers'[form[txn[d].key].of] = transfers[form[txn[d].key].of]
    BY <2>2, <2>3, <1>2
  <2> QED
    BY <2>4, <2>5, <2>6, <1>1, <1>2, OtherSound
<1> QED
  BY <1>7, <1>8, <1>9, <1>10, <1>11 DEF HInv

----------------------------------------------------------------------------
(* One lemma per handler *)

LEMMA InitHInv == Init => HInv
<1> SUFFICES ASSUME Init PROVE HInv
  OBVIOUS
<1>1. DOMAIN NoRows = {} /\ Absent.log = <<>> /\ DOMAIN <<>> = {}
  BY DEF NoRows, Absent
<1>2. \A i \in Item : stock[i].log = <<>>
  BY <1>1 DEF Init
<1>3. \A i \in Item : HistorySound(i)
  BY <1>1, <1>2 DEF HistorySound, RowSound, KeysOnce, ReversesOnce
<1>4. \A c \in Client : txn[c].pc = "idle" /\ DOMAIN held[c] = {}
  BY <1>1 DEF Init, Idle
<1>5. \A c \in Client : ClientSound(c)
  BY <1>4, EmptySound
<1>6. LocksExclusive
  BY <1>4 DEF LocksExclusive
<1>7. \A k \in Key : Whole(k)
  BY DEF Init, Whole
<1> QED
  BY <1>3, <1>5, <1>6, <1>7 DEF HInv

(* The single-row operations: the key of the form is not in any history,    *)
(* and opening stock is for a record without one.                           *)
LEMMA PostSingleSound ==
  ASSUME IInv, HInv, NEW c \in Client, PostSingle(c)
  PROVE  HInv'
<1> DEFINE k   == txn[c].key
           f   == form[k]
           row == [stock[f.item] EXCEPT !.status = "active"]
           out == Posted(row, f.kind, f.qty, NewBalance(f), OwnKey(k), 0)
           r   == [type |-> f.kind, qty |-> f.qty, prev |-> row.qty, new |-> NewBalance(f),
                   key |-> OwnKey(k), rev |-> 0]
<1>1. /\ txn[c].pc = "checked" /\ CanLock(c, f) /\ f.kind \in SingleRowOps /\ Allowed(k)
      /\ stock' = [stock EXCEPT ![f.item] = out] /\ Finish(c)
      /\ UNCHANGED <<transfers, form, held>>
  BY DEF PostSingle, Locked
<1>2. k \in Key /\ f.item \in Item
  <2>1. k \in Key
    BY <1>1 DEF IInv, Started
  <2> QED
    BY <2>1, <1>1, FormFields DEF IInv
<1>3. stock[f.item] \in Row /\ RowSound(form, f.item, stock[f.item])
  BY <1>2 DEF IInv, TypeOK, HInv, HistorySound
<1>4. row \in Row /\ row.log = stock[f.item].log
  BY <1>3, MarkedRow
<1>5. RowSound(form, f.item, row)
  BY <1>3, <1>4, SameHistory
<1>6. f.kind = "OPENING" => row.log = <<>>
  BY <1>1, <1>4 DEF Allowed, OpeningAllowed
<1>7. \A m \in DOMAIN row.log : row.log[m].key # OwnKey(k)
  <2>1. KeyUnused(k)
    BY <1>1 DEF Allowed, SingleRowOps
  <2> QED
    BY <2>1, <1>2, <1>4 DEF KeyUnused, MovementRecorded
<1>8. Fits(form, f.item, r)
  <2>1. r.key = <<k, 0, "self">> /\ r.type = f.kind /\ r.qty = f.qty
    BY DEF OwnKey
  <2>2. k \in Key /\ f.kind \in SingleRowOps
    BY <1>1, <1>2
  <2> HIDE DEF r, k
  <2> QED
    BY <2>1, <2>2 DEF Fits, Leg
<1>9. f.kind # "REVERSAL"
  BY <1>1 DEF SingleRowOps
<1>10. \A d \in Client : f.item \notin DOMAIN held[d]
  <2>1. RowsLocked(f) = {f.item}
    BY <1>1 DEF RowsLocked, SingleRowOps
  <2>2. DOMAIN held[c] = {}
    BY <1>1 DEF HInv, ClientSound
  <2> QED
    BY <2>1, <2>2, <1>1 DEF CanLock, Free
<1>11. \A d \in Client : \/ txn'[d] = txn[d]
                         \/ txn'[d].pc = "idle" /\ DOMAIN held[d] = {}
  BY <1>1 DEF Finish, Idle, HInv, ClientSound, IInv, TypeOK
<1> HIDE DEF row
<1>12. /\ RowSound(form, f.item, out) /\ Extends(out.log, row.log)
       /\ DOMAIN out.log \ DOMAIN row.log = {Len(row.log) + 1}
       /\ out.log[Len(row.log) + 1].key = OwnKey(k)
  <2> HIDE DEF k, f
  <2> QED
    BY <1>4, <1>5, <1>6, <1>7, <1>8, <1>9, PostedSound
<1>13. KeyCommitted(form, transfers, OwnKey(k))
  BY DEF KeyCommitted, OwnKey
<1> HIDE DEF out, k, f
<1> QED
  BY <1>1, <1>2, <1>4, <1>10, <1>11, <1>12, <1>13, RowReplaced

(* reverse_movement: the movement is one of this row's own, is no reversal  *)
(* and has none.                                                            *)
LEMMA ReverseMovementSound ==
  ASSUME IInv, HInv, NEW c \in Client, ReverseMovement(c)
  PROVE  HInv'
<1> DEFINE k   == txn[c].key
           f   == form[k]
           row == stock[f.item]
           original == row.log[f.pos]
           new == row.qty - (original.new - original.prev)
           out == Posted(row, "REVERSAL", original.qty, new, OwnKey(k), f.pos)
           r   == [type |-> "REVERSAL", qty |-> original.qty, prev |-> row.qty,
                   new |-> new, key |-> OwnKey(k), rev |-> f.pos]
<1>1. /\ txn[c].pc = "checked" /\ CanLock(c, f) /\ f.kind = "REVERSAL" /\ Allowed(k)
      /\ stock' = [stock EXCEPT ![f.item] = out] /\ Finish(c)
      /\ UNCHANGED <<transfers, form, held>>
  BY DEF ReverseMovement, Locked
<1>2. k \in Key /\ f.item \in Item /\ f.pos # 0
  <2>1. k \in Key
    BY <1>1 DEF IInv, Started
  <2> QED
    BY <2>1, <1>1, FormFields DEF IInv, Quantity
<1>3. row \in Row /\ RowSound(form, f.item, row)
  BY <1>2 DEF IInv, TypeOK, HInv, HistorySound
<1>4. /\ f.pos \in DOMAIN row.log /\ original.type # "REVERSAL" /\ original.key[3] = "self"
      /\ ~Reversed(f.item, f.pos) /\ KeyUnused(k)
  BY <1>1 DEF Allowed, ReversalAllowed
<1>5. \A m \in DOMAIN row.log : row.log[m].key # OwnKey(k) /\ row.log[m].rev # f.pos
  BY <1>2, <1>4 DEF KeyUnused, MovementRecorded, Reversed
<1>6. Fits(form, f.item, r) /\ Undoes(form, r, original)
  <2>1. r.key = <<k, 0, "self">> /\ r.type = "REVERSAL"
    BY DEF OwnKey
  <2>2. k \in Key /\ f.kind = "REVERSAL" /\ original.key[3] = "self"
    BY <1>1, <1>2, <1>4
  <2> HIDE DEF r, k, original
  <2> QED
    BY <2>1, <2>2 DEF Fits, Leg, Undoes
<1>7. new - row.qty = original.prev - original.new
  <2>1. row.qty \in Nat /\ original.new \in Nat /\ original.prev \in Nat
    BY <1>3, <1>4, MovementFields
  <2> HIDE DEF row, original
  <2> QED
    BY <2>1
<1>10. \A d \in Client : f.item \notin DOMAIN held[d]
  <2>1. RowsLocked(f) = {f.item}
    BY <1>1 DEF RowsLocked
  <2>2. DOMAIN held[c] = {}
    BY <1>1 DEF HInv, ClientSound
  <2> QED
    BY <2>1, <2>2, <1>1 DEF CanLock, Free
<1>11. \A d \in Client : \/ txn'[d] = txn[d]
                         \/ txn'[d].pc = "idle" /\ DOMAIN held[d] = {}
  BY <1>1 DEF Finish, Idle, HInv, ClientSound, IInv, TypeOK
<1>12. /\ RowSound(form, f.item, out) /\ Extends(out.log, row.log)
       /\ DOMAIN out.log \ DOMAIN row.log = {Len(row.log) + 1}
       /\ out.log[Len(row.log) + 1].key = OwnKey(k)
  <2> HIDE DEF k, f, row, new
  <2> QED
    BY <1>2, <1>3, <1>4, <1>5, <1>6, <1>7, PostedSound
<1>13. KeyCommitted(form, transfers, OwnKey(k))
  BY DEF KeyCommitted, OwnKey
<1> HIDE DEF out, k, f
<1> QED
  BY <1>1, <1>2, <1>10, <1>11, <1>12, <1>13, RowReplaced
(* transfer_stock takes its locks: nobody else holds the source rows, and   *)
(* the transfer is not recorded.                                            *)
LEMMA BeginTransferSound ==
  ASSUME IInv, HInv, NEW c \in Client, BeginTransfer(c)
  PROVE  HInv'
<1> DEFINE k == txn[c].key
           rows == [i \in SourceRows(form[k]) |-> stock[i]]
<1>1. /\ txn[c].pc = "checked" /\ CanLock(c, form[k]) /\ form[k].kind = "TRANSFER"
      /\ transfers[k] = None
      /\ held' = [held EXCEPT ![c] = rows]
      /\ txn' = [txn EXCEPT ![c].pc = "lines", ![c].n = 1]
      /\ UNCHANGED <<stock, transfers, form>>
  BY DEF BeginTransfer, Locked, Allowed, TransferAllowed
<1>2. k \in Key
  BY <1>1 DEF IInv, Started
<1>3. /\ held'[c] = rows /\ \A d \in Client \ {c} : held'[d] = held[d] /\ txn'[d] = txn[d]
      /\ txn'[c].pc = "lines" /\ txn'[c].n = 1 /\ txn'[c].key = k
  BY <1>1 DEF IInv, TypeOK, Request
<1>4. DOMAIN rows \subseteq Item /\ \A i \in DOMAIN rows : rows[i] = stock[i]
  <2>1. SourceRows(form[k]) \subseteq Item
    BY <1>1, <1>2, TransferRows DEF IInv
  <2> QED
    BY <2>1
<1>5. \A d \in Client \ {c} : DOMAIN held'[c] \cap DOMAIN held[d] = {}
  <2>1. RowsLocked(form[k]) = DOMAIN rows
    BY <1>1 DEF RowsLocked
  <2> HIDE DEF rows
  <2> QED
    BY <2>1, <1>1, <1>3 DEF CanLock, Free
<1> HIDE DEF rows, k
<1>6. \A i \in DOMAIN held'[c] : HeldSound(c, i)'
  BY <1>1, <1>3, <1>4, ExtendsItself DEF HInv, HistorySound, HeldSound
<1>7. LinesSound(c)'
  <2>1. \A n \in DOMAIN form[k].lines : ~(n < 1)
    <3>1. form[k].lines \in Seq(TransferLine)
      BY <1>1, <1>2, FormFields DEF IInv
    <3> QED
      BY <3>1
  <2> QED
    BY <2>1, <1>1, <1>3 DEF LinesSound
<1>8. UndoSound(c)'
  BY <1>3 DEF UndoSound
<1>9. ClientSound(c)'
  BY <1>3, <1>6, <1>7, <1>8 DEF ClientSound
<1> QED
  BY <1>1, <1>3, <1>5, <1>9, RowsHeld

(* The row a request sees is sound, holds only what is committed or its     *)
(* own, and extends the committed row.                                      *)
LEMMA SeenSound ==
  ASSUME IInv, HInv, NEW c \in Client, NEW i \in Item
  PROVE  /\ RowSound(form, i, Seen(c, i))
         /\ Extends(Seen(c, i).log, stock[i].log)
         /\ \A m \in DOMAIN Seen(c, i).log : \/ KeyCommitted(form, transfers, Seen(c, i).log[m].key)
                                            \/ Own(txn[c], Seen(c, i).log[m].key)
         /\ \A m \in DOMAIN Seen(c, i).log \ DOMAIN stock[i].log : Own(txn[c], Seen(c, i).log[m].key)
<1>1. HistorySound(i) /\ ClientSound(c)
  BY DEF HInv
<1>2. CASE i \in DOMAIN held[c]
  <2>1. Seen(c, i) = held[c][i] /\ HeldSound(c, i)
    BY <1>1, <1>2 DEF Seen, ClientSound
  <2> QED
    BY <2>1, <1>1 DEF HeldSound, HistorySound, Extends
<1>3. CASE i \notin DOMAIN held[c]
  <2>1. Seen(c, i) = stock[i]
    BY <1>3 DEF Seen
  <2> QED
    BY <2>1, <1>1, ExtendsItself DEF HistorySound
<1> QED
  BY <1>2, <1>3

(* A row that a request holds grows by a movement of its own. *)
LEMMA HeldGrown ==
  ASSUME NEW old \in Row, NEW new, NEW base, NEW x, NEW key, NEW before, NEW after,
         Extends(old.log, base), Extends(new.log, old.log),
         DOMAIN new.log \ DOMAIN old.log = {x}, new.log[x].key = key, Own(after, key),
         \A m \in DOMAIN old.log \ DOMAIN base : Own(before, old.log[m].key),
         \A other \in MovementKey : Own(before, other) => Own(after, other)
  PROVE  /\ Extends(new.log, base)
         /\ \A m \in DOMAIN new.log \ DOMAIN base : Own(after, new.log[m].key)
<1>1. \A m \in DOMAIN old.log : old.log[m].key \in MovementKey
  BY LogOf DEF Movement
<1>2. \A m \in DOMAIN old.log : m \in DOMAIN new.log /\ new.log[m] = old.log[m]
  BY DEF Extends
<1> QED
  BY <1>1, <1>2, ExtendsOn

(* One line of a transfer: no history has its legs yet. *)
LEMMA MoveLineSound ==
  ASSUME IInv, HInv, NEW c \in Client, MoveLine(c)
  PROVE  HInv'
<1> DEFINE k    == txn[c].key
           f    == form[k]
           n    == txn[c].n
           line == f.lines[n]
           src  == held[c][line.item]
           dest == Destination(f, n)
           type == IF Arrives(f, n) THEN "TRANSFER_OUT" ELSE "LOSS"
           seen == [Seen(c, dest) EXCEPT !.status = "active"]
           out  == Posted(src, type, line.qty, src.qty - line.qty, <<k, n, "out">>, 0)
           inn  == Posted(seen, "TRANSFER_IN", line.qty, Seen(c, dest).qty + line.qty,
                          <<k, n, "in">>, 0)
           rows == [i \in DOMAIN held[c] \cup (IF Arrives(f, n) THEN {dest} ELSE {}) |->
                      IF i = line.item THEN out
                      ELSE IF Arrives(f, n) /\ i = dest THEN inn ELSE held[c][i]]
<1>1. /\ txn[c].pc = "lines" /\ n <= Len(f.lines)
      /\ Arrives(f, n) => Free(c, dest)
      /\ held' = [held EXCEPT ![c] = rows] /\ txn' = [txn EXCEPT ![c].n = n + 1]
      /\ UNCHANGED <<stock, transfers, form>>
  BY DEF MoveLine, AtLine, ArrivalLocked
<1>2. /\ k \in Key /\ f.kind = "TRANSFER" /\ n > 0 /\ n \in Nat
      /\ SourceRows(f) \subseteq DOMAIN held[c]
  BY <1>1 DEF IInv, Started, TypeOK, Request
<1>3. n \in DOMAIN f.lines /\ \A o \in DOMAIN f.lines : o \in Nat
  <2>1. f.lines \in Seq(TransferLine)
    BY <1>2, FormFields DEF IInv
  <2>2. DOMAIN f.lines = 1..Len(f.lines) /\ Len(f.lines) \in Nat
    BY <2>1
  <2> HIDE DEF n, f
  <2> QED
    BY <1>1, <1>2, <2>2
<1>4. /\ line.item \in Item /\ line.qty \in Quantity
      /\ Arrives(f, n) => dest \in Item /\ dest # line.item
  <2>1. f \in Forms
    BY <1>2 DEF IInv, TypeOK
  <2>2. f.src # f.dst /\ line.item.loc = f.src /\ dest.loc = f.dst
    BY <2>1, <1>2, <1>3, FormsAssumption DEF Destination
  <2> QED
    BY <2>2, <1>2, <1>3, LineFields DEF IInv
<1>5. line.item \in DOMAIN held[c] /\ DOMAIN held[c] \subseteq Item
  BY <1>2, <1>3 DEF SourceRows, IInv, TypeOK
<1>6. /\ src \in Row /\ Seen(c, line.item) = src /\ ClientSound(c) /\ transfers[k] = None
      /\ \A o \in DOMAIN f.lines : o < n => LineIn(held[c], f, k, o, "out", "in")
  <2>1. ClientSound(c)
    BY DEF HInv
  <2>2. LinesSound(c)
    BY <2>1 DEF ClientSound
  <2> QED
    BY <2>1, <2>2, <1>1, <1>5 DEF IInv, TypeOK, Seen, LinesSound
<1>7. ASSUME NEW i \in Item, NEW leg \in {"out", "in"}
      PROVE  \A m \in DOMAIN Seen(c, i).log : Seen(c, i).log[m].key # <<k, n, leg>>
  <2>1. ~KeyCommitted(form, transfers, <<k, n, leg>>)
    BY <1>6 DEF KeyCommitted
  <2>2. ~Own(txn[c], <<k, n, leg>>)
    <3>1. ~(n < n)
      <4> HIDE DEF n
      <4> QED
        BY <1>2
    <3> QED
      BY <3>1, <1>1 DEF Own
  <2> QED
    BY <2>1, <2>2, SeenSound
<1>8. /\ RowSound(form, line.item, out) /\ Extends(out.log, src.log)
      /\ DOMAIN out.log \ DOMAIN src.log = {Len(src.log) + 1}
      /\ out.log[Len(src.log) + 1].key = <<k, n, "out">>
      /\ out.log[Len(src.log) + 1].qty = line.qty /\ Len(src.log) + 1 \in DOMAIN out.log
  <2> DEFINE r == [type |-> type, qty |-> line.qty, prev |-> src.qty,
                   new |-> src.qty - line.qty, key |-> <<k, n, "out">>, rev |-> 0]
  <2>1. /\ type \in {"TRANSFER_OUT", "LOSS"} /\ type # "OPENING" /\ type # "REVERSAL"
        /\ r.key = <<k, n, "out">> /\ r.qty = line.qty /\ r.type = type
    OBVIOUS
  <2>2. Fits(form, line.item, r)
    <3> HIDE DEF r, type
    <3> QED
      BY <2>1, <1>2, <1>3 DEF Fits, LegOf, Leg
  <2>3. RowSound(form, line.item, src)
    BY <1>4, <1>6, SeenSound
  <2>4. \A m \in DOMAIN src.log : src.log[m].key # <<k, n, "out">>
    BY <1>4, <1>6, <1>7
  <2> HIDE DEF line, src, k, n, f, type
  <2> QED
    BY <2>1, <2>2, <2>3, <2>4, <1>6, PostedSound
<1>9. ASSUME Arrives(f, n)
      PROVE  /\ RowSound(form, dest, inn) /\ Extends(inn.log, Seen(c, dest).log)
             /\ DOMAIN inn.log \ DOMAIN Seen(c, dest).log = {Len(Seen(c, dest).log) + 1}
             /\ inn.log[Len(Seen(c, dest).log) + 1].key = <<k, n, "in">>
             /\ inn.log[Len(Seen(c, dest).log) + 1].qty = line.qty
             /\ Len(Seen(c, dest).log) + 1 \in DOMAIN inn.log
  <2> DEFINE r == [type |-> "TRANSFER_IN", qty |-> line.qty, prev |-> seen.qty,
                   new |-> Seen(c, dest).qty + line.qty, key |-> <<k, n, "in">>, rev |-> 0]
  <2>1. r.key = <<k, n, "in">> /\ r.qty = line.qty /\ r.type = "TRANSFER_IN"
    OBVIOUS
  <2>2. Fits(form, dest, r)
    <3> HIDE DEF r
    <3> QED
      BY <2>1, <1>2, <1>3, <1>9 DEF Fits, LegOf, Leg
  <2>3. seen \in Row /\ seen.log = Seen(c, dest).log /\ RowSound(form, dest, seen)
    <3>1. Seen(c, dest) \in Row /\ RowSound(form, dest, Seen(c, dest))
      BY <1>4, <1>9, SeenRow, SeenSound
    <3>2. seen \in Row /\ seen.log = Seen(c, dest).log
      BY <3>1, MarkedRow
    <3> HIDE DEF seen
    <3> QED
      BY <3>1, <3>2, SameHistory
  <2>4. \A m \in DOMAIN seen.log : seen.log[m].key # <<k, n, "in">>
    <3> HIDE DEF seen
    <3> QED
      BY <2>3, <1>4, <1>7, <1>9
  <2> HIDE DEF line, seen, k, n, f, dest
  <2>5. /\ RowSound(form, dest, inn) /\ Extends(inn.log, seen.log)
        /\ DOMAIN inn.log \ DOMAIN seen.log = {Len(seen.log) + 1}
        /\ inn.log[Len(seen.log) + 1].key = <<k, n, "in">>
        /\ inn.log[Len(seen.log) + 1].qty = line.qty
        /\ Len(seen.log) + 1 \in DOMAIN inn.log
    BY <2>1, <2>2, <2>3, <2>4, PostedSound
  <2> QED
    BY <2>3, <2>5
<1>10. /\ DOMAIN rows = DOMAIN held[c] \cup (IF Arrives(f, n) THEN {dest} ELSE {})
       /\ rows[line.item] = out
       /\ Arrives(f, n) => rows[dest] = inn
       /\ \A i \in DOMAIN rows :
            \/ i = line.item
            \/ Arrives(f, n) /\ i = dest
            \/ i \in DOMAIN held[c] /\ i # line.item /\ rows[i] = held[c][i]
  <2> HIDE DEF out, inn, dest, line, f, n
  <2> QED
    BY <1>4, <1>5
<1>11. /\ held'[c] = rows /\ \A d \in Client \ {c} : held'[d] = held[d] /\ txn'[d] = txn[d]
       /\ txn'[c].pc = "lines" /\ txn'[c].n = n + 1 /\ txn'[c].key = k
  BY <1>1 DEF IInv, TypeOK, Request
<1> HIDE DEF rows, out, inn
<1>12. /\ Own(txn'[c], <<k, n, "out">>) /\ Own(txn'[c], <<k, n, "in">>)
       /\ \A key \in MovementKey : Own(txn[c], key) => Own(txn'[c], key)
  <2>1. \A key \in MovementKey : key[2] \in Nat
    BY DEF MovementKey
  <2> QED
    BY <2>1, <1>1, <1>2, <1>11 DEF Own
<1>13. ASSUME NEW i \in DOMAIN rows
       PROVE  /\ HeldSound(c, i)'
              /\ Extends(rows[i].log, Seen(c, i).log)
  <2>1. /\ Seen(c, i) \in Row
        /\ Extends(Seen(c, i).log, stock[i].log)
        /\ \A m \in DOMAIN Seen(c, i).log \ DOMAIN stock[i].log :
             Own(txn[c], Seen(c, i).log[m].key)
        /\ RowSound(form, i, Seen(c, i))
    <3>1. i \in Item
      BY <1>4, <1>5, <1>10
    <3> QED
      BY <3>1, SeenRow, SeenSound
  <2>2. CASE i = line.item
    <3>1. /\ rows[i] = out /\ Seen(c, i) = src
      BY <2>2, <1>6, <1>10
    <3>2. /\ Extends(out.log, stock[i].log)
          /\ \A m \in DOMAIN out.log \ DOMAIN stock[i].log : Own(txn'[c], out.log[m].key)
      <4> HIDE DEF src, line, k, n
      <4> QED
        BY <2>1, <3>1, <1>8, <1>12, HeldGrown, ZenonT(40)
    <3> HIDE DEF src, line, k, n, f
    <3> QED
      BY <2>2, <3>1, <3>2, <1>1, <1>8, <1>11 DEF HeldSound
  <2>3. CASE Arrives(f, n) /\ i = dest
    <3>1. rows[i] = inn
      BY <2>3, <1>10
    <3>2. /\ Extends(inn.log, stock[i].log)
          /\ \A m \in DOMAIN inn.log \ DOMAIN stock[i].log : Own(txn'[c], inn.log[m].key)
      <4>1. /\ Extends(inn.log, Seen(c, i).log)
            /\ DOMAIN inn.log \ DOMAIN Seen(c, i).log = {Len(Seen(c, i).log) + 1}
            /\ inn.log[Len(Seen(c, i).log) + 1].key = <<k, n, "in">>
        BY <2>3, <1>9
      <4> HIDE DEF dest, line, k, n, f
      <4> QED
        BY <2>1, <4>1, <1>12, HeldGrown
    <3> HIDE DEF dest, line, k, n, f
    <3> QED
      BY <2>3, <3>1, <3>2, <1>1, <1>9, <1>11 DEF HeldSound
  <2>4. CASE i \in DOMAIN held[c] /\ i # line.item /\ rows[i] = held[c][i]
    <3>1. Seen(c, i) = rows[i]
      BY <2>4 DEF Seen
    <3>2. \A m \in DOMAIN rows[i].log : rows[i].log[m].key \in MovementKey
      BY <2>1, <3>1, LogOf DEF Movement
    <3> HIDE DEF line, k, n, f
    <3> QED
      BY <2>1, <3>1, <3>2, <1>1, <1>11, <1>12, ExtendsItself DEF HeldSound
  <2> QED
    BY <2>2, <2>3, <2>4, <1>10
<1>14. LinesSound(c)'
  <2>1. ASSUME NEW o \in DOMAIN f.lines, o < n + 1
        PROVE  LineIn(rows, f, k, o, "out", "in")
    <3>1. o \in Nat /\ (o < n \/ o = n)
      <4>1. o \in Nat
        BY <1>3
      <4> HIDE DEF n, f
      <4> QED
        BY <4>1, <2>1, <1>2
    <3>2. CASE o < n
      <4>1. \A i \in DOMAIN held[c] : Extends(rows[i].log, held[c][i].log)
        BY <1>10, <1>13 DEF Seen
      <4>2. DOMAIN held[c] \subseteq DOMAIN rows /\ LineIn(held[c], f, k, o, "out", "in")
        BY <3>2, <1>6, <1>10
      <4> HIDE DEF f, k, n
      <4> QED
        BY <4>1, <4>2, LineStill
    <3>3. CASE o = n
      <4>1. Has(out, <<k, n, "out">>, line.qty)
        <5> HIDE DEF line, k, n, src
        <5> QED
          BY <1>8 DEF Has
      <4>2. Arrives(f, n) => Has(inn, <<k, n, "in">>, line.qty)
        <5> HIDE DEF line, k, n, f, dest
        <5> QED
          BY <1>9 DEF Has
      <4> QED
        BY <4>1, <4>2, <3>3, <1>5, <1>10 DEF LineIn
    <3> QED
      BY <3>1, <3>2, <3>3
  <2> QED
    BY <2>1, <1>1, <1>6, <1>11 DEF LinesSound
<1>15. ClientSound(c)'
  BY <1>11, <1>13, <1>14 DEF ClientSound, UndoSound
<1>16. \A d \in Client \ {c} : DOMAIN held'[c] \cap DOMAIN held[d] = {}
  <2> TAKE d \in Client \ {c}
  <2>1. DOMAIN held[c] \cap DOMAIN held[d] = {} /\ line.item \notin DOMAIN held[d]
    <3>1. DOMAIN held[c] \cap DOMAIN held[d] = {}
      BY DEF HInv, LocksExclusive
    <3> HIDE DEF line
    <3> QED
      BY <3>1, <1>5
  <2>2. Arrives(f, n) => dest \notin DOMAIN held[d]
    BY <1>1 DEF Free
  <2> HIDE DEF line, dest, n, f
  <2> QED
    BY <2>1, <2>2, <1>10, <1>11
<1> QED
  BY <1>1, <1>11, <1>15, <1>16, RowsHeld
LEMMA CommitTransferSound ==
  ASSUME IInv, HInv, NEW c \in Client, CommitTransfer(c)
  PROVE  HInv'
<1> DEFINE new == [status |-> "completed", revKey |-> None]
<1>0. PICK t \in Key : t = txn[c].key
  BY DEF CommitTransfer, IInv, Started
<1>1. /\ txn[c].pc = "lines" /\ txn[c].n > Len(form[t].lines)
      /\ transfers' = [transfers EXCEPT ![t] = new]
      /\ Publish(c) /\ form' = form /\ stock' = [i \in Item |-> Seen(c, i)]
  BY <1>0 DEF CommitTransfer, Publish
<1>2. form[t].kind = "TRANSFER" /\ t = TransferAt(c) /\ txn[c].n \in Nat
  BY <1>0, <1>1 DEF IInv, Started, TransferAt, TypeOK, Request
<1>3. /\ transfers'[t] = new /\ \A k \in Key \ {t} : transfers'[k] = transfers[k]
  BY <1>1 DEF IInv, TypeOK
<1>4. new # None /\ new.revKey = None
  BY NoTransferAssumption DEF Transfer
<1>5. /\ ClientSound(c) /\ transfers[t] = None
      /\ \A n \in DOMAIN form[t].lines : n < txn[c].n => LineIn(held[c], form[t], t, n, "out", "in")
  BY <1>0, <1>1 DEF HInv, ClientSound, LinesSound
<1>6. ASSUME NEW i, NEW m, Fits(form, i, m),
             KeyCommitted(form, transfers, m.key) \/ Own(txn[c], m.key)
      PROVE  KeyCommitted(form, transfers', m.key)
  <2>1. /\ m.key[1] \in Key
        /\ m.key[3] \in {"reverse-out", "reverse-in"} => form[m.key[1]].of \in Key
    BY <1>6 DEF Fits, LegOf
  <2>2. CASE KeyCommitted(form, transfers, m.key)
    BY <2>1, <2>2, <1>3, <1>4, <1>5 DEF KeyCommitted
  <2>3. CASE Own(txn[c], m.key)
    BY <2>1, <2>3, <1>0, <1>1, <1>3, <1>4 DEF KeyCommitted, Own
  <2> QED
    BY <2>2, <2>3, <1>6
<1>7. Whole(t)'
  <2>1. ASSUME NEW n \in DOMAIN form[t].lines PROVE LineIn(stock', form[t], t, n, "out", "in")
    <3>1. n < txn[c].n
      <4>1. form[t].lines \in Seq(TransferLine)
        BY <1>2, FormFields DEF IInv
      <4>2. n \in Nat /\ n <= Len(form[t].lines) /\ Len(form[t].lines) \in Nat
        BY <4>1
      <4> QED
        BY <4>2, <1>1, <1>2
    <3>2. DOMAIN held[c] \subseteq Item /\ DOMAIN stock' = Item
      BY <1>1 DEF IInv, TypeOK
    <3>3. \A i \in DOMAIN held[c] : stock'[i] = held[c][i]
      BY <3>2, <1>1 DEF Seen
    <3>4. \A i \in DOMAIN held[c] : Extends(stock'[i].log, held[c][i].log)
      BY <3>3, ExtendsItself
    <3> QED
      BY <3>1, <3>2, <3>4, <1>5, LineStill
  <2> QED
    BY <2>1, <1>1, <1>3, <1>4 DEF Whole
<1> HIDE DEF new
<1> QED
  BY <1>1, <1>2, <1>6, <1>7, HistoryPublished

(* reverse_transfer takes its locks: the transfer and all its rows.         *)
LEMMA BeginUndoSound ==
  ASSUME IInv, HInv, NEW c \in Client, BeginUndo(c)
  PROVE  HInv'
<1> DEFINE k == txn[c].key
           t == form[k].of
           rows == [i \in RowsLocked(form[k]) |-> stock[i]]
<1>1. /\ txn[c].pc = "checked" /\ CanLock(c, form[k]) /\ form[k].kind = "UNDO"
      /\ transfers[t] # None /\ transfers[t].status = "completed"
      /\ held' = [held EXCEPT ![c] = rows]
      /\ txn' = [txn EXCEPT ![c].pc = "undo", ![c].n = Len(form[t].lines)]
      /\ UNCHANGED <<stock, transfers, form>>
  BY DEF BeginUndo, Locked, Allowed, UndoAllowed
<1>2. k \in Key /\ t \in Key /\ form[t].kind = "TRANSFER"
  <2>1. k \in Key
    BY <1>1 DEF IInv, Started
  <2>2. t \in Key
    BY <2>1, <1>1, FormFields DEF IInv
  <2> QED
    BY <2>1, <2>2, <1>1 DEF IInv, TransfersAsked
<1>3. /\ held'[c] = rows /\ \A d \in Client \ {c} : held'[d] = held[d] /\ txn'[d] = txn[d]
      /\ txn'[c].pc = "undo" /\ txn'[c].n = Len(form[t].lines) /\ txn'[c].key = k
  BY <1>1 DEF IInv, TypeOK, Request
<1>4. /\ DOMAIN rows = RowsLocked(form[k]) /\ DOMAIN rows \subseteq Item
      /\ \A i \in DOMAIN rows : rows[i] = stock[i]
  <2>1. SourceRows(form[t]) \subseteq Item /\ ArrivalRows(form[t]) \subseteq Item
    BY <1>2, TransferRows DEF IInv
  <2>2. RowsLocked(form[k]) = SourceRows(form[t]) \cup ArrivalRows(form[t])
    BY <1>1 DEF RowsLocked
  <2> QED
    BY <2>1, <2>2
<1>5. \A d \in Client \ {c} : DOMAIN held'[c] \cap DOMAIN held[d] = {}
  <2> HIDE DEF rows
  <2> QED
    BY <1>1, <1>3, <1>4 DEF CanLock, Free
<1>6. \A n \in DOMAIN form[t].lines : ~(n > Len(form[t].lines))
  <2>1. form[t].lines \in Seq(TransferLine)
    BY <1>2, FormFields DEF IInv
  <2> HIDE DEF t
  <2> QED
    BY <2>1
<1> HIDE DEF rows, k
<1>7. \A i \in DOMAIN held'[c] : HeldSound(c, i)'
  BY <1>1, <1>3, <1>4, ExtendsItself DEF HInv, HistorySound, HeldSound
<1>8. UndoSound(c)'
  <2>2. (RowsLocked(form[txn[c].key]) \subseteq DOMAIN held[c])'
    BY <1>1, <1>3, <1>4 DEF RowsLocked
  <2> QED
    BY <2>2, <1>1, <1>3, <1>6 DEF UndoSound
<1>9. LinesSound(c)'
  BY <1>3 DEF LinesSound
<1>10. ClientSound(c)'
  BY <1>3, <1>7, <1>8, <1>9 DEF ClientSound
<1> QED
  BY <1>1, <1>3, <1>5, <1>10, RowsHeld
LEMMA PostedReversal ==
  ASSUME NEW row \in Row, NEW g, NEW i, RowSound(g, i, row),
         NEW qty, NEW new, NEW key, NEW rev \in DOMAIN row.log, rev # 0,
         Fits(g, i, [type |-> "REVERSAL", qty |-> qty, prev |-> row.qty, new |-> new,
                     key |-> key, rev |-> rev]),
         \A m \in DOMAIN row.log : row.log[m].key # key /\ row.log[m].rev # rev,
         row.log[rev].type # "REVERSAL",
         new - row.qty = row.log[rev].prev - row.log[rev].new,
         Undoes(g, [type |-> "REVERSAL", qty |-> qty, prev |-> row.qty, new |-> new,
                    key |-> key, rev |-> rev], row.log[rev])
  PROVE  LET out == Posted(row, "REVERSAL", qty, new, key, rev) IN
         /\ RowSound(g, i, out)
         /\ Extends(out.log, row.log)
         /\ DOMAIN out.log \ DOMAIN row.log = {Len(row.log) + 1}
         /\ out.log[Len(row.log) + 1].key = key
         /\ out.log[Len(row.log) + 1].qty = qty
         /\ Len(row.log) + 1 \in DOMAIN out.log
BY PostedSound

(* One leg of a line undone: the movement is there, is no reversal, and     *)
(* has none while the transfer is not undone.                               *)
LEMMA LegUndoneSound ==
  ASSUME NEW g, NEW i, NEW row \in Row, Reconciles(row), RowSound(g, i, row),
         NEW k \in Key, NEW n, NEW leg, NEW back, NEW original, NEW key,
         \/ leg = "out" /\ back = "reverse-out"
         \/ leg = "in" /\ back = "reverse-in",
         original = <<g[k].of, n, leg>>, key = <<k, n, back>>,
         g[k].kind = "UNDO", LegOf(g, g[k].of, n, i, leg), NEW qty \in Quantity,
         NEW shift \in Int, leg = "out" => shift = qty, leg = "in" => shift = -qty,
         Has(row, original, qty),
         \A m \in DOMAIN row.log : row.log[m].key[3] = back /\ row.log[m].key[2] = n
                                     => g[row.log[m].key[1]].of # g[k].of
  PROVE  LET out == LegUndone(row, original, shift, qty, key) IN
         /\ RowSound(g, i, out)
         /\ Extends(out.log, row.log)
         /\ DOMAIN out.log \ DOMAIN row.log = {Len(row.log) + 1}
         /\ out.log[Len(row.log) + 1].key = key
         /\ Has(out, key, qty)
<1> DEFINE of == g[k].of
           m == CHOOSE o \in Originals(row, original) : TRUE
           out == Posted(row, "REVERSAL", qty, row.qty + shift, key, m)
           r == [type |-> "REVERSAL", qty |-> qty, prev |-> row.qty,
                 new |-> row.qty + shift, key |-> key, rev |-> m]
<1>1. Originals(row, original) # {}
  BY DEF Originals, Has
<1>2. m \in DOMAIN row.log /\ row.log[m].key = original
  <2>1. m \in Originals(row, original)
    BY <1>1
  <2> QED
    BY <2>1 DEF Originals
<1>3. LegUndone(row, original, shift, qty, key) = out
  BY <1>1 DEF LegUndone
<1>4. /\ Fits(g, i, row.log[m]) /\ leg \in {"out", "in"} /\ back \in {"reverse-out", "reverse-in"}
      /\ original[1] = of /\ original[2] = n /\ original[3] = leg
      /\ key[1] = k /\ key[2] = n /\ key[3] = back
  BY <1>2 DEF RowSound
<1> HIDE DEF m
<1>5. /\ row.log[m].qty = qty
      /\ leg = "out" => row.log[m].type \in {"TRANSFER_OUT", "LOSS"}
      /\ leg = "in" => row.log[m].type = "TRANSFER_IN"
  <2>1. row.log[m].qty = qty
    BY <1>2 DEF Has, RowSound, KeysOnce
  <2> QED
    BY <2>1, <1>2, <1>4 DEF Fits
<1>6. row.log[m].type # "REVERSAL"
  BY <1>4, <1>5
<1>7. /\ m # 0 /\ row.qty \in Nat /\ row.log[m].prev \in Nat /\ row.log[m].new \in Nat
      /\ qty \in Nat
  BY <1>2, MovementFields, LogOf DEF Quantity
<1>8. (row.qty + shift) - row.qty = row.log[m].prev - row.log[m].new
  <2>1. row.log[m].new = row.log[m].prev + Effect(row.log[m])
    BY <1>2, <1>6 DEF Reconciles
  <2>2. Effect(row.log[m]) = -shift
    <3>1. CASE leg = "out"
      <4>1. row.log[m].type \notin InboundTypes
        BY <3>1, <1>5 DEF InboundTypes
      <4> QED
        BY <3>1, <4>1, <1>5 DEF Effect
    <3>2. CASE leg = "in"
      <4>1. row.log[m].type \in InboundTypes
        BY <3>2, <1>5 DEF InboundTypes
      <4>2. -shift = qty
        BY <3>2, <1>7
      <4> QED
        BY <4>1, <4>2, <1>5 DEF Effect
    <3> QED
      BY <3>1, <3>2, <1>4
  <2> QED
    BY <2>1, <2>2, <1>7
<1>9. \A o \in DOMAIN row.log : row.log[o].rev # m
  <2> SUFFICES ASSUME NEW o \in DOMAIN row.log, row.log[o].rev = m
               PROVE  FALSE
    OBVIOUS
  <2>1. /\ Fits(g, i, row.log[o]) /\ Undoes(g, row.log[o], row.log[m])
        /\ row.log[o].type = "REVERSAL"
    BY <1>7 DEF RowSound, ReversesOnce
  <2> DEFINE ok == row.log[o].key
  <2>2. ok[3] \in {"self", "reverse-out", "reverse-in"}
    BY <2>1 DEF Fits, Leg
  <2>3. /\ ok[3] = "self" => leg = "self"
        /\ ok[3] = "reverse-out" => original = <<g[ok[1]].of, ok[2], "out">>
        /\ ok[3] = "reverse-in" => original = <<g[ok[1]].of, ok[2], "in">>
    BY <2>1, <1>2, <1>4 DEF Undoes
  <2>4. ok[3] = back /\ ok[2] = n /\ g[ok[1]].of = of
    BY <2>2, <2>3, <1>4
  <2> QED
    BY <2>4
<1>10. \A o \in DOMAIN row.log : row.log[o].key # key
  BY <1>4
<1>11. Fits(g, i, r) /\ Undoes(g, r, row.log[m])
  <2>1. r.key = key /\ r.type = "REVERSAL"
    OBVIOUS
  <2>2. key = <<key[1], key[2], key[3]>> /\ original = <<g[key[1]].of, key[2], leg>>
    BY <1>4
  <2> HIDE DEF r
  <2> QED
    BY <2>1, <2>2, <1>2, <1>4 DEF Fits, Undoes, Leg
<1>12. /\ RowSound(g, i, out) /\ Extends(out.log, row.log)
       /\ DOMAIN out.log \ DOMAIN row.log = {Len(row.log) + 1}
       /\ out.log[Len(row.log) + 1].key = key
       /\ out.log[Len(row.log) + 1].qty = qty
       /\ Len(row.log) + 1 \in DOMAIN out.log
  <2> DEFINE new == row.qty + shift
  <2>1. new - row.qty = row.log[m].prev - row.log[m].new
    BY <1>8
  <2>2. Fits(g, i, [type |-> "REVERSAL", qty |-> qty, prev |-> row.qty, new |-> new,
                    key |-> key, rev |-> m])
        /\ Undoes(g, [type |-> "REVERSAL", qty |-> qty, prev |-> row.qty, new |-> new,
                      key |-> key, rev |-> m], row.log[m])
    BY <1>11, Zenon
  <2>3. m \in DOMAIN row.log
    BY <1>2
  <2>4. m # 0
    BY <1>7
  <2> HIDE DEF new, of, r
  <2>5. /\ RowSound(g, i, Posted(row, "REVERSAL", qty, new, key, m))
        /\ Extends(Posted(row, "REVERSAL", qty, new, key, m).log, row.log)
        /\ DOMAIN Posted(row, "REVERSAL", qty, new, key, m).log \ DOMAIN row.log
             = {Len(row.log) + 1}
        /\ Posted(row, "REVERSAL", qty, new, key, m).log[Len(row.log) + 1].key = key
        /\ Posted(row, "REVERSAL", qty, new, key, m).log[Len(row.log) + 1].qty = qty
        /\ Len(row.log) + 1 \in DOMAIN Posted(row, "REVERSAL", qty, new, key, m).log
    BY <2>1, <2>2, <2>3, <2>4, <1>6, <1>9, <1>10, PostedReversal
  <2> QED
    BY <2>5, Zenon DEF new
<1> HIDE DEF out
<1>13. Has(out, key, qty)
  BY <1>12 DEF Has
<1> QED
  BY <1>3, <1>12, <1>13
(* One line of a transfer undone. *)
LEMMA UndoLineSound ==
  ASSUME IInv, HInv, NEW c \in Client, UndoLine(c)
  PROVE  HInv'
<1> DEFINE k    == txn[c].key
           of   == form[k].of
           f    == form[of]
           n    == txn[c].n
           line == f.lines[n]
           dest == Destination(f, n)
           outKey == <<k, n, "reverse-out">>
           inKey  == <<k, n, "reverse-in">>
           Out(i) == LegUndone(held[c][i], <<of, n, "out">>, line.qty, line.qty, outKey)
           In(i)  == LegUndone(held[c][i], <<of, n, "in">>, -line.qty, line.qty, inKey)
           rows == [i \in DOMAIN held[c] |->
                      IF i = line.item THEN Out(i)
                      ELSE IF Arrives(f, n) /\ i = dest THEN In(i) ELSE held[c][i]]
<1>1. /\ txn[c].pc = "undo" /\ n > 0
      /\ held' = [held EXCEPT ![c] = rows] /\ txn' = [txn EXCEPT ![c].n = n - 1]
      /\ UNCHANGED <<stock, transfers, form>>
  BY DEF UndoLine, AtUndo, UndoAt
<1>2. /\ k \in Key /\ form[k].kind = "UNDO" /\ f.kind = "TRANSFER"
      /\ n <= Len(f.lines) /\ n \in Nat /\ of \in Key
  <2>1. /\ k \in Key /\ form[k].kind = "UNDO" /\ f.kind = "TRANSFER"
        /\ n <= Len(f.lines) /\ n \in Nat
    BY <1>1 DEF IInv, Started, TypeOK, Request, UndoAt
  <2> QED
    BY <2>1, FormFields DEF IInv
<1>3. n \in DOMAIN f.lines /\ \A o \in DOMAIN f.lines : o \in Nat
  <2>1. f.lines \in Seq(TransferLine)
    <3>1. f.kind = "TRANSFER" /\ of \in Key
      BY <1>2
    <3> HIDE DEF of
    <3> QED
      BY <3>1, FormFields DEF IInv
  <2> HIDE DEF n, f
  <2>2. DOMAIN f.lines = 1..Len(f.lines) /\ Len(f.lines) \in Nat
    BY <2>1
  <2> QED
    BY <1>1, <1>2, <2>2
<1>4. /\ line.item \in Item /\ line.qty \in Quantity
      /\ Arrives(f, n) => dest \in Item /\ dest # line.item
  <2>1. f \in Forms
    BY <1>2 DEF IInv, TypeOK
  <2>2. f.src # f.dst /\ line.item.loc = f.src /\ dest.loc = f.dst
    BY <2>1, <1>2, <1>3, FormsAssumption DEF Destination
  <2> QED
    BY <2>2, <1>2, <1>3, LineFields DEF IInv
<1>5. /\ ClientSound(c)
      /\ SourceRows(f) \cup ArrivalRows(f) \subseteq DOMAIN held[c]
      /\ transfers[of] # None /\ transfers[of].status = "completed"
      /\ \A o \in DOMAIN f.lines :
           o > n => LineIn(held[c], f, k, o, "reverse-out", "reverse-in")
  <2>1. ClientSound(c) /\ UndoSound(c)
    BY DEF HInv, ClientSound
  <2>2. RowsLocked(form[k]) = SourceRows(f) \cup ArrivalRows(f)
    BY <1>2 DEF RowsLocked
  <2> QED
    BY <2>1, <2>2, <1>1 DEF UndoSound
<1>6. /\ line.item \in DOMAIN held[c]
      /\ Arrives(f, n) => dest \in DOMAIN held[c]
  BY <1>3, <1>5 DEF SourceRows, ArrivalRows
<1>7. \A i \in DOMAIN held[c] :
        /\ i \in Item /\ held[c][i] \in Row /\ Reconciles(held[c][i])
        /\ HeldSound(c, i) /\ Seen(c, i) = held[c][i]
  BY <1>5 DEF IInv, TypeOK, HeldReconciles, ClientSound, Seen
<1>8. LineIn(stock, f, of, n, "out", "in")
  BY <1>2, <1>3, <1>5 DEF HInv, Whole
<1>9. /\ Has(held[c][line.item], <<of, n, "out">>, line.qty)
      /\ Arrives(f, n) => Has(held[c][dest], <<of, n, "in">>, line.qty)
  <2>1. /\ Has(stock[line.item], <<of, n, "out">>, line.qty)
        /\ Arrives(f, n) => Has(stock[dest], <<of, n, "in">>, line.qty)
    BY <1>8 DEF LineIn
  <2>2. \A i \in DOMAIN held[c] : Extends(held[c][i].log, stock[i].log)
    BY <1>7 DEF HeldSound
  <2> HIDE DEF line, dest, of, n, f
  <2> QED
    BY <2>1, <2>2, <1>6, HasStill
<1>10. ASSUME NEW i \in DOMAIN held[c], NEW m \in DOMAIN held[c][i].log,
              held[c][i].log[m].key[3] \in {"reverse-out", "reverse-in"},
              held[c][i].log[m].key[2] = n
       PROVE  form[held[c][i].log[m].key[1]].of # of
  <2> DEFINE key == held[c][i].log[m].key
  <2>1. KeyCommitted(form, transfers, key) \/ Own(txn[c], key)
    BY <1>7, SeenSound
  <2>2. ~Own(txn[c], key)
    <3>1. ~(n > n)
      <4> HIDE DEF n
      <4> QED
        BY <1>2
    <3>2. key[2] = n
      BY <1>10
    <3> HIDE DEF key
    <3> QED
      BY <3>1, <3>2, <1>1 DEF Own
  <2>3. transfers[form[key[1]].of].status = "reversed"
    <3>1. key[3] \in {"reverse-out", "reverse-in"}
      BY <1>10
    <3> HIDE DEF key
    <3> QED
      BY <2>1, <2>2, <3>1 DEF KeyCommitted
  <2> QED
    BY <2>3, <1>5
<1>11. ASSUME NEW i \in DOMAIN held[c], i = line.item
       PROVE  /\ RowSound(form, i, Out(i)) /\ Extends(Out(i).log, held[c][i].log)
              /\ DOMAIN Out(i).log \ DOMAIN held[c][i].log = {Len(held[c][i].log) + 1}
              /\ Out(i).log[Len(held[c][i].log) + 1].key = outKey
              /\ Has(Out(i), outKey, line.qty)
  <2> DEFINE row == held[c][i]
             qty == line.qty
             original == <<of, n, "out">>
             out == LegUndone(row, original, qty, qty, outKey)
  <2>1. LegOf(form, of, n, i, "out") /\ Out(i) = out
    BY <1>2, <1>3, <1>11 DEF LegOf
  <2>2. RowSound(form, i, row) /\ row \in Row /\ Reconciles(row)
    BY <1>7 DEF HeldSound
  <2>3. Has(row, original, qty)
    BY <1>9, <1>11
  <2>4. \A m \in DOMAIN row.log : row.log[m].key[3] = "reverse-out" /\ row.log[m].key[2] = n
                                   => form[row.log[m].key[1]].of # form[k].of
    BY <1>10
  <2>5. k \in Key /\ form[k].kind = "UNDO" /\ qty \in Quantity /\ of = form[k].of
    BY <1>2, <1>4
  <2>6. original = <<of, n, "out">> /\ outKey = <<k, n, "reverse-out">>
    OBVIOUS
  <2> HIDE DEF line, k, n, f, of, row, qty, original, outKey, Out
  <2>7. qty \in Int
    BY <2>5 DEF Quantity
  <2>8. /\ RowSound(form, i, out) /\ Extends(out.log, row.log)
        /\ DOMAIN out.log \ DOMAIN row.log = {Len(row.log) + 1}
        /\ out.log[Len(row.log) + 1].key = outKey /\ Has(out, outKey, qty)
    BY <2>1, <2>2, <2>3, <2>4, <2>5, <2>6, <2>7, LegUndoneSound, SMTT(30)
  <2> HIDE DEF out
  <2> QED
    BY <2>1, <2>8 DEF row, qty
<1>12. ASSUME NEW i \in DOMAIN held[c], Arrives(f, n), i = dest
       PROVE  /\ RowSound(form, i, In(i)) /\ Extends(In(i).log, held[c][i].log)
              /\ DOMAIN In(i).log \ DOMAIN held[c][i].log = {Len(held[c][i].log) + 1}
              /\ In(i).log[Len(held[c][i].log) + 1].key = inKey
              /\ Has(In(i), inKey, line.qty)
  <2> DEFINE row == held[c][i]
             qty == line.qty
             original == <<of, n, "in">>
             out == LegUndone(row, original, -qty, qty, inKey)
  <2>1. LegOf(form, of, n, i, "in") /\ In(i) = out
    BY <1>2, <1>3, <1>12 DEF LegOf
  <2>2. RowSound(form, i, row) /\ row \in Row /\ Reconciles(row)
    BY <1>7 DEF HeldSound
  <2>3. Has(row, original, qty)
    BY <1>9, <1>12
  <2>4. \A m \in DOMAIN row.log : row.log[m].key[3] = "reverse-in" /\ row.log[m].key[2] = n
                                   => form[row.log[m].key[1]].of # form[k].of
    BY <1>10
  <2>5. k \in Key /\ form[k].kind = "UNDO" /\ qty \in Quantity /\ of = form[k].of
    BY <1>2, <1>4
  <2>6. original = <<of, n, "in">> /\ inKey = <<k, n, "reverse-in">>
    OBVIOUS
  <2> HIDE DEF line, k, n, f, of, row, qty, original, inKey, In
  <2>7. -qty \in Int
    BY <2>5 DEF Quantity
  <2>8. /\ RowSound(form, i, out) /\ Extends(out.log, row.log)
        /\ DOMAIN out.log \ DOMAIN row.log = {Len(row.log) + 1}
        /\ out.log[Len(row.log) + 1].key = inKey /\ Has(out, inKey, qty)
    BY <2>1, <2>2, <2>3, <2>4, <2>5, <2>6, <2>7, LegUndoneSound, SMTT(30)
  <2> HIDE DEF out
  <2> QED
    BY <2>1, <2>8 DEF row, qty
<1>13. /\ DOMAIN rows = DOMAIN held[c]
       /\ rows[line.item] = Out(line.item)
       /\ Arrives(f, n) => rows[dest] = In(dest)
       /\ \A i \in DOMAIN rows : \/ i = line.item
                                 \/ Arrives(f, n) /\ i = dest
                                 \/ i # line.item /\ rows[i] = held[c][i]
  <2> HIDE DEF Out, In, line, dest, f, n
  <2> QED
    BY <1>4, <1>6
<1>14. /\ held'[c] = rows /\ \A d \in Client \ {c} : held'[d] = held[d] /\ txn'[d] = txn[d]
       /\ txn'[c].pc = "undo" /\ txn'[c].n = n - 1 /\ txn'[c].key = k
  BY <1>1 DEF IInv, TypeOK, Request
<1> HIDE DEF rows, Out, In
<1>15. /\ Own(txn'[c], outKey) /\ Own(txn'[c], inKey)
       /\ \A key \in MovementKey : Own(txn[c], key) => Own(txn'[c], key)
  <2>1. \A key \in MovementKey : key[2] \in Nat
    BY DEF MovementKey
  <2> QED
    BY <2>1, <1>1, <1>2, <1>14 DEF Own
<1>16. ASSUME NEW i \in DOMAIN rows
       PROVE  HeldSound(c, i)' /\ Extends(rows[i].log, held[c][i].log)
  <2>1. /\ held[c][i] \in Row
        /\ Extends(held[c][i].log, stock[i].log)
        /\ \A m \in DOMAIN held[c][i].log \ DOMAIN stock[i].log :
             Own(txn[c], held[c][i].log[m].key)
        /\ RowSound(form, i, held[c][i])
    BY <1>7, <1>13 DEF HeldSound
  <2>2. CASE i = line.item
    <3>1. /\ rows[i] = Out(i) /\ RowSound(form, i, Out(i))
          /\ Extends(Out(i).log, held[c][i].log)
          /\ DOMAIN Out(i).log \ DOMAIN held[c][i].log = {Len(held[c][i].log) + 1}
          /\ Out(i).log[Len(held[c][i].log) + 1].key = outKey
      BY <2>2, <1>11, <1>13
    <3> HIDE DEF line, k, n, f, of, dest, outKey, inKey
    <3> DEFINE old == held[c][i]  new == Out(i)
    <3> HIDE DEF old, new
    <3>2. /\ Extends(new.log, stock[i].log)
          /\ \A m \in DOMAIN new.log \ DOMAIN stock[i].log : Own(txn'[c], new.log[m].key)
      <4>1. /\ old \in Row /\ Extends(old.log, stock[i].log)
            /\ \A m \in DOMAIN old.log \ DOMAIN stock[i].log : Own(txn[c], old.log[m].key)
        BY <2>1 DEF old
      <4>2. /\ Extends(new.log, old.log)
            /\ DOMAIN new.log \ DOMAIN old.log = {Len(old.log) + 1}
            /\ new.log[Len(old.log) + 1].key = outKey
        BY <3>1 DEF old, new
      <4> QED
        BY <4>1, <4>2, <1>15, HeldGrown, ZenonT(40)
    <3> QED
      BY <3>1, <3>2, <1>1, <1>14 DEF HeldSound, new
  <2>3. CASE Arrives(f, n) /\ i = dest
    <3>1. /\ rows[i] = In(i) /\ RowSound(form, i, In(i))
          /\ Extends(In(i).log, held[c][i].log)
          /\ DOMAIN In(i).log \ DOMAIN held[c][i].log = {Len(held[c][i].log) + 1}
          /\ In(i).log[Len(held[c][i].log) + 1].key = inKey
      BY <2>3, <1>12, <1>13
    <3> HIDE DEF line, k, n, f, of, dest, outKey, inKey
    <3> DEFINE old == held[c][i]  new == In(i)
    <3> HIDE DEF old, new
    <3>2. /\ Extends(new.log, stock[i].log)
          /\ \A m \in DOMAIN new.log \ DOMAIN stock[i].log : Own(txn'[c], new.log[m].key)
      <4>1. /\ old \in Row /\ Extends(old.log, stock[i].log)
            /\ \A m \in DOMAIN old.log \ DOMAIN stock[i].log : Own(txn[c], old.log[m].key)
        BY <2>1 DEF old
      <4>2. /\ Extends(new.log, old.log)
            /\ DOMAIN new.log \ DOMAIN old.log = {Len(old.log) + 1}
            /\ new.log[Len(old.log) + 1].key = inKey
        BY <3>1 DEF old, new
      <4> QED
        BY <4>1, <4>2, <1>15, HeldGrown, ZenonT(40)
    <3> QED
      BY <3>1, <3>2, <1>1, <1>14 DEF HeldSound, new
  <2>4. CASE i # line.item /\ rows[i] = held[c][i]
    <3>1. \A m \in DOMAIN rows[i].log : rows[i].log[m].key \in MovementKey
      BY <2>1, <2>4, LogOf DEF Movement
    <3> HIDE DEF line, k, n, f
    <3> QED
      BY <2>1, <2>4, <3>1, <1>1, <1>14, <1>15, ExtendsItself DEF HeldSound
  <2> QED
    BY <2>2, <2>3, <2>4, <1>13
<1>17. UndoSound(c)'
  <2>1. ASSUME NEW o \in DOMAIN f.lines, o > n - 1
        PROVE  LineIn(rows, f, k, o, "reverse-out", "reverse-in")
    <3>1. o > n \/ o = n
      <4>1. o \in Nat
        BY <1>3
      <4> HIDE DEF n, f
      <4> QED
        BY <4>1, <2>1, <1>2
    <3>2. CASE o > n
      <4>1. \A i \in DOMAIN held[c] : Extends(rows[i].log, held[c][i].log)
        BY <1>13, <1>16
      <4>2. /\ DOMAIN held[c] \subseteq DOMAIN rows
            /\ LineIn(held[c], f, k, o, "reverse-out", "reverse-in")
        BY <3>2, <1>5, <1>13
      <4> HIDE DEF f, k, n
      <4> QED
        BY <4>1, <4>2, LineStill
    <3>3. CASE o = n
      BY <3>3, <1>6, <1>11, <1>12, <1>13 DEF LineIn
    <3> QED
      BY <3>1, <3>2, <3>3
  <2>2. RowsLocked(form[txn[c].key])' = SourceRows(f) \cup ArrivalRows(f)
    BY <1>1, <1>2, <1>14 DEF RowsLocked
  <2>3. form'[txn'[c].key].of = of /\ form'[of] = f
    BY <1>1, <1>14
  <2> QED
    BY <2>1, <2>2, <2>3, <1>1, <1>5, <1>13, <1>14 DEF UndoSound
<1>18. ClientSound(c)'
  BY <1>13, <1>14, <1>16, <1>17 DEF ClientSound, LinesSound
<1>19. \A d \in Client \ {c} : DOMAIN held'[c] \cap DOMAIN held[d] = {}
  BY <1>13, <1>14 DEF HInv, LocksExclusive
<1> QED
  BY <1>1, <1>14, <1>18, <1>19, RowsHeld
LEMMA CommitUndoSound ==
  ASSUME IInv, HInv, NEW c \in Client, CommitUndo(c)
  PROVE  HInv'
<1>0. PICK k \in Key : k = txn[c].key
  BY DEF CommitUndo, IInv, Started
<1>1. /\ txn[c].pc = "undo" /\ txn[c].n = 0
      /\ transfers' = [transfers EXCEPT ![form[k].of] = [status |-> "reversed", revKey |-> k]]
      /\ Publish(c) /\ form' = form /\ stock' = [i \in Item |-> Seen(c, i)]
  BY <1>0 DEF CommitUndo, Publish
<1>2. PICK t \in Key : t = form[k].of /\ form[t].kind = "TRANSFER"
  <2>1. form[k].kind = "UNDO" /\ form[form[k].of].kind = "TRANSFER"
    BY <1>0, <1>1 DEF IInv, Started, UndoAt
  <2> QED
    BY <2>1, FormFields DEF IInv
<1> DEFINE new == [status |-> "reversed", revKey |-> k]
<1>3. /\ transfers'[t] = new /\ \A o \in Key \ {t} : transfers'[o] = transfers[o]
  BY <1>1, <1>2 DEF IInv, TypeOK
<1>4. new # None /\ new.revKey = k /\ new.status = "reversed"
  BY NoTransferAssumption DEF Transfer
<1>5. /\ ClientSound(c) /\ transfers[t] # None
      /\ \A n \in DOMAIN form[t].lines :
           n > txn[c].n => LineIn(held[c], form[t], k, n, "reverse-out", "reverse-in")
  BY <1>0, <1>1, <1>2 DEF HInv, ClientSound, UndoSound
<1>6. ASSUME NEW i, NEW m, Fits(form, i, m),
             KeyCommitted(form, transfers, m.key) \/ Own(txn[c], m.key)
      PROVE  KeyCommitted(form, transfers', m.key)
  <2>1. /\ m.key[1] \in Key
        /\ m.key[3] \in {"reverse-out", "reverse-in"} => form[m.key[1]].of \in Key
    BY <1>6 DEF Fits, LegOf
  <2> HIDE DEF new
  <2>2. CASE KeyCommitted(form, transfers, m.key)
    BY <2>1, <2>2, <1>3, <1>4 DEF KeyCommitted
  <2>3. CASE Own(txn[c], m.key)
    BY <2>1, <2>3, <1>0, <1>1, <1>2, <1>3, <1>4 DEF KeyCommitted, Own
  <2> QED
    BY <2>2, <2>3, <1>6
<1>7. Whole(t)'
  <2>1. DOMAIN held[c] \subseteq Item /\ DOMAIN stock' = Item /\ DOMAIN stock = Item
    BY <1>1 DEF IInv, TypeOK
  <2>2. \A i \in DOMAIN held[c] : stock'[i] = held[c][i] /\ HeldSound(c, i)
    BY <2>1, <1>1, <1>5 DEF Seen, ClientSound
  <2>3. \A i \in DOMAIN held[c] : Extends(stock'[i].log, held[c][i].log)
    BY <2>2, ExtendsItself
  <2>4. \A i \in Item : Extends(stock'[i].log, stock[i].log)
    BY <2>2, <1>1, ExtendsItself DEF Seen, HeldSound
  <2>5. ASSUME NEW n \in DOMAIN form[t].lines
        PROVE  /\ LineIn(stock', form[t], t, n, "out", "in")
               /\ LineIn(stock', form[t], k, n, "reverse-out", "reverse-in")
    <3>1. n > 0
      <4>1. form[t].lines \in Seq(TransferLine)
        BY <1>2, FormFields DEF IInv
      <4> QED
        BY <4>1
    <3>2. LineIn(stock, form[t], t, n, "out", "in")
      BY <1>5 DEF HInv, Whole
    <3> QED
      BY <3>1, <3>2, <2>1, <2>3, <2>4, <1>1, <1>5, LineStill
  <2> HIDE DEF new
  <2> QED
    BY <2>5, <1>1, <1>3, <1>4 DEF Whole
<1>8. txn[c].pc # "lines" /\ t = TransferAt(c)
  BY <1>0, <1>1, <1>2 DEF TransferAt
<1>9. transfers' = [transfers EXCEPT ![t] = new]
  BY <1>1, <1>2
<1> HIDE DEF new
<1> QED
  BY <1>1, <1>6, <1>7, <1>8, <1>9, HistoryPublished

(* Errors, crashes and broken deadlocks leave no trace in any history. *)
LEMMA RollBackSound ==
  ASSUME IInv, HInv, NEW c \in Client, RollBack(c)
  PROVE  HInv'
<1>1. /\ txn'[c].pc = "idle" /\ DOMAIN held'[c] = {}
      /\ \A d \in Client \ {c} : txn'[d] = txn[d] /\ held'[d] = held[d]
      /\ UNCHANGED <<stock, transfers, form>>
  BY DEF RollBack, Finish, Idle, NoRows, IInv, TypeOK
<1> QED
  BY <1>1, NothingWritten

LEMMA SubmitSound ==
  ASSUME IInv, HInv, NEW c \in Client, (\E k \in Key : Submit(c, k)) \/ Refuse(c)
  PROVE  HInv'
<1>1. /\ txn[c].pc \in {"idle", "checked"} /\ txn'[c].pc \in {"idle", "checked"}
      /\ UNCHANGED <<stock, transfers, form, held>>
      /\ \A d \in Client \ {c} : txn'[d] = txn[d]
  BY DEF Submit, Refuse, Locked, Finish, Idle, IInv, TypeOK
<1>2. DOMAIN held'[c] = {}
  BY <1>1 DEF HInv, ClientSound
<1> QED
  BY <1>1, <1>2, NothingWritten

(* Archive, Trash and their restores leave the history of a row that no     *)
(* request holds alone; project statuses leave every row alone.             *)
LEMMA LifecycleSound ==
  ASSUME IInv, HInv, Lifecycle
  PROVE  HInv'
<1>1. ASSUME NEW i \in Item, ArchiveItem(i) \/ RestoreItem(i) \/ TrashItem(i) \/ UntrashItem(i)
      PROVE  HInv'
  <2>1. PICK row \in {[stock[i] EXCEPT !.status = "archived"],
                      [stock[i] EXCEPT !.status = "active"],
                      [stock[i] EXCEPT !.trashed = TRUE],
                      [stock[i] EXCEPT !.trashed = FALSE]} :
               /\ stock' = [stock EXCEPT ![i] = row]
               /\ UNCHANGED <<transfers, site, completing, form, txn, held>>
    BY <1>1 DEF ArchiveItem, RestoreItem, TrashItem, UntrashItem
  <2>2. \A d \in Client : i \notin DOMAIN held[d]
    BY <1>1 DEF ArchiveItem, RestoreItem, TrashItem, UntrashItem, Unlocked
  <2>3. row.log = stock[i].log /\ RowSound(form, i, stock[i])
    BY DEF IInv, TypeOK, Row, HInv, HistorySound
  <2>4. RowSound(form, i, row) /\ Extends(row.log, stock[i].log)
    BY <2>3, SameHistory, ExtendsItself
  <2>5. \A m \in DOMAIN row.log \ DOMAIN stock[i].log :
          KeyCommitted(form, transfers, row.log[m].key)
    BY <2>3
  <2> QED
    BY <2>1, <2>2, <2>4, <2>5, RowReplaced
<1>2. ASSUME UNCHANGED <<stock, transfers, form, txn, held>>
      PROVE  HInv'
  <2>1. LocksExclusive' /\ (\A i \in Item : HistorySound(i)') /\ (\A k \in Key : Whole(k)')
    BY <1>2 DEF HInv, LocksExclusive, HistorySound, Whole
  <2>2. \A c \in Client : ClientSound(c)'
    BY <1>2 DEF HInv, ClientSound, HeldSound, LinesSound, UndoSound, RowsLocked
  <2> QED
    BY <2>1, <2>2 DEF HInv
<1>3. ASSUME NEW l \in Location,
             CheckCompletion(l) \/ CompleteProject(l)
               \/ \E s \in {"active", "on_hold"} : SetProjectStatus(l, s)
      PROVE  HInv'
  <2>1. UNCHANGED <<stock, transfers, form, txn, held>>
    BY <1>3 DEF CheckCompletion, CompleteProject, SetProjectStatus
  <2> QED
    BY <2>1, <1>2
<1> QED
  BY <1>1, <1>3 DEF Lifecycle

----------------------------------------------------------------------------
(* The theorems *)

LEMMA NextKeepsHInv == IInv /\ HInv /\ [Next]_vars => HInv'
<1> SUFFICES ASSUME IInv, HInv, [Next]_vars PROVE HInv'
  OBVIOUS
<1>1. ASSUME NEW c \in Client, NEW k \in Key, Submit(c, k) PROVE HInv'
  BY <1>1, SubmitSound
<1>2. ASSUME NEW c \in Client, Step(c) PROVE HInv'
  <2>1. CASE Refuse(c)
    BY <2>1, SubmitSound
  <2>2. CASE PostSingle(c)
    BY <2>2, PostSingleSound
  <2>3. CASE ReverseMovement(c)
    BY <2>3, ReverseMovementSound
  <2>4. CASE BeginTransfer(c)
    BY <2>4, BeginTransferSound
  <2>5. CASE MoveLine(c)
    BY <2>5, MoveLineSound
  <2>6. CASE RefuseLine(c)
    BY <2>6, RollBackSound DEF RefuseLine
  <2>7. CASE CommitTransfer(c)
    BY <2>7, CommitTransferSound
  <2>8. CASE BeginUndo(c)
    BY <2>8, BeginUndoSound
  <2>9. CASE UndoLine(c)
    BY <2>9, UndoLineSound
  <2>10. CASE RefuseUndoLine(c)
    BY <2>10, RollBackSound DEF RefuseUndoLine
  <2>11. CASE CommitUndo(c)
    BY <2>11, CommitUndoSound
  <2> QED
    BY <1>2, <2>1, <2>2, <2>3, <2>4, <2>5, <2>6, <2>7, <2>8, <2>9, <2>10, <2>11 DEF Step
<1>3. ASSUME NEW c \in Client, Abort(c) PROVE HInv'
  BY <1>3, RollBackSound DEF Abort
<1>4. CASE Lifecycle
  BY <1>4, LifecycleSound
<1>5. CASE UNCHANGED vars
  <2>1. UNCHANGED <<stock, transfers, form, txn, held>>
    BY <1>5 DEF vars
  <2> QED
    <3>1. LocksExclusive' /\ (\A i \in Item : HistorySound(i)') /\ (\A k \in Key : Whole(k)')
      BY <2>1 DEF HInv, LocksExclusive, HistorySound, Whole
    <3>2. \A c \in Client : ClientSound(c)'
      BY <2>1 DEF HInv, ClientSound, HeldSound, LinesSound, UndoSound, RowsLocked
    <3> QED
      BY <3>1, <3>2 DEF HInv
<1> QED
  BY <1>1, <1>2, <1>3, <1>4, <1>5 DEF Next

(* The invariant of the histories holds in every reachable state. *)
THEOREM HistoriesInductive == Spec => [](IInv /\ HInv)
<1>1. Init => IInv /\ HInv
  BY InitIInv, InitHInv
<1>2. (IInv /\ HInv) /\ [Next]_vars => (IInv /\ HInv)'
  BY NextKeepsIInv, NextKeepsHInv
<1> QED
  BY <1>1, <1>2, PTL DEF Spec

(* The row a movement is in, by its key. *)
LEMMA KeyTellsRow ==
  ASSUME NEW g, NEW i, NEW j, NEW m, NEW n, Fits(g, i, m), Fits(g, j, n), m.key = n.key
  PROVE  i = j
<1>1. m.key[3] \in {"self", "out", "in", "reverse-out", "reverse-in"}
  BY DEF Fits, Leg
<1> DEFINE k   == m.key[1]
           l   == m.key[2]
           leg == m.key[3]
<1>2. /\ leg = "self" => i = g[k].item
      /\ leg = "out" => LegOf(g, k, l, i, "out")
      /\ leg = "in" => LegOf(g, k, l, i, "in")
      /\ leg = "reverse-out" => LegOf(g, g[k].of, l, i, "out")
      /\ leg = "reverse-in" => LegOf(g, g[k].of, l, i, "in")
  BY Zenon DEF Fits
<1>3. /\ leg = "self" => j = g[k].item
      /\ leg = "out" => LegOf(g, k, l, j, "out")
      /\ leg = "in" => LegOf(g, k, l, j, "in")
      /\ leg = "reverse-out" => LegOf(g, g[k].of, l, j, "out")
      /\ leg = "reverse-in" => LegOf(g, g[k].of, l, j, "in")
  BY Zenon DEF Fits
<1>4. ASSUME NEW t, NEW o \in {"out", "in"}, LegOf(g, t, l, i, o), LegOf(g, t, l, j, o) PROVE i = j
  BY <1>4 DEF LegOf
<1> HIDE DEF k, l
<1> QED
  BY <1>1, <1>2, <1>3, <1>4

(* No movement is undone twice or by a movement that is itself undone,      *)
(* opening stock is the first movement of its record, whatever requests     *)
(* interleave (reverse_movement, reverse_transfer, add_opening_stock), and  *)
(* however often and however concurrently a rendered form is submitted, no  *)
(* two movements of the ledger have one key (the idempotency keys of        *)
(* stock.py and transfers.py).                                              *)
THEOREM HistoryAlwaysExact == Spec => []HistoryExact
<1>1. HInv => HistoryExplained
  BY DEF HInv, HistorySound, RowSound, HistoryExplained
<1>2. HInv => KeyAppliedOnce
  <2> SUFFICES ASSUME HInv, NEW i \in Item, NEW j \in Item,
                      NEW m \in DOMAIN stock[i].log, NEW n \in DOMAIN stock[j].log,
                      stock[i].log[m].key = stock[j].log[n].key
               PROVE  i = j /\ m = n
    BY DEF KeyAppliedOnce
  <2>1. RowSound(form, i, stock[i]) /\ RowSound(form, j, stock[j])
    BY DEF HInv, HistorySound
  <2>2. i = j
    BY <2>1, KeyTellsRow DEF RowSound
  <2> QED
    BY <2>1, <2>2 DEF RowSound, KeysOnce
<1>3. HInv => HistoryExact
  BY <1>1, <1>2 DEF HistoryExact
<1> QED
  BY <1>3, HistoriesInductive, PTL

(* What TransfersWhole says of one line of a recorded transfer. *)
LineWhole(k, n) ==
  LET f == form[k]
      rk == transfers[k].revKey
      In(i, key, q) == \E m \in Legs(i, key) : stock[i].log[m].qty = q
      q == f.lines[n].qty IN
  /\ In(f.lines[n].item, <<k, n, "out">>, q)
  /\ Arrives(f, n) => In(Destination(f, n), <<k, n, "in">>, q)
  /\ rk # None =>
       /\ In(f.lines[n].item, <<rk, n, "reverse-out">>, q)
       /\ Arrives(f, n) => In(Destination(f, n), <<rk, n, "reverse-in">>, q)

(* A transfer is in the history with both legs of every line or with none,  *)
(* and so is its reversal (transfer_stock, reverse_transfer).               *)
THEOREM TransfersAlwaysWhole == Spec => []TransfersWhole
<1>1. ASSUME HInv, NEW k \in Key, form[k].kind = "TRANSFER",
             transfers[k] = None, NEW i \in Item, NEW m \in DOMAIN stock[i].log
      PROVE  stock[i].log[m].key[1] # k
  <2>1. Fits(form, i, stock[i].log[m]) /\ KeyCommitted(form, transfers, stock[i].log[m].key)
    BY <1>1 DEF HInv, HistorySound, RowSound
  <2>2. /\ stock[i].log[m].key[3] \in {"self", "out", "in", "reverse-out", "reverse-in"}
        /\ stock[i].log[m].key[3] = "self" => form[stock[i].log[m].key[1]].kind # "TRANSFER"
        /\ stock[i].log[m].key[3] \in {"reverse-out", "reverse-in"} =>
             form[stock[i].log[m].key[1]].kind = "UNDO"
    BY <2>1 DEF Fits, Leg, SingleRowOps
  <2> QED
    BY <1>1, <2>1, <2>2 DEF KeyCommitted
<1>2. ASSUME HInv, NEW k \in Key, transfers[k] # None, NEW n \in DOMAIN form[k].lines
      PROVE  LineWhole(k, n)
  <2>1. /\ LineIn(stock, form[k], k, n, "out", "in")
        /\ transfers[k].revKey # None =>
             LineIn(stock, form[k], transfers[k].revKey, n, "reverse-out", "reverse-in")
    BY <1>2 DEF HInv, Whole
  <2> QED
    BY <2>1 DEF LineIn, Has, Legs, LineWhole
<1>3. HInv => \A k \in Key : form[k].kind = "TRANSFER" =>
                IF transfers[k] = None
                THEN \A i \in Item : \A m \in DOMAIN stock[i].log : stock[i].log[m].key[1] # k
                ELSE \A n \in DOMAIN form[k].lines : LineWhole(k, n)
  BY <1>1, <1>2
<1>4. HInv => TransfersWhole
  BY <1>3, Zenon DEF TransfersWhole, LineWhole
<1> QED
  BY <1>4, HistoriesInductive, PTL
----------------------------------------------------------------------------
(* What a step may never do *)

Retired(row) == row.status = "archived" \/ row.trashed

Proper(row) == row.status = "absent" => ~row.trashed

(* A record that is not there is not in Trash, and a transfer holds no row  *)
(* that is archived or in Trash, in the ledger or in its own view.          *)
QInv ==
  /\ \A i \in Item : Proper(stock[i])
  /\ \A c \in Client : \A i \in DOMAIN held[c] :
       /\ Proper(held[c][i])
       /\ txn[c].pc = "lines" => ~Retired(stock[i]) /\ ~Retired(held[c][i])

LEMMA PostedKeeps ==
  ASSUME NEW row \in Row, NEW type, NEW qty, NEW new, NEW key, NEW rev
  PROVE  /\ Posted(row, type, qty, new, key, rev).status = row.status
         /\ Posted(row, type, qty, new, key, rev).trashed = row.trashed
         /\ Extends(Posted(row, type, qty, new, key, rev).log, row.log)
<1> DEFINE r   == [type |-> type, qty |-> qty, prev |-> row.qty, new |-> new,
                   key |-> key, rev |-> rev]
           out == Posted(row, type, qty, new, key, rev)
<1>1. /\ out.log = Append(row.log, r) /\ out.status = row.status /\ out.trashed = row.trashed
  BY DEF Posted, Row
<1> HIDE DEF r
<1>2. Extends(Append(row.log, r), row.log)
  <2>1. /\ DOMAIN row.log = 1..Len(row.log) /\ Len(row.log) \in Nat
        /\ DOMAIN Append(row.log, r) = 1..(Len(row.log) + 1)
        /\ \A m \in DOMAIN row.log : Append(row.log, r)[m] = row.log[m]
    BY LogOf
  <2>2. 1..Len(row.log) \subseteq 1..(Len(row.log) + 1)
    BY <2>1
  <2> QED
    BY <2>1, <2>2 DEF Extends
<1> QED
  BY <1>1, <1>2

(* A single-row operation writes one row, one that takes activity and that  *)
(* no request holds.                                                        *)
LEMMA OneRowWritten ==
  ASSUME IInv, HInv, QInv, NEW c \in Client, PostSingle(c) \/ ReverseMovement(c)
  PROVE  \E i \in Item : /\ \A d \in Client : i \notin DOMAIN held[d]
                         /\ ~Retired(stock[i])
                         /\ stock'[i].status # "absent" /\ ~Retired(stock'[i])
                         /\ Extends(stock'[i].log, stock[i].log)
                         /\ \A j \in Item \ {i} : stock'[j] = stock[j]
<1> DEFINE k == txn[c].key
           f == form[k]
<1>1. /\ txn[c].pc = "checked" /\ CanLock(c, f) /\ f.kind \in SingleRowOps \cup {"REVERSAL"}
      /\ Allowed(k)
  BY DEF PostSingle, ReverseMovement, Locked
<1>2. k \in Key /\ f.item \in Item /\ stock[f.item] \in Row
  <2>1. k \in Key
    BY <1>1 DEF IInv, Started
  <2>2. f.item \in Item
    BY <2>1, <1>1, FormFields DEF IInv
  <2> QED
    BY <2>1, <2>2 DEF IInv, TypeOK
<1>3. \A d \in Client : f.item \notin DOMAIN held[d]
  <2>1. RowsLocked(f) = {f.item}
    BY <1>1 DEF RowsLocked, SingleRowOps
  <2>2. DOMAIN held[c] = {}
    BY <1>1 DEF HInv, ClientSound
  <2> QED
    BY <2>1, <2>2, <1>1 DEF CanLock, Free
<1>4. ~Retired(stock[f.item]) /\ (f.kind = "REVERSAL" => stock[f.item].status = "active")
  <2>1. TakesActivity(f.item) \/ (stock[f.item].status = "absent" /\ f.kind = "ADDITION")
    <3>1. f.kind = "ADDITION" => AdditionAllowed(f)
      BY <1>1 DEF Allowed
    <3>2. f.kind = "OPENING" => OpeningAllowed(f)
      BY <1>1 DEF Allowed
    <3>3. f.kind = "ADJUSTMENT_IN" => TakesActivity(f.item)
      BY <1>1 DEF Allowed
    <3>4. f.kind \in {"USAGE", "ADJUSTMENT_OUT"} => UsageAllowed(f)
      BY <1>1 DEF Allowed
    <3>5. f.kind = "REVERSAL" => ReversalAllowed(f)
      BY <1>1 DEF Allowed
    <3>6. /\ AdditionAllowed(f) =>
               stock[f.item].status = "absent" \/ TakesActivity(f.item)
          /\ OpeningAllowed(f) => TakesActivity(f.item)
          /\ UsageAllowed(f) => TakesActivity(f.item)
          /\ ReversalAllowed(f) => TakesActivity(f.item)
      BY DEF AdditionAllowed, OpeningAllowed, UsageAllowed, ReversalAllowed
    <3>7. f.kind \in {"ADDITION", "OPENING", "ADJUSTMENT_IN", "USAGE", "ADJUSTMENT_OUT",
                      "REVERSAL"}
      BY <1>1 DEF SingleRowOps
    <3> HIDE DEF f
    <3> QED
      BY <3>1, <3>2, <3>3, <3>4, <3>5, <3>6, <3>7
  <2>3. f.kind = "REVERSAL" => TakesActivity(f.item)
    BY <1>1 DEF Allowed, ReversalAllowed
  <2>2. stock[f.item].status = "absent" => ~stock[f.item].trashed
    BY <1>2 DEF QInv, Proper
  <2> QED
    BY <2>1, <2>2, <2>3 DEF TakesActivity, ActiveRow, Retired
<1>5. \E type, qty, new, key, rev :
        stock' = [stock EXCEPT ![f.item] =
                    IF f.kind = "REVERSAL" THEN Posted(@, type, qty, new, key, rev)
                    ELSE Posted([@ EXCEPT !.status = "active"], type, qty, new, key, rev)]
  <2>1. CASE PostSingle(c)
    <3>1. f.kind # "REVERSAL"
      BY <2>1 DEF PostSingle, SingleRowOps
    <3> QED
      BY <2>1, <3>1 DEF PostSingle
  <2>2. CASE ReverseMovement(c)
    BY <2>2 DEF ReverseMovement
  <2> QED
    BY <2>1, <2>2
<1>6. PICK type, qty, new, key, rev :
        stock' = [stock EXCEPT ![f.item] =
                    IF f.kind = "REVERSAL" THEN Posted(@, type, qty, new, key, rev)
                    ELSE Posted([@ EXCEPT !.status = "active"], type, qty, new, key, rev)]
  BY <1>5
<1> DEFINE row == IF f.kind = "REVERSAL" THEN stock[f.item]
                  ELSE [stock[f.item] EXCEPT !.status = "active"]
<1>7. /\ row \in Row /\ row.log = stock[f.item].log /\ row.status # "absent" /\ ~Retired(row)
  BY <1>2, <1>4, MarkedRow DEF Retired, Row
<1>8. stock'[f.item] = Posted(row, type, qty, new, key, rev)
  BY <1>2, <1>6 DEF IInv, TypeOK
<1>9. \A j \in Item \ {f.item} : stock'[j] = stock[j]
  BY <1>6 DEF IInv, TypeOK
<1> HIDE DEF row, f
<1> QED
  BY <1>2, <1>3, <1>4, <1>7, <1>8, <1>9, PostedKeeps DEF Retired
LEMMA InitQInv == Init => QInv
BY DEF Init, QInv, Proper, Absent, NoRows

(* Steps that leave the rows of every transfer that goes on alone. *)
LEMMA QuietKept ==
  ASSUME QInv, \A i \in Item : stock'[i] = stock[i] \/ Proper(stock'[i]),
         \A d \in Client : \/ DOMAIN held'[d] = {}
                           \/ /\ held'[d] = held[d]
                              /\ txn'[d].pc = "lines" => txn[d].pc = "lines"
                              /\ \A i \in DOMAIN held[d] : stock'[i] = stock[i]
  PROVE  QInv'
<1>1. \A i \in Item : Proper(stock'[i])
  BY DEF QInv
<1>2. ASSUME NEW d \in Client, NEW i \in DOMAIN held'[d]
      PROVE  /\ Proper(held'[d][i])
             /\ txn'[d].pc = "lines" => ~Retired(stock'[i]) /\ ~Retired(held'[d][i])
  BY DEF QInv
<1> QED
  BY <1>1, <1>2 DEF QInv, Proper, Retired

(* Steps of a request that write its own rows only. *)
LEMMA QuietHeld ==
  ASSUME QInv, stock' = stock, NEW c \in Client,
         \A d \in Client \ {c} : held'[d] = held[d] /\ txn'[d] = txn[d],
         \A i \in DOMAIN held'[c] :
           /\ Proper(held'[c][i])
           /\ txn'[c].pc = "lines" => ~Retired(stock[i]) /\ ~Retired(held'[c][i])
  PROVE  QInv'
<1>1. ASSUME NEW d \in Client, NEW i \in DOMAIN held'[d]
      PROVE  /\ Proper(held'[d][i])
             /\ txn'[d].pc = "lines" => ~Retired(stock'[i]) /\ ~Retired(held'[d][i])
  <2>1. CASE d = c
    BY <2>1
  <2>2. CASE d # c
    BY <2>2 DEF QInv
  <2> QED
    BY <2>1, <2>2
<1> QED
  BY <1>1 DEF QInv, Proper, Retired

(* What a commit writes: the rows of its request, each one grown. *)
LEMMA RowsWritten ==
  ASSUME IInv, HInv, NEW c \in Client, Publish(c)
  PROVE  /\ \A i \in DOMAIN held[c] : /\ i \in Item /\ stock'[i] = held[c][i]
                                      /\ Extends(held[c][i].log, stock[i].log)
         /\ \A i \in Item \ DOMAIN held[c] : stock'[i] = stock[i]
<1>1. stock' = [i \in Item |-> Seen(c, i)] /\ DOMAIN held[c] \subseteq Item
  BY DEF Publish, IInv, TypeOK
<1>2. \A i \in DOMAIN held[c] : Extends(held[c][i].log, stock[i].log)
  BY DEF HInv, ClientSound, HeldSound
<1> QED
  BY <1>1, <1>2 DEF Seen

LEMMA PublishQuiet ==
  ASSUME IInv, HInv, QInv, NEW c \in Client, Publish(c)
  PROVE  QInv'
<1>1. /\ \A i \in DOMAIN held[c] : i \in Item /\ stock'[i] = held[c][i]
      /\ \A i \in Item \ DOMAIN held[c] : stock'[i] = stock[i]
  BY RowsWritten
<1>2. \A i \in Item : stock'[i] = stock[i] \/ Proper(stock'[i])
  BY <1>1 DEF QInv
<1>3. DOMAIN held'[c] = {} /\ \A d \in Client \ {c} : held'[d] = held[d] /\ txn'[d] = txn[d]
  BY DEF Publish, Finish, NoRows, IInv, TypeOK
<1>4. \A d \in Client \ {c} : \A i \in DOMAIN held[d] : stock'[i] = stock[i]
  BY <1>1 DEF HInv, LocksExclusive, IInv, TypeOK
<1> QED
  BY <1>2, <1>3, <1>4, QuietKept
(* The rows that a line of a running transfer is about. *)
LEMMA MoveLineHolds ==
  ASSUME IInv, NEW c \in Client, MoveLine(c)
  PROVE  /\ form[txn[c].key].lines[txn[c].n].item \in DOMAIN held[c]
         /\ Arrives(form[txn[c].key], txn[c].n) =>
              Destination(form[txn[c].key], txn[c].n) \in Item
<1> DEFINE f == form[txn[c].key]
           n == txn[c].n
<1>1. /\ txn[c].key \in Key /\ f.kind = "TRANSFER" /\ n > 0 /\ n \in Nat /\ n <= Len(f.lines)
      /\ SourceRows(f) \subseteq DOMAIN held[c]
  BY DEF MoveLine, AtLine, IInv, Started, TypeOK, Request
<1>2. n \in DOMAIN f.lines
  <2>1. f.lines \in Seq(TransferLine)
    BY <1>1, FormFields DEF IInv
  <2>2. DOMAIN f.lines = 1..Len(f.lines) /\ Len(f.lines) \in Nat
    BY <2>1
  <2> HIDE DEF n, f
  <2> QED
    BY <1>1, <2>2
<1>3. f.lines[n].item \in SourceRows(f)
  BY <1>2 DEF SourceRows
<1>4. Arrives(f, n) => Destination(f, n) \in Item
  BY <1>1, <1>2, LineFields DEF IInv
<1> QED
  BY <1>1, <1>3, <1>4

(* transfer_stock locks source rows that are active and not in Trash; a     *)
(* destination row it locks later is looked at before it is written.        *)
LEMMA TransferQuiet ==
  ASSUME IInv, HInv, QInv, NEW c \in Client, BeginTransfer(c) \/ MoveLine(c)
  PROVE  QInv'
<1>1. CASE BeginTransfer(c)
  <2> DEFINE k == txn[c].key
             rows == [i \in SourceRows(form[k]) |-> stock[i]]
  <2>1. /\ txn[c].pc = "checked" /\ form[k].kind = "TRANSFER" /\ k \in Key
        /\ \A i \in SourceRows(form[k]) : ActiveRow(stock[i])
        /\ held' = [held EXCEPT ![c] = rows]
        /\ txn' = [txn EXCEPT ![c].pc = "lines", ![c].n = 1] /\ stock' = stock
    BY <1>1 DEF BeginTransfer, Locked, Allowed, TransferAllowed, IInv, Started
  <2>2. held'[c] = rows /\ \A d \in Client \ {c} : held'[d] = held[d] /\ txn'[d] = txn[d]
    BY <2>1 DEF IInv, TypeOK
  <2>3. SourceRows(form[k]) \subseteq Item
    BY <2>1, TransferRows DEF IInv
  <2>4. \A i \in DOMAIN rows : /\ rows[i] = stock[i] /\ Proper(stock[i])
                               /\ ~Retired(stock[i])
    BY <2>1, <2>3 DEF QInv, Retired, ActiveRow
  <2> HIDE DEF rows
  <2> QED
    BY <2>1, <2>2, <2>4, QuietHeld, ZenonT(40)
<1>2. CASE MoveLine(c)
  <2> DEFINE k    == txn[c].key
             f    == form[k]
             n    == txn[c].n
             line == f.lines[n]
             src  == held[c][line.item]
             dest == Destination(f, n)
             seen == [Seen(c, dest) EXCEPT !.status = "active"]
             out  == Posted(src, IF Arrives(f, n) THEN "TRANSFER_OUT" ELSE "LOSS",
                            line.qty, src.qty - line.qty, <<k, n, "out">>, 0)
             inn  == Posted(seen, "TRANSFER_IN", line.qty, Seen(c, dest).qty + line.qty,
                            <<k, n, "in">>, 0)
             rows == [i \in DOMAIN held[c] \cup (IF Arrives(f, n) THEN {dest} ELSE {}) |->
                        IF i = line.item THEN out
                        ELSE IF Arrives(f, n) /\ i = dest THEN inn ELSE held[c][i]]
  <2>1. /\ txn[c].pc = "lines"
        /\ Arrives(f, n) => ~ArrivalRefused(c, dest)
        /\ held' = [held EXCEPT ![c] = rows] /\ txn' = [txn EXCEPT ![c].n = n + 1]
        /\ stock' = stock
    BY <1>2 DEF MoveLine, AtLine, LineAllowed
  <2>2. held'[c] = rows /\ \A d \in Client \ {c} : held'[d] = held[d] /\ txn'[d] = txn[d]
    BY <2>1 DEF IInv, TypeOK
  <2>3. PICK item \in DOMAIN held[c] : item = line.item
    BY <1>2, MoveLineHolds
  <2>4. /\ src \in Row /\ ~Retired(src) /\ Proper(src) /\ ~Retired(stock[line.item])
    BY <2>1, <2>3 DEF IInv, TypeOK, QInv
  <2>5. ~Retired(out) /\ Proper(out)
    <3> HIDE DEF src, line, n, f, k
    <3> QED
      BY <2>4, PostedKeeps DEF Retired, Proper
  <2>6. Arrives(f, n) => ~Retired(inn) /\ Proper(inn) /\ ~Retired(stock[dest])
    <3>1. Arrives(f, n) => dest \in Item /\ Seen(c, dest) \in Row
      BY <1>2, MoveLineHolds, SeenRow
    <3>2. Arrives(f, n) => /\ seen \in Row /\ seen.status = "active" /\ ~seen.trashed
      BY <3>1, <2>1, MarkedRow DEF ArrivalRefused, Row
    <3>3. Arrives(f, n) => ~Retired(stock[dest])
      BY <3>1, <2>1 DEF ArrivalRefused, Seen, Retired, QInv
    <3> HIDE DEF seen, dest, line, n, f, k
    <3> QED
      BY <3>2, <3>3, PostedKeeps DEF Retired, Proper
  <2>7. \A i \in DOMAIN held[c] : ~Retired(held[c][i]) /\ Proper(held[c][i]) /\ ~Retired(stock[i])
    BY <2>1 DEF QInv
  <2>8. \A i \in DOMAIN rows : ~Retired(rows[i]) /\ Proper(rows[i]) /\ ~Retired(stock[i])
    <3> HIDE DEF out, inn, src, seen, dest, n, f, k
    <3> QED
      BY <2>4, <2>5, <2>6, <2>7
  <2> HIDE DEF rows
  <2> QED
    BY <2>1, <2>2, <2>8, QuietHeld
<1> QED
  BY <1>1, <1>2
(* A reversal marks no row; whatever it holds stays as proper as it was.    *)
LEMMA UndoQuiet ==
  ASSUME IInv, HInv, QInv, NEW c \in Client, BeginUndo(c) \/ UndoLine(c)
  PROVE  QInv'
<1>1. CASE BeginUndo(c)
  <2> DEFINE rows == [i \in RowsLocked(form[txn[c].key]) |-> stock[i]]
  <2>1. /\ form[txn[c].key].kind = "UNDO" /\ txn[c].key \in Key
        /\ form[form[txn[c].key].of].kind = "TRANSFER"
        /\ held' = [held EXCEPT ![c] = rows] /\ stock' = stock
        /\ txn'[c].pc = "undo" /\ \A d \in Client \ {c} : txn'[d] = txn[d]
    <3>1. /\ form[txn[c].key].kind = "UNDO" /\ txn[c].key \in Key
          /\ transfers[form[txn[c].key].of] # None
          /\ held' = [held EXCEPT ![c] = rows] /\ stock' = stock
          /\ txn'[c].pc = "undo" /\ \A d \in Client \ {c} : txn'[d] = txn[d]
      BY <1>1 DEF BeginUndo, Locked, Allowed, UndoAllowed, IInv, Started, TypeOK, Request
    <3>2. form[txn[c].key].of \in Key
      BY <3>1, FormFields DEF IInv
    <3> QED
      BY <3>1, <3>2 DEF IInv, TransfersAsked
  <2>2. held'[c] = rows /\ \A d \in Client \ {c} : held'[d] = held[d]
    BY <2>1 DEF IInv, TypeOK
  <2>3. RowsLocked(form[txn[c].key]) \subseteq Item
    <3>1. form[txn[c].key].of \in Key
      BY <2>1, FormFields DEF IInv
    <3> QED
      BY <3>1, <2>1, TransferRows DEF RowsLocked, IInv
  <2>4. \A i \in DOMAIN rows : Proper(rows[i])
    BY <2>3 DEF QInv
  <2> HIDE DEF rows
  <2> QED
    BY <2>1, <2>2, <2>4, QuietHeld
<1>2. CASE UndoLine(c)
  <2>1. \A row \in Row : \A original, shift, qty, key :
          Proper(row) => Proper(LegUndone(row, original, shift, qty, key))
    BY PostedKeeps DEF LegUndone, Proper
  <2> DEFINE k    == txn[c].key
             of   == form[k].of
             f    == UndoAt(c)
             n    == txn[c].n
             line == f.lines[n]
             Out(i) == LegUndone(held[c][i], <<of, n, "out">>, line.qty, line.qty,
                                 <<k, n, "reverse-out">>)
             In(i)  == LegUndone(held[c][i], <<of, n, "in">>, -line.qty, line.qty,
                                 <<k, n, "reverse-in">>)
             rows == [i \in DOMAIN held[c] |->
                        IF i = line.item THEN Out(i)
                        ELSE IF Arrives(f, n) /\ i = Destination(f, n) THEN In(i)
                        ELSE held[c][i]]
  <2>2. /\ held' = [held EXCEPT ![c] = rows] /\ stock' = stock
        /\ txn[c].pc = "undo" /\ txn' = [txn EXCEPT ![c].n = n - 1]
    BY <1>2 DEF UndoLine, AtUndo
  <2>3. /\ held'[c] = rows /\ \A d \in Client \ {c} : held'[d] = held[d] /\ txn'[d] = txn[d]
        /\ txn'[c].pc = "undo"
    BY <2>2 DEF IInv, TypeOK, Request
  <2>4. \A i \in DOMAIN held[c] : held[c][i] \in Row /\ Proper(held[c][i])
    BY DEF IInv, TypeOK, QInv
  <2>5. \A i \in DOMAIN held[c] : Proper(Out(i)) /\ Proper(In(i))
    BY <2>1, <2>4
  <2>6. \A i \in DOMAIN rows : Proper(rows[i])
    <3> HIDE DEF Out, In, line, f, n, k, of
    <3> QED
      BY <2>4, <2>5
  <2> HIDE DEF rows
  <2> QED
    BY <2>2, <2>3, <2>6, QuietHeld
<1> QED
  BY <1>1, <1>2

(* Archive, Trash and their restores write one row that no request holds.   *)
LEMMA RowMarked ==
  ASSUME IInv, QInv, Lifecycle
  PROVE  /\ UNCHANGED <<txn, held>>
         /\ \A i \in Item : /\ stock'[i].log = stock[i].log /\ Proper(stock'[i])
                            /\ stock'[i] = stock[i] \/ Unlocked(i)
<1>1. ASSUME NEW i \in Item, ArchiveItem(i) \/ RestoreItem(i) \/ TrashItem(i) \/ UntrashItem(i)
      PROVE  /\ UNCHANGED <<txn, held>>
             /\ \A j \in Item : /\ stock'[j].log = stock[j].log /\ Proper(stock'[j])
                                /\ stock'[j] = stock[j] \/ Unlocked(j)
  <2>1. stock \in [Item -> Row] /\ \A j \in Item : Proper(stock[j])
    BY DEF IInv, TypeOK, QInv
  <2>2. CASE ArchiveItem(i)
    BY <2>1, <2>2 DEF ArchiveItem, Row, Proper
  <2>3. CASE RestoreItem(i)
    BY <2>1, <2>3 DEF RestoreItem, Row, Proper
  <2>4. CASE TrashItem(i)
    BY <2>1, <2>4 DEF TrashItem, Row, Proper
  <2>5. CASE UntrashItem(i)
    BY <2>1, <2>5 DEF UntrashItem, Row, Proper
  <2> QED
    BY <1>1, <2>2, <2>3, <2>4, <2>5
<1>2. ASSUME NEW l \in Location,
             CheckCompletion(l) \/ CompleteProject(l)
               \/ \E s \in {"active", "on_hold"} : SetProjectStatus(l, s)
      PROVE  UNCHANGED <<stock, txn, held>>
  BY <1>2 DEF CheckCompletion, CompleteProject, SetProjectStatus
<1> QED
  BY <1>1, <1>2 DEF Lifecycle, QInv

(* What a step does to the history of a row: nothing, or it adds to it, and *)
(* only reverse_transfer adds to one that is archived or in Trash.          *)
WritesSoundly ==
  \A i \in Item :
    /\ Extends(stock'[i].log, stock[i].log)
    /\ (\A c \in Client : ~CommitUndo(c)) /\ Retired(stock[i]) => stock'[i].log = stock[i].log

LEMMA NextWrites == IInv /\ HInv /\ QInv /\ [Next]_vars => QInv' /\ WritesSoundly
<1> SUFFICES ASSUME IInv, HInv, QInv, [Next]_vars PROVE QInv' /\ WritesSoundly
  OBVIOUS
<1>1. ASSUME stock' = stock PROVE WritesSoundly
  BY <1>1, ExtendsItself DEF WritesSoundly
<1>2. ASSUME UNCHANGED <<stock, held>>,
             \A d \in Client : txn'[d].pc = "lines" => txn[d].pc = "lines"
      PROVE  QInv' /\ WritesSoundly
  BY <1>1, <1>2, QuietKept
<1>3. ASSUME NEW c \in Client, (\E k \in Key : Submit(c, k)) \/ Refuse(c)
      PROVE  QInv' /\ WritesSoundly
  <2>1. /\ UNCHANGED <<stock, held>> /\ txn'[c].pc \in {"idle", "checked"}
        /\ \A d \in Client \ {c} : txn'[d] = txn[d]
    BY <1>3 DEF Submit, Refuse, Finish, Idle, IInv, TypeOK
  <2> QED
    BY <2>1, <1>2
<1>4. ASSUME NEW c \in Client, PostSingle(c) \/ ReverseMovement(c)
      PROVE  QInv' /\ WritesSoundly
  <2>1. PICK i \in Item : /\ \A d \in Client : i \notin DOMAIN held[d]
                          /\ ~Retired(stock[i])
                          /\ stock'[i].status # "absent" /\ ~Retired(stock'[i])
                          /\ Extends(stock'[i].log, stock[i].log)
                          /\ \A j \in Item \ {i} : stock'[j] = stock[j]
    BY <1>4, OneRowWritten
  <2>2. /\ held' = held /\ txn'[c].pc = "idle" /\ \A d \in Client \ {c} : txn'[d] = txn[d]
        /\ \A d \in Client : DOMAIN held[d] \subseteq Item
    <3>1. held' = held /\ Finish(c)
      BY <1>4 DEF PostSingle, ReverseMovement
    <3> QED
      BY <3>1 DEF Finish, Idle, IInv, TypeOK
  <2>3. \A j \in Item : stock'[j] = stock[j] \/ Proper(stock'[j])
    BY <2>1 DEF Proper
  <2>4. QInv'
    BY <2>1, <2>2, <2>3, QuietKept
  <2>5. WritesSoundly
    BY <2>1, ExtendsItself DEF WritesSoundly
  <2> QED
    BY <2>4, <2>5
<1>5. ASSUME NEW c \in Client, BeginTransfer(c) \/ MoveLine(c)
      PROVE  QInv' /\ WritesSoundly
  BY <1>1, <1>5, TransferQuiet DEF BeginTransfer, MoveLine
<1>6. ASSUME NEW c \in Client, BeginUndo(c) \/ UndoLine(c)
      PROVE  QInv' /\ WritesSoundly
  BY <1>1, <1>6, UndoQuiet DEF BeginUndo, UndoLine
<1>7. ASSUME NEW c \in Client, RollBack(c)
      PROVE  QInv' /\ WritesSoundly
  <2>1. /\ stock' = stock /\ DOMAIN held'[c] = {}
        /\ \A d \in Client \ {c} : held'[d] = held[d] /\ txn'[d] = txn[d]
    BY <1>7 DEF RollBack, Finish, NoRows, IInv, TypeOK
  <2> QED
    BY <2>1, <1>1, QuietKept
<1>8. ASSUME NEW c \in Client, CommitTransfer(c) \/ CommitUndo(c)
      PROVE  QInv' /\ WritesSoundly
  <2>1. Publish(c) /\ (CommitTransfer(c) => txn[c].pc = "lines")
    BY <1>8 DEF CommitTransfer, CommitUndo
  <2>2. /\ \A i \in DOMAIN held[c] : /\ i \in Item /\ stock'[i] = held[c][i]
                                     /\ Extends(held[c][i].log, stock[i].log)
        /\ \A i \in Item \ DOMAIN held[c] : stock'[i] = stock[i]
    BY <2>1, RowsWritten
  <2>3. \A i \in Item : Extends(stock'[i].log, stock[i].log)
    BY <2>2, ExtendsItself
  <2>4. ASSUME NEW i \in Item, \A d \in Client : ~CommitUndo(d), Retired(stock[i])
        PROVE  stock'[i].log = stock[i].log
    <3>1. txn[c].pc = "lines"
      BY <1>8, <2>1, <2>4
    <3>2. i \notin DOMAIN held[c]
      BY <3>1, <2>4 DEF QInv
    <3> QED
      BY <3>2, <2>2
  <2>5. WritesSoundly
    BY <2>3, <2>4 DEF WritesSoundly
  <2> QED
    BY <2>1, <2>5, PublishQuiet
<1>9. ASSUME Lifecycle PROVE QInv' /\ WritesSoundly
  <2>1. /\ UNCHANGED <<txn, held>>
        /\ \A i \in Item : /\ stock'[i].log = stock[i].log /\ Proper(stock'[i])
                           /\ stock'[i] = stock[i] \/ Unlocked(i)
    BY <1>9, RowMarked
  <2>2. \A d \in Client : \A i \in DOMAIN held[d] : stock'[i] = stock[i]
    BY <2>1 DEF Unlocked, IInv, TypeOK
  <2>3. WritesSoundly
    BY <2>1, ExtendsItself DEF WritesSoundly
  <2> QED
    BY <2>1, <2>2, <2>3, QuietKept
<1>10. CASE UNCHANGED vars
  BY <1>10, <1>2 DEF vars
<1>11. ASSUME NEW c \in Client, Step(c) PROVE QInv' /\ WritesSoundly
  BY <1>3, <1>4, <1>5, <1>6, <1>7, <1>8, <1>11 DEF Step, RefuseLine, RefuseUndoLine
<1>12. ASSUME NEW c \in Client, Abort(c) PROVE QInv' /\ WritesSoundly
  BY <1>12, <1>7 DEF Abort
<1> QED
  BY <1>3, <1>9, <1>10, <1>11, <1>12 DEF Next

LEMMA StepsWriteSoundly == Spec => [](IInv /\ HInv /\ QInv) /\ [][WritesSoundly]_vars
<1>1. Init => IInv /\ HInv /\ QInv
  BY InitIInv, InitHInv, InitQInv
<1>2. (IInv /\ HInv /\ QInv) /\ [Next]_vars => (IInv /\ HInv /\ QInv)'
  BY NextKeepsIInv, NextKeepsHInv, NextWrites
<1>3. (IInv /\ HInv /\ QInv) /\ [Next]_vars => [WritesSoundly]_vars
  BY NextWrites
<1> QED
  BY <1>1, <1>2, <1>3, PTL DEF Spec

(* Stock history is immutable: every step of every request leaves each      *)
(* history as it was or adds to its end (StockMovement.save and delete).    *)
THEOREM HistoryOnlyGrows == Spec => HistoryAppendOnly
<1> DEFINE Grows == \A i \in Item : LET old == stock[i].log  new == stock'[i].log IN
                      /\ Len(old) <= Len(new)
                      /\ SubSeq(new, 1, Len(old)) = old
<1>1. ASSUME NEW old \in Seq(Movement), NEW new \in Seq(Movement), Extends(new, old)
      PROVE  Len(old) <= Len(new) /\ SubSeq(new, 1, Len(old)) = old
  <2>1. /\ Len(old) \in Nat /\ Len(new) \in Nat
        /\ DOMAIN old = 1..Len(old) /\ DOMAIN new = 1..Len(new)
    OBVIOUS
  <2>2. Len(old) <= Len(new) /\ \A m \in 1..Len(old) : new[m] = old[m]
    BY <1>1, <2>1 DEF Extends
  <2> QED
    BY <2>1, <2>2
<1>2. IInv /\ IInv' /\ WritesSoundly => Grows
  <2> SUFFICES ASSUME IInv, IInv', WritesSoundly, NEW i \in Item
               PROVE  /\ Len(stock[i].log) <= Len(stock'[i].log)
                      /\ SubSeq(stock'[i].log, 1, Len(stock[i].log)) = stock[i].log
    OBVIOUS
  <2>1. stock[i].log \in Seq(Movement) /\ stock'[i].log \in Seq(Movement)
    BY DEF IInv, TypeOK, Row
  <2>2. Extends(stock'[i].log, stock[i].log)
    BY DEF WritesSoundly
  <2> QED
    BY <2>1, <2>2, <1>1
<1>3. IInv /\ IInv' /\ [WritesSoundly]_vars => [Grows]_vars
  BY <1>2
<1>4. Spec => [][Grows]_vars
  BY <1>3, StepsWriteSoundly, PTL
<1> QED
  BY <1>4 DEF HistoryAppendOnly

(* A stock record that is archived or in Trash receives no movement from    *)
(* any operation but reverse_transfer, which does not look: not even from a *)
(* request that began while the record was active.                          *)
THEOREM OnlyReversalsDisturb ==
  Spec => [][(\A c \in Client : ~CommitUndo(c)) =>
               \A i \in Item : Retired(stock[i]) => stock'[i].log = stock[i].log]_vars
<1>1. [WritesSoundly]_vars =>
        [(\A c \in Client : ~CommitUndo(c)) =>
           \A i \in Item : Retired(stock[i]) => stock'[i].log = stock[i].log]_vars
  BY DEF WritesSoundly
<1> QED
  BY <1>1, StepsWriteSoundly, PTL

(* Where no form asks for the reversal of a transfer, the records that are  *)
(* archived or in Trash stay quiet (_require_active_stock_item,             *)
(* _destination_item).                                                      *)
THEOREM RetiredRowsStayQuiet ==
  ASSUME \A f \in Forms : f.kind # "UNDO"
  PROVE  Spec => RetiredRowsQuiet
<1> DEFINE Quiet == \A i \in Item : stock[i].status = "archived" \/ stock[i].trashed
                                      => stock'[i].log = stock[i].log
<1>1. IInv /\ WritesSoundly => Quiet
  <2> SUFFICES ASSUME IInv, WritesSoundly PROVE Quiet
    OBVIOUS
  <2>1. ASSUME NEW c \in Client PROVE ~CommitUndo(c)
    BY DEF CommitUndo, IInv, Started, TypeOK
  <2> QED
    BY <2>1 DEF WritesSoundly, Retired
<1>2. IInv /\ [WritesSoundly]_vars => [Quiet]_vars
  BY <1>1
<1>3. Spec => [][Quiet]_vars
  BY <1>2, StepsWriteSoundly, PTL
<1> QED
  BY <1>3 DEF RetiredRowsQuiet

(***************************************************************************)
(* StockLedger implements StockAccount: whatever the interleaving,         *)
(* balances change only by carrying out or undoing one whole form once.    *)
(***************************************************************************)

(* What the first lines of a transfer, up to last, do to the balance of i.  *)
Moved(f, last, i) == SumFunctionOnSet(Net(f, i), 1..last)

(* What a transfer has moved so far is what its own view of the rows shows. *)
LinesBalance(c) ==
  LET f == form[txn[c].key] IN
  txn[c].pc = "lines" =>
    /\ txn[c].n <= Len(f.lines) + 1
    /\ \A i \in Item : Seen(c, i).qty = stock[i].qty + Moved(f, txn[c].n - 1, i)

UndoBalance(c) ==
  LET f == UndoAt(c) IN
  txn[c].pc = "undo" =>
    \A i \in Item : Seen(c, i).qty + Moved(f, Len(f.lines), i) = stock[i].qty + Moved(f, txn[c].n, i)

(* The inductive invariant of the balances, on top of IInv and HInv. *)
PInv == \A c \in Client : LinesBalance(c) /\ UndoBalance(c)

----------------------------------------------------------------------------
(* Lines *)

(* The sum over the lines grows by one line at a time, to the whole.        *)
LEMMA MovedGrows ==
  ASSUME TypeOK, NEW k \in Key, form[k].kind = "TRANSFER", NEW i
  PROVE  /\ Len(form[k].lines) \in Nat /\ DOMAIN form[k].lines = 1..Len(form[k].lines)
         /\ \A n \in DOMAIN form[k].lines : NetOf(form[k], n, i) \in Int
         /\ \A last \in 0..Len(form[k].lines) : Moved(form[k], last, i) \in Int
         /\ Moved(form[k], 0, i) = 0
         /\ \A n \in DOMAIN form[k].lines :
              Moved(form[k], n, i) = Moved(form[k], n - 1, i) + NetOf(form[k], n, i)
         /\ Amount(form[k], i) = Moved(form[k], Len(form[k].lines), i)
         /\ Amount(form[k], i) \in Int
<1> DEFINE f   == form[k]
           len == Len(f.lines)
           net == Net(f, i)
<1>1. len \in Nat /\ DOMAIN f.lines = 1..len
  <2>1. f.lines \in Seq(TransferLine)
    BY FormFields
  <2> QED
    BY <2>1
<1>2. \A n \in 1..len : NetOf(f, n, i) \in Int /\ net[n] = NetOf(f, n, i)
  <2>1. \A n \in 1..len : f.lines[n].qty \in Nat
    BY <1>1, LineFields DEF Quantity
  <2>2. \A n \in 1..len : NetOf(f, n, i) \in Int
    <3> HIDE DEF f, len
    <3> QED
      BY <2>1 DEF NetOf
  <2> QED
    BY <1>1, <2>2 DEF Net
<1> HIDE DEF f, len, net
<1>3. ASSUME NEW last \in 0..len
      PROVE  /\ IsFiniteSet(1..last) /\ 1..last \subseteq 1..len
             /\ SumFunctionOnSet(net, 1..last) \in Int
             /\ last # 0 => SumFunctionOnSet(net, 1..last)
                              = net[last] + SumFunctionOnSet(net, 1..(last - 1))
  <2>1. last \in Nat /\ 0 \in Int /\ 1..last \subseteq 1..len
    BY <1>1
  <2>2. IsFiniteSet(1..last)
    BY <2>1, FS_Interval
  <2>3. \A n \in 1..last : net[n] \in Int
    BY <1>2, <2>1
  <2>4. SumFunctionOnSet(net, 1..last) \in Int
    BY <2>2, <2>3, SumType
  <2>5. ASSUME last # 0
        PROVE  SumFunctionOnSet(net, 1..last) = net[last] + SumFunctionOnSet(net, 1..(last - 1))
    <3>1. last \in 1..last /\ (1..last) \ {last} = 1..(last - 1)
      BY <2>1, <2>5
    <3>2. SumFunctionOnSet(net, 1..last) = net[last] + SumFunctionOnSet(net, (1..last) \ {last})
      BY <2>2, <2>3, <3>1, SumStep
    <3> QED
      BY <3>1, <3>2
  <2> QED
    BY <2>1, <2>2, <2>4, <2>5
<1>4. /\ \A last \in 0..len : Moved(f, last, i) \in Int
      /\ \A last \in 1..len : Moved(f, last, i) = Moved(f, last - 1, i) + NetOf(f, last, i)
  <2>1. \A last \in 0..len : Moved(f, last, i) \in Int
    BY <1>3 DEF Moved, net
  <2>2. ASSUME NEW last \in 1..len
        PROVE  Moved(f, last, i) = Moved(f, last - 1, i) + NetOf(f, last, i)
    <3>1. last \in 0..len /\ last - 1 \in 0..len /\ last # 0
      BY <1>1
    <3>2. Moved(f, last, i) = net[last] + Moved(f, last - 1, i)
      BY <3>1, <1>3 DEF Moved, net
    <3> QED
      BY <3>1, <3>2, <2>1, <1>2
  <2> QED
    BY <2>1, <2>2
<1>5. Moved(f, 0, i) = 0
  <2>1. 1..0 = {}
    OBVIOUS
  <2> QED
    BY <2>1, SumEmpty DEF Moved
<1>6. Amount(f, i) = Moved(f, len, i)
  <2>1. f.kind = "TRANSFER" /\ f.kind \notin SingleRowOps
    BY DEF f, SingleRowOps
  <2>2. Amount(f, i) = SumFunctionOnSet(Net(f, i), DOMAIN f.lines)
    BY <2>1 DEF Amount
  <2> QED
    BY <2>2, <1>1, Zenon DEF Moved
<1>7. len \in 0..len
  BY <1>1
<1> QED
  BY <1>1, <1>2, <1>4, <1>5, <1>6, <1>7 DEF f, len

LEMMA AmountType ==
  ASSUME TypeOK, NEW k \in Key, form[k].kind \notin {"REVERSAL", "UNDO"}, NEW i
  PROVE  Amount(form[k], i) \in Int
<1>1. CASE form[k].kind = "TRANSFER"
  BY <1>1, MovedGrows
<1>2. CASE form[k].kind \in SingleRowOps
  <2>1. form[k].qty \in Nat /\ form[k].kind # "TRANSFER"
    BY <1>2, FormFields DEF Quantity, SingleRowOps
  <2> QED
    BY <1>2, <2>1 DEF Amount
<1> QED
  BY <1>1, <1>2, FormFields
----------------------------------------------------------------------------
(* Balances *)

(* What a request that writes knows of the transfer it writes. *)
LEMMA WriterForm ==
  ASSUME IInv, NEW c \in Client
  PROVE  /\ txn[c].pc = "lines" =>
              /\ txn[c].key \in Key /\ form[txn[c].key].kind = "TRANSFER"
              /\ txn[c].n \in Nat /\ txn[c].n > 0
         /\ txn[c].pc = "undo" =>
              /\ txn[c].key \in Key /\ form[txn[c].key].kind = "UNDO"
              /\ form[txn[c].key].of \in Key /\ form[form[txn[c].key].of].kind = "TRANSFER"
              /\ txn[c].n \in Nat /\ txn[c].n <= Len(form[form[txn[c].key].of].lines)
<1>1. Started(c) /\ txn[c].n \in Nat
  BY DEF IInv, TypeOK, Request
<1>2. txn[c].pc = "lines" => txn[c].key \in Key /\ form[txn[c].key].kind = "TRANSFER" /\ txn[c].n > 0
  BY <1>1 DEF Started
<1>3. txn[c].pc = "undo" => /\ txn[c].key \in Key /\ form[txn[c].key].kind = "UNDO"
                            /\ form[form[txn[c].key].of].kind = "TRANSFER"
                            /\ txn[c].n <= Len(form[form[txn[c].key].of].lines)
  BY <1>1 DEF Started, UndoAt
<1>4. txn[c].pc = "undo" => form[txn[c].key].of \in Key
  BY <1>3, FormFields DEF IInv
<1> QED
  BY <1>1, <1>2, <1>3, <1>4

(* A request that holds no row that changes keeps its account. *)
LEMMA BalanceStill ==
  ASSUME IInv, IInv', NEW d \in Client, LinesBalance(d) /\ UndoBalance(d),
         txn'[d] = txn[d], held'[d] = held[d], form' = form,
         \A i \in DOMAIN held[d] : stock'[i] = stock[i]
  PROVE  (LinesBalance(d) /\ UndoBalance(d))'
<1>1. \A i \in Item : /\ stock[i].qty \in Nat /\ stock'[i].qty \in Nat
                      /\ i \in DOMAIN held[d] => Seen(d, i)' = Seen(d, i) /\ stock'[i] = stock[i]
                      /\ i \notin DOMAIN held[d] => Seen(d, i)' = stock'[i] /\ Seen(d, i) = stock[i]
  BY DEF IInv, TypeOK, Row, Seen
<1>2. LinesBalance(d)'
  <2> SUFFICES ASSUME txn[d].pc = "lines"
               PROVE  /\ txn[d].n <= Len(form[txn[d].key].lines) + 1
                      /\ \A i \in Item : Seen(d, i)'.qty
                           = stock'[i].qty + Moved(form[txn[d].key], txn[d].n - 1, i)
    BY DEF LinesBalance
  <2> DEFINE f == form[txn[d].key]
             n == txn[d].n
  <2>1. txn[d].key \in Key /\ f.kind = "TRANSFER" /\ n \in Nat /\ n > 0
    BY WriterForm
  <2>2. /\ n <= Len(f.lines) + 1
        /\ \A i \in Item : Seen(d, i).qty = stock[i].qty + Moved(f, n - 1, i)
    BY DEF LinesBalance
  <2>3. \A i \in Item : Moved(f, n - 1, i) \in Int
    <3>1. Len(f.lines) \in Nat
      BY <2>1, MovedGrows DEF IInv
    <3>2. n - 1 \in 0..Len(f.lines)
      <4> HIDE DEF n, f
      <4> QED
        BY <2>1, <2>2, <3>1
    <3> QED
      BY <2>1, <3>2, MovedGrows DEF IInv
  <2> HIDE DEF f, n
  <2>4. \A i \in Item : Seen(d, i)'.qty = stock'[i].qty + Moved(f, n - 1, i)
    BY <1>1, <2>2, <2>3
  <2> QED
    BY <2>2, <2>4 DEF f, n
<1>3. UndoBalance(d)'
  <2> SUFFICES ASSUME txn[d].pc = "undo"
               PROVE  \A i \in Item :
                        Seen(d, i)'.qty + Moved(UndoAt(d), Len(UndoAt(d).lines), i)
                          = stock'[i].qty + Moved(UndoAt(d), txn[d].n, i)
    BY DEF UndoBalance, UndoAt
  <2> DEFINE f == form[form[txn[d].key].of]
             n == txn[d].n
  <2>1. form[txn[d].key].of \in Key /\ f.kind = "TRANSFER" /\ n \in Nat /\ n <= Len(f.lines)
    BY WriterForm
  <2>2. /\ UndoAt(d) = f
        /\ \A i \in Item : Seen(d, i).qty + Moved(f, Len(f.lines), i) = stock[i].qty + Moved(f, n, i)
    BY DEF UndoBalance, UndoAt
  <2>3. \A i \in Item : Moved(f, n, i) \in Int /\ Moved(f, Len(f.lines), i) \in Int
    <3>1. Len(f.lines) \in Nat
      BY <2>1, MovedGrows DEF IInv
    <3>2. n \in 0..Len(f.lines) /\ Len(f.lines) \in 0..Len(f.lines)
      <4> HIDE DEF n, f
      <4> QED
        BY <2>1, <3>1
    <3> QED
      BY <2>1, <3>2, MovedGrows DEF IInv
  <2> HIDE DEF f, n
  <2>4. \A i \in Item : Seen(d, i)'.qty + Moved(f, Len(f.lines), i) = stock'[i].qty + Moved(f, n, i)
    BY <1>1, <2>2, <2>3
  <2> QED
    BY <2>2, <2>4 DEF n
<1> QED
  BY <1>2, <1>3
(* A request that does not write has no account to keep. *)
LEMMA BalanceEmpty ==
  ASSUME NEW c, txn'[c].pc \in {"idle", "checked"}
  PROVE  (LinesBalance(c) /\ UndoBalance(c))'
BY DEF LinesBalance, UndoBalance

(* A step of one request leaves the account of every other one alone. *)
LEMMA OneBalance ==
  ASSUME IInv, IInv', PInv, NEW c \in Client, form' = form,
         (LinesBalance(c) /\ UndoBalance(c))',
         \A d \in Client \ {c} : /\ txn'[d] = txn[d] /\ held'[d] = held[d]
                                 /\ \A i \in DOMAIN held[d] : stock'[i] = stock[i]
  PROVE  PInv'
<1>1. ASSUME NEW d \in Client \ {c} PROVE (LinesBalance(d) /\ UndoBalance(d))'
  BY BalanceStill DEF PInv
<1> QED
  BY <1>1 DEF PInv

(* Locking rows changes nothing that a request sees. *)
LEMMA SeenSame ==
  ASSUME IInv, NEW c \in Client, stock' = stock, NEW rows, held'[c] = rows,
         \A i \in DOMAIN rows : rows[i] = stock[i]
  PROVE  \A i \in Item : Seen(c, i)' = stock[i] /\ stock'[i] = stock[i] /\ stock[i].qty \in Nat
BY DEF Seen, IInv, TypeOK, Row

LEMMA BeginTransferBalance ==
  ASSUME IInv, IInv', PInv, NEW c \in Client, BeginTransfer(c)
  PROVE  PInv'
<1> DEFINE k == txn[c].key
           rows == [i \in SourceRows(form[k]) |-> stock[i]]
<1>1. /\ form[k].kind = "TRANSFER" /\ k \in Key
      /\ held' = [held EXCEPT ![c] = rows] /\ txn' = [txn EXCEPT ![c].pc = "lines", ![c].n = 1]
      /\ stock' = stock /\ form' = form
  BY DEF BeginTransfer, Locked, IInv, Started
<1>2. /\ held'[c] = rows /\ \A d \in Client \ {c} : held'[d] = held[d] /\ txn'[d] = txn[d]
      /\ txn'[c].pc = "lines" /\ txn'[c].n = 1 /\ txn'[c].key = k
  BY <1>1 DEF IInv, TypeOK, Request
<1>3. \A i \in DOMAIN rows : rows[i] = stock[i]
  OBVIOUS
<1> HIDE DEF rows, k
<1>4. \A i \in Item : Seen(c, i)' = stock[i] /\ stock'[i] = stock[i] /\ stock[i].qty \in Nat
  BY <1>1, <1>2, <1>3, SeenSame
<1>5. /\ Len(form[k].lines) \in Nat
      /\ \A i \in Item : Moved(form[k], 0, i) = 0
  BY <1>1, MovedGrows DEF IInv
<1>6. LinesBalance(c)'
  <2>1. 1 <= Len(form[k].lines) + 1 /\ 1 - 1 = 0
    BY <1>5
  <2>2. \A i \in Item : Seen(c, i)'.qty = stock'[i].qty + Moved(form[k], 1 - 1, i)
    BY <1>4, <1>5, <2>1
  <2> QED
    BY <1>1, <1>2, <2>1, <2>2 DEF LinesBalance
<1>7. UndoBalance(c)'
  BY <1>2 DEF UndoBalance
<1> QED
  BY <1>1, <1>2, <1>6, <1>7, OneBalance

LEMMA BeginUndoBalance ==
  ASSUME IInv, IInv', PInv, NEW c \in Client, BeginUndo(c)
  PROVE  PInv'
<1> DEFINE k == txn[c].key
           f == form[form[k].of]
           rows == [i \in RowsLocked(form[k]) |-> stock[i]]
<1>1. /\ form' = form /\ stock' = stock
      /\ held' = [held EXCEPT ![c] = rows]
      /\ txn' = [txn EXCEPT ![c].pc = "undo", ![c].n = Len(f.lines)]
  BY DEF BeginUndo
<1>2. /\ held'[c] = rows /\ \A d \in Client \ {c} : held'[d] = held[d] /\ txn'[d] = txn[d]
      /\ txn'[c].pc = "undo" /\ txn'[c].n = Len(f.lines) /\ txn'[c].key = k
  <2>1. txn \in [Client -> Request] /\ DOMAIN held = Client
    BY DEF IInv, TypeOK
  <2> DEFINE last == Len(f.lines)
  <2> HIDE DEF rows, k, f, last
  <2>2. held'[c] = rows /\ \A d \in Client \ {c} : held'[d] = held[d]
    BY <1>1, <2>1
  <2>3. /\ \A d \in Client \ {c} : txn'[d] = txn[d]
        /\ txn'[c] = [txn[c] EXCEPT !.pc = "undo", !.n = last]
    BY <1>1, <2>1 DEF last
  <2>4. txn'[c].pc = "undo" /\ txn'[c].n = last /\ txn'[c].key = txn[c].key
    BY <2>1, <2>3 DEF Request
  <2> QED
    BY <2>2, <2>3, <2>4 DEF last, k
<1>3. \A i \in DOMAIN rows : rows[i] = stock[i]
  OBVIOUS
<1>4. UndoAt(c)' = f
  BY <1>1, <1>2 DEF UndoAt
<1> HIDE DEF rows, k, f
<1>5. \A i \in Item : Seen(c, i)' = stock[i] /\ stock'[i] = stock[i] /\ stock[i].qty \in Nat
  BY <1>1, <1>2, <1>3, SeenSame
<1>6. UndoBalance(c)'
  BY <1>2, <1>4, <1>5 DEF UndoBalance
<1>7. LinesBalance(c)'
  BY <1>2 DEF LinesBalance
<1> QED
  BY <1>1, <1>2, <1>6, <1>7, OneBalance

(* One line of a transfer moves what the line nets to. *)
LEMMA MoveLineBalance ==
  ASSUME IInv, IInv', PInv, NEW c \in Client, MoveLine(c)
  PROVE  PInv'
<1> DEFINE k    == txn[c].key
           f    == form[k]
           n    == txn[c].n
           line == f.lines[n]
           src  == held[c][line.item]
           dest == Destination(f, n)
           seen == [Seen(c, dest) EXCEPT !.status = "active"]
           out  == Posted(src, IF Arrives(f, n) THEN "TRANSFER_OUT" ELSE "LOSS",
                          line.qty, src.qty - line.qty, <<k, n, "out">>, 0)
           inn  == Posted(seen, "TRANSFER_IN", line.qty, Seen(c, dest).qty + line.qty,
                          <<k, n, "in">>, 0)
           rows == [i \in DOMAIN held[c] \cup (IF Arrives(f, n) THEN {dest} ELSE {}) |->
                      IF i = line.item THEN out
                      ELSE IF Arrives(f, n) /\ i = dest THEN inn ELSE held[c][i]]
<1>1. /\ txn[c].pc = "lines" /\ n <= Len(f.lines)
      /\ held' = [held EXCEPT ![c] = rows] /\ txn' = [txn EXCEPT ![c].n = n + 1]
      /\ stock' = stock /\ form' = form
  BY DEF MoveLine, AtLine
<1>2. k \in Key /\ f.kind = "TRANSFER" /\ n \in Nat /\ n > 0
  BY <1>1, WriterForm
<1>3. /\ held'[c] = rows /\ \A d \in Client \ {c} : held'[d] = held[d] /\ txn'[d] = txn[d]
      /\ txn'[c].pc = "lines" /\ txn'[c].n = n + 1 /\ txn'[c].key = k
  <2>1. /\ held'[c] = rows /\ \A d \in Client \ {c} : held'[d] = held[d] /\ txn'[d] = txn[d]
    <3> HIDE DEF rows
    <3> QED
      BY <1>1 DEF IInv, TypeOK
  <2>2. txn[c] \in Request /\ txn'[c] = [txn[c] EXCEPT !.n = n + 1]
    BY <1>1 DEF IInv, TypeOK
  <2>3. txn'[c].pc = txn[c].pc /\ txn'[c].n = n + 1 /\ txn'[c].key = txn[c].key
    BY <2>2 DEF Request
  <2> QED
    BY <2>1, <2>3, <1>1
<1>4. Len(f.lines) \in Nat /\ n \in DOMAIN f.lines
  <2>1. Len(f.lines) \in Nat /\ DOMAIN f.lines = 1..Len(f.lines)
    BY <1>2, MovedGrows DEF IInv
  <2> HIDE DEF f, n
  <2> QED
    BY <2>1, <1>1, <1>2
<1>5. line.item \in DOMAIN held[c] /\ line.item \in Item /\ line.qty \in Nat
  BY <1>2, <1>4, MoveLineHolds, LineFields DEF IInv, Quantity
<1>6. Arrives(f, n) => dest \in Item /\ dest # line.item
  <2>1. f \in Forms
    BY <1>2 DEF IInv, TypeOK
  <2>2. f.src # f.dst /\ line.item.loc = f.src /\ dest.loc = f.dst
    BY <2>1, <1>2, <1>4, FormsAssumption DEF Destination
  <2> QED
    BY <2>2, <1>2, <1>4, LineFields DEF IInv
<1>7. /\ Seen(c, line.item) = src /\ src \in Row
      /\ \A i \in Item : Seen(c, i) \in Row /\ Seen(c, i).qty \in Nat
  <2>1. \A i \in Item : Seen(c, i) \in Row
    BY SeenRow
  <2>2. Seen(c, line.item) = src
    BY <1>5 DEF Seen
  <2> HIDE DEF src, line
  <2> QED
    BY <2>1, <2>2, <1>5 DEF Row
<1>8. out.qty = src.qty - line.qty
  BY <1>7 DEF Posted, Row
<1>9. Arrives(f, n) => inn.qty = Seen(c, dest).qty + line.qty
  <2>1. Arrives(f, n) => seen \in Row
    BY <1>6, <1>7, MarkedRow
  <2> HIDE DEF seen
  <2> QED
    BY <2>1 DEF Posted, Row
<1>10. ASSUME NEW i \in Item
       PROVE  /\ i = line.item => Seen(c, i)' = out
              /\ Arrives(f, n) /\ i = dest => Seen(c, i)' = inn
              /\ i # line.item /\ ~(Arrives(f, n) /\ i = dest) => Seen(c, i)' = Seen(c, i)
  <2> HIDE DEF out, inn, dest, line, f, n, src
  <2> QED
    BY <1>1, <1>3, <1>5, <1>6 DEF Seen
<1>11. \A i \in Item : Seen(c, i)'.qty = Seen(c, i).qty + NetOf(f, n, i)
  <2> TAKE i \in Item
  <2> HIDE DEF out, inn
  <2>1. CASE i = line.item
    <3>1. NetOf(f, n, i) = 0 - line.qty
      BY <2>1, <1>6 DEF NetOf
    <3>2. Seen(c, i)'.qty = Seen(c, i).qty - line.qty
      BY <2>1, <1>7, <1>8, <1>10
    <3>3. Seen(c, i).qty \in Nat
      BY <1>7
    <3> HIDE DEF line, n, f
    <3> QED
      BY <3>1, <3>2, <3>3, <1>5
  <2>2. CASE Arrives(f, n) /\ i = dest
    <3>1. NetOf(f, n, i) = line.qty - 0
      BY <2>2, <1>6 DEF NetOf
    <3>2. Seen(c, i)'.qty = Seen(c, i).qty + line.qty
      BY <2>2, <1>9, <1>10
    <3> HIDE DEF line, n, f
    <3> QED
      BY <3>1, <3>2, <1>5
  <2>3. CASE i # line.item /\ ~(Arrives(f, n) /\ i = dest)
    <3>1. NetOf(f, n, i) = 0 - 0
      BY <2>3 DEF NetOf
    <3>2. Seen(c, i)' = Seen(c, i) /\ Seen(c, i).qty \in Nat
      BY <2>3, <1>7, <1>10
    <3> HIDE DEF n, f
    <3> QED
      BY <3>1, <3>2
  <2> QED
    BY <2>1, <2>2, <2>3
<1>12. LinesBalance(c)'
  <2>1. \A i \in Item : Seen(c, i).qty = stock[i].qty + Moved(f, n - 1, i)
    BY <1>1 DEF PInv, LinesBalance
  <2>2. \A i \in Item : /\ Moved(f, n, i) = Moved(f, n - 1, i) + NetOf(f, n, i)
                        /\ NetOf(f, n, i) \in Int
    BY <1>2, <1>4, MovedGrows DEF IInv
  <2>3. \A i \in Item : Moved(f, n - 1, i) \in Int
    <3>1. n - 1 \in 0..Len(f.lines)
      <4> HIDE DEF n, f
      <4> QED
        BY <1>1, <1>2, <1>4
    <3> QED
      BY <3>1, <1>2, MovedGrows DEF IInv
  <2>4. \A i \in Item : stock[i].qty \in Nat /\ stock'[i] = stock[i]
    BY <1>1 DEF IInv, TypeOK, Row
  <2>5. n + 1 <= Len(f.lines) + 1 /\ (n + 1) - 1 = n
    <3> HIDE DEF n, f
    <3> QED
      BY <1>1, <1>2, <1>4
  <2>6. \A i \in Item : Seen(c, i)'.qty = stock'[i].qty + Moved(f, (n + 1) - 1, i)
    <3> HIDE DEF n, f
    <3> QED
      BY <1>11, <2>1, <2>2, <2>3, <2>4, <2>5
  <2> HIDE DEF n
  <2> QED
    BY <1>1, <1>3, <2>5, <2>6 DEF LinesBalance
<1>13. UndoBalance(c)'
  BY <1>3 DEF UndoBalance
<1> HIDE DEF rows
<1> QED
  BY <1>1, <1>3, <1>12, <1>13, OneBalance
LEMMA LegUndoneQty ==
  ASSUME NEW row \in Row, NEW original, NEW q, Has(row, original, q),
         NEW shift, NEW qty, NEW key
  PROVE  LegUndone(row, original, shift, qty, key).qty = row.qty + shift
<1>1. Originals(row, original) # {}
  BY DEF Has, Originals
<1> DEFINE new == row.qty + shift
           rev == CHOOSE m \in Originals(row, original) : TRUE
<1>2. LegUndone(row, original, shift, qty, key) = Posted(row, "REVERSAL", qty, new, key, rev)
  BY <1>1 DEF LegUndone
<1> HIDE DEF new, rev
<1>3. Posted(row, "REVERSAL", qty, new, key, rev).qty = new
  BY DEF Posted, Row
<1> QED
  BY <1>2, <1>3 DEF new

(* One line of a transfer undone takes back what the line nets to: both its *)
(* legs are in the rows that the reversal has locked.                       *)
LEMMA UndoLineBalance ==
  ASSUME IInv, IInv', HInv, PInv, NEW c \in Client, UndoLine(c)
  PROVE  PInv'
<1> DEFINE k    == txn[c].key
           of   == form[k].of
           f    == form[of]
           n    == txn[c].n
           line == f.lines[n]
           dest == Destination(f, n)
           Out(i) == LegUndone(held[c][i], <<of, n, "out">>, line.qty, line.qty,
                               <<k, n, "reverse-out">>)
           In(i)  == LegUndone(held[c][i], <<of, n, "in">>, -line.qty, line.qty,
                               <<k, n, "reverse-in">>)
           rows == [i \in DOMAIN held[c] |->
                      IF i = line.item THEN Out(i)
                      ELSE IF Arrives(f, n) /\ i = dest THEN In(i) ELSE held[c][i]]
<1>1. /\ txn[c].pc = "undo" /\ n > 0
      /\ held' = [held EXCEPT ![c] = rows] /\ txn' = [txn EXCEPT ![c].n = n - 1]
      /\ stock' = stock /\ form' = form
  BY DEF UndoLine, AtUndo, UndoAt
<1>2. /\ k \in Key /\ of \in Key /\ f.kind = "TRANSFER" /\ n \in Nat /\ n <= Len(f.lines)
      /\ form[k].kind = "UNDO"
  BY <1>1, WriterForm
<1>3. /\ held'[c] = rows /\ \A d \in Client \ {c} : held'[d] = held[d] /\ txn'[d] = txn[d]
      /\ txn'[c].pc = "undo" /\ txn'[c].n = n - 1 /\ txn'[c].key = k
  <2>1. /\ held'[c] = rows /\ \A d \in Client \ {c} : held'[d] = held[d] /\ txn'[d] = txn[d]
    <3> HIDE DEF rows
    <3> QED
      BY <1>1 DEF IInv, TypeOK
  <2>2. txn[c] \in Request /\ txn'[c] = [txn[c] EXCEPT !.n = n - 1]
    BY <1>1 DEF IInv, TypeOK
  <2>3. txn'[c].pc = txn[c].pc /\ txn'[c].n = n - 1 /\ txn'[c].key = txn[c].key
    BY <2>2 DEF Request
  <2> QED
    BY <2>1, <2>3, <1>1
<1>4. Len(f.lines) \in Nat /\ n \in DOMAIN f.lines
  <2>1. Len(f.lines) \in Nat /\ DOMAIN f.lines = 1..Len(f.lines)
    BY <1>2, MovedGrows DEF IInv
  <2> HIDE DEF f, n
  <2> QED
    BY <2>1, <1>1, <1>2
<1>5. /\ line.item \in Item /\ line.qty \in Nat
      /\ Arrives(f, n) => dest \in Item /\ dest # line.item
  <2>1. f \in Forms
    BY <1>2 DEF IInv, TypeOK
  <2>2. f.src # f.dst /\ line.item.loc = f.src /\ dest.loc = f.dst
    BY <2>1, <1>2, <1>4, FormsAssumption DEF Destination
  <2> QED
    BY <2>2, <1>2, <1>4, LineFields DEF IInv, Quantity
<1>6. /\ line.item \in DOMAIN held[c]
      /\ Arrives(f, n) => dest \in DOMAIN held[c]
  <2>1. RowsLocked(form[k]) \subseteq DOMAIN held[c]
    BY <1>1 DEF HInv, ClientSound, UndoSound
  <2>2. RowsLocked(form[k]) = SourceRows(f) \cup ArrivalRows(f)
    BY <1>2 DEF RowsLocked
  <2>3. line.item \in SourceRows(f)
    BY <1>4 DEF SourceRows
  <2>4. Arrives(f, n) => dest \in ArrivalRows(f)
    BY <1>4 DEF ArrivalRows
  <2> QED
    BY <2>1, <2>2, <2>3, <2>4
<1>7. /\ Has(held[c][line.item], <<of, n, "out">>, line.qty)
      /\ Arrives(f, n) => Has(held[c][dest], <<of, n, "in">>, line.qty)
  <2>1. transfers[of] # None /\ \A i \in DOMAIN held[c] : HeldSound(c, i)
    BY <1>1 DEF HInv, ClientSound, UndoSound
  <2>2. LineIn(stock, f, of, n, "out", "in")
    BY <2>1, <1>2, <1>4 DEF HInv, Whole
  <2>3. \A i \in DOMAIN held[c] : Extends(held[c][i].log, stock[i].log)
    BY <2>1 DEF HeldSound
  <2> HIDE DEF of, f, n
  <2>4. /\ Has(stock[line.item], <<of, n, "out">>, line.qty)
        /\ Arrives(f, n) => Has(stock[dest], <<of, n, "in">>, line.qty)
    BY <2>2 DEF LineIn
  <2> HIDE DEF line, dest
  <2> QED
    BY <2>3, <2>4, <1>6, HasStill
<1>8. \A i \in DOMAIN held[c] : held[c][i] \in Row /\ held[c][i].qty \in Nat
  BY DEF IInv, TypeOK, Row
<1>9. /\ Out(line.item).qty = held[c][line.item].qty + line.qty
      /\ Arrives(f, n) => In(dest).qty = held[c][dest].qty - line.qty
  <2> DEFINE outKey == <<of, n, "out">>
             inKey  == <<of, n, "in">>
             back   == -line.qty
  <2> HIDE DEF line, dest, k, n, f, of
  <2>1. Out(line.item).qty = held[c][line.item].qty + line.qty
    BY <1>6, <1>7, <1>8, LegUndoneQty
  <2>2. ASSUME Arrives(f, n) PROVE In(dest).qty = held[c][dest].qty - line.qty
    <3>1. LegUndone(held[c][dest], inKey, back, line.qty, <<k, n, "reverse-in">>).qty
            = held[c][dest].qty + back
      <4>1. Has(held[c][dest], inKey, line.qty) /\ held[c][dest] \in Row
        BY <2>2, <1>6, <1>7, <1>8
      <4> HIDE DEF inKey, back
      <4> QED
        BY <4>1, LegUndoneQty
    <3>2. held[c][dest].qty + back = held[c][dest].qty - line.qty
      <4>1. held[c][dest].qty \in Nat /\ line.qty \in Nat
        BY <2>2, <1>5, <1>6, <1>8
      <4> QED
        BY <4>1
    <3> QED
      BY <3>1, <3>2
  <2> QED
    BY <2>1, <2>2
<1> HIDE DEF Out, In
<1>10. ASSUME NEW i \in Item
       PROVE  /\ i = line.item => Seen(c, i)' = Out(i) /\ Seen(c, i) = held[c][i]
              /\ Arrives(f, n) /\ i = dest => Seen(c, i)' = In(i) /\ Seen(c, i) = held[c][i]
              /\ i # line.item /\ ~(Arrives(f, n) /\ i = dest) => Seen(c, i)' = Seen(c, i)
  <2> HIDE DEF dest, line, f, n
  <2> QED
    BY <1>1, <1>3, <1>5, <1>6 DEF Seen
<1>11. \A i \in Item : Seen(c, i).qty \in Nat
  BY SeenRow DEF Row
<1>12. \A i \in Item : Seen(c, i)'.qty = Seen(c, i).qty - NetOf(f, n, i)
  <2> TAKE i \in Item
  <2>1. CASE i = line.item
    <3>1. NetOf(f, n, i) = 0 - line.qty
      BY <2>1, <1>5 DEF NetOf
    <3>2. Seen(c, i)'.qty = Seen(c, i).qty + line.qty /\ Seen(c, i).qty \in Nat
      BY <2>1, <1>9, <1>10, <1>11
    <3> HIDE DEF line, n, f
    <3> QED
      BY <3>1, <3>2, <1>5
  <2>2. CASE Arrives(f, n) /\ i = dest
    <3>1. NetOf(f, n, i) = line.qty - 0
      BY <2>2, <1>5 DEF NetOf
    <3>2. Seen(c, i)'.qty = Seen(c, i).qty - line.qty /\ Seen(c, i).qty \in Nat
      BY <2>2, <1>9, <1>10, <1>11
    <3> HIDE DEF line, n, f
    <3> QED
      BY <3>1, <3>2, <1>5
  <2>3. CASE i # line.item /\ ~(Arrives(f, n) /\ i = dest)
    <3>1. NetOf(f, n, i) = 0 - 0
      BY <2>3 DEF NetOf
    <3>2. Seen(c, i)' = Seen(c, i) /\ Seen(c, i).qty \in Nat
      BY <2>3, <1>10, <1>11
    <3> HIDE DEF n, f
    <3> QED
      BY <3>1, <3>2
  <2> QED
    BY <2>1, <2>2, <2>3
<1>13. UndoBalance(c)'
  <2>1. /\ UndoAt(c) = f /\ UndoAt(c)' = f
        /\ \A i \in Item : Seen(c, i).qty + Moved(f, Len(f.lines), i) = stock[i].qty + Moved(f, n, i)
    BY <1>1, <1>3 DEF PInv, UndoBalance, UndoAt
  <2>2. \A i \in Item : /\ Moved(f, n, i) = Moved(f, n - 1, i) + NetOf(f, n, i)
                        /\ NetOf(f, n, i) \in Int
    BY <1>2, <1>4, MovedGrows DEF IInv
  <2>3. \A i \in Item : Moved(f, n - 1, i) \in Int /\ Moved(f, Len(f.lines), i) \in Int
    <3>1. n - 1 \in 0..Len(f.lines) /\ Len(f.lines) \in 0..Len(f.lines)
      <4> HIDE DEF n, f
      <4> QED
        BY <1>1, <1>2, <1>4
    <3> QED
      BY <3>1, <1>2, MovedGrows DEF IInv
  <2>4. \A i \in Item : stock[i].qty \in Nat /\ stock'[i] = stock[i]
    BY <1>1 DEF IInv, TypeOK, Row
  <2>5. \A i \in Item :
          Seen(c, i)'.qty + Moved(f, Len(f.lines), i) = stock'[i].qty + Moved(f, n - 1, i)
    <3> TAKE i \in Item
    <3> DEFINE all == Moved(f, Len(f.lines), i)
               now == Moved(f, n, i)
               rest == Moved(f, n - 1, i)
               net == NetOf(f, n, i)
    <3>1. /\ all \in Int /\ rest \in Int /\ net \in Int /\ now = rest + net
          /\ Seen(c, i).qty \in Nat /\ stock[i].qty \in Nat
          /\ Seen(c, i).qty + all = stock[i].qty + now
      BY <1>11, <2>1, <2>2, <2>3, <2>4
    <3>2. Seen(c, i)'.qty = Seen(c, i).qty - net
      BY <1>12
    <3>3. stock'[i].qty = stock[i].qty
      BY <2>4
    <3> HIDE DEF all, now, rest, net
    <3>4. Seen(c, i)'.qty + all = stock'[i].qty + rest
      BY <3>1, <3>2, <3>3
    <3> QED
      BY <3>4 DEF all, rest
  <2> HIDE DEF n, f
  <2> QED
    BY <1>3, <2>1, <2>5 DEF UndoBalance
<1>14. LinesBalance(c)'
  BY <1>3 DEF LinesBalance
<1> HIDE DEF rows
<1> QED
  BY <1>1, <1>3, <1>13, <1>14, OneBalance
LEMMA InitPInv == Init => PInv
BY DEF Init, PInv, LinesBalance, UndoBalance, Idle

LEMMA NextKeepsPInv ==
  IInv /\ IInv' /\ HInv /\ QInv /\ PInv /\ [Next]_vars => PInv'
<1> SUFFICES ASSUME IInv, IInv', HInv, QInv, PInv, [Next]_vars PROVE PInv'
  OBVIOUS
<1>1. ASSUME UNCHANGED <<txn, form, held>>,
             \A d \in Client : \A i \in DOMAIN held[d] : stock'[i] = stock[i]
      PROVE  PInv'
  <2>1. ASSUME NEW d \in Client PROVE (LinesBalance(d) /\ UndoBalance(d))'
    BY <1>1, BalanceStill DEF PInv
  <2> QED
    BY <2>1 DEF PInv
<1>2. ASSUME NEW c \in Client, form' = form, txn'[c].pc \in {"idle", "checked"},
             \A d \in Client \ {c} : /\ txn'[d] = txn[d] /\ held'[d] = held[d]
                                     /\ \A i \in DOMAIN held[d] : stock'[i] = stock[i]
      PROVE  PInv'
  BY <1>2, BalanceEmpty, OneBalance
<1>3. ASSUME NEW c \in Client, (\E k \in Key : Submit(c, k)) \/ Refuse(c) PROVE PInv'
  <2>1. /\ UNCHANGED <<stock, form, held>> /\ txn'[c].pc \in {"idle", "checked"}
        /\ \A d \in Client \ {c} : txn'[d] = txn[d]
    BY <1>3 DEF Submit, Refuse, Finish, Idle, IInv, TypeOK
  <2> QED
    BY <2>1, <1>2
<1>4. ASSUME NEW c \in Client, PostSingle(c) \/ ReverseMovement(c) PROVE PInv'
  <2>1. PICK i \in Item : /\ \A d \in Client : i \notin DOMAIN held[d]
                          /\ \A j \in Item \ {i} : stock'[j] = stock[j]
    BY <1>4, OneRowWritten
  <2>2. UNCHANGED <<form, held>> /\ Finish(c)
    BY <1>4 DEF PostSingle, ReverseMovement
  <2>3. txn'[c].pc = "idle" /\ \A d \in Client \ {c} : txn'[d] = txn[d]
    BY <2>2 DEF Finish, Idle, IInv, TypeOK
  <2>4. \A d \in Client : \A j \in DOMAIN held[d] : stock'[j] = stock[j]
    BY <2>1 DEF IInv, TypeOK
  <2> QED
    BY <2>2, <2>3, <2>4, <1>2
<1>5. ASSUME NEW c \in Client, RollBack(c) PROVE PInv'
  <2>1. /\ stock' = stock /\ form' = form /\ txn'[c].pc = "idle"
        /\ \A d \in Client \ {c} : held'[d] = held[d] /\ txn'[d] = txn[d]
    BY <1>5 DEF RollBack, Finish, Idle, IInv, TypeOK
  <2> QED
    BY <2>1, <1>2
<1>6. ASSUME NEW c \in Client, CommitTransfer(c) \/ CommitUndo(c) PROVE PInv'
  <2>1. Publish(c)
    BY <1>6 DEF CommitTransfer, CommitUndo
  <2>2. /\ form' = form /\ txn'[c].pc = "idle"
        /\ \A d \in Client \ {c} : held'[d] = held[d] /\ txn'[d] = txn[d]
    BY <2>1 DEF Publish, Finish, Idle, IInv, TypeOK
  <2>3. \A i \in Item \ DOMAIN held[c] : stock'[i] = stock[i]
    BY <2>1, RowsWritten
  <2>4. \A d \in Client \ {c} : \A i \in DOMAIN held[d] : stock'[i] = stock[i]
    BY <2>3 DEF HInv, LocksExclusive, IInv, TypeOK
  <2> QED
    BY <2>2, <2>4, <1>2
<1>7. CASE Lifecycle
  <2>1. /\ UNCHANGED <<txn, held>>
        /\ \A i \in Item : stock'[i] = stock[i] \/ Unlocked(i)
    BY <1>7, RowMarked
  <2>2. form' = form
    BY <1>7 DEF Lifecycle, ArchiveItem, RestoreItem, TrashItem, UntrashItem, CheckCompletion,
                CompleteProject, SetProjectStatus
  <2>3. \A d \in Client : \A i \in DOMAIN held[d] : stock'[i] = stock[i]
    BY <2>1 DEF Unlocked, IInv, TypeOK
  <2> QED
    BY <2>1, <2>2, <2>3, <1>1
<1>8. CASE UNCHANGED vars
  BY <1>8, <1>1 DEF vars
<1>9. ASSUME NEW c \in Client, Step(c) PROVE PInv'
  BY <1>3, <1>4, <1>5, <1>6, <1>9, BeginTransferBalance, MoveLineBalance, BeginUndoBalance,
     UndoLineBalance DEF Step, RefuseLine, RefuseUndoLine
<1>10. ASSUME NEW c \in Client, Abort(c) PROVE PInv'
  BY <1>10, <1>5 DEF Abort
<1> QED
  BY <1>3, <1>7, <1>8, <1>9, <1>10 DEF Next

----------------------------------------------------------------------------
(* The mapping *)

(* The forms that some rows record as carried out, and as undone.           *)
CarriedBy(rows) ==
  {k \in Key : \E i \in Item : \E m \in DOMAIN rows[i].log : rows[i].log[m].key[1] = k}

UndoneBy(rows) ==
  {k \in Key : \E i \in Item : \E m \in DOMAIN rows[i].log :
     /\ rows[i].log[m].rev # 0
     /\ rows[i].log[rows[i].log[m].rev].key[1] = k}

(* The position that a movement reverses is one of the same row.            *)
LEMMA ReversedIsThere ==
  ASSUME NEW row \in Row, ReversesOnce(row), NEW m \in DOMAIN row.log, row.log[m].rev # 0
  PROVE  row.log[m].rev \in DOMAIN row.log
<1>1. row.log[m].rev \in Nat /\ row.log[m].rev < m
  BY LogOf DEF Movement, ReversesOnce
<1>2. DOMAIN row.log = 1..Len(row.log) /\ Len(row.log) \in Nat
  BY LogOf
<1> DEFINE rev == row.log[m].rev
           len == Len(row.log)
<1>3. rev \in 1..len
  <2>1. m \in 1..len /\ rev \in Nat /\ rev < m /\ rev # 0 /\ len \in Nat
    BY <1>1, <1>2
  <2> HIDE DEF rev, len
  <2> QED
    BY <2>1
<1> QED
  BY <1>2, <1>3

LEMMA FormOfMovement ==
  ASSUME NEW row \in Row, NEW m \in DOMAIN row.log
  PROVE  row.log[m].key[1] \in Key
BY LogOf DEF Movement, MovementKey

LEMMA HistoryMapped ==
  ASSUME stock \in [Item -> Row], \A i \in Item : ReversesOnce(stock[i])
  PROVE  Carried = CarriedBy(stock) /\ Undone = UndoneBy(stock)
<1>1. ASSUME NEW k PROVE k \in Carried <=> k \in CarriedBy(stock)
  <2>1. k \in Carried <=> \E i \in Item : \E m \in DOMAIN stock[i].log : stock[i].log[m].key[1] = k
    BY DEF Carried, FormsOf, Movements
  <2>2. \A i \in Item : \A m \in DOMAIN stock[i].log : stock[i].log[m].key[1] \in Key
    BY FormOfMovement
  <2> QED
    BY <2>1, <2>2 DEF CarriedBy
<1>2. ASSUME NEW k PROVE k \in Undone <=> k \in UndoneBy(stock)
  <2>1. k \in Undone <=> \E i \in Item : \E m \in DOMAIN stock[i].log :
                           /\ stock[i].log[m].rev # 0
                           /\ stock[i].log[stock[i].log[m].rev].key[1] = k
    BY DEF Undone, FormsOf, ReversedMovements
  <2>2. \A i \in Item : \A m \in DOMAIN stock[i].log : stock[i].log[m].rev # 0 =>
          stock[i].log[stock[i].log[m].rev].key[1] \in Key
    BY ReversedIsThere, FormOfMovement
  <2> QED
    BY <2>1, <2>2 DEF UndoneBy
<1> QED
  BY <1>1, <1>2
LEMMA BothMapped ==
  ASSUME IInv, IInv', HInv, HInv'
  PROVE  /\ Carried = CarriedBy(stock) /\ Undone = UndoneBy(stock)
         /\ Carried' = CarriedBy(stock') /\ Undone' = UndoneBy(stock')
<1>1. stock \in [Item -> Row] /\ \A i \in Item : ReversesOnce(stock[i])
  BY DEF IInv, TypeOK, HInv, HistorySound, RowSound
<1>2. (stock \in [Item -> Row] /\ \A i \in Item : ReversesOnce(stock[i]))'
  BY DEF IInv, TypeOK, HInv, HistorySound, RowSound
<1>3. stock \in [Item -> Row] /\ (\A i \in Item : ReversesOnce(stock[i]))
        => Carried = CarriedBy(stock) /\ Undone = UndoneBy(stock)
  BY HistoryMapped
<1>4. (stock \in [Item -> Row] /\ (\A i \in Item : ReversesOnce(stock[i]))
        => Carried = CarriedBy(stock) /\ Undone = UndoneBy(stock))'
  BY HistoryMapped, PTL
<1> QED
  BY <1>1, <1>2, <1>3, <1>4
(* Rows that grow by movements of one form k record that form, and no other *)
(* one; what they undo is what these movements reverse.                     *)
LEMMA RowsGrown ==
  ASSUME IInv, IInv', HInv, NEW k \in Key,
         \A i \in Item : Extends(stock'[i].log, stock[i].log),
         \A i \in Item : \A m \in DOMAIN stock'[i].log \ DOMAIN stock[i].log : stock'[i].log[m].key[1] = k,
         \E i \in Item : \E m : m \in DOMAIN stock'[i].log \ DOMAIN stock[i].log
  PROVE  /\ CarriedBy(stock') = CarriedBy(stock) \cup {k}
         /\ (\A i \in Item : \A m \in DOMAIN stock'[i].log \ DOMAIN stock[i].log : stock'[i].log[m].rev = 0)
              => UndoneBy(stock') = UndoneBy(stock)
         /\ \A g \in Key :
              (\A i \in Item : \A m \in DOMAIN stock'[i].log \ DOMAIN stock[i].log :
                 /\ stock'[i].log[m].rev # 0
                 /\ stock'[i].log[stock'[i].log[m].rev].key[1] = g)
              => UndoneBy(stock') = UndoneBy(stock) \cup {g}
<1>1. /\ stock \in [Item -> Row] /\ stock' \in [Item -> Row]
      /\ \A i \in Item : ReversesOnce(stock[i])
  BY DEF IInv, TypeOK, HInv, HistorySound, RowSound
<1>2. PICK j \in Item : \E m : m \in DOMAIN stock'[j].log \ DOMAIN stock[j].log
  OBVIOUS
<1>3. PICK x : x \in DOMAIN stock'[j].log \ DOMAIN stock[j].log
  BY <1>2
<1> DEFINE new == stock'
           old == stock
<1>4. /\ old \in [Item -> Row] /\ new \in [Item -> Row]
      /\ \A i \in Item : Extends(new[i].log, old[i].log) /\ ReversesOnce(old[i])
      /\ \A i \in Item : \A m \in DOMAIN new[i].log \ DOMAIN old[i].log : new[i].log[m].key[1] = k
      /\ x \in DOMAIN new[j].log \ DOMAIN old[j].log
  BY <1>1, <1>3
<1> HIDE DEF new, old
<1>5. \A i \in Item : \A m \in DOMAIN old[i].log : m \in DOMAIN new[i].log /\ new[i].log[m] = old[i].log[m]
  BY <1>4 DEF Extends
<1>6. \A i \in Item : \A m \in DOMAIN old[i].log : old[i].log[m].rev # 0 =>
        /\ old[i].log[m].rev \in DOMAIN old[i].log
        /\ new[i].log[old[i].log[m].rev] = old[i].log[old[i].log[m].rev]
  BY <1>4, <1>5, ReversedIsThere
<1>7. CarriedBy(new) = CarriedBy(old) \cup {k}
  <2>1. ASSUME NEW g \in CarriedBy(new) PROVE g \in CarriedBy(old) \cup {k}
    <3>0. PICK i \in Item : \E m \in DOMAIN new[i].log : new[i].log[m].key[1] = g
      BY <2>1 DEF CarriedBy
    <3>1. PICK m \in DOMAIN new[i].log : new[i].log[m].key[1] = g
      BY <3>0
    <3>2. CASE m \in DOMAIN old[i].log
      BY <3>1, <3>2, <1>5, <2>1 DEF CarriedBy
    <3>3. CASE m \notin DOMAIN old[i].log
      BY <3>1, <3>3, <1>4
    <3> QED
      BY <3>2, <3>3
  <2>2. CarriedBy(old) \subseteq CarriedBy(new)
    BY <1>5 DEF CarriedBy
  <2>3. k \in CarriedBy(new)
    BY <1>4 DEF CarriedBy
  <2> QED
    BY <2>1, <2>2, <2>3
<1>8. UndoneBy(old) \subseteq UndoneBy(new)
  <2> SUFFICES ASSUME NEW g \in UndoneBy(old) PROVE g \in UndoneBy(new)
    OBVIOUS
  <2>0. PICK i \in Item : \E m \in DOMAIN old[i].log :
          old[i].log[m].rev # 0 /\ old[i].log[old[i].log[m].rev].key[1] = g
    BY DEF UndoneBy
  <2>1. PICK m \in DOMAIN old[i].log :
          old[i].log[m].rev # 0 /\ old[i].log[old[i].log[m].rev].key[1] = g
    BY <2>0
  <2>2. /\ m \in DOMAIN new[i].log /\ new[i].log[m] = old[i].log[m]
        /\ new[i].log[old[i].log[m].rev] = old[i].log[old[i].log[m].rev]
    BY <2>1, <1>5, <1>6
  <2>3. new[i].log[m].rev # 0 /\ new[i].log[new[i].log[m].rev].key[1] = g
    BY <2>1, <2>2
  <2> QED
    BY <2>2, <2>3 DEF UndoneBy
<1>9. ASSUME NEW g \in UndoneBy(new)
      PROVE  \/ g \in UndoneBy(old)
             \/ \E i \in Item : \E m \in DOMAIN new[i].log \ DOMAIN old[i].log :
                  new[i].log[m].rev # 0 /\ new[i].log[new[i].log[m].rev].key[1] = g
  <2>0. PICK i \in Item : \E m \in DOMAIN new[i].log :
          new[i].log[m].rev # 0 /\ new[i].log[new[i].log[m].rev].key[1] = g
    BY DEF UndoneBy
  <2>1. PICK m \in DOMAIN new[i].log :
          new[i].log[m].rev # 0 /\ new[i].log[new[i].log[m].rev].key[1] = g
    BY <2>0
  <2>2. CASE m \in DOMAIN old[i].log
    <3>1. /\ new[i].log[m] = old[i].log[m] /\ old[i].log[m].rev # 0
          /\ new[i].log[old[i].log[m].rev] = old[i].log[old[i].log[m].rev]
      BY <2>1, <2>2, <1>5, <1>6
    <3>2. old[i].log[old[i].log[m].rev].key[1] = g
      BY <2>1, <3>1
    <3> QED
      BY <2>2, <3>1, <3>2 DEF UndoneBy
  <2>3. CASE m \notin DOMAIN old[i].log
    BY <2>1, <2>3
  <2> QED
    BY <2>2, <2>3
<1>10. ASSUME NEW g \in Key,
             \A i \in Item : \A m \in DOMAIN new[i].log \ DOMAIN old[i].log :
               /\ new[i].log[m].rev # 0
               /\ new[i].log[new[i].log[m].rev].key[1] = g
      PROVE  UndoneBy(new) = UndoneBy(old) \cup {g}
  <2>1. g \in UndoneBy(new)
    BY <1>4, <1>10 DEF UndoneBy
  <2>2. UndoneBy(new) \subseteq UndoneBy(old) \cup {g}
    BY <1>9, <1>10
  <2> QED
    BY <2>1, <2>2, <1>8
<1>11. ASSUME \A i \in Item : \A m \in DOMAIN new[i].log \ DOMAIN old[i].log : new[i].log[m].rev = 0
      PROVE  UndoneBy(new) = UndoneBy(old)
  <2>1. ASSUME NEW g \in UndoneBy(new) PROVE g \in UndoneBy(old)
    BY <1>9, <1>11
  <2> QED
    BY <2>1, <1>8
<1> USE DEF new, old
<1> QED
  BY <1>7, <1>10, <1>11

(* A form whose key the ledger does not know has not been carried out.      *)
LEMMA NotCarried ==
  ASSUME IInv, HInv, NEW k \in Key,
         \/ form[k].kind \in SingleRowOps \cup {"REVERSAL"} /\ KeyUnused(k)
         \/ form[k].kind = "TRANSFER" /\ transfers[k] = None
         \/ form[k].kind = "UNDO" /\ transfers[form[k].of].status # "reversed"
  PROVE  k \notin CarriedBy(stock)
<1> SUFFICES ASSUME NEW i \in Item, NEW m \in DOMAIN stock[i].log, stock[i].log[m].key[1] = k
             PROVE  FALSE
  BY DEF CarriedBy
<1> DEFINE r == stock[i].log[m]
<1>1. Fits(form, i, r) /\ KeyCommitted(form, transfers, r.key)
  BY DEF HInv, HistorySound, RowSound
<1>2. /\ r.key[3] \in {"self", "out", "in", "reverse-out", "reverse-in"}
      /\ r.key = <<r.key[1], r.key[2], r.key[3]>>
      /\ r.key[3] = "self" => r.key[2] = 0 /\ form[k].kind \in SingleRowOps \cup {"REVERSAL"}
      /\ r.key[3] \in {"out", "in"} => form[k].kind = "TRANSFER"
      /\ r.key[3] \in {"reverse-out", "reverse-in"} => form[k].kind = "UNDO"
  BY <1>1 DEF Fits, LegOf, Leg
<1>3. CASE form[k].kind \in SingleRowOps \cup {"REVERSAL"} /\ KeyUnused(k)
  <2>1. r.key[3] = "self"
    BY <1>2, <1>3 DEF SingleRowOps
  <2>2. r.key = OwnKey(k)
    BY <2>1, <1>2 DEF OwnKey
  <2> QED
    BY <2>2, <1>3 DEF KeyUnused, MovementRecorded
<1>4. CASE form[k].kind = "TRANSFER" /\ transfers[k] = None
  BY <1>1, <1>2, <1>4 DEF SingleRowOps, KeyCommitted
<1>5. CASE form[k].kind = "UNDO" /\ transfers[form[k].of].status # "reversed"
  BY <1>1, <1>2, <1>5 DEF SingleRowOps, KeyCommitted
<1> QED
  BY <1>3, <1>4, <1>5

(* The amounts of one form are added to the balances, or taken back.        *)
LEMMA Shifted ==
  ASSUME IInv, IInv', NEW k \in Key, form[k].kind \notin {"REVERSAL", "UNDO"}, form' = form
  PROVE  /\ Orders' = Orders /\ Orders[k] # None
         /\ (\A i \in Item : stock'[i].qty = stock[i].qty + Amount(form[k], i)) => Account!Shift(k, 1)
         /\ (\A i \in Item : stock'[i].qty = stock[i].qty - Amount(form[k], i)) => Account!Shift(k, -1)
<1>1. Orders' = Orders
  BY DEF Orders, OrderOf
<1>2. \A i : Amount(form[k], i) \in Int
  BY AmountType DEF IInv
<1>3. Orders[k] = [i \in Item |-> Amount(form[k], i)]
  BY DEF Orders, OrderOf
<1>4. Orders[k] # None
  BY <1>2, <1>3, NoOrderAssumption
<1>5. /\ \A i \in Item : Balance[i] = stock[i].qty /\ Orders[k][i] = Amount(form[k], i)
      /\ \A i \in Item : stock[i].qty \in Nat /\ stock'[i].qty \in Nat
      /\ Balance' = [i \in Item |-> stock'[i].qty]
  BY <1>3 DEF Balance, IInv, TypeOK, Row
<1>6. ASSUME \A i \in Item : stock'[i].qty = stock[i].qty + Amount(form[k], i)
      PROVE  Account!Shift(k, 1)
  <2>1. \A i \in Item : Balance[i] + 1 * Orders[k][i] = stock'[i].qty
    BY <1>2, <1>5, <1>6
  <2> QED
    BY <2>1, <1>5 DEF Account!Shift
<1>7. ASSUME \A i \in Item : stock'[i].qty = stock[i].qty - Amount(form[k], i)
      PROVE  Account!Shift(k, -1)
  <2>1. \A i \in Item : Balance[i] + (-1) * Orders[k][i] = stock'[i].qty
    BY <1>2, <1>5, <1>7
  <2> QED
    BY <2>1, <1>5 DEF Account!Shift
<1> QED
  BY <1>1, <1>4, <1>6, <1>7
----------------------------------------------------------------------------
(* Every step of the ledger is a step of the account, or none *)

(* A movement posted to one row is the only new one. *)
LEMMA OneRowGrown ==
  ASSUME IInv, NEW i \in Item, NEW row \in Row, row.log = stock[i].log,
         NEW type, NEW qty, NEW new, NEW key, NEW rev,
         stock' = [stock EXCEPT ![i] = Posted(row, type, qty, new, key, rev)]
  PROVE  /\ stock'[i].qty = new /\ \A j \in Item \ {i} : stock'[j] = stock[j]
         /\ \A j \in Item : Extends(stock'[j].log, stock[j].log)
         /\ \A j \in Item : \A m \in DOMAIN stock'[j].log \ DOMAIN stock[j].log :
              j = i /\ stock'[j].log[m].key = key /\ stock'[j].log[m].rev = rev
         /\ \E x : x \in DOMAIN stock'[i].log \ DOMAIN stock[i].log
<1> DEFINE r   == [type |-> type, qty |-> qty, prev |-> row.qty, new |-> new,
                   key |-> key, rev |-> rev]
           len == Len(row.log)
           out == Posted(row, type, qty, new, key, rev)
<1>1. r.key = key /\ r.rev = rev
  OBVIOUS
<1>2. out.qty = new /\ out.log = Append(row.log, r)
  BY DEF Posted, Row
<1> HIDE DEF r, out
<1>3. /\ DOMAIN row.log = 1..len /\ len \in Nat
      /\ DOMAIN out.log = 1..(len + 1) /\ out.log[len + 1] = r
  BY <1>2, LogOf
<1>4. stock'[i] = out /\ \A j \in Item \ {i} : stock'[j] = stock[j]
  BY DEF IInv, TypeOK, out
<1>5. Extends(out.log, stock[i].log)
  BY PostedKeeps DEF out
<1>6. /\ len + 1 \in 1..(len + 1) /\ len + 1 \notin 1..len
      /\ \A m \in 1..(len + 1) : m \notin 1..len => m = len + 1
  BY <1>3
<1>7. \A m \in DOMAIN out.log \ DOMAIN stock[i].log : out.log[m].key = key /\ out.log[m].rev = rev
  BY <1>1, <1>3, <1>6
<1>8. \A j \in Item : \A m \in DOMAIN stock'[j].log \ DOMAIN stock[j].log :
        j = i /\ stock'[j].log[m].key = key /\ stock'[j].log[m].rev = rev
  BY <1>4, <1>7
<1>9. len + 1 \in DOMAIN stock'[i].log \ DOMAIN stock[i].log
  BY <1>3, <1>4, <1>6
<1> QED
  BY <1>2, <1>4, <1>5, <1>8, <1>9, ExtendsItself

(* A single-row operation carries out its form. *)
LEMMA SingleMapped ==
  ASSUME IInv, IInv', HInv, HInv', NEW c \in Client, PostSingle(c)
  PROVE  Account!Next
<1> DEFINE k   == txn[c].key
           f   == form[k]
           row == [stock[f.item] EXCEPT !.status = "active"]
           new == NewBalance(f)
           key == OwnKey(k)
<1>1. /\ f.kind \in SingleRowOps /\ Allowed(k) /\ txn[c].pc = "checked" /\ form' = form
      /\ stock' = [stock EXCEPT ![f.item] = Posted(row, f.kind, f.qty, new, key, 0)]
  BY DEF PostSingle, Locked
<1>2. k \in Key /\ f.item \in Item /\ f.qty \in Nat
  <2>1. k \in Key
    BY <1>1 DEF IInv, Started
  <2> QED
    BY <2>1, <1>1, FormFields DEF IInv, Quantity
<1>3. row \in Row /\ row.log = stock[f.item].log
  <2>1. stock[f.item] \in Row
    BY <1>2 DEF IInv, TypeOK
  <2> QED
    BY <2>1, MarkedRow
<1>4. KeyUnused(k) /\ f.kind \notin {"REVERSAL", "UNDO", "TRANSFER"}
  BY <1>1 DEF Allowed, SingleRowOps
<1>5. key[1] = k
  BY DEF OwnKey
<1>6. stock[f.item].qty \in Nat
  BY <1>2 DEF IInv, TypeOK, Row
<1>7. new = stock[f.item].qty + Amount(f, f.item) /\ \A i : i # f.item => Amount(f, i) = 0
  <2> HIDE DEF f
  <2>1. \A i : Amount(f, i) = IF i # f.item THEN 0
                              ELSE IF f.kind \in InboundTypes THEN f.qty ELSE -f.qty
    BY <1>1, <1>4 DEF Amount
  <2> QED
    BY <2>1, <1>2, <1>6 DEF NewBalance
<1> DEFINE item == f.item
           type == f.kind
           qty  == f.qty
<1>8. item \in Item /\ row \in Row /\ row.log = stock[item].log
  BY <1>2, <1>3
<1>9. stock' = [stock EXCEPT ![item] = Posted(row, type, qty, new, key, 0)]
  BY <1>1
<1> HIDE DEF item, row, type, qty, new, key
<1>10. /\ stock'[item].qty = new /\ \A j \in Item \ {item} : stock'[j] = stock[j]
       /\ \A j \in Item : Extends(stock'[j].log, stock[j].log)
       /\ \A j \in Item : \A m \in DOMAIN stock'[j].log \ DOMAIN stock[j].log :
            j = item /\ stock'[j].log[m].key = key /\ stock'[j].log[m].rev = 0
       /\ \E x : x \in DOMAIN stock'[item].log \ DOMAIN stock[item].log
  BY <1>8, <1>9, OneRowGrown
<1>11. CarriedBy(stock') = CarriedBy(stock) \cup {k} /\ UndoneBy(stock') = UndoneBy(stock)
  <2>1. \A j \in Item : \A m \in DOMAIN stock'[j].log \ DOMAIN stock[j].log :
          stock'[j].log[m].key[1] = k /\ stock'[j].log[m].rev = 0
    BY <1>5, <1>10
  <2>2. \E j \in Item : \E m : m \in DOMAIN stock'[j].log \ DOMAIN stock[j].log
    BY <1>8, <1>10
  <2> HIDE DEF k, f
  <2> QED
    BY <2>1, <2>2, <1>2, <1>10, RowsGrown
<1>12. k \notin CarriedBy(stock)
  BY <1>1, <1>2, <1>4, NotCarried
<1>13. \A i \in Item : stock'[i].qty = stock[i].qty + Amount(f, i)
  <2>1. \A i \in Item \ {item} : stock'[i].qty = stock[i].qty /\ stock[i].qty \in Nat
    BY <1>10 DEF IInv, TypeOK, Row
  <2>2. \A i \in Item \ {item} : Amount(f, i) = 0
    BY <1>7 DEF item
  <2>3. stock'[item].qty = stock[item].qty + Amount(f, item)
    BY <1>7, <1>10 DEF item, new
  <2> HIDE DEF f
  <2> QED
    BY <2>1, <2>2, <2>3
<1>14. /\ Orders' = Orders /\ Orders[k] # None /\ Account!Shift(k, 1)
  BY <1>1, <1>2, <1>4, <1>13, Shifted
<1>15. Account!CarryOut(k)
  BY <1>11, <1>12, <1>14, BothMapped DEF Account!CarryOut
<1> QED
  BY <1>2, <1>15 DEF Account!Next
(* A movement reversed by itself undoes the form it belongs to. *)
LEMMA ReverseMapped ==
  ASSUME IInv, IInv', HInv, HInv', NEW c \in Client, ReverseMovement(c)
  PROVE  Account!Next
<1> DEFINE k    == txn[c].key
           f    == form[k]
           item == f.item
           pos  == f.pos
           row  == stock[item]
           orig == row.log[pos]
           new  == row.qty - (orig.new - orig.prev)
           key  == OwnKey(k)
           g    == orig.key[1]
           qty  == orig.qty
           type == "REVERSAL"
<1>1. /\ f.kind = "REVERSAL" /\ Allowed(k) /\ txn[c].pc = "checked" /\ form' = form
      /\ stock' = [stock EXCEPT ![item] = Posted(row, type, qty, new, key, pos)]
  BY DEF ReverseMovement, Locked
<1>2. k \in Key /\ item \in Item /\ pos # 0
  <2>1. k \in Key
    BY <1>1 DEF IInv, Started
  <2> QED
    BY <2>1, <1>1, FormFields DEF IInv, Quantity
<1>3. row \in Row /\ RowSound(form, item, row) /\ Reconciles(row)
  BY <1>2 DEF IInv, TypeOK, LedgerReconciles, HInv, HistorySound
<1>4. /\ pos \in DOMAIN row.log /\ orig.type # "REVERSAL" /\ orig.key[3] = "self"
      /\ ~Reversed(item, pos) /\ KeyUnused(k)
  BY <1>1 DEF Allowed, ReversalAllowed
<1>5. Fits(form, item, orig)
  BY <1>3, <1>4 DEF RowSound
<1>6. /\ g \in Key /\ orig.key = <<g, 0, "self">> /\ form[g].kind \in SingleRowOps
      /\ orig.type = form[g].kind /\ qty = form[g].qty /\ item = form[g].item
  BY <1>4, <1>5 DEF Fits
<1>7. qty \in Nat /\ orig.new \in Nat /\ orig.prev \in Nat /\ row.qty \in Nat
  <2> HIDE DEF row, pos
  <2>1. /\ row.log[pos].qty \in Quantity /\ row.qty \in Nat
        /\ row.log[pos].prev \in Nat /\ row.log[pos].new \in Nat
    BY <1>3, <1>4, MovementFields
  <2> QED
    BY <2>1 DEF Quantity
<1>8. orig.new = orig.prev + Effect(orig)
  BY <1>3, <1>4 DEF Reconciles
<1>9. form[g].kind # "TRANSFER"
  BY <1>6 DEF SingleRowOps
<1> HIDE DEF k, f, item, pos, row, new, key, g, qty, type
<1>10. /\ stock'[item].qty = new /\ \A j \in Item \ {item} : stock'[j] = stock[j]
       /\ \A j \in Item : Extends(stock'[j].log, stock[j].log)
       /\ \A j \in Item : \A m \in DOMAIN stock'[j].log \ DOMAIN stock[j].log :
            j = item /\ stock'[j].log[m].key = key /\ stock'[j].log[m].rev = pos
       /\ \E x : x \in DOMAIN stock'[item].log \ DOMAIN stock[item].log
  <2>1. row.log = stock[item].log
    BY DEF row
  <2> QED
    BY <2>1, <1>1, <1>2, <1>3, OneRowGrown
<1>11. stock'[item].log[pos].key[1] = g
  <2>1. stock'[item].log[pos] = stock[item].log[pos]
    BY <1>2, <1>4, <1>10 DEF Extends, row
  <2> QED
    BY <2>1 DEF g, row
<1>12. CarriedBy(stock') = CarriedBy(stock) \cup {k} /\ UndoneBy(stock') = UndoneBy(stock) \cup {g}
  <2>1. key[1] = k
    BY DEF key, OwnKey
  <2>2. \A j \in Item : \A m \in DOMAIN stock'[j].log \ DOMAIN stock[j].log :
          /\ stock'[j].log[m].key[1] = k
          /\ stock'[j].log[m].rev # 0
          /\ stock'[j].log[stock'[j].log[m].rev].key[1] = g
    BY <2>1, <1>2, <1>10, <1>11
  <2>3. \E j \in Item : \E m : m \in DOMAIN stock'[j].log \ DOMAIN stock[j].log
    BY <1>2, <1>10
  <2> QED
    BY <2>2, <2>3, <1>2, <1>6, <1>10, RowsGrown
<1>13. k \notin CarriedBy(stock)
  BY <1>1, <1>2, <1>4, NotCarried DEF f
<1>14. g \in CarriedBy(stock)
  BY <1>2, <1>4, <1>6 DEF CarriedBy, row, g
<1>15. g \notin UndoneBy(stock)
  <2> SUFFICES ASSUME NEW i \in Item, NEW m \in DOMAIN stock[i].log, stock[i].log[m].rev # 0,
                      stock[i].log[stock[i].log[m].rev].key[1] = g
               PROVE  FALSE
    BY DEF UndoneBy
  <2> DEFINE o == stock[i].log[stock[i].log[m].rev]
  <2>1. stock[i] \in Row /\ RowSound(form, i, stock[i])
    BY DEF IInv, TypeOK, HInv, HistorySound
  <2>2. stock[i].log[m].rev \in DOMAIN stock[i].log
    BY <2>1, ReversedIsThere DEF RowSound
  <2>3. Fits(form, i, o)
    BY <2>1, <2>2 DEF RowSound
  <2>4. o.key = <<g, 0, "self">>
    <3>1. /\ o.key[3] \in {"self", "out", "in", "reverse-out", "reverse-in"}
          /\ o.key = <<g, o.key[2], o.key[3]>>
          /\ o.key[3] = "self" => o.key[2] = 0
          /\ o.key[3] \in {"out", "in"} => form[g].kind = "TRANSFER"
          /\ o.key[3] \in {"reverse-out", "reverse-in"} => form[g].kind = "UNDO"
      BY <2>3 DEF Fits, LegOf, Leg
    <3>2. form[g].kind \notin {"TRANSFER", "UNDO"}
      BY <1>6 DEF SingleRowOps
    <3> HIDE DEF o
    <3> QED
      BY <3>1, <3>2
  <2>5. i = item
    <3>1. o.key[1] = g /\ o.key[3] = "self"
      BY <2>4
    <3> HIDE DEF o
    <3> QED
      BY <3>1, <2>3, <1>6 DEF Fits
  <2>6. stock[i].log[m].rev = pos
    <3>1. \A x, y \in DOMAIN row.log : row.log[x].key = row.log[y].key => x = y
      BY <1>3 DEF RowSound, KeysOnce
    <3>2. row = stock[i]
      BY <2>5 DEF row
    <3>3. /\ stock[i].log[m].rev \in DOMAIN row.log
          /\ row.log[stock[i].log[m].rev].key = row.log[pos].key
      BY <2>2, <2>4, <3>2, <1>6
    <3> HIDE DEF o, orig
    <3> QED
      BY <3>1, <3>3, <1>4
  <2> QED
    BY <2>5, <2>6, <1>4 DEF Reversed
<1>16. \A i \in Item : stock'[i].qty = stock[i].qty - Amount(form[g], i)
  <2>1. \A i : Amount(form[g], i) = IF i # item THEN 0 ELSE Effect(orig)
    BY <1>6, <1>9 DEF Amount, Effect, qty
  <2>2. Effect(orig) \in Int
    BY <1>7 DEF Effect, qty
  <2>3. stock'[item].qty = stock[item].qty - Amount(form[g], item)
    <3>1. stock[item].qty = row.qty
      BY DEF row
    <3> QED
      BY <3>1, <2>1, <2>2, <1>7, <1>8, <1>10 DEF new
  <2>4. \A i \in Item \ {item} : stock'[i].qty = stock[i].qty /\ stock[i].qty \in Nat
    BY <1>10 DEF IInv, TypeOK, Row
  <2> QED
    BY <2>1, <2>3, <2>4
<1>17. /\ Orders' = Orders /\ Orders[g] # None /\ Account!Shift(g, -1)
  <2>1. form[g].kind \notin {"REVERSAL", "UNDO"}
    BY <1>6 DEF SingleRowOps
  <2> QED
    BY <2>1, <1>1, <1>6, <1>16, Shifted
<1>18. Orders[k] = None
  BY <1>1, <1>2 DEF Orders, OrderOf, f
<1>19. Account!Undo(k, g)
  BY <1>12, <1>13, <1>14, <1>15, <1>17, <1>18, BothMapped DEF Account!Undo
<1> QED
  BY <1>2, <1>6, <1>19 DEF Account!Next
(* What a commit adds to the histories: movements of its own form, for one  *)
(* that the ledger does not know yet.                                       *)
LEMMA PublishGrown ==
  ASSUME IInv, IInv', HInv, NEW c \in Client, Publish(c), NEW k \in Key, k = txn[c].key,
         k \notin CarriedBy(stock),
         NEW i \in DOMAIN held[c], NEW x \in DOMAIN held[c][i].log, held[c][i].log[x].key[1] = k
  PROVE  /\ \A j \in Item : Extends(stock'[j].log, stock[j].log)
         /\ \A j \in Item : \A m \in DOMAIN stock'[j].log \ DOMAIN stock[j].log :
              RowSound(form, j, stock'[j]) /\ Own(txn[c], stock'[j].log[m].key)
         /\ \A j \in Item : \A m \in DOMAIN stock'[j].log \ DOMAIN stock[j].log :
              stock'[j].log[m].key[1] = k
         /\ \E j \in Item : \E m : m \in DOMAIN stock'[j].log \ DOMAIN stock[j].log
         /\ CarriedBy(stock') = CarriedBy(stock) \cup {k}
<1>1. /\ \A j \in DOMAIN held[c] : /\ j \in Item /\ stock'[j] = held[c][j]
                                   /\ Extends(held[c][j].log, stock[j].log)
      /\ \A j \in Item \ DOMAIN held[c] : stock'[j] = stock[j]
  BY RowsWritten
<1>2. \A j \in DOMAIN held[c] :
        /\ RowSound(form, j, held[c][j])
        /\ \A m \in DOMAIN held[c][j].log \ DOMAIN stock[j].log : Own(txn[c], held[c][j].log[m].key)
  BY DEF HInv, ClientSound, HeldSound
<1>3. \A j \in Item : Extends(stock'[j].log, stock[j].log)
  BY <1>1, ExtendsItself
<1>4. \A j \in Item : \A m \in DOMAIN stock'[j].log \ DOMAIN stock[j].log :
        /\ RowSound(form, j, stock'[j]) /\ Own(txn[c], stock'[j].log[m].key)
  BY <1>1, <1>2
<1>5. \A j \in Item : \A m \in DOMAIN stock'[j].log \ DOMAIN stock[j].log :
        stock'[j].log[m].key[1] = k
  BY <1>4 DEF Own
<1>6. i \in Item /\ x \in DOMAIN stock'[i].log \ DOMAIN stock[i].log
  <2>1. i \in Item /\ stock'[i] = held[c][i] /\ Extends(held[c][i].log, stock[i].log)
    BY <1>1
  <2>2. x \notin DOMAIN stock[i].log
    BY <2>1 DEF Extends, CarriedBy
  <2> QED
    BY <2>1, <2>2
<1>7. \E j \in Item : \E m : m \in DOMAIN stock'[j].log \ DOMAIN stock[j].log
  BY <1>6
<1> QED
  BY <1>3, <1>4, <1>5, <1>7, RowsGrown

(* The commit of a transfer carries out its form as a whole. *)
LEMMA CommitTransferMapped ==
  ASSUME IInv, IInv', HInv, HInv', PInv, NEW c \in Client, CommitTransfer(c)
  PROVE  Account!Next
<1>0. PICK k \in Key : k = txn[c].key
  BY DEF CommitTransfer, IInv, Started
<1> DEFINE f == form[k]
           n == txn[c].n
           last == Len(f.lines)
<1>1. /\ txn[c].pc = "lines" /\ n > last /\ Publish(c) /\ form' = form
      /\ stock' = [i \in Item |-> Seen(c, i)]
  BY <1>0 DEF CommitTransfer, Publish
<1>2. f.kind = "TRANSFER" /\ n \in Nat /\ f.lines # <<>>
  <2>1. f.kind = "TRANSFER" /\ n \in Nat
    BY <1>0, <1>1 DEF IInv, Started, TypeOK, Request
  <2>2. f \in Forms
    BY DEF IInv, TypeOK
  <2> QED
    BY <2>1, <2>2, FormsAssumption
<1>3. /\ transfers[k] = None
      /\ \A l \in DOMAIN f.lines : l < n => LineIn(held[c], f, k, l, "out", "in")
  BY <1>0, <1>1 DEF HInv, ClientSound, LinesSound
<1>4. /\ n <= last + 1
      /\ \A i \in Item : Seen(c, i).qty = stock[i].qty + Moved(f, n - 1, i)
  BY <1>0, <1>1 DEF PInv, LinesBalance
<1>5. f.lines \in Seq(TransferLine) /\ last \in Nat /\ DOMAIN f.lines = 1..last
  BY <1>2, FormFields DEF IInv
<1>6. n - 1 = last /\ 1 \in DOMAIN f.lines /\ 1 < n
  <2> DEFINE lines == f.lines
  <2>1. lines \in Seq(TransferLine) /\ lines # <<>> /\ last = Len(lines)
    BY <1>2, <1>5
  <2> HIDE DEF lines, f
  <2>2. Len(lines) # 0
    BY <2>1
  <2> QED
    BY <2>1, <2>2, <1>1, <1>2, <1>4, <1>5 DEF lines
<1>7. \A i \in Item : stock'[i].qty = stock[i].qty + Amount(f, i)
  <2>1. \A i : Moved(f, last, i) = Amount(f, i)
    BY <1>2, MovedGrows DEF IInv
  <2>2. \A i \in Item : Moved(f, n - 1, i) = Amount(f, i)
    BY <2>1, <1>6
  <2>3. \A i \in Item : stock'[i] = Seen(c, i)
    BY <1>1
  <2> HIDE DEF f, n, last
  <2> QED
    BY <2>2, <2>3, <1>4
<1>8. k \notin CarriedBy(stock)
  BY <1>2, <1>3, NotCarried
<1>9. PICK i \in DOMAIN held[c] : \E x \in DOMAIN held[c][i].log : held[c][i].log[x].key = <<k, 1, "out">>
  BY <1>3, <1>6 DEF LineIn, Has
<1>10. PICK x \in DOMAIN held[c][i].log : held[c][i].log[x].key[1] = k
  BY <1>9
<1> HIDE DEF f, n, last
<1>11. /\ \A j \in Item : Extends(stock'[j].log, stock[j].log)
       /\ \A j \in Item : \A m \in DOMAIN stock'[j].log \ DOMAIN stock[j].log :
            RowSound(form, j, stock'[j]) /\ Own(txn[c], stock'[j].log[m].key)
       /\ \A j \in Item : \A m \in DOMAIN stock'[j].log \ DOMAIN stock[j].log :
            stock'[j].log[m].key[1] = k
       /\ \E j \in Item : \E m : m \in DOMAIN stock'[j].log \ DOMAIN stock[j].log
       /\ CarriedBy(stock') = CarriedBy(stock) \cup {k}
  BY <1>0, <1>1, <1>8, <1>10, PublishGrown
<1>12. UndoneBy(stock') = UndoneBy(stock)
  <2>1. ASSUME NEW j \in Item, NEW m \in DOMAIN stock'[j].log \ DOMAIN stock[j].log
        PROVE  stock'[j].log[m].rev = 0
    <3>1. Fits(form, j, stock'[j].log[m]) /\ ReversesOnce(stock'[j])
      BY <1>11 DEF RowSound
    <3>2. stock'[j].log[m].key[3] \in {"out", "in"}
      BY <1>1, <1>11 DEF Own
    <3>3. stock'[j].log[m].type # "REVERSAL"
      BY <3>1, <3>2 DEF Fits
    <3> QED
      BY <3>1, <3>3 DEF ReversesOnce
  <2> QED
    BY <2>1, <1>11, RowsGrown
<1>13. /\ Orders' = Orders /\ Orders[k] # None /\ Account!Shift(k, 1)
  BY <1>1, <1>2, <1>7, Shifted DEF f
<1>14. Account!CarryOut(k)
  BY <1>8, <1>11, <1>12, <1>13, BothMapped DEF Account!CarryOut
<1> QED
  BY <1>14 DEF Account!Next
(* Only a recorded reversal undoes movements of a transfer. *)
LEMMA TransferNotUndone ==
  ASSUME IInv, HInv, NEW t \in Key, form[t].kind = "TRANSFER", transfers[t].status = "completed"
  PROVE  t \notin UndoneBy(stock)
<1> SUFFICES ASSUME NEW i \in Item, NEW m \in DOMAIN stock[i].log, stock[i].log[m].rev # 0,
                    stock[i].log[stock[i].log[m].rev].key[1] = t
             PROVE  FALSE
  BY DEF UndoneBy
<1> DEFINE r == stock[i].log[m]
           o == stock[i].log[r.rev]
<1>1. stock[i] \in Row /\ RowSound(form, i, stock[i]) /\ KeyCommitted(form, transfers, r.key)
  BY DEF IInv, TypeOK, HInv, HistorySound
<1>2. r.rev \in DOMAIN stock[i].log
  BY <1>1, ReversedIsThere DEF RowSound
<1>3. /\ Fits(form, i, r) /\ Fits(form, i, o) /\ Undoes(form, r, o) /\ r.type = "REVERSAL"
  BY <1>1, <1>2 DEF RowSound, ReversesOnce
<1> HIDE DEF r, o
<1>4. o.key[3] \in {"out", "in"}
  <2>1. /\ o.key[3] \in {"self", "out", "in", "reverse-out", "reverse-in"}
        /\ o.key[3] = "self" => form[t].kind \in SingleRowOps \cup {"REVERSAL"}
        /\ o.key[3] \in {"reverse-out", "reverse-in"} => form[t].kind = "UNDO"
    BY <1>3 DEF Fits, Leg, o, r
  <2> QED
    BY <2>1 DEF SingleRowOps
<1>5. r.key[3] \in {"reverse-out", "reverse-in"}
  <2>1. /\ r.key[3] \in {"self", "out", "in", "reverse-out", "reverse-in"}
        /\ r.key[3] \notin {"out", "in"}
    BY <1>3 DEF Fits, Leg
  <2>2. r.key[3] # "self"
    BY <1>3, <1>4 DEF Undoes
  <2> QED
    BY <2>1, <2>2
<1>6. form[r.key[1]].of = t
  <2>1. o.key[1] = form[r.key[1]].of
    BY <1>3, <1>5 DEF Undoes
  <2> QED
    BY <2>1 DEF o, r
<1> QED
  BY <1>1, <1>5, <1>6 DEF KeyCommitted

(* The commit of a reversal undoes a whole transfer. *)
LEMMA CommitUndoMapped ==
  ASSUME IInv, IInv', HInv, HInv', PInv, NEW c \in Client, CommitUndo(c)
  PROVE  Account!Next
<1>0. PICK k \in Key : k = txn[c].key
  BY DEF CommitUndo, IInv, Started
<1> DEFINE t == form[k].of
           f == form[t]
           last == Len(f.lines)
<1>1. /\ txn[c].pc = "undo" /\ txn[c].n = 0 /\ Publish(c) /\ form' = form
      /\ stock' = [i \in Item |-> Seen(c, i)]
  BY <1>0 DEF CommitUndo, Publish
<1>2. /\ form[k].kind = "UNDO" /\ t \in Key /\ f.kind = "TRANSFER" /\ f = UndoAt(c)
  <2>1. form[k].kind = "UNDO" /\ f.kind = "TRANSFER" /\ f = UndoAt(c)
    BY <1>0, <1>1 DEF IInv, Started, UndoAt
  <2> QED
    BY <2>1, FormFields DEF IInv
<1>3. f.lines \in Seq(TransferLine) /\ f.lines # <<>>
  <2>1. f \in Forms
    BY <1>2 DEF IInv, TypeOK
  <2> QED
    BY <2>1, <1>2, FormFields, FormsAssumption DEF IInv
<1>4. 1 \in DOMAIN f.lines
  <2> DEFINE lines == f.lines
  <2>1. lines \in Seq(TransferLine) /\ lines # <<>>
    BY <1>3
  <2> HIDE DEF lines
  <2>2. 1 \in DOMAIN lines
    BY <2>1
  <2> QED
    BY <2>2 DEF lines
<1>5. /\ transfers[t] # None /\ transfers[t].status = "completed"
      /\ LineIn(held[c], f, k, 1, "reverse-out", "reverse-in")
  BY <1>0, <1>1, <1>4 DEF HInv, ClientSound, UndoSound
<1>6. \A i \in Item : stock'[i].qty = stock[i].qty - Amount(f, i)
  <2>1. \A i \in Item : Seen(c, i).qty + Moved(f, last, i) = stock[i].qty + Moved(f, 0, i)
    BY <1>1, <1>2 DEF PInv, UndoBalance
  <2>2. \A i \in Item : /\ Moved(f, last, i) = Amount(f, i) /\ Moved(f, 0, i) = 0
                        /\ Amount(f, i) \in Int
    BY <1>2, MovedGrows DEF IInv
  <2>3. \A i \in Item : stock'[i] = Seen(c, i)
    BY <1>1
  <2>4. \A i \in Item : stock'[i].qty \in Nat /\ stock[i].qty \in Nat
    BY DEF IInv, TypeOK, Row
  <2>5. \A i \in Item : stock'[i].qty + Amount(f, i) = stock[i].qty + 0
    BY <2>1, <2>2, <2>3
  <2> HIDE DEF f
  <2> QED
    BY <2>2, <2>4, <2>5
<1>7. k \notin CarriedBy(stock)
  BY <1>2, <1>5, NotCarried
<1>8. PICK i \in DOMAIN held[c] :
        \E x \in DOMAIN held[c][i].log : held[c][i].log[x].key = <<k, 1, "reverse-out">>
  BY <1>5 DEF LineIn, Has
<1>9. PICK x \in DOMAIN held[c][i].log : held[c][i].log[x].key[1] = k
  BY <1>8
<1>10. /\ \A j \in Item : Extends(stock'[j].log, stock[j].log)
       /\ \A j \in Item : \A m \in DOMAIN stock'[j].log \ DOMAIN stock[j].log :
            RowSound(form, j, stock'[j]) /\ Own(txn[c], stock'[j].log[m].key)
       /\ \A j \in Item : \A m \in DOMAIN stock'[j].log \ DOMAIN stock[j].log :
            stock'[j].log[m].key[1] = k
       /\ \E j \in Item : \E m : m \in DOMAIN stock'[j].log \ DOMAIN stock[j].log
       /\ CarriedBy(stock') = CarriedBy(stock) \cup {k}
  BY <1>0, <1>1, <1>7, <1>9, PublishGrown
<1>11. UndoneBy(stock') = UndoneBy(stock) \cup {t}
  <2>1. ASSUME NEW j \in Item, NEW m \in DOMAIN stock'[j].log \ DOMAIN stock[j].log
        PROVE  /\ stock'[j].log[m].rev # 0
               /\ stock'[j].log[stock'[j].log[m].rev].key[1] = t
    <3> DEFINE row == stock'[j]
               r == row.log[m]
    <3>1. Fits(form, j, r) /\ ReversesOnce(row) /\ (r.rev # 0 => Undoes(form, r, row.log[r.rev]))
      BY <1>10 DEF RowSound
    <3>2. r.key[3] \in {"reverse-out", "reverse-in"} /\ r.key[1] = k
      BY <1>1, <1>10 DEF Own
    <3>3. r.type = "REVERSAL"
      BY <3>1, <3>2 DEF Fits
    <3>4. r.rev # 0
      BY <3>1, <3>3 DEF ReversesOnce
    <3> HIDE DEF row, r, t
    <3>5. row.log[r.rev].key[1] = form[k].of
      BY <3>1, <3>2, <3>4 DEF Undoes
    <3> QED
      BY <3>4, <3>5 DEF row, r, t
  <2> HIDE DEF t
  <2> QED
    BY <2>1, <1>2, <1>10, RowsGrown
<1>12. t \in CarriedBy(stock)
  <2>1. LineIn(stock, f, t, 1, "out", "in")
    BY <1>2, <1>4, <1>5 DEF HInv, Whole
  <2>2. PICK j \in Item : \E m \in DOMAIN stock[j].log : stock[j].log[m].key = <<t, 1, "out">>
    BY <2>1 DEF LineIn, Has, IInv, TypeOK
  <2>3. PICK m \in DOMAIN stock[j].log : stock[j].log[m].key[1] = t
    BY <2>2
  <2> QED
    BY <2>3, <1>2 DEF CarriedBy
<1>13. t \notin UndoneBy(stock)
  BY <1>2, <1>5, TransferNotUndone
<1> HIDE DEF t
<1>14. /\ Orders' = Orders /\ Orders[t] # None /\ Account!Shift(t, -1)
  BY <1>1, <1>2, <1>6, Shifted
<1>15. Orders[k] = None
  BY <1>2 DEF Orders, OrderOf
<1>16. Account!Undo(k, t)
  BY <1>7, <1>10, <1>11, <1>12, <1>13, <1>14, <1>15, BothMapped DEF Account!Undo
<1> QED
  BY <1>2, <1>16 DEF Account!Next

(* Every other step leaves the account as it is. *)
LEMMA NothingMapped ==
  ASSUME stock \in [Item -> Row], stock' \in [Item -> Row], form' = form,
         \A i \in Item : stock'[i].qty = stock[i].qty /\ stock'[i].log = stock[i].log
  PROVE  UNCHANGED <<Balance, Orders, Carried, Undone>>
<1>1. Balance' = Balance
  BY DEF Balance
<1>2. Orders' = Orders
  BY DEF Orders, OrderOf
<1>3. Movements' = Movements /\ ReversedMovements' = ReversedMovements
  BY DEF Movements, ReversedMovements
<1> QED
  BY <1>1, <1>2, <1>3 DEF Carried, Undone, FormsOf

LEMMA NextMapped ==
  ASSUME IInv, IInv', HInv, HInv', PInv, [Next]_vars
  PROVE  [Account!Next]_<<Balance, Orders, Carried, Undone>>
<1>1. stock \in [Item -> Row] /\ stock' \in [Item -> Row]
  BY DEF IInv, TypeOK
<1>2. UNCHANGED <<stock, form>> => UNCHANGED <<Balance, Orders, Carried, Undone>>
  BY <1>1, NothingMapped
<1>3. ASSUME NEW c \in Client, \/ \E k \in Key : Submit(c, k)
                               \/ Refuse(c) \/ BeginTransfer(c) \/ MoveLine(c) \/ RefuseLine(c)
                               \/ BeginUndo(c) \/ UndoLine(c) \/ RefuseUndoLine(c) \/ Abort(c)
      PROVE  UNCHANGED <<stock, form>>
  BY <1>3 DEF Submit, Refuse, BeginTransfer, MoveLine, RefuseLine, BeginUndo, UndoLine,
              RefuseUndoLine, Abort, RollBack
<1>4. CASE Lifecycle
  <2>1. form' = form
    BY <1>4 DEF Lifecycle, ArchiveItem, RestoreItem, TrashItem, UntrashItem, CheckCompletion,
                CompleteProject, SetProjectStatus
  <2>2. \A i \in Item : stock'[i].qty = stock[i].qty /\ stock'[i].log = stock[i].log
    <3>1. ASSUME NEW i \in Item, ArchiveItem(i) \/ RestoreItem(i) \/ TrashItem(i) \/ UntrashItem(i)
          PROVE  \A j \in Item : stock'[j].qty = stock[j].qty /\ stock'[j].log = stock[j].log
      <4>1. \A j \in Item \ {i} : stock'[j] = stock[j]
        BY <3>1, <1>1 DEF ArchiveItem, RestoreItem, TrashItem, UntrashItem
      <4>2. \/ \E s : stock'[i] = [stock[i] EXCEPT !.status = s]
            \/ \E s : stock'[i] = [stock[i] EXCEPT !.trashed = s]
        BY <3>1, <1>1 DEF ArchiveItem, RestoreItem, TrashItem, UntrashItem
      <4>3. stock[i] \in Row
        BY <1>1
      <4>4. stock'[i].qty = stock[i].qty /\ stock'[i].log = stock[i].log
        BY <4>2, <4>3 DEF Row
      <4> QED
        BY <4>1, <4>4
    <3>2. ASSUME NEW l \in Location, \/ CheckCompletion(l) \/ CompleteProject(l)
                                     \/ \E s \in {"active", "on_hold"} : SetProjectStatus(l, s)
          PROVE  stock' = stock
      BY <3>2 DEF CheckCompletion, CompleteProject, SetProjectStatus
    <3> QED
      BY <3>1, <3>2, <1>4 DEF Lifecycle
  <2> QED
    BY <2>1, <2>2, <1>1, NothingMapped
<1>5. CASE UNCHANGED vars
  BY <1>5, <1>2 DEF vars
<1>6. ASSUME NEW c \in Client, Step(c) \/ Abort(c) \/ \E k \in Key : Submit(c, k)
      PROVE  Account!Next \/ UNCHANGED <<Balance, Orders, Carried, Undone>>
  <2>1. CASE PostSingle(c)
    BY <2>1, SingleMapped
  <2>2. CASE ReverseMovement(c)
    BY <2>2, ReverseMapped
  <2>3. CASE CommitTransfer(c)
    BY <2>3, CommitTransferMapped
  <2>4. CASE CommitUndo(c)
    BY <2>4, CommitUndoMapped
  <2> QED
    BY <2>1, <2>2, <2>3, <2>4, <1>2, <1>3, <1>6 DEF Step
<1> QED
  BY <1>4, <1>5, <1>6 DEF Next

LEMMA InitMapped == Init => Account!Init
<1> SUFFICES ASSUME Init PROVE Account!Init
  OBVIOUS
<1>1. TypeOK
  BY InitIInv DEF IInv
<1>2. Absent.qty = 0 /\ Absent.log = <<>> /\ DOMAIN <<>> = {}
  BY DEF Absent
<1>3. \A i \in Item : stock[i] = Absent
  BY DEF Init
<1>4. Balance = [i \in Item |-> 0]
  BY <1>2, <1>3 DEF Balance
<1>5. Orders \in [Key -> [Item -> Int] \cup {None}]
  <2>1. ASSUME NEW k \in Key PROVE OrderOf(k) \in [Item -> Int] \cup {None}
    BY <1>1, AmountType DEF OrderOf
  <2> QED
    BY <2>1 DEF Orders
<1>6. Carried = {} /\ Undone = {}
  <2>1. \A i \in Item : DOMAIN stock[i].log = {}
    BY <1>2, <1>3
  <2> QED
    BY <2>1 DEF Carried, Undone, FormsOf, Movements, ReversedMovements
<1> QED
  BY <1>4, <1>5, <1>6 DEF Account!Init

(* Whatever the interleaving of requests, aborts and archive, Trash and     *)
(* project steps, every committed balance is reached by carrying out whole  *)
(* forms, each at most once, and undoing whole forms, each at most once:    *)
(* the services of stock.py and transfers.py implement StockAccount.        *)
THEOREM PromiseAlwaysKept == Spec => KeepsPromise
<1> DEFINE Inv == IInv /\ HInv /\ PInv
<1>1. Init => PInv
  BY InitPInv
<1>2. (IInv /\ HInv /\ QInv) /\ (IInv /\ HInv /\ QInv)' /\ PInv /\ [Next]_vars => PInv'
  BY NextKeepsPInv
<1>3. Inv /\ Inv' /\ [Next]_vars => [Account!Next]_<<Balance, Orders, Carried, Undone>>
  BY NextMapped
<1>4. Spec => [](IInv /\ HInv /\ QInv)
  BY StepsWriteSoundly, PTL
<1> QED
  BY <1>1, <1>2, <1>3, <1>4, InitMapped, PTL DEF Spec, KeepsPromise, Account!Spec
=============================================================================
