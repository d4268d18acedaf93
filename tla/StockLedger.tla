---------------------------- MODULE StockLedger ----------------------------
(***************************************************************************)
(* The inventory ledger: apps/inventory/services/stock.py, transfers.py    *)
(* and lifecycle.py, with the project statuses that open and close a       *)
(* location.                                                               *)
(*                                                                         *)
(* A StockItem row and its StockMovement rows are one record of `stock`.   *)
(* Requests run concurrently on PostgreSQL in READ COMMITTED.  The         *)
(* idempotency lookup runs before any lock is taken (Submit); the body of  *)
(* a single-row operation runs under the row lock and is one step.  A      *)
(* transfer locks several rows: `held[c]` is the set of rows client c has  *)
(* locked, with what it has written to them; Commit makes it visible and   *)
(* Abort (a crash, or PostgreSQL breaking a deadlock) discards it.         *)
(*                                                                         *)
(* Dates, prices, units, texts and permissions are left out.               *)
(***************************************************************************)
EXTENDS Integers, Sequences, FiniteSets

CONSTANTS Location,   \* inventory locations
          Office,     \* those of them that belong to no project
          Material,   \* material and supplier of an identity
          Client,     \* concurrent requests
          Key,        \* idempotency keys, one per rendered form
          Forms,      \* what the forms ask for
          None        \* no key, no transfer

Condition == {"new", "used", "no_value"}
Outcome   == Condition \cup {"lost"}

(* The unique identity of a stock record, deleted rows included. *)
Item == [loc : Location, mat : Material, cond : Condition]

Quantity == Nat \ {0}

InboundTypes  == {"OPENING", "ADDITION", "ADJUSTMENT_IN", "TRANSFER_IN"}
OutboundTypes == {"USAGE", "ADJUSTMENT_OUT", "TRANSFER_OUT", "LOSS"}
SingleRowOps  == {"OPENING", "ADDITION", "USAGE", "ADJUSTMENT_IN", "ADJUSTMENT_OUT"}

TransferLine == [item : Item, outcome : Outcome, qty : Quantity]

Operation ==
       [kind : SingleRowOps, item : Item, qty : Quantity]
  \cup [kind : {"REVERSAL"}, item : Item, pos : Quantity]
  \cup [kind : {"TRANSFER"}, src : Location, dst : Location, lines : Seq(TransferLine)]
  \cup [kind : {"UNDO"}, of : Key]

ASSUME LocationAssumption == Office \subseteq Location
ASSUME NoneAssumption     == None \notin Key
ASSUME FormsAssumption    ==
  /\ Forms \subseteq Operation
  /\ \A f \in Forms : f.kind = "TRANSFER" =>
       /\ f.src # f.dst /\ f.lines # <<>>
       /\ \A n \in DOMAIN f.lines : f.lines[n].item.loc = f.src
  /\ \A f \in Forms : f.kind = "ADDITION" => f.item.cond \in {"new", "used"}

VARIABLES stock,       \* [Item -> Row]: committed stock records with their movements
          transfers,   \* [Key -> Transfer or None]: committed transfers by idempotency key
          site,        \* [Location -> project status]
          completing,  \* projects whose completion check has passed and is not yet written
          form,        \* [Key -> Forms]: the operation each rendered form asks for
          txn,         \* [Client -> request in progress]
          held         \* [Client -> locked rows, with the client's own writes]

vars == <<stock, transfers, site, completing, form, txn, held>>

----------------------------------------------------------------------------
(* Data *)

Leg == {"self", "out", "in", "reverse-out", "reverse-in"}

MovementKey == Key \X Nat \X Leg

Movement == [type : InboundTypes \cup OutboundTypes \cup {"REVERSAL"},
             qty : Quantity, prev : Nat, new : Nat, key : MovementKey,
             rev : Nat]          \* reversal_of: a position in the same log, 0 if none

Row == [status : {"absent", "active", "archived"}, trashed : BOOLEAN,
        qty : Nat, log : Seq(Movement)]

Transfer == [status : {"completed", "reversed"}, revKey : Key \cup {None}]

ASSUME NoTransferAssumption == None \notin Transfer

(* A request: the key of its form, and the line its loop is at. *)
Request == [pc : {"idle", "checked", "lines", "undo"}, key : Key \cup {None}, n : Nat]

Idle == [pc |-> "idle", key |-> None, n |-> 0]

Absent == [status |-> "absent", trashed |-> FALSE, qty |-> 0, log |-> <<>>]

TypeOK ==
  /\ stock \in [Item -> Row]
  /\ transfers \in [Key -> Transfer \cup {None}]
  /\ site \in [Location -> {"active", "on_hold", "completed"}]
  /\ completing \in SUBSET Location
  /\ form \in [Key -> Forms]
  /\ txn \in [Client -> Request]
  /\ \A c \in Client : /\ DOMAIN held[c] \subseteq Item
                       /\ \A i \in DOMAIN held[c] : held[c][i] \in Row
  /\ DOMAIN held = Client

NoRows == [i \in {} |-> Absent]

Init ==
  /\ stock = [i \in Item |-> Absent]
  /\ transfers = [k \in Key |-> None]
  /\ site = [l \in Location |-> "active"]
  /\ completing = {}
  /\ form \in [Key -> Forms]
  /\ txn = [c \in Client |-> Idle]
  /\ held = [c \in Client |-> NoRows]

----------------------------------------------------------------------------
(* Rules the handlers share *)

Accepts(l) == site[l] = "active"

(* Mutant of ActiveRow: the status is not looked at. *)
ActiveRowUntrashed(row) == row.status # "absent" /\ ~row.trashed

ActiveRow(row) == row.status = "active" /\ ~row.trashed

(* _require_active_stock_item on the locked row *)
TakesActivity(i) == ActiveRow(stock[i]) /\ Accepts(i.loc)

(* Mutant of Posted: the cached balance is not saved. *)
PostedUnsaved(row, type, qty, new, key, rev) ==
  [row EXCEPT !.log = Append(@, [type |-> type, qty |-> qty, prev |-> row.qty,
                                 new |-> new, key |-> key, rev |-> rev])]

(* _create_movement and _save_balance: the movement and the cached balance. *)
Posted(row, type, qty, new, key, rev) ==
  [row EXCEPT !.qty = new,
              !.log = Append(@, [type |-> type, qty |-> qty, prev |-> row.qty,
                                 new |-> new, key |-> key, rev |-> rev])]

(* StockMovement.clean and the check constraints on its balances. *)
Storable(balance) == balance >= 0

OwnKey(k) == <<k, 0, "self">>

MovementRecorded(k) ==
  \E i \in Item : \E m \in DOMAIN stock[i].log : stock[i].log[m].key = OwnKey(k)

(* The idempotency lookup each operation makes before it takes a lock. *)
Recorded(k) ==
  CASE form[k].kind = "TRANSFER" -> transfers[k] # None
    [] form[k].kind = "UNDO"     -> \E t \in Key : transfers[t] # None /\ transfers[t].revKey = k
    [] OTHER                     -> MovementRecorded(k)

Reversed(i, pos) ==
  \E m \in DOMAIN stock[i].log : stock[i].log[m].rev = pos

(* The stock record the units of a line arrive in; none for lost units. *)
Destination(f, n) ==
  [loc |-> f.dst, mat |-> f.lines[n].item.mat, cond |-> f.lines[n].outcome]

Arrives(f, n) == f.lines[n].outcome # "lost"

SourceRows(f) == {f.lines[n].item : n \in DOMAIN f.lines}

ArrivalRows(f) == {Destination(f, n) : n \in {m \in DOMAIN f.lines : Arrives(f, m)}}

----------------------------------------------------------------------------
(* Locks.  `held` is both the lock table and each transaction's view of the *)
(* rows it has locked.  A transfer also holds its two locations.            *)

(* Mutant of Free: rows are read without FOR UPDATE. *)
FreeAlways(c, i) == TRUE

Free(c, i) == \A d \in Client \ {c} : i \notin DOMAIN held[d]

LocationFree(c, l) ==
  \A d \in Client \ {c} :
    txn[d].pc = "lines" => l \notin {form[txn[d].key].src, form[txn[d].key].dst}

LocationsLocked(f) ==
  CASE f.kind = "ADDITION" -> {f.item.loc}
    [] f.kind = "TRANSFER" -> {f.src, f.dst}
    [] OTHER               -> {}

RowsLocked(f) ==
  CASE f.kind = "TRANSFER" -> SourceRows(f)
    [] f.kind = "UNDO"     -> SourceRows(form[f.of]) \cup ArrivalRows(form[f.of])
    [] OTHER               -> {f.item}

CanLock(c, f) == /\ \A i \in RowsLocked(f) : Free(c, i)
                 /\ \A l \in LocationsLocked(f) : LocationFree(c, l)

(* What the code checks after it has the locks: everything below that can  *)
(* raise, in the operation that the form of key k asks for.  A movement    *)
(* whose key is already there fails StockMovement.full_clean.              *)
SourceTotal(f, i) ==
  LET total[n \in 0..Len(f.lines)] ==
        IF n = 0 THEN 0
        ELSE total[n-1] + IF f.lines[n].item = i THEN f.lines[n].qty ELSE 0
  IN  total[Len(f.lines)]

AdditionAllowed(f) ==
  /\ Accepts(f.item.loc)
  /\ stock[f.item].status = "absent" \/ TakesActivity(f.item)

OpeningAllowed(f) == TakesActivity(f.item) /\ stock[f.item].log = <<>>

(* Mutant of UsageAllowed: the balance under the lock is not looked at. *)
UsageAllowedUnchecked(f) == TakesActivity(f.item)

UsageAllowed(f) == TakesActivity(f.item) /\ f.qty <= stock[f.item].qty

(* Mutant of ReversalAllowed: no look for an earlier reversal. *)
ReversalAllowedAgain(f) ==
  LET original == stock[f.item].log[f.pos] IN
  /\ original.type # "REVERSAL" /\ original.key[3] = "self"
  /\ TakesActivity(f.item)
  /\ stock[f.item].qty - (original.new - original.prev) >= 0

ReversalAllowed(f) ==
  LET original == stock[f.item].log[f.pos] IN
  /\ f.pos \in DOMAIN stock[f.item].log
  /\ original.type # "REVERSAL"
  /\ original.key[3] = "self"                           \* no transfer_line
  /\ ~Reversed(f.item, f.pos)
  /\ TakesActivity(f.item)
  /\ stock[f.item].qty - (original.new - original.prev) >= 0

TransferAllowed(k) ==
  LET f == form[k] IN
  /\ Accepts(f.src) /\ Accepts(f.dst)
  /\ \A i \in SourceRows(f) : ActiveRow(stock[i]) /\ SourceTotal(f, i) <= stock[i].qty
  /\ transfers[k] = None

UndoAllowed(f) ==
  LET t == form[f.of] IN
  /\ transfers[f.of] # None
  /\ transfers[f.of].status = "completed"
  /\ Accepts(t.src) /\ Accepts(t.dst)
  /\ \A n \in DOMAIN t.lines :
        Arrives(t, n) => t.lines[n].qty <= stock[Destination(t, n)].qty

(* Mutant of KeyUnused: no unique key on StockMovement. *)
KeyUnusedUnchecked(k) == TRUE

KeyUnused(k) == ~MovementRecorded(k)

Allowed(k) ==
  LET f == form[k] IN
  CASE f.kind = "ADDITION"      -> AdditionAllowed(f) /\ KeyUnused(k)
    [] f.kind = "OPENING"       -> OpeningAllowed(f) /\ KeyUnused(k)
    [] f.kind = "ADJUSTMENT_IN" -> TakesActivity(f.item) /\ KeyUnused(k)
    [] f.kind \in {"USAGE", "ADJUSTMENT_OUT"} -> UsageAllowed(f) /\ KeyUnused(k)
    [] f.kind = "REVERSAL"      -> ReversalAllowed(f) /\ KeyUnused(k)
    [] f.kind = "TRANSFER"      -> TransferAllowed(k)
    [] f.kind = "UNDO"          -> UndoAllowed(f)

----------------------------------------------------------------------------
(* Requests *)

(* The record a form is about is there when the form is rendered. *)
Renderable(f) ==
  CASE f.kind = "ADDITION" -> Accepts(f.item.loc)        \* checked again, unlocked
    [] f.kind = "REVERSAL" -> f.pos \in DOMAIN stock[f.item].log
    [] f.kind = "UNDO"     -> form[f.of].kind = "TRANSFER" /\ transfers[f.of] # None
    [] f.kind = "TRANSFER" -> \A i \in SourceRows(f) : stock[i].status # "absent"
    [] OTHER               -> stock[f.item].status # "absent"

(* A form is submitted, once or again, and its key is not found.  A key     *)
(* that is found is answered with the recorded result: nothing changes.     *)
Submit(c, k) ==
  /\ txn[c].pc = "idle"
  /\ Renderable(form[k])
  /\ ~Recorded(k)
  /\ txn' = [txn EXCEPT ![c] = [pc |-> "checked", key |-> k, n |-> 0]]
  /\ UNCHANGED <<stock, transfers, site, completing, form, held>>

Finish(c) == txn' = [txn EXCEPT ![c] = Idle]

Locked(c) == txn[c].pc = "checked" /\ CanLock(c, form[txn[c].key])

(* An InventoryOperationError or a ValidationError under the locks. *)
Refuse(c) ==
  /\ Locked(c)
  /\ ~Allowed(txn[c].key)
  /\ Finish(c)
  /\ UNCHANGED <<stock, transfers, site, completing, form, held>>

NewBalance(f) ==
  IF f.kind \in InboundTypes THEN stock[f.item].qty + f.qty ELSE stock[f.item].qty - f.qty

(* add_stock, add_opening_stock, use_stock and adjust_stock.  Only         *)
(* add_stock meets an absent row, which it creates.                        *)
PostSingle(c) ==
  LET k == txn[c].key
      f == form[k] IN
  /\ Locked(c)
  /\ f.kind \in SingleRowOps
  /\ Allowed(k)
  /\ stock' = [stock EXCEPT ![f.item] =
                  Posted([@ EXCEPT !.status = "active"], f.kind, f.qty, NewBalance(f), OwnKey(k), 0)]
  /\ Finish(c)
  /\ UNCHANGED <<transfers, site, completing, form, held>>

ReverseMovement(c) ==
  LET k == txn[c].key
      f == form[k]
      original == stock[f.item].log[f.pos] IN
  /\ Locked(c)
  /\ f.kind = "REVERSAL"
  /\ Allowed(k)
  /\ stock' = [stock EXCEPT ![f.item] =
                  Posted(@, "REVERSAL", original.qty, @.qty - (original.new - original.prev),
                         OwnKey(k), f.pos)]
  /\ Finish(c)
  /\ UNCHANGED <<transfers, site, completing, form, held>>

(* transfer_stock: both locations and the source rows are locked and       *)
(* checked, and the StockTransfer row is written.                          *)
BeginTransfer(c) ==
  LET k == txn[c].key IN
  /\ Locked(c)
  /\ form[k].kind = "TRANSFER"
  /\ Allowed(k)
  /\ held' = [held EXCEPT ![c] = [i \in SourceRows(form[k]) |-> stock[i]]]
  /\ txn' = [txn EXCEPT ![c].pc = "lines", ![c].n = 1]
  /\ UNCHANGED <<stock, transfers, site, completing, form>>

(* The row as this transaction sees it, locking it if it is not yet held. *)
Seen(c, i) == IF i \in DOMAIN held[c] THEN held[c][i] ELSE stock[i]

(* _destination_item: an exact match in Trash or archived is refused. *)
ArrivalRefused(c, i) == LET row == Seen(c, i) IN row.trashed \/ row.status = "archived"

AtLine(c) == txn[c].pc = "lines" /\ txn[c].n <= Len(form[txn[c].key].lines)

(* The lock on the destination row is granted. *)
ArrivalLocked(c) ==
  LET f == form[txn[c].key] IN
  Arrives(f, txn[c].n) => Free(c, Destination(f, txn[c].n))

LineAllowed(c) ==
  LET f == form[txn[c].key]
      line == f.lines[txn[c].n] IN
  /\ Storable(held[c][line.item].qty - line.qty)
  /\ Arrives(f, txn[c].n) => ~ArrivalRefused(c, Destination(f, txn[c].n))

(* One line: the units leave the source row and arrive in the destination  *)
(* row, which is created when there is none.                               *)
MoveLine(c) ==
  LET k    == txn[c].key
      f    == form[k]
      n    == txn[c].n
      line == f.lines[n]
      src  == held[c][line.item]
      dest == Destination(f, n)
      out  == Posted(src, IF Arrives(f, n) THEN "TRANSFER_OUT" ELSE "LOSS",
                     line.qty, src.qty - line.qty, <<k, n, "out">>, 0)
      inn  == Posted([Seen(c, dest) EXCEPT !.status = "active"], "TRANSFER_IN",
                     line.qty, Seen(c, dest).qty + line.qty, <<k, n, "in">>, 0) IN
  /\ AtLine(c) /\ ArrivalLocked(c) /\ LineAllowed(c)
  /\ held' = [held EXCEPT ![c] =
                 [i \in DOMAIN held[c] \cup (IF Arrives(f, n) THEN {dest} ELSE {}) |->
                    IF i = line.item THEN out
                    ELSE IF Arrives(f, n) /\ i = dest THEN inn ELSE held[c][i]]]
  /\ txn' = [txn EXCEPT ![c].n = n + 1]
  /\ UNCHANGED <<stock, transfers, site, completing, form>>

RollBack(c) ==
  /\ Finish(c)
  /\ held' = [held EXCEPT ![c] = NoRows]
  /\ UNCHANGED <<stock, transfers, site, completing, form>>

(* Mutant of RefuseLine: a retired destination row is waited for. *)
RefuseLineNever(c) == FALSE

RefuseLine(c) ==
  /\ AtLine(c) /\ ArrivalLocked(c) /\ ~LineAllowed(c)
  /\ RollBack(c)

(* The end of transaction.atomic(): every row written becomes visible. *)
Publish(c) ==
  /\ stock' = [i \in Item |-> Seen(c, i)]
  /\ held' = [held EXCEPT ![c] = NoRows]
  /\ Finish(c)
  /\ UNCHANGED <<site, completing, form>>

(* Mutant of CommitTransfer: a part of the lines is committed. *)
CommitTransferEarly(c) ==
  LET k == txn[c].key IN
  /\ txn[c].pc = "lines"
  /\ transfers' = [transfers EXCEPT ![k] = [status |-> "completed", revKey |-> None]]
  /\ Publish(c)

CommitTransfer(c) ==
  LET k == txn[c].key IN
  /\ txn[c].pc = "lines" /\ txn[c].n > Len(form[k].lines)
  /\ transfers' = [transfers EXCEPT ![k] = [status |-> "completed", revKey |-> None]]
  /\ Publish(c)

(* reverse_transfer: the transfer row and all its stock rows are locked    *)
(* together.  Neither the status nor the trash mark of a row is looked at. *)
BeginUndo(c) ==
  LET f == form[txn[c].key] IN
  /\ Locked(c)
  /\ f.kind = "UNDO"
  /\ Allowed(txn[c].key)
  /\ held' = [held EXCEPT ![c] = [i \in RowsLocked(f) |-> stock[i]]]
  /\ txn' = [txn EXCEPT ![c].pc = "undo", ![c].n = Len(form[f.of].lines)]
  /\ UNCHANGED <<stock, transfers, site, completing, form>>

(* The movement of a transfer line that is to be reversed. *)
Originals(row, key) == {m \in DOMAIN row.log : row.log[m].key = key}

(* A row with one leg of a line undone, when it has that leg. *)
LegUndone(row, original, shift, qty, key) ==
  IF Originals(row, original) = {} THEN row
  ELSE Posted(row, "REVERSAL", qty, row.qty + shift, key,
              CHOOSE m \in Originals(row, original) : TRUE)

UndoAt(c) == form[form[txn[c].key].of]

AtUndo(c) == txn[c].pc = "undo" /\ txn[c].n > 0

UndoLineAllowed(c) ==
  LET f == UndoAt(c)
      n == txn[c].n IN
  Arrives(f, n) => Storable(held[c][Destination(f, n)].qty - f.lines[n].qty)

(* The lines from the last to the first: the arrival is undone, then the   *)
(* departure; a balance below zero fails StockMovement.full_clean.         *)
UndoLine(c) ==
  LET k    == txn[c].key
      of   == form[k].of
      f    == UndoAt(c)
      n    == txn[c].n
      line == f.lines[n] IN
  /\ AtUndo(c) /\ UndoLineAllowed(c)
  /\ held' = [held EXCEPT ![c] =
                 [i \in DOMAIN held[c] |->
                    IF i = line.item
                    THEN LegUndone(held[c][i], <<of, n, "out">>, line.qty, line.qty,
                                   <<k, n, "reverse-out">>)
                    ELSE IF Arrives(f, n) /\ i = Destination(f, n)
                    THEN LegUndone(held[c][i], <<of, n, "in">>, -line.qty, line.qty,
                                   <<k, n, "reverse-in">>)
                    ELSE held[c][i]]]
  /\ txn' = [txn EXCEPT ![c].n = n - 1]
  /\ UNCHANGED <<stock, transfers, site, completing, form>>

RefuseUndoLine(c) == AtUndo(c) /\ ~UndoLineAllowed(c) /\ RollBack(c)

CommitUndo(c) ==
  LET k == txn[c].key IN
  /\ txn[c].pc = "undo" /\ txn[c].n = 0
  /\ transfers' = [transfers EXCEPT ![form[k].of] = [status |-> "reversed", revKey |-> k]]
  /\ Publish(c)

(* The server process or the connection dies, or PostgreSQL aborts the     *)
(* transaction to break a deadlock between a transfer and a reversal.      *)
Abort(c) == txn[c].pc # "idle" /\ RollBack(c)

Step(c) == \/ Refuse(c) \/ PostSingle(c) \/ ReverseMovement(c)
           \/ BeginTransfer(c) \/ MoveLine(c) \/ RefuseLine(c) \/ CommitTransfer(c)
           \/ BeginUndo(c) \/ UndoLine(c) \/ RefuseUndoLine(c) \/ CommitUndo(c)

----------------------------------------------------------------------------
(* Stock record lifecycle: each locks the row and reads it under the lock. *)

Unlocked(i) == \A c \in Client : i \notin DOMAIN held[c]

ArchiveItem(i) ==
  /\ Unlocked(i)
  /\ stock[i].status = "active" /\ stock[i].qty = 0
  /\ stock' = [stock EXCEPT ![i].status = "archived"]
  /\ UNCHANGED <<transfers, site, completing, form, txn, held>>

RestoreItem(i) ==
  /\ Unlocked(i)
  /\ stock[i].status = "archived" /\ Accepts(i.loc)
  /\ stock' = [stock EXCEPT ![i].status = "active"]
  /\ UNCHANGED <<transfers, site, completing, form, txn, held>>

(* A stock record is moved to Trash whatever its balance. *)
TrashItem(i) ==
  /\ Unlocked(i)
  /\ stock[i].status # "absent" /\ ~stock[i].trashed
  /\ stock' = [stock EXCEPT ![i].trashed = TRUE]
  /\ UNCHANGED <<transfers, site, completing, form, txn, held>>

UntrashItem(i) ==
  /\ Unlocked(i)
  /\ stock[i].trashed
  /\ stock' = [stock EXCEPT ![i].trashed = FALSE]
  /\ UNCHANGED <<transfers, site, completing, form, txn, held>>

(* Project statuses.  The view runs in no transaction and takes no lock:   *)
(* Project.clean looks for stock, then the UPDATE is sent.                 *)
SetProjectStatus(l, target) ==
  /\ l \notin Office /\ target \in {"active", "on_hold"} /\ site[l] # target
  /\ site' = [site EXCEPT ![l] = target]
  /\ UNCHANGED <<stock, transfers, completing, form, txn, held>>

SiteEmpty(l) == \A i \in Item : i.loc = l => stock[i].qty = 0

CheckCompletion(l) ==
  /\ l \notin Office \cup completing /\ site[l] # "completed"
  /\ SiteEmpty(l)
  /\ completing' = completing \cup {l}
  /\ UNCHANGED <<stock, transfers, site, form, txn, held>>

CompleteProject(l) ==
  /\ l \in completing
  /\ site' = [site EXCEPT ![l] = "completed"]
  /\ completing' = completing \ {l}
  /\ UNCHANGED <<stock, transfers, form, txn, held>>

Lifecycle ==
  \/ \E i \in Item : ArchiveItem(i) \/ RestoreItem(i) \/ TrashItem(i) \/ UntrashItem(i)
  \/ \E l \in Location : \/ CheckCompletion(l) \/ CompleteProject(l)
                        \/ \E s \in {"active", "on_hold"} : SetProjectStatus(l, s)

Next == \/ \E c \in Client : \/ \E k \in Key : Submit(c, k)
                            \/ Step(c) \/ Abort(c)
        \/ Lifecycle

Spec == Init /\ [][Next]_vars

(* A worker that has started a request keeps running it, and PostgreSQL    *)
(* serves the waiters of a row lock in turn.                               *)
FairSpec == Spec /\ \A c \in Client : SF_vars(Step(c))

----------------------------------------------------------------------------
(* Properties *)

(* What one movement does to a balance, by its type. *)
Effect(m) == IF m.type \in InboundTypes THEN m.qty ELSE -m.qty

(* The history of a row explains its balance: movements chain from zero,   *)
(* each moves the balance by what its type says, and the cached quantity   *)
(* is where the chain ends (StockMovement.clean, _save_balance).           *)
Reconciles(row) ==
  /\ row.qty = IF row.log = <<>> THEN 0 ELSE row.log[Len(row.log)].new
  /\ \A m \in DOMAIN row.log :
       /\ row.log[m].prev = IF m = 1 THEN 0 ELSE row.log[m-1].new
       /\ row.log[m].type # "REVERSAL" => row.log[m].new = row.log[m].prev + Effect(row.log[m])

(* A reversal undoes one earlier movement exactly, and nothing is undone   *)
(* twice, by whichever of reverse_movement and reverse_transfer.           *)
ReversesOnce(row) ==
  \A m \in DOMAIN row.log :
    LET r == row.log[m] IN
    /\ (r.rev # 0) <=> (r.type = "REVERSAL")
    /\ r.rev # 0 =>
         /\ r.rev < m
         /\ row.log[r.rev].type # "REVERSAL"
         /\ r.new - r.prev = row.log[r.rev].prev - row.log[r.rev].new
         /\ \A o \in DOMAIN row.log : row.log[o].rev = r.rev => o = m

LedgerReconciles == \A i \in Item : Reconciles(stock[i])

(* The rows of the ledger keep their shape, so that no balance is ever      *)
(* below zero, now or in a history, and each balance is explained by its    *)
(* history.                                                                 *)
LedgerInv == TypeOK /\ LedgerReconciles

(* What is in a history undoes and opens what it says: no movement is      *)
(* undone twice or by a movement that is itself undone, and opening stock  *)
(* is the first movement of its record (reverse_movement and               *)
(* add_opening_stock read the movements under the row lock).               *)
HistoryExplained ==
  \A i \in Item :
    /\ ReversesOnce(stock[i])
    /\ \A m \in DOMAIN stock[i].log : stock[i].log[m].type = "OPENING" => m = 1

(* A form changes stock at most once however often and however             *)
(* concurrently it is submitted: no two movements have one key.            *)
KeyAppliedOnce ==
  \A i, j \in Item : \A m \in DOMAIN stock[i].log, n \in DOMAIN stock[j].log :
    stock[i].log[m].key = stock[j].log[n].key => i = j /\ m = n

(* Both: each movement is there for one reason, and once.                  *)
HistoryExact == HistoryExplained /\ KeyAppliedOnce

Legs(i, key) == {m \in DOMAIN stock[i].log : stock[i].log[m].key = key}

(* A transfer is all there or not at all: each line of a recorded transfer *)
(* has left its source and, unless lost, reached its destination, both by  *)
(* the line's quantity; a reversed one has both legs undone; one that is   *)
(* not recorded left no movement.                                          *)
TransfersWhole ==
  \A k \in Key : form[k].kind = "TRANSFER" =>
    LET f == form[k]
        rk == transfers[k].revKey
        Has(i, key, q) == \E m \in Legs(i, key) : stock[i].log[m].qty = q IN
    IF transfers[k] = None
    THEN \A i \in Item : \A m \in DOMAIN stock[i].log : stock[i].log[m].key[1] # k
    ELSE \A n \in DOMAIN f.lines :
           LET q == f.lines[n].qty IN
           /\ Has(f.lines[n].item, <<k, n, "out">>, q)
           /\ Arrives(f, n) => Has(Destination(f, n), <<k, n, "in">>, q)
           /\ rk # None =>
                /\ Has(f.lines[n].item, <<rk, n, "reverse-out">>, q)
                /\ Arrives(f, n) => Has(Destination(f, n), <<rk, n, "reverse-in">>, q)

(* Stock history is immutable: movements are only ever added at the end    *)
(* (StockMovement.save and delete refuse anything else), so no concurrent  *)
(* writer loses another's movement.                                        *)
HistoryAppendOnly ==
  [][\A i \in Item : LET old == stock[i].log  new == stock'[i].log IN
       /\ Len(old) <= Len(new)
       /\ SubSeq(new, 1, Len(old)) = old]_vars

(* Every request that is submitted is eventually answered. *)
RequestsEnd == \A c \in Client : txn[c].pc # "idle" ~> txn[c].pc = "idle"

(* stock.py: "Archived stock records cannot receive new activity."          *)
(* "Deleted stock records cannot receive new activity."  A request that     *)
(* began while the record was active does not post to it once it is not.    *)
(* The services of one record keep this; reverse_transfer does not look.    *)
RetiredRowsQuiet ==
  [][\A i \in Item : stock[i].status = "archived" \/ stock[i].trashed
                       => stock'[i].log = stock[i].log]_vars

(* A claim of the code that the code does not keep. *)

(* projects/models.py: "A project can be completed only after every stock  *)
(* balance is zero."                                                       *)
CompletedSitesEmpty == \A l \in Location : site[l] = "completed" => SiteEmpty(l)
=============================================================================
