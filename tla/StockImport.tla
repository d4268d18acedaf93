---------------------------- MODULE StockImport ----------------------------
(***************************************************************************)
(* Excel imports of stock records (data_exchange/services/importing.py,    *)
(* data_exchange/views.py): a workbook is parsed into a preview, a person  *)
(* confirms it, and all its rows are applied in one transaction.           *)
(*                                                                         *)
(* The preview decides what each row will do from the records it finds;    *)
(* the confirmation comes later and must not trust that decision.  A       *)
(* failed confirmation is recorded after its transaction was rolled back,  *)
(* under no lock: another confirmation of the job may run in between.      *)
(* The workbooks belong to one project; parsing, prices and permissions    *)
(* only add rows in error or refuse calls and are left out.                *)
(***************************************************************************)
EXTENDS Naturals, Sequences, FiniteSets, Absence

CONSTANTS Identity,      \* material and supplier, with a phone
          Material(_),   \* an identity without its phone
          Job,
          Book(_),       \* [opening, updates, rows]: type, option, identities
          MaxEdits       \* bound on the changes of records by others

VARIABLES item,      \* [Identity -> stock record, or None]
          project,   \* whether the project accepts stock activity
          job,       \* [Job -> status of the import job, or None]
          rows,      \* [Job -> its preview rows]
          failing,   \* jobs whose rolled-back confirmation is not recorded yet
          openings,  \* opening movements by imports: <<identity, job, row>>
          edits      \* how often a record or the project was changed meanwhile

importVars == <<item, project, job, rows, failing, openings, edits>>

Record == [status : {"ACTIVE", "ARCHIVED", "TRASHED"}, moved : BOOLEAN]
New == [status |-> "ACTIVE", moved |-> FALSE]

PreviewRow == [key : Identity, action : {"SKIP", "UPDATE", "CREATE", "OPEN"},
               asks : BOOLEAN, match : BOOLEAN, done : {"NO", "IMPORTED", "SKIPPED"}]

ASSUME ImportAssumption ==
  /\ MaxEdits \in Nat /\ None \notin Record \cup {"PREVIEW", "COMPLETED", "FAILED"}
  /\ \A j \in Job : Book(j) \in [opening : BOOLEAN, updates : BOOLEAN, rows : Seq(Identity)]

(* find_stock_matches: records in Trash are not found.                      *)
Found(k) == item[k] # None /\ item[k].status # "TRASHED"
LookAlikes(k) == {x \in Identity \ {k} : Material(x) = Material(k) /\ Found(x)}

Skipped(k) == [key |-> k, action |-> "SKIP", asks |-> FALSE, match |-> FALSE, done |-> "NO"]
Planned(k, action) == [Skipped(k) EXCEPT !.action = action]

(* _preview_legacy: what becomes of one row that is not a duplicate.        *)
LegacyRow(k) ==
  IF Found(k) THEN [Planned(k, "UPDATE") EXCEPT !.match = TRUE]
  ELSE IF LookAlikes(k) # {} THEN [Planned(k, "CREATE") EXCEPT !.asks = TRUE]
  ELSE Planned(k, "CREATE")

(* _preview_opening: only an active record without movements is opened.     *)
OpeningRow(k) ==
  IF ~project THEN Skipped(k)
  ELSE IF Found(k)
    THEN IF item[k].status = "ACTIVE" /\ ~item[k].moved
           THEN [Planned(k, "OPEN") EXCEPT !.match = TRUE] ELSE Skipped(k)
  ELSE IF LookAlikes(k) # {} THEN [Planned(k, "OPEN") EXCEPT !.asks = TRUE]
  ELSE Planned(k, "OPEN")

Parsed(j) ==
  LET keys == Book(j).rows
      Repeated(i) == \E h \in 1..(i - 1) : keys[h] = keys[i]
  IN [i \in 1..Len(keys) |->
        IF Repeated(i) THEN Skipped(keys[i])
        ELSE IF Book(j).opening THEN OpeningRow(keys[i]) ELSE LegacyRow(keys[i])]

ImportTypeOK ==
  /\ item \in [Identity -> Record \cup {None}] /\ project \in BOOLEAN
  /\ job \in [Job -> {None, "PREVIEW", "COMPLETED", "FAILED"}]
  /\ rows \in [Job -> Seq(PreviewRow)] /\ failing \subseteq Job
  /\ openings \subseteq Identity \X Job \X Nat /\ edits \in 0..MaxEdits

ImportInit ==
  /\ item = [k \in Identity |-> None] /\ project = TRUE
  /\ job = [j \in Job |-> None] /\ rows = [j \in Job |-> <<>>]
  /\ failing = {} /\ openings = {} /\ edits = 0

(* The upload creates the job and builds its preview; an unreadable         *)
(* workbook fails it.                                                       *)
PreviewImport(j) ==
  /\ job[j] = None
  /\ \/ job' = [job EXCEPT ![j] = "PREVIEW"] /\ rows' = [rows EXCEPT ![j] = Parsed(j)]
     \/ job' = [job EXCEPT ![j] = "FAILED"] /\ UNCHANGED rows
  /\ UNCHANGED <<item, project, failing, openings, edits>>

(* ImportJob.can_confirm: the page of the job offers the form.              *)
CanConfirm(j) == job[j] # None /\ \E i \in 1..Len(rows[j]) : rows[j][i].action # "SKIP"

(* The rows a confirmation applies; the others are skipped.                 *)
Applied(j, similar) ==
  {i \in 1..Len(rows[j]) : /\ rows[j][i].action # "SKIP"
                           /\ rows[j][i].asks => similar
                           /\ rows[j][i].action = "UPDATE" => Book(j).updates}

(* The unique identity and StockItem.clean, for a record to be created.     *)
Creatable(k) == item[k] = None /\ project

(* Mutant of Openable: the first movement is looked for in the preview only. *)
OpenableAsPreviewed(k) == item[k].status = "ACTIVE" /\ project
(* add_opening_stock: _require_active_stock_item and no movement yet.       *)
Openable(k) == item[k].status = "ACTIVE" /\ project /\ ~item[k].moved

(* _legacy_update, _legacy_create, _opening_item.                           *)
Applicable(r) ==
  CASE r.action = "UPDATE" -> r.match
    [] r.action = "CREATE" -> Creatable(r.key)
    [] r.action = "OPEN" -> IF r.match THEN Openable(r.key) ELSE Creatable(r.key)

After(r) == IF r.action = "UPDATE" THEN item[r.key]
            ELSE IF r.match THEN [item[r.key] EXCEPT !.moved = TRUE]
            ELSE [New EXCEPT !.moved = r.action = "OPEN"]

(* The applied rows take effect and every row is settled.                   *)
Imported(j, applied, others) ==
  /\ item' = [k \in Identity |->
       IF \E i \in applied : rows[j][i].key = k
         THEN After(rows[j][CHOOSE i \in applied : rows[j][i].key = k]) ELSE item[k]]
  /\ openings' = openings \cup
       {<<rows[j][i].key, j, i>> : i \in {x \in applied : rows[j][x].action = "OPEN"}}
  /\ rows' = [rows EXCEPT ![j] = [i \in DOMAIN @ |->
       [@[i] EXCEPT !.done = IF i \in applied THEN "IMPORTED" ELSE others]]]
  /\ job' = [job EXCEPT ![j] = "COMPLETED"]
  /\ UNCHANGED <<project, failing, edits>>

(* Mutant of ConfirmImport: rows that fail are passed over.                 *)
ConfirmImportPartly(j, similar) ==
  /\ CanConfirm(j) /\ job[j] = "PREVIEW"
  /\ Imported(j, {i \in Applied(j, similar) : Applicable(rows[j][i])}, "NO")
(* confirm_import: all rows or none, once.                                  *)
ConfirmImport(j, similar) ==
  /\ CanConfirm(j) /\ job[j] = "PREVIEW"
  /\ \A i \in Applied(j, similar) : Applicable(rows[j][i])
  /\ Imported(j, Applied(j, similar), "SKIPPED")

(* Any failure rolls everything back: a row that no longer applies, a job   *)
(* that is not in preview, the database.                                    *)
FailConfirm(j) ==
  /\ CanConfirm(j) /\ job[j] # "COMPLETED"
  /\ failing' = failing \cup {j}
  /\ UNCHANGED <<item, project, job, rows, openings, edits>>

RecordFailure(j) ==
  /\ j \in failing
  /\ failing' = failing \ {j}
  /\ job' = [job EXCEPT ![j] = "FAILED"]
  /\ UNCHANGED <<item, project, rows, openings, edits>>

----------------------------------------------------------------------------
(* What happens to the records meanwhile (apps/inventory, apps/projects).   *)

Edited == /\ edits < MaxEdits /\ edits' = edits + 1
          /\ UNCHANGED <<job, failing, openings>>

CreateItem(k) ==
  /\ Creatable(k)
  /\ item' = [item EXCEPT ![k] = New]
  /\ Edited /\ UNCHANGED <<project, rows>>

(* A first receipt.                                                         *)
MoveItem(k) ==
  /\ item[k] # None /\ Openable(k)
  /\ item' = [item EXCEPT ![k].moved = TRUE]
  /\ Edited /\ UNCHANGED <<project, rows>>

SetItemStatus(k) ==
  /\ item[k] # None
  /\ \E s \in {"ACTIVE", "ARCHIVED", "TRASHED"} \ {item[k].status} :
       item' = [item EXCEPT ![k].status = s]
  /\ Edited /\ UNCHANGED <<project, rows>>

(* Deleting a record without history clears the match of preview rows.      *)
DeleteItem(k) ==
  /\ item[k] # None /\ item[k].status = "TRASHED" /\ ~item[k].moved
  /\ item' = [item EXCEPT ![k] = None]
  /\ rows' = [j \in Job |-> [i \in DOMAIN rows[j] |->
       IF rows[j][i].key = k THEN [rows[j][i] EXCEPT !.match = FALSE] ELSE rows[j][i]]]
  /\ Edited /\ UNCHANGED project

SetProject == project' = ~project /\ Edited /\ UNCHANGED <<item, rows>>

ImportNext ==
  \/ \E j \in Job : \/ PreviewImport(j) \/ FailConfirm(j) \/ RecordFailure(j)
                    \/ \E similar \in BOOLEAN : ConfirmImport(j, similar)
  \/ \E k \in Identity : CreateItem(k) \/ MoveItem(k) \/ SetItemStatus(k) \/ DeleteItem(k)
  \/ SetProject

ImportSpec == ImportInit /\ [][ImportNext]_importVars

----------------------------------------------------------------------------
(* Properties *)

(* job detail page: "All eligible rows are applied in one database          *)
(* transaction": of a preview every row is settled or none is, and an       *)
(* imported row stands for a record or for an opening that was made.        *)
WholeBooks ==
  \A j \in Job :
    /\ \/ \A i \in DOMAIN rows[j] : rows[j][i].done = "NO"
       \/ \A i \in DOMAIN rows[j] : rows[j][i].done # "NO"
    /\ \A i \in DOMAIN rows[j] :
         (rows[j][i].done = "IMPORTED" /\ rows[j][i].action = "OPEN") <=> <<rows[j][i].key, j, i>> \in openings
    /\ job[j] = "COMPLETED" => \A i \in DOMAIN rows[j] : rows[j][i].done # "NO"

(* So it stays with every step; and an opening is the first movement of its *)
(* record, once: not for a record that was opened, used, archived or        *)
(* trashed since the preview.                                               *)
BooksTrue ==
  [][/\ WholeBooks'
     /\ \A o \in openings' \ openings :
          /\ \A p \in openings : p[1] # o[1]
          /\ item[o[1]] # None => item[o[1]].status = "ACTIVE" /\ ~item[o[1]].moved
          /\ item'[o[1]].moved]_importVars

(* views.py, ImportJobConfirmView: "Nothing was partially imported."        *)
FailedImportedNothing ==
  \A j \in Job : job[j] = "FAILED" => \A i \in DOMAIN rows[j] : rows[j][i].done # "IMPORTED"
=============================================================================
