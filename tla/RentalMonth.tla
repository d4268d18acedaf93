---------------------------- MODULE RentalMonth ----------------------------
(***************************************************************************)
(* Rented workers on projects: who works where on which terms              *)
(* (rental_manpower/services/assignments.py), what a project's monthly     *)
(* timesheet says of it (timesheets.py), and how a worker or a supplier    *)
(* is stopped, terminated, archived and deleted (masters.py).              *)
(*                                                                         *)
(* An assignment is a segment of days.  A revision closes the worker's     *)
(* open segment and begins another, so that history is never rewritten;    *)
(* a saved row of a timesheet points to the segment in force on its day.   *)
(* The masters' dates are backdated at will, and assignments may begin in  *)
(* the future and be cancelled before they do.                             *)
(*                                                                         *)
(* Every transaction is one step.  Changes of assignments and masters lock *)
(* the worker, changes of a timesheet its period; no row is locked by      *)
(* both, so what relates rows to segments is checked here for transactions *)
(* that do not overlap.  Trades and rates only tell a revision from the    *)
(* segment it follows; they, permissions and names are left out.           *)
(***************************************************************************)
EXTENDS Integers, Sequences, FiniteSets

CONSTANTS Worker,       \* rental workers
          Firm,         \* manpower suppliers
          FirmOf,       \* the supplier of a worker
          Site,         \* projects
          MaxDay,       \* days are 1..MaxDay
          MonthOf,      \* the month of a day
          MaxSegments,  \* bound on the segments of a worker
          MaxChanges    \* bound on the changes of overtime, masters, projects

ASSUME RentalAssumption ==
  /\ FirmOf \in [Worker -> Firm] /\ MaxDay \in Nat \ {0}
  /\ MonthOf \in [1..MaxDay -> Nat] /\ MaxSegments \in Nat /\ MaxChanges \in Nat
  /\ \A d \in 2..MaxDay : MonthOf[d - 1] <= MonthOf[d]

VARIABLES today,        \* the current day
          segs,         \* [Worker -> its assignments, in the order made]
          rows,         \* [Worker -> [Site \X Day -> segment of the saved row, or 0]]
          overtime,     \* [Worker -> set of <<site, month>> with an overtime row]
          sheet,        \* [Site \X Month -> status of the timesheet]
          master,       \* [Worker \cup Firm -> status, its date, archived, deleted]
          ended,        \* [Site -> end date of a completed project, or 0]
          changes       \* changes of overtime, masters and projects so far

rentalVars == <<today, segs, rows, overtime, sheet, master, ended, changes>>

Day    == 1..MaxDay
Month  == {MonthOf[d] : d \in Day}
Open   == MaxDay + 1                 \* effective_to is null
Party  == Worker \cup Firm
DaysOf(m)  == {d \in Day : MonthOf[d] = m}
LastDay(m) == CHOOSE d \in DaysOf(m) : \A e \in DaysOf(m) : e <= d

Reviewed    == {"SUBMITTED", "APPROVED", "LOCKED"}

(* A timesheet that is not there yet reads as an empty draft: the first     *)
(* call to save anything creates it.                                        *)
SheetStatus == {"DRAFT"} \cup Reviewed

(* The check constraints of WorkerAssignment included *)
Segment ==
  {s \in [site : Site, from : Day, to : Day \cup {Open}, kind : {"ASSIGNMENT", "REVISION"},
           released : BOOLEAN, cancelled : BOOLEAN] :
     s.from <= s.to /\ ~(s.cancelled /\ s.to # Open) /\ ~(s.released /\ s.to = Open)}

Master == [status : {"ACTIVE", "INACTIVE", "TERMINATED"}, stop : 0..MaxDay,
           archived : BOOLEAN, deleted : {"no", "alone", "cascade"}]

RentalTypeOK ==
  /\ today \in Day /\ changes \in 0..MaxChanges
  /\ segs \in [Worker -> Seq(Segment)]
  /\ rows \in [Worker -> [Site \X Day -> 0..MaxSegments]]
  /\ \A w \in Worker, x \in Site \X Day : rows[w][x] \in 0..Len(segs[w])
  /\ overtime \in [Worker -> SUBSET (Site \X Month)]
  /\ sheet \in [Site \X Month -> SheetStatus]
  /\ master \in [Party -> Master]
  /\ ended \in [Site -> 0..MaxDay]

RentalInit ==
  /\ today = 1 /\ changes = 0
  /\ segs = [w \in Worker |-> <<>>]
  /\ rows = [w \in Worker |-> [x \in Site \X Day |-> 0]]
  /\ overtime = [w \in Worker |-> {}]
  /\ sheet = [x \in Site \X Month |-> "DRAFT"]
  /\ master = [x \in Party |-> [status |-> "ACTIVE", stop |-> 0, archived |-> FALSE, deleted |-> "no"]]
  /\ ended = [p \in Site |-> 0]

NextDay ==
  /\ today < MaxDay
  /\ today' = today + 1
  /\ UNCHANGED <<segs, rows, overtime, sheet, master, ended, changes>>

----------------------------------------------------------------------------
(* Assignments *)

Live(w) == {n \in DOMAIN segs[w] : ~segs[w][n].cancelled}

OpenOf(w) == {n \in Live(w) : segs[w][n].to = Open}

InUse(x) == ~master[x].archived /\ master[x].deleted = "no"

Usable(x) == InUse(x) /\ master[x].status = "ACTIVE"

(* Mutant of SnapshotSafe: saved rows are not looked for. *)
SnapshotUnsafe(w, p, d) ==
  \A m \in Month : LastDay(m) >= d => sheet[<<p, m>>] \notin Reviewed

(* _assert_timesheet_snapshot_safe *)
SnapshotSafe(w, p, d) ==
  /\ \A e \in Day : e >= d => rows[w][<<p, e>>] = 0
  /\ \A m \in Month : LastDay(m) >= d => sheet[<<p, m>>] \notin Reviewed

(* Mutant of Free: overlaps are not looked for. *)
FreeAlways(history, d) == TRUE

(* No _assignment_overlap_exists from day d on *)
Free(history, d) == \A n \in DOMAIN history : history[n].cancelled \/ history[n].to < d

(* _create_segment, with history the segments it is added to *)
Extend(w, history, p, d, kind) ==
  /\ Len(history) < MaxSegments
  /\ Free(history, d)
  /\ segs' = [segs EXCEPT ![w] = Append(history,
       [site |-> p, from |-> d, to |-> Open, kind |-> kind,
        released |-> FALSE, cancelled |-> FALSE])]
  /\ UNCHANGED <<today, rows, overtime, sheet, master, ended, changes>>

AssignWorker(w, p, d) ==
  /\ Usable(w) /\ Usable(FirmOf[w]) /\ ended[p] = 0
  /\ SnapshotSafe(w, p, d)
  /\ Extend(w, segs[w], p, d, "ASSIGNMENT")

(* _latest_open_assignment, refused if it has not begun *)
Started(w) == {n \in OpenOf(w) : segs[w][n].from <= today}

(* _close_for_revision *)
Closed(w, n, d) == [segs[w] EXCEPT ![n].to = d - 1]

Revise(w, n, p, d) ==
  /\ Usable(w) /\ Usable(FirmOf[w])
  /\ d > segs[w][n].from
  /\ SnapshotSafe(w, segs[w][n].site, d)
  /\ Extend(w, Closed(w, n, d), p, d, "REVISION")

TransferWorker(w, n, p, d) ==
  /\ ended[p] = 0 /\ p # segs[w][n].site
  /\ SnapshotSafe(w, p, d)
  /\ Revise(w, n, p, d)

(* change_worker_trade and change_worker_rate *)
ChangeTerms(w, n, d) ==
  /\ ended[segs[w][n].site] = 0
  /\ Revise(w, n, segs[w][n].site, d)

(* The last working day is the release date; the worker may stop with it. *)
ReleaseWorker(w, n, d, inactive) ==
  /\ Usable(w) /\ Usable(FirmOf[w])
  /\ d >= segs[w][n].from /\ d <= today
  /\ SnapshotSafe(w, segs[w][n].site, d + 1)
  /\ segs' = [segs EXCEPT ![w][n].to = d, ![w][n].released = TRUE]
  /\ master' = IF inactive THEN [master EXCEPT ![w].status = "INACTIVE", ![w].stop = d] ELSE master
  /\ UNCHANGED <<today, rows, overtime, sheet, ended, changes>>

(* The segment that the scheduled revision n closed. *)
Predecessor(w, n) == {b \in Live(w) : segs[w][b].to = segs[w][n].from - 1}

(* cancel_scheduled_assignment: the predecessor's project is not looked at. *)
CancelScheduled(w, n) ==
  LET from == segs[w][n].from
      drop == [segs EXCEPT ![w][n].cancelled = TRUE]
  IN
  /\ Usable(w) /\ Usable(FirmOf[w])
  /\ from > today
  /\ SnapshotSafe(w, segs[w][n].site, from)
  /\ \/ /\ segs[w][n].kind = "ASSIGNMENT"
        /\ segs' = drop
     \/ /\ segs[w][n].kind = "REVISION"
        /\ \E b \in Predecessor(w, n) :
             /\ \A c \in Predecessor(w, n) : segs[w][c].from <= segs[w][b].from
             /\ ~segs[w][b].released
             /\ SnapshotSafe(w, segs[w][b].site, from)
             /\ segs' = [drop EXCEPT ![w][b].to = Open]
  /\ UNCHANGED <<today, rows, overtime, sheet, master, ended, changes>>

----------------------------------------------------------------------------
(* Timesheets *)

(* One of the steps that MaxChanges bounds *)
Changing == changes < MaxChanges /\ changes' = changes + 1

Covers(s, d) == s.from <= d /\ d <= s.to

InMonth(s, m) == \E d \in DaysOf(m) : Covers(s, d)

At(w, p) == {n \in Live(w) : segs[w][n].site = p}

(* _assert_assignment_lifecycle: a stopped party works up to its last day. *)
Works(w, d) ==
  \A x \in {w, FirmOf[w]} :
    /\ InUse(x)
    /\ master[x].status = "ACTIVE" \/ d <= master[x].stop

Editable(p, m) == ended[p] = 0 /\ sheet[<<p, m>>] = "DRAFT"

(* save_entries for one worker and day: the row is written or cleared. *)
SaveRow(w, p, d, value) ==
  /\ Editable(p, MonthOf[d])
  /\ Works(w, d)
  /\ \E n \in At(w, p) :
       /\ Covers(segs[w][n], d)
       /\ rows' = [rows EXCEPT ![w][<<p, d>>] = IF value THEN n ELSE 0]
  /\ UNCHANGED <<today, segs, overtime, sheet, master, ended, changes>>

(* One monthly value; a month of several rates is refused at most. *)
SaveOvertime(w, p, m) ==
  /\ Changing /\ Editable(p, m)
  /\ Works(w, LastDay(m))
  /\ \E n \in At(w, p) : InMonth(segs[w][n], m)
  /\ overtime' = [overtime EXCEPT ![w] = @ \cup {<<p, m>>}]
  /\ UNCHANGED <<today, segs, rows, sheet, master, ended>>

(* save_overtime of no hours looks at no assignment. *)
ClearOvertime(w, p, m) ==
  /\ Changing /\ Editable(p, m)
  /\ overtime' = [overtime EXCEPT ![w] = @ \ {<<p, m>>}]
  /\ UNCHANGED <<today, segs, rows, sheet, master, ended>>

Missing(p, m) ==
  {x \in Worker \X DaysOf(m) :
     rows[x[1]][<<p, x[2]>>] = 0 /\ \E n \in At(x[1], p) : Covers(segs[x[1]][n], x[2])}

(* submit, approve, lock and return_to_draft *)
Transitions ==
  {<<"DRAFT", "SUBMITTED">>, <<"SUBMITTED", "APPROVED">>, <<"APPROVED", "LOCKED">>,
   <<"SUBMITTED", "DRAFT">>, <<"APPROVED", "DRAFT">>}

TransitionTimesheet(p, m, to) ==
  /\ <<sheet[<<p, m>>], to>> \in Transitions
  /\ to # "DRAFT" => Missing(p, m) = {}
  /\ sheet' = [sheet EXCEPT ![<<p, m>>] = to]
  /\ UNCHANGED <<today, segs, rows, overtime, master, ended, changes>>

----------------------------------------------------------------------------
(* Masters and projects *)

SetMaster(x, m) ==
  /\ Changing
  /\ master' = [master EXCEPT ![x] = m]
  /\ UNCHANGED <<today, segs, rows, overtime, sheet, ended>>

(* RentalWorker.clean, run by every save of a worker: an active one has an  *)
(* active supplier.                                                         *)
Cleans(w, m) == m.status = "ACTIVE" => master[FirmOf[w]].status = "ACTIVE"

(* change_supplier_lifecycle and change_worker_lifecycle: deactivate *)
Deactivate(x, d) ==
  /\ master[x].status = "ACTIVE" /\ ~master[x].archived /\ d <= today
  /\ SetMaster(x, [master[x] EXCEPT !.status = "INACTIVE", !.stop = d])

ActivateSupplier(f) ==
  /\ master[f].status = "INACTIVE" /\ ~master[f].archived
  /\ SetMaster(f, [master[f] EXCEPT !.status = "ACTIVE", !.stop = 0])

ActivateWorker(w) ==
  /\ master[w].status = "INACTIVE" /\ ~master[w].archived
  /\ Usable(FirmOf[w])
  /\ SetMaster(w, [master[w] EXCEPT !.status = "ACTIVE", !.stop = 0])

UpdateSupplier(f, status) ==
  /\ status # master[f].status /\ master[f].status # "TERMINATED" /\ status # "TERMINATED"
  /\ ~master[f].archived
  /\ SetMaster(f, [master[f] EXCEPT !.status = status, !.stop = IF status = "ACTIVE" THEN 0 ELSE today])

(* update_worker: neither the supplier's archive nor a deletion is looked at. *)
UpdateWorker(w, status) ==
  /\ status # master[w].status /\ master[w].status # "TERMINATED" /\ status # "TERMINATED"
  /\ ~master[w].archived
  /\ Cleans(w, [status |-> status])
  /\ SetMaster(w, [master[w] EXCEPT !.status = status, !.stop = IF status = "ACTIVE" THEN 0 ELSE today])

Archive(x) ==
  /\ ~master[x].archived
  /\ x \in Worker => Cleans(x, master[x])
  /\ SetMaster(x, [master[x] EXCEPT !.archived = TRUE])

RestoreArchive(x) ==
  /\ master[x].archived
  /\ x \in Worker => Cleans(x, master[x])
  /\ SetMaster(x, [master[x] EXCEPT !.archived = FALSE])

Staff(f) == {w \in Worker : FirmOf[w] = f}

(* delete_unused_worker, and delete_unused_supplier with its workers *)
DeleteWorker(w) ==
  /\ master[w].deleted = "no"
  /\ SetMaster(w, [master[w] EXCEPT !.deleted = "alone"])

DeleteSupplier(f) ==
  /\ Changing
  /\ master[f].deleted = "no"
  /\ master' = [x \in Party |->
       IF x = f THEN [master[x] EXCEPT !.deleted = "alone"]
       ELSE IF x \in Staff(f) /\ master[x].deleted = "no"
       THEN [master[x] EXCEPT !.deleted = "cascade"] ELSE master[x]]
  /\ UNCHANGED <<today, segs, rows, overtime, sheet, ended>>

(* restore_worker_trash asks nothing of the supplier. *)
RestoreWorker(w) ==
  /\ master[w].deleted # "no"
  /\ SetMaster(w, [master[w] EXCEPT !.deleted = "no"])

RestoreSupplier(f) ==
  /\ Changing
  /\ master[f].deleted # "no"
  /\ master' = [x \in Party |->
       IF x = f \/ (x \in Staff(f) /\ master[x].deleted = "cascade")
       THEN [master[x] EXCEPT !.deleted = "no"] ELSE master[x]]
  /\ UNCHANGED <<today, segs, rows, overtime, sheet, ended>>

(* Reviewed rows of segment n after day d. *)
Evidence(w, n, d) ==
  {x \in Site \X Day : x[2] > d /\ rows[w][x] = n /\ sheet[<<x[1], MonthOf[x[2]]>>] \in Reviewed}

(* _stop_worker_assignment_for_termination for one open segment *)
Stopped(w, n, d) ==
  LET s == segs[w][n] IN
  IF n \notin OpenOf(w) THEN s
  ELSE IF s.from > d THEN [s EXCEPT !.cancelled = TRUE]
  ELSE IF Evidence(w, n, d) # {} THEN s
  ELSE [s EXCEPT !.to = d, !.released = TRUE]

(* Mutant of Cleared: rows are cleared whatever their timesheet says. *)
ClearedAny(w, d) ==
  {x \in Site \X Day : x[2] > d /\ \E n \in OpenOf(w) : rows[w][x] = n /\ segs[w][n].from <= d}

(* The draft rows that closing the segment clears *)
Cleared(w, d) ==
  {x \in Site \X Day : /\ x[2] > d /\ sheet[<<x[1], MonthOf[x[2]]>>] = "DRAFT"
                       /\ \E n \in OpenOf(w) : /\ rows[w][x] = n /\ segs[w][n].from <= d
                                               /\ Evidence(w, n, d) = {}}

(* _terminate_worker_locked for each of set, which end up terminated *)
Terminate(set, ending, d) ==
  /\ Changing
  /\ d <= today
  /\ segs' = [w \in Worker |->
       IF w \in ending THEN [n \in DOMAIN segs[w] |-> Stopped(w, n, d)] ELSE segs[w]]
  /\ rows' = [w \in Worker |->
       IF w \in ending THEN [x \in Site \X Day |-> IF x \in Cleared(w, d) THEN 0 ELSE rows[w][x]]
       ELSE rows[w]]
  /\ master' = [x \in Party |->
       IF x \in set \cup ending THEN [master[x] EXCEPT !.status = "TERMINATED", !.stop = d]
       ELSE master[x]]
  /\ UNCHANGED <<today, overtime, sheet, ended>>

TerminateWorker(w, d) ==
  /\ master[w].status # "TERMINATED"
  /\ Terminate({}, {w}, d)

(* change_supplier_lifecycle: deleted workers are passed over. *)
TerminateSupplier(f, d) ==
  /\ master[f].status # "TERMINATED"
  /\ Terminate({f}, {w \in Staff(f) : master[w].deleted = "no" /\ master[w].status # "TERMINATED"}, d)

(* update_project and Project.clean: completed when nobody is there after d. *)
CompleteProject(p, d) ==
  /\ Changing
  /\ ended[p] = 0
  /\ \A w \in Worker : \A n \in At(w, p) : segs[w][n].to <= d
  /\ ended' = [ended EXCEPT ![p] = d]
  /\ UNCHANGED <<today, segs, rows, overtime, sheet, master>>

ReopenProject(p) ==
  /\ Changing
  /\ ended[p] # 0
  /\ ended' = [ended EXCEPT ![p] = 0]
  /\ UNCHANGED <<today, segs, rows, overtime, sheet, master>>

RentalNext ==
  \/ NextDay
  \/ \E w \in Worker, p \in Site, d \in Day : AssignWorker(w, p, d)
  \/ \E w \in Worker : \E n \in Started(w) :
       \E d \in Day : \/ \E p \in Site : TransferWorker(w, n, p, d)
                    \/ ChangeTerms(w, n, d)
                    \/ \E inactive \in BOOLEAN : ReleaseWorker(w, n, d, inactive)
  \/ \E w \in Worker : \E n \in OpenOf(w) : CancelScheduled(w, n)
  \/ \E w \in Worker, p \in Site :
       \/ \E d \in Day, value \in BOOLEAN : SaveRow(w, p, d, value)
       \/ \E m \in Month : SaveOvertime(w, p, m) \/ ClearOvertime(w, p, m)
  \/ \E p \in Site, m \in Month, to \in SheetStatus : TransitionTimesheet(p, m, to)
  \/ \E x \in Party : \/ Archive(x) \/ RestoreArchive(x)
                      \/ \E d \in 0..MaxDay : Deactivate(x, d)
  \/ \E f \in Firm : \/ \E status \in {"ACTIVE", "INACTIVE"} : UpdateSupplier(f, status)
                     \/ ActivateSupplier(f) \/ DeleteSupplier(f) \/ RestoreSupplier(f)
                     \/ \E d \in 0..MaxDay : TerminateSupplier(f, d)
  \/ \E w \in Worker : \/ ActivateWorker(w) \/ DeleteWorker(w) \/ RestoreWorker(w)
                       \/ \E status \in {"ACTIVE", "INACTIVE"} : UpdateWorker(w, status)
                       \/ \E d \in 0..MaxDay : TerminateWorker(w, d)
  \/ \E p \in Site : ReopenProject(p) \/ \E d \in Day : CompleteProject(p, d)

RentalSpec == RentalInit /\ [][RentalNext]_rentalVars

----------------------------------------------------------------------------
(* Properties *)

(* The history of a worker is one line: no two segments share a day, at     *)
(* most one is open, and every revision still in force continues, on the    *)
(* next day, a segment that is in force too, however transfers, rate        *)
(* changes, cancellations and terminations were backdated or scheduled.     *)
HistoryContiguous ==
  \A w \in Worker :
    /\ \A n, b \in Live(w) : n # b => ~\E d \in Day : Covers(segs[w][n], d) /\ Covers(segs[w][b], d)
    /\ Cardinality(OpenOf(w)) <= 1
    /\ \A n \in Live(w) : segs[w][n].kind = "REVISION" => Predecessor(w, n) # {}

(* "Prevent assignment changes from invalidating already-saved rental       *)
(* timesheet snapshots."  A saved row's segment is at that project and      *)
(* covers that day, and unless the worker has been terminated it has not    *)
(* been cancelled.                                                          *)
RowsInForce ==
  \A w \in Worker, p \in Site, d \in Day :
    LET n == rows[w][<<p, d>>] IN
    n # 0 => /\ segs[w][n].site = p /\ Covers(segs[w][n], d)
             /\ segs[w][n].cancelled => master[w].status = "TERMINATED"

(* A timesheet that was submitted misses no worker-day when it is approved, *)
(* locked and settled, although assignments keep changing: "Every assigned  *)
(* worker-day must contain hours or an explicit status code".               *)
ReviewedComplete ==
  \A p \in Site, m \in Month : sheet[<<p, m>>] \in Reviewed => Missing(p, m) = {}

(* The typed state and the one line of each history; and what a settlement  *)
(* reads is true to that history and complete.                              *)
RentalInv == RentalTypeOK /\ HistoryContiguous /\ RowsInForce /\ ReviewedComplete

(* The rows of a timesheet under review or locked change for nobody: not    *)
(* by saving, by overtime nor by clearing after a termination; a locked     *)
(* one, which the settlement is calculated from, is final.                  *)
ReviewedRowsKept ==
  [][\A p \in Site, m \in Month : sheet[<<p, m>>] \in Reviewed =>
       /\ \A w \in Worker, d \in DaysOf(m) : rows'[w][<<p, d>>] = rows[w][<<p, d>>]
       /\ \A w \in Worker : <<p, m>> \in overtime[w] <=> <<p, m>> \in overtime'[w]
       /\ sheet[<<p, m>>] = "LOCKED" => sheet'[<<p, m>>] = "LOCKED"]_rentalVars

(* Claims of the code that the code does not keep. *)

(* masters.py: "Draft rows after the stop date are disposable operational   *)
(* input, so they are cleared [...].  If reviewed/locked rows exist after   *)
(* the requested date, the assignment segment is retained as historical     *)
(* evidence".  Either way no row is left on a cancelled segment.            *)
EvidenceRetained ==
  \A w \in Worker, x \in Site \X Day : rows[w][x] # 0 => ~segs[w][rows[w][x]].cancelled

(* projects/models.py: "Release or transfer open rental manpower            *)
(* assignments before completing the project."  A completed project has no  *)
(* open assignment.                                                         *)
CompletedUnstaffed ==
  \A w \in Worker : \A n \in OpenOf(w) : ended[segs[w][n].site] = 0
=============================================================================
