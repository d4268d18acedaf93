---------------------------- MODULE PayrollMonth ----------------------------
(***************************************************************************)
(* The contents of one month of internal payroll, over the employee file:  *)
(* the days and the overtime that are recorded, and the lines that a       *)
(* payroll run makes of them and of the salaries, postings and approved    *)
(* adjustments.  PayrollRun has the workflow of the run and takes all this *)
(* as one value; here the run is calculated, submitted and approved, and   *)
(* what counts is what its lines say and what its fingerprint covers.      *)
(*                                                                         *)
(* All services lock the month, its rows and the employees and are one     *)
(* step.  A batch of entries is one entry after the other, since its rows  *)
(* are judged one by one.  Amounts only block a calculation (no basic      *)
(* salary, deductions above the gross) and are left out: a line says which *)
(* salary pays which days.                                                 *)
(* The sign-offs of three people, and what the snapshot fingerprint adds   *)
(* to a verification, are PayrollRun's matter.                             *)
(***************************************************************************)
EXTENDS EmployeeFile

CONSTANTS MonthFirst, MonthLast,  \* the days of the month
          Mark                    \* hours and status codes of a day

ASSUME MonthAssumption == /\ {MonthFirst, MonthLast} \subseteq Day /\ MonthFirst <= MonthLast
                          /\ None \notin Mark

VARIABLES sheet,      \* status of the attendance period
          entry,      \* [Employee -> [days of the month -> mark, or None]]
          extra,      \* [Employee -> first day of the salary that its overtime
                      \*  was computed from, or None]
          granted,    \* [Employee -> approved advances and recoveries]
          proration,  \* the payroll policy
          run         \* the payroll run, or None

monthVars == <<sheet, entry, extra, granted, proration, run>>

Month     == MonthFirst .. MonthLast
Prorating == {"not_configured", "calendar_days", "no_proration"}

(* What a line pays: the share of a salary in the month, by its days.      *)
Share == [of : Day, from : Day, to : Day]
Line  == [at : Place, shares : SUBSET Share, days : [Month -> Mark \cup {None}],
          overtime : Day \cup {None}, recovered : BOOLEAN]
Imprint == [joined : Day, ends : Day \cup {None}, posted : Day, shares : SUBSET Share,
          days : [Month -> Mark \cup {None}], overtime : Day \cup {None}, recovered : BOOLEAN]
-----------------------------------------------------------------------------
(* Who is in the month, and whether it is complete *)

(* operational_internal_employees: an archived or deleted office hides its *)
(* employees.                                                              *)
Operational(e) ==
  /\ employee[e] # None /\ ~employee[e].archived /\ employee[e].trash = "no"
  /\ \A o \in Office : WorksAt(e, o) => ~office[o].archived /\ ~office[o].trash

OnPayroll ==
  {e \in Employee : /\ Operational(e) /\ employee[e].status # "inactive"
                    /\ employee[e].joined <= MonthLast
                    /\ employee[e].ends # None => MonthFirst <= employee[e].ends}

RequiredDays(e) == {day \in Month : WithinEmployment(e, day)}

(* The salary at the end of the month, which overtime is computed from.    *)
ClosingSalary(e) == {s \in structure[e] : Covers(s, MonthLast)}
Computed(e) == {s \in ClosingSalary(e) : s.policy # None}

(* validate_period_for_submission; overtime of anybody is looked at.       *)
Complete ==
  /\ OnPayroll # {}
  /\ \A e \in OnPayroll : \A day \in RequiredDays(e) : entry[e][day] # None
  /\ \A e \in Employee : extra[e] # None => \E s \in Computed(e) : s.from = extra[e]

-----------------------------------------------------------------------------
(* Attendance *)

RestOfMonth(v) == /\ v # "sheet" => UNCHANGED sheet
                  /\ v # "entry" => UNCHANGED entry
                  /\ v # "extra" => UNCHANGED extra
                  /\ v # "granted" => UNCHANGED granted
                  /\ v # "proration" => UNCHANGED proration
                  /\ v # "run" => UNCHANGED run
                  /\ UNCHANGED fileVars

(* save_attendance_entries, and the import that calls it: a blank clears   *)
(* the day.                                                                *)
SaveAttendanceEntry(e, day, mark) ==
  /\ sheet = "DRAFT" /\ Operational(e) /\ WithinEmployment(e, day)
  /\ entry' = [entry EXCEPT ![e][day] = mark]
  /\ RestOfMonth("entry")

(* No look at the employment, unlike the days.                             *)
SaveOvertimeEntry(e) ==
  /\ sheet = "DRAFT" /\ Operational(e)
  /\ \E s \in Computed(e) : extra' = [extra EXCEPT ![e] = s.from]
  /\ RestOfMonth("extra")
ClearOvertimeEntry(e) ==
  /\ sheet = "DRAFT" /\ Operational(e)
  /\ extra' = [extra EXCEPT ![e] = None]
  /\ RestOfMonth("extra")

Onward == [DRAFT |-> "SUBMITTED", SUBMITTED |-> "APPROVED", APPROVED |-> "LOCKED"]

AdvanceMonth ==
  /\ sheet \in DOMAIN Onward /\ Complete
  /\ sheet' = Onward[sheet]
  /\ RestOfMonth("sheet")
ReturnMonth ==
  /\ sheet # "DRAFT"
  /\ run # None => run.status = "DRAFT"
  /\ sheet' = "DRAFT"
  /\ RestOfMonth("sheet")

-----------------------------------------------------------------------------
(* What a run makes of it *)

EmployedFrom(e) == IF employee[e].joined > MonthFirst THEN employee[e].joined ELSE MonthFirst
EmployedTo(e) == IF employee[e].ends # None /\ employee[e].ends < MonthLast
                 THEN employee[e].ends ELSE MonthLast

(* _organization_as_of_locked, on the last employed day                    *)
PostedAt(e) == {a \in posting[e] : Covers(a, EmployedTo(e))}

Overlapping(e) ==
  {s \in structure[e] : /\ s.from <= EmployedTo(e)
                        /\ s.to # None => EmployedFrom(e) <= s.to}

(* Employed for a part of the month, or on more than one salary.           *)
Ambiguous(e) ==
  \/ EmployedFrom(e) # MonthFirst \/ EmployedTo(e) # MonthLast
  \/ \A s \in Overlapping(e) : ~(Covers(s, MonthFirst) /\ Covers(s, MonthLast))

Clipped(e, s) ==
  [of |-> s.from, from |-> IF s.from > EmployedFrom(e) THEN s.from ELSE EmployedFrom(e),
   to |-> IF s.to # None /\ s.to < EmployedTo(e) THEN s.to ELSE EmployedTo(e)]

(* _component_contributions: by calendar days every salary pays its own;   *)
(* otherwise the last one pays the whole of the employment.                *)
Shares(e) ==
  IF proration = "calendar_days" THEN {Clipped(e, s) : s \in Overlapping(e)}
  ELSE {[of |-> s.from, from |-> EmployedFrom(e), to |-> EmployedTo(e)] :
         s \in {s \in Overlapping(e) : Covers(s, EmployedTo(e))}}

Blocked(e) ==
  \/ PostedAt(e) = {} \/ Shares(e) = {}
  \/ proration = "not_configured" /\ Ambiguous(e)
  \/ proration = "calendar_days" /\ (\E day \in RequiredDays(e) :
       \A s \in Overlapping(e) : ~Covers(s, day))

LineOf(e) ==
  [at |-> Latest(PostedAt(e)).at, shares |-> Shares(e), days |-> entry[e],
   overtime |-> extra[e], recovered |-> "recovery" \in granted[e]]

(* Mutant of PrintOf: the salaries are not hashed.                         *)
PrintWithoutShares(e) ==
  [joined |-> employee[e].joined, ends |-> employee[e].ends,
   posted |-> Latest(PostedAt(e)).from, shares |-> {}, days |-> entry[e],
   overtime |-> extra[e], recovered |-> "recovery" \in granted[e]]
(* What the source fingerprint hashes of an employee: the assignment by    *)
(* its number.                                                             *)
PrintOf(e) ==
  [joined |-> employee[e].joined, ends |-> employee[e].ends,
   posted |-> Latest(PostedAt(e)).from, shares |-> Shares(e), days |-> entry[e],
   overtime |-> extra[e], recovered |-> "recovery" \in granted[e]]

Fingerprint == [proration |-> proration, rows |-> [e \in OnPayroll |-> PrintOf(e)]]

(* _build_calculation_locked                                               *)
Calculable ==
  /\ sheet \in {"APPROVED", "LOCKED"} /\ Complete
  /\ \A e \in OnPayroll : ~Blocked(e)

CalculateRun ==
  /\ run # None => run.status \in {"DRAFT", "CALCULATED"}
  /\ Calculable
  /\ run' = [status |-> "CALCULATED", source |-> Fingerprint,
             lines |-> [e \in OnPayroll |-> LineOf(e)]]
  /\ RestOfMonth("run")

Verifies == sheet = "LOCKED" /\ Calculable /\ run.source = Fingerprint

RunBecomes(status) == /\ run' = [run EXCEPT !.status = status]
                      /\ RestOfMonth("run")
SubmitRun  == /\ run # None /\ run.status = "CALCULATED" /\ Verifies /\ RunBecomes("REVIEW")
ReturnRun  == /\ run # None /\ run.status = "REVIEW" /\ RunBecomes("CALCULATED")
ApproveRun == /\ run # None /\ run.status = "REVIEW" /\ Verifies /\ RunBecomes("APPROVED")
ResetRun ==
  /\ run # None /\ run.status = "CALCULATED"
  /\ run' = [status |-> "DRAFT", source |-> None, lines |-> None]
  /\ RestOfMonth("run")

(* Advances and their recoveries, of whoever was ever employed.            *)
ApproveGrant(e, kind) ==
  /\ employee[e] # None /\ kind \notin granted[e]
  /\ run # None => run.status \in {"DRAFT", "CALCULATED"}
  /\ kind = "recovery" => "advance" \in granted[e]
  /\ granted' = [granted EXCEPT ![e] = @ \cup {kind}]
  /\ RestOfMonth("granted")

UpdateProration(method) ==
  /\ run # None => run.status # "REVIEW"
  /\ proration' = method
  /\ RestOfMonth("proration")

MonthTypeOK ==
  /\ sheet \in {"DRAFT", "SUBMITTED", "APPROVED", "LOCKED"}
  /\ entry \in [Employee -> [Month -> Mark \cup {None}]]
  /\ extra \in [Employee -> Day \cup {None}]
  /\ granted \in [Employee -> SUBSET {"advance", "recovery"}]
  /\ proration \in Prorating
  /\ run # None => run.status \in {"DRAFT", "CALCULATED", "REVIEW", "APPROVED"}
  /\ run # None /\ run.status # "DRAFT" =>
       /\ run.source.proration \in Prorating
       /\ DOMAIN run.source.rows = DOMAIN run.lines
       /\ \A e \in DOMAIN run.lines : run.lines[e] \in Line /\ run.source.rows[e] \in Imprint

MonthInit ==
  /\ sheet = "DRAFT"
  /\ entry = [e \in Employee |-> [day \in Month |-> None]]
  /\ extra = [e \in Employee |-> None] /\ granted = [e \in Employee |-> {}]
  /\ proration = "not_configured" /\ run = None

MonthNext ==
  \/ \E e \in Employee :
       \/ \E day \in Month, mark \in Mark \cup {None} : SaveAttendanceEntry(e, day, mark)
       \/ SaveOvertimeEntry(e) \/ ClearOvertimeEntry(e)
       \/ \E kind \in {"advance", "recovery"} : ApproveGrant(e, kind)
  \/ AdvanceMonth \/ ReturnMonth
  \/ CalculateRun \/ SubmitRun \/ ReturnRun \/ ApproveRun \/ ResetRun
  \/ \E method \in Prorating : UpdateProration(method)
  \/ EmployeeNext /\ UNCHANGED monthVars

MonthSpec == FileInit /\ MonthInit /\ [][MonthNext]_<<fileVars, monthVars>>

-----------------------------------------------------------------------------
(* Properties *)

DaysOf(share) == share.from .. share.to
Paying(line)  == [line EXCEPT !.at = None]

(* The file goes on changing under a calculated run, and only the source   *)
(* fingerprint stands between that and an approval.  Whenever it lets a    *)
(* run pass, the run has a line for everybody who is on the payroll, which *)
(* pays for every day of the employment in the month exactly once, at the  *)
(* salary of that day (at the last one without proration), takes the       *)
(* overtime at the salary of the end of the month, and has every day       *)
(* accounted for; and the days recorded are still those of the lines.      *)
RunTellsTheMonth ==
  run # None /\ run.status # "DRAFT" =>
    /\ \A e \in DOMAIN run.lines : run.lines[e].days = entry[e]
    /\ Verifies =>
         /\ DOMAIN run.lines = OnPayroll
         /\ \A e \in OnPayroll :
              /\ Paying(run.lines[e]) = Paying(LineOf(e))
              /\ \A day \in RequiredDays(e) :
                   /\ entry[e][day] # None
                   /\ \E share \in run.lines[e].shares :
                        /\ \A other \in run.lines[e].shares :
                             day \in DaysOf(other) <=> other = share
                        /\ \E s \in structure[e] :
                             /\ s.from = share.of
                             /\ Covers(s, IF proration = "calendar_days" THEN day
                                          ELSE EmployedTo(e))
              /\ \A share \in run.lines[e].shares : DaysOf(share) \subseteq RequiredDays(e)

(* Not so.  payroll.py:1193: "Payroll source data changed after            *)
(* calculation.  Recalculate before continuing."  A posting that is        *)
(* corrected on its own day keeps its number, and the line its old place;  *)
LinesAsPosted ==
  run # None /\ run.status = "CALCULATED" /\ Verifies =>
    \A e \in OnPayroll : run.lines[e].at = LineOf(e).at
(* who was archived, or whose office was, gets no line, although what they *)
(* owe counts as recovered;                                                *)
RecoveriesDeducted ==
  run # None /\ run.status = "APPROVED" =>
    \A e \in Employee : "recovery" \in granted[e] => e \in DOMAIN run.lines
(* and so is the overtime of who left before the month.                    *)
OvertimePaid ==
  run # None /\ run.status = "APPROVED" =>
    \A e \in Employee : extra[e] # None => e \in DOMAIN run.lines
=============================================================================
