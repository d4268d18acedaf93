---------------------------- MODULE EmployeeFile ----------------------------
(***************************************************************************)
(* The employees of internal payroll (internal_payroll/services/           *)
(* organization.py and salary.py): where each of them works and what each  *)
(* of them earns, day by day, and the branches, departments, salary        *)
(* components and overtime policies these histories name.                  *)
(*                                                                         *)
(* Every service locks what it writes and is one step, but one: deleting a *)
(* branch or department finds its employees, and locks and deletes them    *)
(* later.  A day is a number; names, amounts and positions are left out.   *)
(* What expires in Trash, and when, is in TrashCascade: an entry may be    *)
(* restored or may stay.                                                   *)
(***************************************************************************)
EXTENDS Naturals, FiniteSets, Absence

CONSTANTS Employee,
          Branch, Department,
          Component,    \* salary components
          Policy,       \* overtime policies
          MaxDay        \* bound: the days of the histories

VARIABLES employee,    \* [Employee -> master record, or None]
          posting,     \* [Employee -> set of organization assignments]
          structure,   \* [Employee -> set of salary structures]
          office,      \* [Branch \cup Department -> its status, or None]
          clearing,     \* per office that is being deleted, the employees found
          component,   \* [Component -> sort and status, or None]
          policy,      \* [Policy -> base component and status, or None]
          today

fileVars == <<employee, posting, structure, office, clearing, component, policy, today>>

Day    == 1 .. MaxDay
Place  == Branch \X Department
Office == Branch \cup Department

Posting == [from : Day, to : Day \cup {None}, at : Place]
Salary  == [from : Day, to : Day \cup {None}, policy : Policy \cup {None}, lines : SUBSET Component]
Person == [joined : Day, ends : Day \cup {None},
           status : {"active", "on_leave", "inactive", "terminated"},
           archived : BOOLEAN, trash : {"no", "own"} \cup Office]
Setup  == {"active", "inactive", "archived"}
Sorts  == {"basic", "earning", "deduction", "variable"}
Master == [active : BOOLEAN, archived : BOOLEAN, trash : BOOLEAN]
Part   == [sort : Sorts, state : Setup]
Rule   == [base : Component, state : Setup]

ASSUME FileAssumption ==
  /\ MaxDay \in Nat
  /\ None \notin Day /\ None \notin Person /\ None \notin Master
  /\ None \notin Part /\ None \notin Rule

FileTypeOK ==
  /\ employee \in [Employee -> Person \cup {None}]
  /\ posting \in [Employee -> SUBSET Posting] /\ structure \in [Employee -> SUBSET Salary]
  /\ office \in [Office -> Master \cup {None}]
  /\ clearing \in [Office -> (SUBSET Employee) \cup {None}]
  /\ component \in [Component -> Part \cup {None}] /\ policy \in [Policy -> Rule \cup {None}]
  /\ today \in Day

FileInit ==
  /\ employee = [e \in Employee |-> None]
  /\ posting = [e \in Employee |-> {}] /\ structure = [e \in Employee |-> {}]
  /\ office = [o \in Office |-> None] /\ clearing = [o \in Office |-> None]
  /\ component = [c \in Component |-> None] /\ policy = [q \in Policy |-> None]
  /\ today \in Day

Organization == <<office, clearing>>
Salaries     == <<structure, component, policy>>

-----------------------------------------------------------------------------
(* Employees *)

Idle(o) == office[o] # None /\ clearing[o] = None
(* _validate_company_master, of both offices of a place, which are locked. *)
Choosable(at) == \A i \in {1, 2} :
  /\ Idle(at[i])
  /\ ~office[at[i]].trash /\ ~office[at[i]].archived /\ office[at[i]].active

(* InternalEmployee.clean                                                  *)
Clean(p) == /\ p.ends # None => p.joined <= p.ends
            /\ p.status = "terminated" => p.ends # None

First(e) == CHOOSE a \in posting[e] : \A b \in posting[e] : a.from <= b.from
Last(e)  == CHOOSE a \in posting[e] : \A b \in posting[e] : a.from >= b.from
Open(e)  == {a \in posting[e] : a.to = None}
WorksAt(e, o) == \E a \in Open(e) : o \in {a.at[1], a.at[2]}
Employed(e) == employee[e].status \in {"active", "on_leave"}

Recorded(e, p) == /\ Clean(p)
                  /\ employee' = [employee EXCEPT ![e] = p]
                  /\ UNCHANGED <<Organization, Salaries, today>>

CreateEmployee(e, joined, ends, status, at) ==
  /\ employee[e] = None /\ Choosable(at)
  /\ Recorded(e, [joined |-> joined, ends |-> ends, status |-> status,
                  archived |-> FALSE, trash |-> "no"])
  /\ posting' = [posting EXCEPT ![e] =
       {[from |-> joined, to |-> IF status = "terminated" THEN ends ELSE None, at |-> at]}]

(* The form may set any status and end date, of any employee; assignments  *)
(* and salaries are left alone.                                            *)
UpdateEmployee(e, joined, ends, status) ==
  /\ employee[e] # None
  /\ joined <= First(e).from
  /\ Recorded(e, [employee[e] EXCEPT !.joined = joined, !.ends = ends, !.status = status])
  /\ UNCHANGED posting

(* Mutant of Moved: the assignment before the new one ends on its day.     *)
MovedOverlapping(e, at, from) ==
  LET current == Last(e)
  IN IF from = current.from
     THEN (posting[e] \ {current}) \cup {[current EXCEPT !.at = at]}
     ELSE (posting[e] \ {current}) \cup {[current EXCEPT !.to = from],
                                         [from |-> from, to |-> None, at |-> at]}
(* A change on the day of the latest assignment corrects it, open or not.  *)
Moved(e, at, from) ==
  LET current == Last(e)
  IN IF from = current.from
     THEN (posting[e] \ {current}) \cup {[current EXCEPT !.at = at]}
     ELSE (posting[e] \ {current}) \cup {[current EXCEPT !.to = from - 1],
                                         [from |-> from, to |-> None, at |-> at]}

ChangeEmployeeOrganization(e, at, from) ==
  /\ employee[e] # None
  /\ ~employee[e].archived /\ employee[e].status # "terminated"
  /\ Choosable(at)
  /\ employee[e].joined <= from /\ from <= today
  /\ Last(e).from <= from
  /\ posting' = [posting EXCEPT ![e] = Moved(e, at, from)]
  /\ UNCHANGED <<employee, Organization, Salaries, today>>

(* change_employee_lifecycle, which reads the offices without a lock.      *)
Lifecycle(e, status, ends) ==
  /\ employee[e] # None /\ ~employee[e].archived
  /\ Recorded(e, [employee[e] EXCEPT !.status = status, !.ends = ends])
Eligible(e) == \A o \in Office :
  WorksAt(e, o) => office[o].active /\ ~office[o].archived

ReturnActive(e) ==
  /\ Lifecycle(e, "active", None)
  /\ employee[e].status # "terminated" /\ Eligible(e)
  /\ UNCHANGED posting
PutOnLeave(e) ==
  /\ Lifecycle(e, "on_leave", None)
  /\ Employed(e) /\ Eligible(e)
  /\ UNCHANGED posting
StopActivity(e) ==
  /\ Lifecycle(e, "inactive", None)
  /\ Employed(e)
  /\ UNCHANGED posting
(* Also of who is terminated already: then there is nothing to close.      *)
Terminate(e, day) ==
  /\ Lifecycle(e, "terminated", day)
  /\ day <= today
  /\ \A a \in Open(e) : a.from <= day
  /\ posting' = [posting EXCEPT ![e] =
       (@ \ Open(e)) \cup {[a EXCEPT !.to = day] : a \in Open(e)}]

ArchiveEmployee(e) ==
  /\ employee[e] # None /\ ~employee[e].archived
  /\ Recorded(e, [employee[e] EXCEPT !.archived = TRUE]) /\ UNCHANGED posting
RestoreEmployeeArchive(e) ==
  /\ employee[e] # None /\ employee[e].archived
  /\ Recorded(e, [employee[e] EXCEPT !.archived = FALSE]) /\ UNCHANGED posting
DeleteEmployee(e) ==
  /\ employee[e] # None /\ employee[e].trash = "no"
  /\ Recorded(e, [employee[e] EXCEPT !.trash = "own"]) /\ UNCHANGED posting
RestoreEmployeeTrash(e) ==
  /\ employee[e] # None /\ employee[e].trash # "no"
  /\ Recorded(e, [employee[e] EXCEPT !.trash = "no"]) /\ UNCHANGED posting

-----------------------------------------------------------------------------
(* Branches and departments, whose services are the same *)

Housed(o, row) == /\ office' = [office EXCEPT ![o] = row]
                  /\ UNCHANGED <<employee, posting, clearing, Salaries, today>>

Founded(o, active) ==
  /\ office[o] = None
  /\ Housed(o, [active |-> active, archived |-> FALSE, trash |-> FALSE])
CreateBranch(o, active)     == o \in Branch /\ Founded(o, active)
CreateDepartment(o, active) == o \in Department /\ Founded(o, active)

(* current_employees of the lifecycle policy.                              *)
Staff(o) == {e \in Employee : /\ employee[e] # None /\ WorksAt(e, o) /\ Employed(e)
                              /\ ~employee[e].archived /\ employee[e].trash = "no"}
Toggled(o, active) ==
  /\ Idle(o)
  /\ active => ~office[o].archived
  /\ office[o].active /\ ~active => ~office[o].archived /\ Staff(o) = {}
  /\ Housed(o, [office[o] EXCEPT !.active = active])
UpdateBranch(o, active)     == o \in Branch /\ Toggled(o, active)
UpdateDepartment(o, active) == o \in Department /\ Toggled(o, active)

Shelved(o, archived) ==
  /\ Idle(o) /\ office[o].archived # archived
  /\ Housed(o, [office[o] EXCEPT !.archived = archived])
ArchiveBranch(o)            == o \in Branch /\ Shelved(o, TRUE)
RestoreBranchArchive(o)     == o \in Branch /\ Shelved(o, FALSE)
ArchiveDepartment(o)        == o \in Department /\ Shelved(o, TRUE)
RestoreDepartmentArchive(o) == o \in Department /\ Shelved(o, FALSE)

(* The office is locked and its employees are found by their assignments,  *)
(* which nobody locks;                                                     *)
Sought(o) ==
  /\ Idle(o) /\ ~office[o].trash
  /\ clearing' = [clearing EXCEPT ![o] =
       {e \in Employee : employee[e] # None /\ employee[e].trash = "no" /\ WorksAt(e, o)}]
  /\ UNCHANGED <<employee, posting, office, Salaries, today>>
(* once they can be locked they go with it, unless they were deleted.      *)
Cleared(o) ==
  /\ clearing[o] # None
  /\ clearing' = [clearing EXCEPT ![o] = None]
  /\ office' = [office EXCEPT ![o].trash = TRUE]
  /\ employee' = [e \in Employee |->
       IF e \in clearing[o] /\ employee[e].trash = "no"
       THEN [employee[e] EXCEPT !.trash = o] ELSE employee[e]]
  /\ UNCHANGED <<posting, Salaries, today>>
DeleteBranch(o)     == o \in Branch /\ (Sought(o) \/ Cleared(o))
DeleteDepartment(o) == o \in Department /\ (Sought(o) \/ Cleared(o))

Returned(o) ==
  /\ Idle(o) /\ office[o].trash
  /\ office' = [office EXCEPT ![o].trash = FALSE]
  /\ employee' = [e \in Employee |->
       IF employee[e] # None /\ employee[e].trash = o
       THEN [employee[e] EXCEPT !.trash = "no"] ELSE employee[e]]
  /\ UNCHANGED <<posting, clearing, Salaries, today>>
RestoreBranchTrash(o)     == o \in Branch /\ Returned(o)
RestoreDepartmentTrash(o) == o \in Department /\ Returned(o)

-----------------------------------------------------------------------------
(* Salary components and overtime policies *)

Unsalaried == <<employee, posting, Organization, today>>

(* One active component is the basic salary.                               *)
Mapped(c, row) ==
  /\ row.sort = "basic" /\ row.state = "active" =>
       \A d \in Component \ {c} :
         component[d] # None => ~(component[d].sort = "basic" /\ component[d].state = "active")
  /\ component' = [component EXCEPT ![c] = row]
  /\ UNCHANGED <<structure, policy, Unsalaried>>

CreateSalaryComponent(c, sort, state) ==
  /\ component[c] = None /\ state # "archived"
  /\ Mapped(c, [sort |-> sort, state |-> state])

Regular == {"basic", "earning"}   \* recurring earnings
ActivePolicies(c) ==
  {q \in Policy : policy[q] # None /\ policy[q].base = c /\ policy[q].state = "active"}

UpdateSalaryComponent(c, sort, state) ==
  /\ component[c] # None /\ component[c].state # "archived" /\ state # "archived"
  /\ ActivePolicies(c) # {} => state = "active" /\ sort \in Regular
  /\ Mapped(c, [sort |-> sort, state |-> state])

ArchiveSalaryComponent(c) ==
  /\ component[c] # None /\ component[c].state # "archived" /\ ActivePolicies(c) = {}
  /\ Mapped(c, [component[c] EXCEPT !.state = "archived"])
RestoreSalaryComponentArchive(c) ==
  /\ component[c] # None /\ component[c].state = "archived"
  /\ Mapped(c, [component[c] EXCEPT !.state = "inactive"])
DeleteSalaryComponent(c) ==
  /\ component[c] # None
  /\ \A q \in Policy : policy[q] # None => policy[q].base # c
  /\ \A e \in Employee : \A s \in structure[e] : c \notin s.lines
  /\ component' = [component EXCEPT ![c] = None]
  /\ UNCHANGED <<structure, policy, Unsalaried>>

(* OvertimePolicy.clean looks at the base, active or not.                  *)
Ruled(q, row) ==
  /\ component[row.base].sort \in Regular
  /\ policy' = [policy EXCEPT ![q] = row]
  /\ UNCHANGED <<structure, component, Unsalaried>>
ActiveBase(c) == component[c] # None /\ component[c].state = "active"

CreateOvertimePolicy(q, c, state) ==
  /\ policy[q] = None /\ state # "archived" /\ ActiveBase(c)
  /\ Ruled(q, [base |-> c, state |-> state])
UpdateOvertimePolicy(q, c, state) ==
  /\ policy[q] # None /\ policy[q].state # "archived" /\ state # "archived" /\ ActiveBase(c)
  /\ Ruled(q, [base |-> c, state |-> state])
ArchiveOvertimePolicy(q) ==
  /\ policy[q] # None /\ policy[q].state # "archived"
  /\ Ruled(q, [policy[q] EXCEPT !.state = "archived"])
RestoreOvertimePolicyArchive(q) ==
  /\ policy[q] # None /\ policy[q].state = "archived"
  /\ Ruled(q, [policy[q] EXCEPT !.state = "inactive"])
DeleteOvertimePolicy(q) ==
  /\ policy[q] # None
  /\ \A e \in Employee : \A s \in structure[e] : s.policy # q
  /\ policy' = [policy EXCEPT ![q] = None]
  /\ UNCHANGED <<structure, component, Unsalaried>>

-----------------------------------------------------------------------------
(* Salaries *)

(* SalaryStructure.clean *)
WithinEmployment(e, day) ==
  /\ employee[e].joined <= day
  /\ employee[e].ends # None => day <= employee[e].ends

PayableLines(lines, q) ==
  /\ \A c \in lines : ActiveBase(c) /\ component[c].sort # "variable"
  /\ Cardinality({c \in lines : component[c].sort = "basic"}) = 1
  /\ q # None => /\ policy[q] # None /\ policy[q].state = "active"
                 /\ policy[q].base \in lines

Latest(periods)   == CHOOSE s \in periods : \A t \in periods : s.from >= t.from
Earliest(periods) == CHOOSE s \in periods : \A t \in periods : s.from <= t.from

(* Mutant of Until: a salary entered before another one stays open-ended,  *)
(* or ends on the day the next one begins.                                 *)
UntilNext(later) == IF later = {} THEN None ELSE Earliest(later).from
Until(later) == IF later = {} THEN None ELSE Earliest(later).from - 1

(* The new salary ends before the next one; the one before it, should it   *)
(* reach this far, is saved with a new end.                                *)
AssignEmployeeSalaryStructure(e, from, lines, q) ==
  LET earlier  == {s \in structure[e] : s.from < from}
      later    == {s \in structure[e] : s.from > from}
      reaching == {s \in earlier : s = Latest(earlier) /\ (s.to = None \/ s.to >= from)}
  IN /\ employee[e] # None /\ WithinEmployment(e, from)
     /\ structure[e] = earlier \cup later
     /\ PayableLines(lines, q)
     /\ \A s \in reaching : WithinEmployment(e, s.from)
     /\ structure' = [structure EXCEPT ![e] =
          (@ \ reaching) \cup {[s EXCEPT !.to = from - 1] : s \in reaching}
          \cup {[from |-> from, to |-> Until(later), policy |-> q, lines |-> lines]}]
     /\ UNCHANGED <<component, policy, Unsalaried>>

TimePasses == /\ today < MaxDay /\ today' = today + 1
              /\ UNCHANGED <<employee, posting, Organization, Salaries>>

-----------------------------------------------------------------------------
EmployeeNext ==
  \/ TimePasses
  \/ \E e \in Employee, status \in {"active", "on_leave", "inactive", "terminated"},
        joined \in Day, ends \in Day \cup {None} :
       \/ UpdateEmployee(e, joined, ends, status)
       \/ \E at \in Place : CreateEmployee(e, joined, ends, status, at)
  \/ \E e \in Employee, day \in Day :
       \/ Terminate(e, day)
       \/ \E at \in Place : ChangeEmployeeOrganization(e, at, day)
       \/ \E lines \in SUBSET Component, q \in Policy \cup {None} :
            AssignEmployeeSalaryStructure(e, day, lines, q)
  \/ \E e \in Employee :
       \/ ReturnActive(e) \/ PutOnLeave(e) \/ StopActivity(e)
       \/ ArchiveEmployee(e) \/ RestoreEmployeeArchive(e)
       \/ DeleteEmployee(e) \/ RestoreEmployeeTrash(e)
  \/ \E o \in Office :
       \/ \E active \in BOOLEAN :
            CreateBranch(o, active) \/ UpdateBranch(o, active)
            \/ CreateDepartment(o, active) \/ UpdateDepartment(o, active)
       \/ ArchiveBranch(o) \/ RestoreBranchArchive(o)
       \/ DeleteBranch(o) \/ RestoreBranchTrash(o)
       \/ ArchiveDepartment(o) \/ RestoreDepartmentArchive(o)
       \/ DeleteDepartment(o) \/ RestoreDepartmentTrash(o)
  \/ \E c \in Component :
       \/ \E sort \in Sorts, state \in Setup :
            CreateSalaryComponent(c, sort, state) \/ UpdateSalaryComponent(c, sort, state)
       \/ ArchiveSalaryComponent(c) \/ RestoreSalaryComponentArchive(c)
       \/ DeleteSalaryComponent(c)
  \/ \E q \in Policy :
       \/ \E c \in Component, state \in Setup :
            CreateOvertimePolicy(q, c, state) \/ UpdateOvertimePolicy(q, c, state)
       \/ ArchiveOvertimePolicy(q) \/ RestoreOvertimePolicyArchive(q)
       \/ DeleteOvertimePolicy(q)

EmployeeSpec == FileInit /\ [][EmployeeNext]_fileVars

-----------------------------------------------------------------------------
Covers(s, day) == s.from <= day /\ (s.to # None => day <= s.to)

(* From the first day of a history to its last, every day belongs to       *)
(* exactly one of its periods, and only the last period may be open.       *)
Seamless(periods) ==
  \A day \in Day, s \in periods : s.from <= day =>
    \/ Cardinality({t \in periods : Covers(t, day)}) = 1
    \/ \A t \in periods : t.to # None /\ t.to < day

(* The salaries of an employee may be entered in any order, and whatever   *)
(* the form sets elsewhere, payroll finds one place and one salary for     *)
(* every day since the first; and a salary once entered never ends.        *)
HistoriesSeamless ==
  \A e \in Employee :
    /\ Seamless(posting[e]) /\ Seamless(structure[e])
    /\ structure[e] # {} => \E s \in structure[e] : s.to = None

(* The overtime of an active policy is computed from a component that may  *)
(* still be paid, whichever of the two was edited last; and nothing names  *)
(* a component or policy that was deleted.                                 *)
PoliciesUsable ==
  /\ \A q \in Policy : policy[q] # None =>
       /\ component[policy[q].base] # None
       /\ policy[q].state = "active" =>
            ActiveBase(policy[q].base) /\ component[policy[q].base].sort \in Regular
  /\ \A e \in Employee : \A s \in structure[e] :
       /\ \A c \in s.lines : component[c] # None
       /\ s.policy # None => policy[s.policy] # None

FilesSound == HistoriesSeamless /\ PoliciesUsable

(* A new salary replaces an old one only from its own first day on, and    *)
(* never beyond the next: no other day changes its salary, and no day that *)
(* had one is left without.                                                *)
SalaryOn(e, day) == {[from |-> s.from, policy |-> s.policy, lines |-> s.lines] :
                      s \in {s \in structure[e] : Covers(s, day)}}
PastSalaryKept ==
  [][\A e \in Employee : structure'[e] # structure[e] => \A day \in Day :
       SalaryOn(e, day)' # SalaryOn(e, day) =>
         \E s \in structure'[e] :
           /\ \A t \in structure[e] : t.from # s.from
           /\ Covers(s, day) /\ Cardinality(SalaryOn(e, day)') = 1]_structure

(* Not so.  Who was terminated is made active again by the form;           *)
TerminatedStay ==
  [][\A e \in Employee : employee[e] # None /\ employee[e].status = "terminated" =>
       employee'[e].status = "terminated"]_fileVars
(* the assignment does not always end with the employment;                 *)
EndTogether ==
  \A e \in Employee : employee[e] # None /\ employee[e].status = "terminated" =>
    \A a \in posting[e] : a.to # None /\ a.to <= employee[e].ends
(* a salary may start before the employee joined, or after they left;      *)
SalariesWithin ==
  \A e \in Employee : \A s \in structure[e] : WithinEmployment(e, s.from)
(* employees may be active at an office that is not;                       *)
StaffedOffices ==
  \A o \in Office : office[o] # None /\ Staff(o) # {} => office[o].active
(* and an employee who moves while their old branch is deleted is deleted  *)
(* with it.                                                                *)
DeletedWhereTheyWork ==
  [][\A e \in Employee, o \in Office :
       employee[e] # None /\ employee'[e].trash = o /\ employee[e].trash # o
         => WorksAt(e, o)]_fileVars
=============================================================================
