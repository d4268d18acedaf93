----------------------------- MODULE PayrollRun -----------------------------
(***************************************************************************)
(* One month of internal payroll up to its approval: the attendance sheet  *)
(* (services/attendance.py), the adjustments and the payroll run           *)
(* (services/payroll.py).  SalaryPayment goes on from there.               *)
(*                                                                         *)
(* A run freezes what it was calculated from as a fingerprint; submission, *)
(* review and approval compare it with what they find.  Services lock the  *)
(* run and what they read and are one step each, except where a lock is    *)
(* missing: an adjustment is approved under the lock of the run only if    *)
(* there is a run, and the policy is changed under no lock of a run.  Such *)
(* a request has looked at the run long before it writes, so an approval   *)
(* of the run is two steps: it verifies and keeps the rows it has read     *)
(* locked, and it commits.  (A submission and a review verify too, but     *)
(* what changes before they commit might as well have changed after.  An   *)
(* adjustment is drafted and submitted like that too, but no run reads it  *)
(* before it is approved: those are one step.)                             *)
(* Permissions and the reasons why a calculation is blocked by its inputs  *)
(* only refuse calls and are left out.                                     *)
(***************************************************************************)
EXTENDS Naturals, FiniteSets, Functions, Absence

CONSTANTS User,
          Sheet, Terms, Policy,  \* attendance, salary and proration inputs
          NotConfigured,         \* the policy of a company that never set one
          Adj,                   \* adjustments of one employee in this month
          Kind, Date,            \* their types and transaction dates
          Amount,                \* amounts an adjustment may have
          MaxRevision,           \* bound on the revisions of the run
          SealsRevision          \* the snapshot fingerprint covers run.revision

ASSUME PayrollAssumption ==
  /\ Kind \in [Adj -> {"ADVANCE", "RECOVERY", "OTHER"}]
  /\ Date \in [Adj -> Nat]
  /\ NotConfigured \in Policy
  /\ Amount \subseteq Nat /\ Amount # {} /\ MaxRevision \in Nat
  /\ SealsRevision \in BOOLEAN
  /\ None \notin User

VARIABLES attendance,  \* status and content of the attendance period
          terms,       \* salary structures, assignments, overtime
          policy,      \* proration policy
          rewriting,   \* a policy update that has passed its check
          adj,         \* [Adj -> status and amount]
          unlocked,    \* adjustments whose approval found no run to lock
          run,         \* the payroll run
          approving    \* who has verified it to approve it, and holds what was read

vars == <<attendance, terms, policy, rewriting, adj, unlocked, run, approving>>

(* _build_calculation_locked: what a calculation reads.  An advance only    *)
(* creates a balance.                                                       *)
Approved == {a \in Adj : adj[a].status = "APPROVED"}

Source == [sheet  |-> attendance.sheet,
           terms  |-> terms,
           policy |-> policy,
           adjustments |-> {<<a, adj[a].amount>> : a \in {x \in Approved : Kind[x] # "ADVANCE"}}]

Sources == [sheet : Sheet, terms : Terms, policy : Policy,
            adjustments : SUBSET (Adj \X Amount)]

ASSUME NoSourceAssumption == None \notin Sources

Actor == User \cup {None}

NoRun == [status |-> "NONE", revision |-> 0, sealed |-> 0, source |-> None,
          submitter |-> None, reviewer |-> None, approver |-> None]

TypeOK ==
  /\ attendance \in [status : {"DRAFT", "SUBMITTED", "APPROVED", "LOCKED"}, sheet : Sheet]
  /\ terms \in Terms /\ policy \in Policy /\ rewriting \in BOOLEAN
  /\ adj \in [Adj -> [status : {"NONE", "DRAFT", "REVIEW", "APPROVED"}, amount : Amount]]
  /\ unlocked \in SUBSET {a \in Adj : adj[a].status \in {"REVIEW", "APPROVED"}}
  /\ run \in [status : {"NONE", "DRAFT", "CALCULATED", "REVIEW", "APPROVED"},
              revision : 0..MaxRevision, sealed : 0..MaxRevision, source : Sources \cup {None},
              submitter : Actor, reviewer : Actor, approver : Actor]
  /\ run.status \in {"NONE", "DRAFT"} <=> run.source = None
  /\ approving \in Actor

Init ==
  /\ attendance \in [status : {"DRAFT"}, sheet : Sheet]
  /\ terms \in Terms /\ policy \in Policy
  /\ rewriting = FALSE
  /\ adj \in [Adj -> [status : {"NONE"}, amount : {CHOOSE n \in Amount : TRUE}]]
  /\ unlocked = {}
  /\ run = NoRun /\ approving = None

----------------------------------------------------------------------------
(* Inputs of the calculation *)

(* save_attendance_entries, save_overtime_entries, import_attendance_rows *)
EditSheet ==
  /\ attendance.status = "DRAFT"
  /\ \E s \in Sheet : attendance' = [attendance EXCEPT !.sheet = s]
  /\ UNCHANGED <<terms, policy, rewriting, adj, unlocked, run, approving>>

Forward == [DRAFT |-> "SUBMITTED", SUBMITTED |-> "APPROVED", APPROVED |-> "LOCKED"]

(* transition_attendance_period: submit, approve, lock *)
AdvanceSheet ==
  /\ attendance.status \in DOMAIN Forward
  /\ attendance' = [attendance EXCEPT !.status = Forward[@]]
  /\ UNCHANGED <<terms, policy, rewriting, adj, unlocked, run, approving>>

(* Mutant of SheetFree: only a run in review holds its attendance. *)
SheetFreeCalculated == run.status \notin {"REVIEW", "APPROVED"}

SheetFree == run.status \in {"NONE", "DRAFT"}

(* transition_attendance_period: return_to_draft *)
ReturnSheet ==
  /\ attendance.status # "DRAFT"
  /\ SheetFree
  /\ attendance' = [attendance EXCEPT !.status = "DRAFT"]
  /\ UNCHANGED <<terms, policy, rewriting, adj, unlocked, run, approving>>

(* assign_employee_salary_structure and the organization services look at   *)
(* no payroll run.  Those of an employee wait for a verification, but a new *)
(* employee or an archived branch meets no lock of it.                      *)
ChangeTerms ==
  /\ \E t \in Terms : terms' = t
  /\ UNCHANGED <<attendance, policy, rewriting, adj, unlocked, run, approving>>

(* update_payroll_policy asks for runs in review and then waits for the     *)
(* lock of the policy row, which a calculation holds.                       *)
CheckPolicy ==
  /\ ~rewriting
  /\ run.status # "REVIEW"
  /\ rewriting' = TRUE
  /\ UNCHANGED <<attendance, terms, policy, adj, unlocked, run, approving>>

RowsFree == approving = None

(* Mutant of WritePolicy: _policy_locked does not lock.                     *)
WritePolicyUnlocked ==
  /\ rewriting
  /\ \E p \in Policy : policy' = p
  /\ rewriting' = FALSE
  /\ UNCHANGED <<attendance, terms, adj, unlocked, run, approving>>
(* A policy that was never set has no row to wait for.                      *)
WritePolicy ==
  /\ rewriting
  /\ RowsFree \/ policy = NotConfigured
  /\ \E p \in Policy : policy' = p
  /\ rewriting' = FALSE
  /\ UNCHANGED <<attendance, terms, adj, unlocked, run, approving>>

----------------------------------------------------------------------------
(* Adjustments *)

(* _assert_adjustment_period_mutable *)
Mutable == run.status \notin {"REVIEW", "APPROVED"}

Set(a, status, amount) ==
  /\ adj' = [adj EXCEPT ![a] = [status |-> status, amount |-> amount]]
  /\ UNCHANGED <<attendance, terms, policy, rewriting, run, approving>>

(* create_payroll_adjustment, update_payroll_adjustment *)
WriteAdjustment(a) ==
  /\ adj[a].status \in {"NONE", "DRAFT"} /\ Mutable
  /\ \E n \in Amount : Set(a, "DRAFT", n)
  /\ UNCHANGED unlocked

SubmitAdjustment(a) ==
  /\ adj[a].status = "DRAFT" /\ Mutable
  /\ Set(a, "REVIEW", adj[a].amount)
  /\ UNCHANGED unlocked

ReturnAdjustment(a) ==
  /\ adj[a].status = "REVIEW" /\ a \notin unlocked /\ Mutable
  /\ Set(a, "DRAFT", adj[a].amount)
  /\ UNCHANGED unlocked

SumOf(kind, rows) ==
  SumFunctionOnSet([a \in Adj |-> adj[a].amount], {a \in rows : Kind[a] = kind})

AsOf(date) == {a \in Approved : Date[a] <= date}

(* _approved_advance_balance_locked: issued less recovered, as of a date *)
WithinBalance(a) ==
  Kind[a] = "RECOVERY" =>
    SumOf("RECOVERY", AsOf(Date[a])) + adj[a].amount <= SumOf("ADVANCE", AsOf(Date[a]))

(* No run exists, so the check that the period is mutable locks nothing. *)
CheckMutable(a) ==
  /\ adj[a].status = "REVIEW" /\ run.status = "NONE"
  /\ unlocked' = unlocked \cup {a}
  /\ UNCHANGED <<attendance, terms, policy, rewriting, adj, run, approving>>

(* transition_payroll_adjustment: approve, from the lock of the employee    *)
(* on, which a verification of the run holds.  Those stay in unlocked that  *)
(* a run does not look at any more.                                         *)
ApproveAdjustment(a) ==
  /\ adj[a].status = "REVIEW"
  /\ a \in unlocked \/ Mutable
  /\ RowsFree
  /\ WithinBalance(a)
  /\ Set(a, "APPROVED", adj[a].amount)
  /\ unlocked' = IF Mutable THEN unlocked \ {a} ELSE unlocked

(* The approval is refused, as beyond the balance, or lost.                 *)
DropApproval(a) ==
  /\ a \in unlocked /\ adj[a].status = "REVIEW"
  /\ unlocked' = unlocked \ {a}
  /\ UNCHANGED <<attendance, terms, policy, rewriting, adj, run, approving>>

----------------------------------------------------------------------------
(* The payroll run *)

Unchanged == UNCHANGED <<attendance, terms, policy, rewriting, adj, unlocked, approving>>

Step(status) == run.status = status /\ run.revision < MaxRevision

(* calculate_payroll_run *)
Calculate ==
  /\ run.status \in {"NONE", "DRAFT", "CALCULATED"} /\ run.revision < MaxRevision
  /\ attendance.status \in {"APPROVED", "LOCKED"}
  /\ run' = [NoRun EXCEPT !.status = "CALCULATED", !.revision = run.revision + 1,
                          !.sealed = run.revision + 1, !.source = Source]
  /\ Unchanged

Emptied(r) == [NoRun EXCEPT !.status = "DRAFT", !.revision = r.revision + 1]

(* reset_payroll_run *)
Reset ==
  /\ Step("CALCULATED")
  /\ run' = Emptied(run)
  /\ Unchanged

SourceFresh == run.source = Source

(* _verify_snapshot_locked: the payload of the hash includes run.revision *)
SnapshotIntact == SealsRevision => run.sealed = run.revision

(* _verify_run_locked *)
Verified == attendance.status = "LOCKED" /\ SourceFresh /\ SnapshotIntact

SubmitReview(u) ==
  /\ Step("CALCULATED") /\ Verified
  /\ run' = [run EXCEPT !.status = "REVIEW", !.revision = @ + 1,
                        !.submitter = u, !.reviewer = None]
  /\ Unchanged

MayReview(u) == u # run.submitter

Review(u) ==
  /\ Step("REVIEW") /\ RowsFree /\ Verified
  /\ MayReview(u)
  /\ run' = [run EXCEPT !.revision = @ + 1, !.reviewer = u]
  /\ Unchanged

ReturnForChanges ==
  /\ Step("REVIEW") /\ RowsFree
  /\ run' = [run EXCEPT !.status = "CALCULATED", !.revision = @ + 1,
                        !.submitter = None, !.reviewer = None]
  /\ Unchanged

(* Mutant of MayApprove: only the submitter is kept from approving. *)
MayApproveReviewed(u) == run.reviewer # None /\ u # run.submitter

MayApprove(u) == run.reviewer # None /\ u \notin {run.reviewer, run.submitter}

(* transition_payroll_run: approve, to the end of the verification ...      *)
VerifyApproval(u) ==
  /\ Step("REVIEW") /\ RowsFree /\ Verified
  /\ MayApprove(u)
  /\ approving' = u
  /\ UNCHANGED <<attendance, terms, policy, rewriting, adj, unlocked, run>>

(* ... and to its commit.  An approval that fails in between never was.     *)
Approve(u) ==
  /\ approving = u
  /\ run' = [run EXCEPT !.status = "APPROVED", !.revision = @ + 1, !.approver = u]
  /\ approving' = None
  /\ UNCHANGED <<attendance, terms, policy, rewriting, adj, unlocked>>

Next ==
  \/ EditSheet \/ AdvanceSheet \/ ReturnSheet
  \/ ChangeTerms \/ CheckPolicy \/ WritePolicy
  \/ \E a \in Adj : \/ WriteAdjustment(a) \/ SubmitAdjustment(a) \/ ReturnAdjustment(a)
                    \/ CheckMutable(a) \/ ApproveAdjustment(a) \/ DropApproval(a)
  \/ Calculate \/ Reset \/ ReturnForChanges
  \/ \E u \in User : SubmitReview(u) \/ Review(u) \/ VerifyApproval(u) \/ Approve(u)

Spec == Init /\ [][Next]_vars

----------------------------------------------------------------------------
(* Properties *)

(* The attendance a run was calculated from stays as it is for as long as   *)
(* the run has a snapshot, and is locked once the run is under review.      *)
SheetHeld ==
  /\ run.source # None => /\ attendance.status \in {"APPROVED", "LOCKED"}
                          /\ run.source.sheet = attendance.sheet
  /\ run.status \in {"REVIEW", "APPROVED"} => attendance.status = "LOCKED"

(* The typed state, and the sheet under a run with a snapshot.              *)
PayrollInv == TypeOK /\ SheetHeld

(* INTERNAL_FINANCE_PERMISSIONS.md: "the payroll submitter cannot sign the  *)
(* Finance Review; the final approver cannot be the payroll submitter or    *)
(* the Finance Reviewer", through any returns, resubmissions and reviews.   *)
ThreePeople ==
  run.status = "APPROVED" =>
    /\ None \notin {run.submitter, run.reviewer, run.approver}
    /\ Cardinality({run.submitter, run.reviewer, run.approver}) = 3

(* What an approval has verified stands until it commits, although policy   *)
(* updates and approvals of adjustments that saw no run to stop for are     *)
(* still under way; of an approved run every adjustment it pays stands, and *)
(* it lacks those only that were approved by such a request.  (Attendance   *)
(* is SheetHeld's, and terms may change: see ChangeTerms.)                  *)
ApprovesWhatIs ==
  /\ approving # None => /\ run.source.policy \in {policy, NotConfigured}
                         /\ run.source.adjustments = Source.adjustments
  /\ run.status = "APPROVED" =>
       /\ run.source.adjustments \subseteq Source.adjustments
       /\ \A a \in Approved \ unlocked :
            Kind[a] # "ADVANCE" => <<a, adj[a].amount>> \in run.source.adjustments

(* test_payroll.py, test_final_approval_requires_independent_review_signoff: *)
(* a submitted run whose inputs are as submitted can be reviewed.            *)
ReviewPossible == run.status = "REVIEW" /\ run.source = Source => Verified

(* payroll.py: "Advance recovery exceeds the approved outstanding balance": *)
(* what is recovered from an employee is never more than was advanced.      *)
RecoveredWithinAdvanced == SumOf("RECOVERY", Approved) <= SumOf("ADVANCE", Approved)
=============================================================================
