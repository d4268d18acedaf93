---------------------------- MODULE PayrollDesk ----------------------------
(***************************************************************************)
(* The request layer of a payroll month (payroll_api.py,                   *)
(* attendance_api.py and the selectors their pages are drawn from): who    *)
(* may ask for what, and which actions the pages offer to whom.            *)
(*                                                                         *)
(* The selectors decide what is offered from rules of their own, on data   *)
(* they read again; the services decide again what is accepted.  An action *)
(* is a request and is named after its view; "action" is the word in its   *)
(* body, after the view has normalised it.                                 *)
(***************************************************************************)
EXTENDS PayrollRun

CONSTANT May   \* what the access profile of each user permits

Permission == {"edit", "submit", "approve_attendance", "prepare", "review", "approve",
               "manage", "approve_adjustments"}

ASSUME DeskAssumption == May \in [User -> SUBSET Permission]

----------------------------------------------------------------------------
(* Requests *)

attendance_api(u)        == "edit" \in May[u] /\ EditSheet
overtime_api(u)          == "edit" \in May[u] /\ EditSheet
attendance_import_api(u) == "edit" \in May[u] /\ EditSheet

nextAction == [DRAFT |-> "submit", SUBMITTED |-> "approve", APPROVED |-> "lock"]
SheetRight(action) == IF action = "submit" THEN "submit" ELSE "approve_attendance"

attendance_workflow_api(u, action) ==
  /\ SheetRight(action) \in May[u]
  /\ \/ /\ attendance.status \in DOMAIN nextAction /\ action = nextAction[attendance.status]
        /\ AdvanceSheet
     \/ action = "return_to_draft" /\ ReturnSheet

payroll_policy_api(u)    == "prepare" \in May[u] /\ CheckPolicy
payroll_calculate_api(u) == "prepare" \in May[u] /\ Calculate

RunRight == [calculate |-> "prepare", reset |-> "prepare", submit_review |-> "prepare",
             review |-> "review", return_for_changes |-> "review", approve |-> "approve"]

payroll_workflow_api(u, action) ==
  /\ RunRight[action] \in May[u]
  /\ \/ action = "reset" /\ Reset
     \/ action = "submit_review" /\ SubmitReview(u)
     \/ action = "review" /\ Review(u)
     \/ action = "return_for_changes" /\ ReturnForChanges
     \/ action = "approve" /\ VerifyApproval(u)

payroll_adjustments_api(u, a) ==
  "manage" \in May[u] /\ adj[a].status = "NONE" /\ WriteAdjustment(a)
payroll_adjustment_detail_api(u, a) ==
  "manage" \in May[u] /\ adj[a].status = "DRAFT" /\ WriteAdjustment(a)
payroll_adjustment_workflow_api(u, a) ==
  \/ "manage" \in May[u] /\ SubmitAdjustment(a)
  \/ /\ "approve_adjustments" \in May[u]
     /\ \/ CheckMutable(a) \/ ApproveAdjustment(a) \/ DropApproval(a)
        \/ ReturnAdjustment(a)

(* The organization and salary pages, and the second halves of a change of  *)
(* the policy and of an approval.                                           *)
Elsewhere == ChangeTerms \/ WritePolicy \/ \E u \in User : Approve(u)

DeskNext ==
  \/ \E u \in User :
       \/ attendance_api(u) \/ overtime_api(u) \/ attendance_import_api(u)
       \/ \E action \in {"submit", "approve", "lock", "return_to_draft"} :
            attendance_workflow_api(u, action)
       \/ payroll_policy_api(u) \/ payroll_calculate_api(u)
       \/ \E action \in DOMAIN RunRight : payroll_workflow_api(u, action)
       \/ \E a \in Adj : \/ payroll_adjustments_api(u, a) \/ payroll_adjustment_detail_api(u, a)
                         \/ payroll_adjustment_workflow_api(u, a)
  \/ Elsewhere

DeskSpec == Init /\ [][DeskNext]_vars

----------------------------------------------------------------------------
(* What the pages offer *)

(* Mutant of source_clear: the page does not verify the sources again.      *)
source_clear_unread == run.status = "REVIEW" => attendance.status = "LOCKED"

(* verify_payroll_run_integrity as the pages call it: a calculated run need *)
(* not have its attendance locked.                                          *)
source_clear ==
  /\ run.status \in {"CALCULATED", "REVIEW"} => SourceFresh /\ SnapshotIntact
  /\ run.status = "REVIEW" => attendance.status = "LOCKED"

attendance_calculable == attendance.status \in {"APPROVED", "LOCKED"}
attendance_locked     == attendance.status = "LOCKED"
review_signed_off     == run.reviewer # None

(* payroll_run_page_context and payroll_period_context                      *)
Shown(action) ==
  CASE action = "calculate" ->
         run.status \in {"NONE", "DRAFT", "CALCULATED"} /\ attendance_calculable /\ source_clear
    [] action = "reset" -> run.status = "CALCULATED"
    [] action = "submit_review" -> run.status = "CALCULATED" /\ attendance_locked /\ source_clear
    [] action = "return_for_changes" -> run.status = "REVIEW"
    [] action = "review" ->
         run.status = "REVIEW" /\ attendance_locked /\ source_clear /\ ~review_signed_off
    [] action = "approve" ->
         run.status = "REVIEW" /\ attendance_locked /\ source_clear /\ review_signed_off

allowed_actions(u) ==
  {action \in DOMAIN RunRight : RunRight[action] \in May[u] /\ Shown(action)}

(* serialize_attendance_period, and the button of the attendance page that  *)
(* returns a month                                                          *)
SheetActions(u) ==
  (IF attendance.status \in DOMAIN nextAction /\ SheetRight(nextAction[attendance.status]) \in May[u]
   THEN {nextAction[attendance.status]} ELSE {})
  \cup (IF "approve_attendance" \in May[u] /\ attendance.status \in {"SUBMITTED", "APPROVED"}
        THEN {"return_to_draft"} ELSE {})

RunAccepts(u, action) ==
  ENABLED (IF action = "calculate" THEN payroll_calculate_api(u)
           ELSE payroll_workflow_api(u, action))

(* Who took an earlier step of a run is shown the later ones all the same,  *)
(* and the attendance page does not look at the run.                        *)
OwnStep(u, action) ==
  action \in {"review", "approve"} /\ u \in {run.submitter, run.reviewer}

----------------------------------------------------------------------------
(* Properties *)

(* What the pages offer the services accept: the selectors verify the       *)
(* sources as the services do, and miss only the separation of duties and   *)
(* that a run holds its attendance.  (A page that is asked for while an     *)
(* approval has its rows locked waits for it.)                              *)
OffersWork ==
  \A u \in User :
    /\ RowsFree /\ run.revision < MaxRevision =>
         \A action \in allowed_actions(u) : OwnStep(u, action) \/ RunAccepts(u, action)
    /\ \A action \in SheetActions(u) :
         \/ action = "return_to_draft" /\ ~SheetFree
         \/ ENABLED attendance_workflow_api(u, action)

(* A month that is not approved never comes to a stop: whatever changed     *)
(* under the run, and whoever took its last step, somebody is offered       *)
(* something that the services accept.                                      *)
WayForward ==
  RowsFree /\ run.status # "APPROVED" /\ run.revision < MaxRevision =>
    \E u \in User :
      \/ \E action \in allowed_actions(u) : RunAccepts(u, action)
      \/ \E action \in SheetActions(u) : ENABLED attendance_workflow_api(u, action)

(* INTERNAL_FINANCE_PERMISSIONS.md: "Any recalculation/resubmission clears  *)
(* stale review evidence": a sign-off is of the run that is under review.   *)
SignOffCurrent ==
  /\ review_signed_off => run.status \in {"REVIEW", "APPROVED"} /\ run.submitter # None
  /\ run.status = "REVIEW" /\ review_signed_off => run.reviewer # run.submitter

(* The inputs of a run are held, and its evidence is current.               *)
DeskInv == PayrollInv /\ SignOffCurrent

(* The pages of a month agree with its services and never run out.          *)
PagesOffer == OffersWork /\ WayForward
=============================================================================
