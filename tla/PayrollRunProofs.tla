-------------------------- MODULE PayrollRunProofs --------------------------
(***************************************************************************)
(* One month of payroll, whatever the users and their permissions, the     *)
(* inputs and the adjustments, and in every interleaving of what changes   *)
(* them: what an approval has verified stands until it commits, and three  *)
(* people sign.                                                            *)
(***************************************************************************)
EXTENDS PayrollDesk, FiniteSetTheorems, TLAPS

(* A run under review has somebody who submitted it. *)
Submitted == run.status = "REVIEW" => run.submitter # None

(* An approval that holds its rows is of a signed run that one step more    *)
(* does not take beyond the bound.                                          *)
ApprovalSigned == approving # None =>
  run.status = "REVIEW" /\ run.revision < MaxRevision /\ MayApprove(approving)

(* The inductive invariant: three people have signed an approved run,       *)
(* because who signed before is on it and a recalculation forgets them all; *)
(* and an approval under way has kept everybody else from its rows.         *)
IInv == PayrollInv /\ SignOffCurrent /\ Submitted /\ ThreePeople /\ ApprovalSigned /\ ApprovesWhatIs

AdjRow == [status : {"NONE", "DRAFT", "REVIEW", "APPROVED"}, amount : Amount]

RunRow == [status : {"NONE", "DRAFT", "CALCULATED", "REVIEW", "APPROVED"},
           revision : 0..MaxRevision, sealed : 0..MaxRevision, source : Sources \cup {None},
           submitter : Actor, reviewer : Actor, approver : Actor]

LEMMA SourceIs == ASSUME TypeOK PROVE Source \in Sources /\ Source # None
<1>1. /\ attendance.sheet \in Sheet /\ terms \in Terms /\ policy \in Policy
      /\ \A a \in Adj : adj[a].amount \in Amount
  BY DEF TypeOK
<1>2. {<<a, adj[a].amount>> : a \in {x \in Approved : Kind[x] # "ADVANCE"}} \in SUBSET (Adj \X Amount)
  BY <1>1 DEF Approved
<1>3. Source \in Sources
  BY <1>1, <1>2 DEF Source, Sources
<1> QED
  BY <1>3, NoSourceAssumption

----------------------------------------------------------------------------
(* Steps that leave the run alone *)

(* ApprovesWhatIs looks at the run, the policy and what is approved.        *)
LEMMA ApprovalKept ==
  ASSUME IInv, run' = run, approving' = approving,
         approving # None \/ run.status = "APPROVED" => adj' = adj,
         approving # None => policy' = policy \/ policy = NotConfigured,
         run.status = "APPROVED" => unlocked' = unlocked
  PROVE  ApprovesWhatIs'
<1>1. ApprovesWhatIs
  BY DEF IInv
<1>2. ASSUME approving # None \/ run.status = "APPROVED"
      PROVE  Approved' = Approved /\ Source'.adjustments = Source.adjustments
  BY <1>2 DEF Approved, Source
<1>3. CASE approving # None
  BY <1>1, <1>2, <1>3 DEF ApprovesWhatIs
<1>4. CASE approving = None
  BY <1>1, <1>2, <1>4 DEF ApprovesWhatIs
<1> QED
  BY <1>3, <1>4

LEMMA RunStays ==
  ASSUME IInv, run' = run, approving' = approving, rewriting' \in BOOLEAN,
         attendance' \in [status : {"DRAFT", "SUBMITTED", "APPROVED", "LOCKED"}, sheet : Sheet],
         terms' \in Terms, policy' \in Policy, adj' \in [Adj -> AdjRow],
         unlocked' \in SUBSET {a \in Adj : adj'[a].status \in {"REVIEW", "APPROVED"}},
         SheetHeld', ApprovesWhatIs'
  PROVE  IInv'
<1>1. TypeOK'
  BY DEF IInv, PayrollInv, TypeOK, AdjRow
<1>2. SignOffCurrent' /\ Submitted' /\ ThreePeople'
  BY DEF IInv, SignOffCurrent, review_signed_off, Submitted, ThreePeople
<1>3. ApprovalSigned'
  BY DEF IInv, ApprovalSigned, MayApprove
<1> QED
  BY <1>1, <1>2, <1>3 DEF IInv, PayrollInv

LEMMA InputsMoved ==
  ASSUME IInv, EditSheet \/ AdvanceSheet \/ ReturnSheet \/ ChangeTerms \/ CheckPolicy \/ WritePolicy
  PROVE  IInv'
<1> DEFINE Period == [status : {"DRAFT", "SUBMITTED", "APPROVED", "LOCKED"}, sheet : Sheet]
<1>1. /\ TypeOK /\ SheetHeld /\ run' = run /\ adj' = adj /\ unlocked' = unlocked
      /\ approving' = approving
      /\ attendance \in Period /\ terms \in Terms /\ policy \in Policy /\ rewriting \in BOOLEAN
  BY DEF IInv, PayrollInv, TypeOK, EditSheet, AdvanceSheet, ReturnSheet, ChangeTerms, CheckPolicy, WritePolicy
<1>2. terms' \in Terms /\ policy' \in Policy /\ rewriting' \in BOOLEAN
  BY <1>1 DEF EditSheet, AdvanceSheet, ReturnSheet, ChangeTerms, CheckPolicy, WritePolicy
<1>3. attendance' \in Period /\ SheetHeld'
  <2>1. CASE EditSheet
    <3>1. PICK s \in Sheet : attendance' = [attendance EXCEPT !.sheet = s]
      BY <2>1 DEF EditSheet
    <3>2. attendance.status = "DRAFT"
      BY <2>1 DEF EditSheet
    <3>3. attendance' \in Period /\ attendance'.status = "DRAFT"
      BY <3>1, <3>2, <1>1
    <3>4. run.source = None /\ run.status \notin {"REVIEW", "APPROVED"}
      BY <3>2, <1>1 DEF SheetHeld
    <3> QED
      BY <3>3, <3>4, <1>1 DEF SheetHeld
  <2>2. CASE AdvanceSheet
    <3>1. attendance.status \in {"DRAFT", "SUBMITTED", "APPROVED"}
      BY <2>2 DEF AdvanceSheet, Forward
    <3>2. /\ attendance' = [attendance EXCEPT !.status = Forward[attendance.status]]
          /\ Forward[attendance.status] \in {"SUBMITTED", "APPROVED", "LOCKED"}
          /\ attendance.status = "APPROVED" => Forward[attendance.status] = "LOCKED"
      BY <2>2, <3>1 DEF AdvanceSheet, Forward
    <3> DEFINE word == Forward[attendance.status]
    <3> HIDE DEF word
    <3>3. /\ attendance' \in Period /\ attendance'.sheet = attendance.sheet
          /\ attendance'.status = word
      BY <3>2, <1>1 DEF word
    <3>4. run.status \notin {"REVIEW", "APPROVED"}
      BY <3>1, <1>1 DEF SheetHeld
    <3>5. run.source # None => word = "LOCKED" /\ run.source.sheet = attendance.sheet
      BY <3>1, <3>2, <1>1 DEF SheetHeld, word
    <3> QED
      BY <3>3, <3>4, <3>5, <1>1 DEF SheetHeld
  <2>3. CASE ReturnSheet
    <3>1. attendance' = [attendance EXCEPT !.status = "DRAFT"] /\ SheetFree
      BY <2>3 DEF ReturnSheet
    <3>2. attendance' \in Period
      BY <3>1, <1>1
    <3>3. run.source = None /\ run.status \in {"NONE", "DRAFT"}
      BY <3>1, <1>1 DEF SheetFree, TypeOK
    <3> QED
      BY <3>2, <3>3, <1>1 DEF SheetHeld
  <2>4. CASE ChangeTerms \/ CheckPolicy \/ WritePolicy
    <3>1. attendance' = attendance
      BY <2>4 DEF ChangeTerms, CheckPolicy, WritePolicy
    <3> QED
      BY <3>1, <1>1 DEF SheetHeld
  <2> QED
    BY <2>1, <2>2, <2>3, <2>4
<1>4. /\ adj \in [Adj -> AdjRow]
      /\ unlocked \in SUBSET {a \in Adj : adj[a].status \in {"REVIEW", "APPROVED"}}
  BY <1>1 DEF TypeOK, AdjRow
<1>5. approving # None => policy' = policy \/ policy = NotConfigured
  BY DEF EditSheet, AdvanceSheet, ReturnSheet, ChangeTerms, CheckPolicy, WritePolicy, RowsFree
<1>6. ApprovesWhatIs'
  BY <1>1, <1>5, ApprovalKept
<1> QED
  BY <1>1, <1>2, <1>3, <1>4, <1>6, RunStays

(* Nobody approves an adjustment while an approval of the run holds the     *)
(* employee, and once the run is approved only those who never saw it.      *)
LEMMA AdjustmentsApproved ==
  ASSUME IInv, NEW a \in Adj,
         WriteAdjustment(a) \/ SubmitAdjustment(a) \/ ReturnAdjustment(a)
           \/ CheckMutable(a) \/ ApproveAdjustment(a) \/ DropApproval(a)
  PROVE  ApprovesWhatIs'
<1>1. /\ TypeOK /\ ApprovesWhatIs /\ ApprovalSigned
      /\ UNCHANGED <<policy, run, approving>>
  BY DEF IInv, PayrollInv, Set, WriteAdjustment, SubmitAdjustment, ReturnAdjustment, CheckMutable,
         ApproveAdjustment, DropApproval
<1>2. CASE ~Mutable
  <2>1. ~ (WriteAdjustment(a) \/ SubmitAdjustment(a) \/ ReturnAdjustment(a) \/ CheckMutable(a))
    BY <1>2 DEF Mutable, WriteAdjustment, SubmitAdjustment, ReturnAdjustment, CheckMutable
  <2>2. CASE DropApproval(a)
    <3>1. adj' = adj /\ unlocked' = unlocked \ {a} /\ a \notin Approved
      BY <2>2 DEF DropApproval, Approved
    <3>2. Approved' = Approved /\ Source'.adjustments = Source.adjustments
      BY <3>1 DEF Approved, Source
    <3> QED
      BY <1>1, <3>1, <3>2 DEF ApprovesWhatIs
  <2>3. CASE ApproveAdjustment(a)
    <3>1. /\ adj[a].status = "REVIEW" /\ a \in unlocked /\ approving = None
          /\ adj' = [adj EXCEPT ![a] = [status |-> "APPROVED", amount |-> adj[a].amount]]
          /\ unlocked' = unlocked
      BY <2>3, <1>2 DEF ApproveAdjustment, RowsFree, Set
    <3>2. \A b \in Adj : adj'[b].amount = adj[b].amount
      BY <3>1, <1>1 DEF TypeOK
    <3>3. Approved' = Approved \cup {a}
      BY <3>1, <1>1 DEF Approved, TypeOK
    <3>4. Source.adjustments \subseteq Source'.adjustments
      <4>1. Source'.adjustments = {<<b, adj'[b].amount>> : b \in {x \in Approved' : Kind[x] # "ADVANCE"}}
        BY DEF Source
      <4>2. Source.adjustments = {<<b, adj[b].amount>> : b \in {x \in Approved : Kind[x] # "ADVANCE"}}
        BY DEF Source
      <4>3. \A b \in Approved : b \in Adj
        BY DEF Approved
      <4> QED
        BY <4>1, <4>2, <4>3, <3>2, <3>3
    <3>5. \A b \in Approved : b \in Adj
      BY DEF Approved
    <3> QED
      BY <1>1, <3>1, <3>2, <3>3, <3>4, <3>5 DEF ApprovesWhatIs
  <2> QED
    BY <2>1, <2>2, <2>3
<1>3. CASE Mutable
  BY <1>1, <1>3 DEF Mutable, ApprovalSigned, ApprovesWhatIs
<1> QED
  BY <1>2, <1>3

LEMMA AdjustmentsMoved ==
  ASSUME IInv, NEW a \in Adj,
         WriteAdjustment(a) \/ SubmitAdjustment(a) \/ ReturnAdjustment(a)
           \/ CheckMutable(a) \/ ApproveAdjustment(a) \/ DropApproval(a)
  PROVE  IInv'
<1>1. /\ TypeOK /\ SheetHeld /\ adj \in [Adj -> AdjRow] /\ unlocked \subseteq Adj
      /\ \A b \in unlocked : adj[b].status \in {"REVIEW", "APPROVED"}
      /\ UNCHANGED <<attendance, terms, policy, rewriting, run, approving>>
  BY DEF IInv, PayrollInv, TypeOK, AdjRow, Set,
         WriteAdjustment, SubmitAdjustment, ReturnAdjustment, CheckMutable, ApproveAdjustment,
         DropApproval
<1>2. adj[a].amount \in Amount
  BY <1>1 DEF AdjRow
<1>3. \/ adj' = adj /\ unlocked' \subseteq unlocked \cup {a} /\ adj[a].status = "REVIEW"
      \/ /\ unlocked' \subseteq unlocked
         /\ \E r \in AdjRow : /\ adj' = [adj EXCEPT ![a] = r]
                              /\ a \notin unlocked' \/ r.status = "APPROVED"
  <2>1. CASE WriteAdjustment(a)
    <3>1. PICK n \in Amount : adj' = [adj EXCEPT ![a] = [status |-> "DRAFT", amount |-> n]]
      BY <2>1 DEF WriteAdjustment, Set
    <3>2. [status |-> "DRAFT", amount |-> n] \in AdjRow
      BY DEF AdjRow
    <3>3. a \notin unlocked /\ unlocked' = unlocked
      BY <2>1, <1>1 DEF WriteAdjustment
    <3> QED
      BY <3>1, <3>2, <3>3
  <2>2. CASE SubmitAdjustment(a)
    <3>1. [status |-> "REVIEW", amount |-> adj[a].amount] \in AdjRow
      BY <1>2 DEF AdjRow
    <3>2. a \notin unlocked /\ unlocked' = unlocked
      BY <2>2, <1>1 DEF SubmitAdjustment
    <3> QED
      BY <2>2, <3>1, <3>2 DEF SubmitAdjustment, Set
  <2>3. CASE ReturnAdjustment(a)
    <3>1. [status |-> "DRAFT", amount |-> adj[a].amount] \in AdjRow
      BY <1>2 DEF AdjRow
    <3> QED
      BY <2>3, <3>1, <1>1 DEF ReturnAdjustment, Set
  <2>4. CASE CheckMutable(a) \/ DropApproval(a)
    BY <2>4 DEF CheckMutable, DropApproval
  <2>5. CASE ApproveAdjustment(a)
    <3> DEFINE row == [status |-> "APPROVED", amount |-> adj[a].amount]
    <3>1. row \in AdjRow /\ row.status = "APPROVED"
      BY <1>2 DEF AdjRow
    <3>2. adj' = [adj EXCEPT ![a] = row] /\ unlocked' \subseteq unlocked
      BY <2>5 DEF ApproveAdjustment, Set
    <3> HIDE DEF row
    <3> QED
      BY <3>1, <3>2
  <2> QED
    BY <2>1, <2>2, <2>3, <2>4, <2>5
<1>4. /\ adj' \in [Adj -> AdjRow]
      /\ unlocked' \in SUBSET {b \in Adj : adj'[b].status \in {"REVIEW", "APPROVED"}}
  BY <1>1, <1>3
<1>5. SheetHeld'
  BY <1>1 DEF SheetHeld
<1>6. ApprovesWhatIs'
  BY <1>1, AdjustmentsApproved
<1> QED
  BY <1>1, <1>4, <1>5, <1>6, RunStays DEF TypeOK

----------------------------------------------------------------------------
(* Steps of the run *)

LEMMA Three ==
  ASSUME NEW a, NEW b, NEW c, a # b, a # c, b # c PROVE Cardinality({a, b, c}) = 3
<1>1. IsFiniteSet({a}) /\ Cardinality({a}) = 1
  BY FS_Singleton
<1>2. IsFiniteSet({a, b}) /\ Cardinality({a, b}) = 2
  <2>1. {a, b} = {a} \cup {b} /\ b \notin {a}
    OBVIOUS
  <2>2. IsFiniteSet({a} \cup {b}) /\ Cardinality({a} \cup {b}) = Cardinality({a}) + 1
    BY <1>1, <2>1, FS_AddElement
  <2> QED
    BY <1>1, <2>1, <2>2
<1>3. {a, b, c} = {a, b} \cup {c} /\ c \notin {a, b}
  OBVIOUS
<1>4. Cardinality({a, b} \cup {c}) = Cardinality({a, b}) + 1
  BY <1>2, <1>3, FS_AddElement
<1> QED
  BY <1>2, <1>3, <1>4

LEMMA RunMoved ==
  ASSUME IInv, Unchanged, RowsFree, run' \in RunRow,
         run'.status \in {"NONE", "DRAFT"} <=> run'.source = None, run'.status # "APPROVED",
         SheetHeld', SignOffCurrent', Submitted', ThreePeople'
  PROVE  IInv'
<1>1. ApprovalSigned' /\ ApprovesWhatIs'
  BY DEF Unchanged, RowsFree, ApprovalSigned, ApprovesWhatIs
<1>2. TypeOK'
  BY DEF IInv, PayrollInv, TypeOK, RunRow, Unchanged
<1> QED
  BY <1>1, <1>2 DEF IInv, PayrollInv

LEMMA RunCalculated == ASSUME IInv, Calculate \/ Reset PROVE IInv'
<1>1. /\ TypeOK /\ Unchanged /\ run.revision < MaxRevision /\ run \in RunRow /\ MaxRevision \in Nat
      /\ RowsFree
  BY PayrollAssumption DEF IInv, PayrollInv, TypeOK, RunRow, Calculate, Reset, Step, ApprovalSigned, RowsFree
<1>2. run.revision + 1 \in 0..MaxRevision /\ 0 \in 0..MaxRevision
  BY <1>1 DEF RunRow
<1>3. CASE Calculate
  <2> DEFINE next == run.revision + 1
  <2>1. run' = [status |-> "CALCULATED", revision |-> next, sealed |-> next, source |-> Source,
                submitter |-> None, reviewer |-> None, approver |-> None]
    BY <1>3 DEF Calculate, NoRun
  <2> HIDE DEF next
  <2>2. /\ run'.status = "CALCULATED" /\ run'.source = Source
        /\ run'.submitter = None /\ run'.reviewer = None
    BY <2>1
  <2>3. run' \in RunRow /\ run'.source # None
    BY <2>1, <1>1, <1>2, SourceIs DEF RunRow, Actor, next
  <2>4. attendance.status \in {"APPROVED", "LOCKED"} /\ Source.sheet = attendance.sheet
    BY <1>3 DEF Calculate, Source
  <2>5. SheetHeld'
    BY <2>2, <2>4, <1>1 DEF SheetHeld, Unchanged
  <2>6. SignOffCurrent' /\ Submitted' /\ ThreePeople'
    BY <2>2 DEF SignOffCurrent, review_signed_off, Submitted, ThreePeople
  <2> QED
    BY <1>1, <2>2, <2>3, <2>5, <2>6, RunMoved
<1>4. CASE Reset
  <2> DEFINE next == run.revision + 1
  <2>1. run' = [status |-> "DRAFT", revision |-> next, sealed |-> 0, source |-> None,
                submitter |-> None, reviewer |-> None, approver |-> None]
    BY <1>4 DEF Reset, Emptied, NoRun
  <2> HIDE DEF next
  <2>2. /\ run'.status = "DRAFT" /\ run'.source = None /\ run'.reviewer = None
    BY <2>1
  <2>3. run' \in RunRow
    BY <2>1, <1>2 DEF RunRow, Actor, next
  <2>4. SheetHeld' /\ SignOffCurrent' /\ Submitted' /\ ThreePeople'
    BY <2>2 DEF SheetHeld, SignOffCurrent, review_signed_off, Submitted, ThreePeople
  <2> QED
    BY <1>1, <2>2, <2>3, <2>4, RunMoved
<1> QED
  BY <1>3, <1>4

LEMMA RunReviewed ==
  ASSUME IInv, NEW u,
         (u \in User /\ (SubmitReview(u) \/ Review(u))) \/ ReturnForChanges
  PROVE  IInv'
<1>1. /\ TypeOK /\ SheetHeld /\ SignOffCurrent /\ Submitted
      /\ Unchanged /\ run.revision < MaxRevision /\ run \in RunRow /\ MaxRevision \in Nat
      /\ run.status \in {"CALCULATED", "REVIEW"} /\ RowsFree
  BY PayrollAssumption DEF IInv, PayrollInv, TypeOK, RunRow, SubmitReview, Review, ReturnForChanges, Step,
                           ApprovalSigned, RowsFree
<1>2. run.revision + 1 \in 0..MaxRevision /\ None \in Actor /\ (u \in User => u # None /\ u \in Actor)
  BY <1>1, PayrollAssumption DEF RunRow, Actor
<1>3. run.source # None
  BY <1>1 DEF TypeOK
<1> DEFINE next == run.revision + 1
<1> HIDE DEF next
<1>4. next \in 0..MaxRevision
  BY <1>2 DEF next
<1>5. CASE u \in User /\ SubmitReview(u)
  <2>0. u # None /\ u \in Actor
    BY <1>5, <1>2
  <2>1. run' = [run EXCEPT !.status = "REVIEW", !.revision = next, !.submitter = u, !.reviewer = None]
    BY <1>5 DEF SubmitReview, next
  <2>2. /\ run' \in RunRow /\ run'.status = "REVIEW" /\ run'.source = run.source
        /\ run'.submitter = u /\ run'.reviewer = None
    BY <2>1, <1>1, <2>0, <1>2, <1>4 DEF RunRow
  <2>3. SheetHeld'
    BY <1>5, <2>2, <1>1 DEF SheetHeld, SubmitReview, Verified, Unchanged
  <2>4. SignOffCurrent' /\ Submitted' /\ ThreePeople'
    BY <2>2, <2>0 DEF SignOffCurrent, review_signed_off, Submitted, ThreePeople
  <2> QED
    BY <1>1, <1>3, <2>2, <2>3, <2>4, RunMoved
<1>6. CASE u \in User /\ Review(u)
  <2>0. u # None /\ u \in Actor
    BY <1>6, <1>2
  <2>1. run' = [run EXCEPT !.revision = next, !.reviewer = u]
    BY <1>6 DEF Review, next
  <2>2. /\ run' \in RunRow /\ run'.status = "REVIEW" /\ run'.source = run.source
        /\ run'.submitter = run.submitter /\ run'.reviewer = u
    BY <1>6, <2>1, <1>1, <2>0, <1>2, <1>4 DEF RunRow, Review, Step
  <2>3. SheetHeld'
    BY <1>6, <2>2, <1>1 DEF SheetHeld, Review, Verified, Unchanged
  <2>4. run.submitter # None /\ u # run.submitter
    BY <1>6, <1>1 DEF Review, MayReview, Submitted, Step
  <2>5. SignOffCurrent' /\ Submitted' /\ ThreePeople'
    BY <2>2, <2>4, <2>0 DEF SignOffCurrent, review_signed_off, Submitted, ThreePeople
  <2> QED
    BY <1>1, <1>3, <2>2, <2>3, <2>5, RunMoved
<1>7. CASE ReturnForChanges
  <2>1. run' = [run EXCEPT !.status = "CALCULATED", !.revision = next, !.submitter = None, !.reviewer = None]
    BY <1>7 DEF ReturnForChanges, next
  <2>2. /\ run' \in RunRow /\ run'.status = "CALCULATED" /\ run'.source = run.source
        /\ run'.submitter = None /\ run'.reviewer = None
    BY <2>1, <1>1, <1>2, <1>4 DEF RunRow
  <2>3. SheetHeld' /\ SignOffCurrent' /\ Submitted' /\ ThreePeople'
    BY <2>2, <1>1 DEF SheetHeld, Unchanged, SignOffCurrent, review_signed_off, Submitted, ThreePeople
  <2> QED
    BY <1>1, <1>3, <2>2, <2>3, RunMoved
<1> QED
  BY <1>5, <1>6, <1>7

(* A verification finds the inputs that were calculated ...                 *)
LEMMA RunVerified == ASSUME IInv, NEW u \in User, VerifyApproval(u) PROVE IInv'
<1>1. /\ UNCHANGED <<attendance, terms, policy, rewriting, adj, unlocked, run>>
      /\ approving' = u /\ u # None /\ u \in Actor
      /\ run.status = "REVIEW" /\ run.revision < MaxRevision /\ run.source = Source /\ MayApprove(u)
  BY PayrollAssumption DEF VerifyApproval, Step, Verified, SourceFresh, Actor
<1>2. TypeOK' /\ SheetHeld'
  BY <1>1 DEF IInv, PayrollInv, TypeOK, SheetHeld
<1>3. SignOffCurrent' /\ Submitted' /\ ThreePeople' /\ ApprovalSigned'
  BY <1>1 DEF IInv, SignOffCurrent, review_signed_off, Submitted, ThreePeople, ApprovalSigned, MayApprove
<1>4. ApprovesWhatIs'
  <2>1. Source'.adjustments = Source.adjustments /\ Source.policy = policy
    BY <1>1 DEF Source, Approved
  <2> QED
    BY <1>1, <2>1 DEF ApprovesWhatIs
<1> QED
  BY <1>2, <1>3, <1>4 DEF IInv, PayrollInv

(* ... and they are what the approved run has counted.                      *)
LEMMA RunApproved == ASSUME IInv, NEW u \in User, Approve(u) PROVE IInv'
<1> DEFINE next == run.revision + 1
<1>1. /\ TypeOK /\ SheetHeld /\ SignOffCurrent /\ Submitted /\ ApprovalSigned /\ ApprovesWhatIs
      /\ UNCHANGED <<attendance, terms, policy, rewriting, adj, unlocked>>
      /\ approving = u /\ approving' = None /\ u # None /\ u \in Actor /\ None \in Actor
      /\ run \in RunRow /\ MaxRevision \in Nat
      /\ run' = [run EXCEPT !.status = "APPROVED", !.revision = next, !.approver = u]
  BY PayrollAssumption DEF IInv, PayrollInv, TypeOK, RunRow, Approve, Actor
<1>2. run.status = "REVIEW" /\ next \in 0..MaxRevision /\ MayApprove(u)
  BY <1>1 DEF ApprovalSigned, RunRow
<1> HIDE DEF next
<1>3. /\ run' \in RunRow /\ run'.status = "APPROVED" /\ run'.source = run.source
      /\ run'.submitter = run.submitter /\ run'.reviewer = run.reviewer /\ run'.approver = u
  BY <1>1, <1>2 DEF RunRow
<1>4. run.source # None
  BY <1>1, <1>2 DEF TypeOK
<1>5. TypeOK'
  BY <1>1, <1>3, <1>4 DEF TypeOK, RunRow
<1>6. SheetHeld'
  BY <1>1, <1>2, <1>3 DEF SheetHeld
<1>7. /\ run.reviewer # None /\ u \notin {run.reviewer, run.submitter}
      /\ run.submitter # None /\ run.reviewer # run.submitter
  BY <1>1, <1>2 DEF MayApprove, SignOffCurrent, review_signed_off
<1>8. SignOffCurrent' /\ Submitted' /\ ApprovalSigned'
  BY <1>1, <1>3, <1>7 DEF SignOffCurrent, review_signed_off, Submitted, ApprovalSigned
<1>9. ThreePeople'
  <2> DEFINE s == run.submitter
             r == run.reviewer
  <2>1. None \notin {s, r, u} /\ s # r /\ s # u /\ r # u
    BY <1>1, <1>7
  <2> HIDE DEF s, r
  <2>2. Cardinality({s, r, u}) = 3
    BY <2>1, Three
  <2> QED
    BY <2>1, <2>2, <1>3 DEF ThreePeople, s, r
<1>10. ApprovesWhatIs'
  <2>1. run.source.adjustments = Source.adjustments /\ approving # None
    BY <1>1 DEF ApprovesWhatIs
  <2>2. Approved' = Approved /\ Source'.adjustments = Source.adjustments
    BY <1>1 DEF Approved, Source
  <2>3. \A a \in Approved : Kind[a] # "ADVANCE" => <<a, adj[a].amount>> \in Source.adjustments
    BY DEF Source
  <2> QED
    BY <1>1, <1>3, <2>1, <2>2, <2>3 DEF ApprovesWhatIs
<1> QED
  BY <1>5, <1>6, <1>8, <1>9, <1>10 DEF IInv, PayrollInv

----------------------------------------------------------------------------
(* The invariant is inductive *)

LEMMA MonthStarts == Init => IInv
<1> SUFFICES ASSUME Init PROVE IInv
  OBVIOUS
<1>1. /\ attendance \in [status : {"DRAFT"}, sheet : Sheet]
      /\ terms \in Terms /\ policy \in Policy /\ rewriting = FALSE /\ unlocked = {} /\ run = NoRun
      /\ approving = None
  BY DEF Init
<1>2. adj \in [Adj -> AdjRow]
  <2> DEFINE first == CHOOSE n \in Amount : TRUE
  <2>1. first \in Amount
    BY PayrollAssumption
  <2>2. adj \in [Adj -> [status : {"NONE"}, amount : {first}]]
    BY DEF Init
  <2> HIDE DEF first
  <2> QED
    BY <2>1, <2>2 DEF AdjRow
<1>3. run \in RunRow /\ run.status = "NONE" /\ run.source = None /\ run.reviewer = None
  BY <1>1, PayrollAssumption DEF NoRun, RunRow, Actor
<1>4. TypeOK
  BY <1>1, <1>2, <1>3 DEF TypeOK, AdjRow, RunRow, Actor
<1>5. SheetHeld /\ SignOffCurrent /\ Submitted /\ ThreePeople /\ ApprovalSigned /\ ApprovesWhatIs
  BY <1>1, <1>3 DEF SheetHeld, SignOffCurrent, review_signed_off, Submitted, ThreePeople, ApprovalSigned,
                    ApprovesWhatIs
<1> QED
  BY <1>4, <1>5 DEF IInv, PayrollInv

LEMMA MonthGoesOn == IInv /\ [Next]_vars => IInv'
<1> SUFFICES ASSUME IInv, [Next]_vars PROVE IInv'
  OBVIOUS
<1>1. CASE UNCHANGED vars
  <2>1. TypeOK /\ SheetHeld /\ UNCHANGED <<attendance, terms, policy, rewriting, adj, unlocked, run, approving>>
    BY <1>1 DEF IInv, PayrollInv, vars
  <2>2. SheetHeld' /\ ApprovesWhatIs'
    BY <2>1, ApprovalKept DEF SheetHeld
  <2> QED
    BY <2>1, <2>2, RunStays DEF TypeOK, AdjRow
<1>2. CASE EditSheet \/ AdvanceSheet \/ ReturnSheet \/ ChangeTerms \/ CheckPolicy \/ WritePolicy
  BY <1>2, InputsMoved
<1>3. ASSUME NEW a \in Adj,
             WriteAdjustment(a) \/ SubmitAdjustment(a) \/ ReturnAdjustment(a)
               \/ CheckMutable(a) \/ ApproveAdjustment(a) \/ DropApproval(a)
      PROVE  IInv'
  BY <1>3, AdjustmentsMoved
<1>4. CASE Calculate \/ Reset
  BY <1>4, RunCalculated
<1>5. CASE ReturnForChanges \/ \E u \in User : SubmitReview(u) \/ Review(u)
  BY <1>5, RunReviewed
<1>6. CASE \E u \in User : VerifyApproval(u) \/ Approve(u)
  BY <1>6, RunVerified, RunApproved
<1> QED
  BY <1>1, <1>2, <1>3, <1>4, <1>5, <1>6 DEF Next

(* A request does what one of the services does, or nothing.                *)
LEMMA RequestsAreSteps == [DeskNext]_vars => [Next]_vars
<1> SUFFICES ASSUME DeskNext PROVE Next
  OBVIOUS
<1>1. ASSUME NEW u \in User,
             \/ attendance_api(u) \/ overtime_api(u) \/ attendance_import_api(u)
             \/ \E action \in {"submit", "approve", "lock", "return_to_draft"} :
                  attendance_workflow_api(u, action)
             \/ payroll_policy_api(u) \/ payroll_calculate_api(u)
      PROVE  Next
  BY <1>1 DEF Next, attendance_api, overtime_api, attendance_import_api, attendance_workflow_api,
              payroll_policy_api, payroll_calculate_api
<1>2. ASSUME NEW u \in User, NEW action, payroll_workflow_api(u, action) PROVE Next
  BY <1>2 DEF Next, payroll_workflow_api
<1>3. ASSUME NEW u \in User, NEW a \in Adj,
             payroll_adjustments_api(u, a) \/ payroll_adjustment_detail_api(u, a)
               \/ payroll_adjustment_workflow_api(u, a)
      PROVE  Next
  BY <1>3 DEF Next, payroll_adjustments_api, payroll_adjustment_detail_api, payroll_adjustment_workflow_api
<1>4. CASE Elsewhere
  BY <1>4 DEF Next, Elsewhere
<1> QED
  BY <1>1, <1>2, <1>3, <1>4 DEF DeskNext

(* Whatever users with whatever permissions request, the month takes the    *)
(* steps that its services allow and no other.                              *)
THEOREM RequestsKeepTheMonth == DeskSpec => Spec
BY RequestsAreSteps, PTL DEF DeskSpec, Spec

LEMMA IInvHolds == Spec => []IInv
<1>1. IInv /\ [Next]_vars => IInv'
  BY MonthGoesOn
<1> QED
  BY <1>1, MonthStarts, PTL DEF Spec

----------------------------------------------------------------------------
(* What follows *)

(* The attendance a run was calculated from stays as it is while the run    *)
(* has a snapshot, and a review sign-off is of the run that is under        *)
(* review, by somebody other than its submitter (both services, whatever    *)
(* is returned, reset, recalculated and submitted again).                   *)
THEOREM RunAlwaysSound == DeskSpec => []DeskInv
<1>1. IInv => DeskInv
  BY DEF IInv, DeskInv
<1> QED
  BY <1>1, RequestsKeepTheMonth, IInvHolds, PTL

(* Whoever has which permissions, the submitter, the reviewer and the       *)
(* approver of an approved run are three people.                            *)
THEOREM AlwaysThreePeople == DeskSpec => []ThreePeople
<1>1. IInv => ThreePeople
  BY DEF IInv
<1> QED
  BY <1>1, RequestsKeepTheMonth, IInvHolds, PTL

(* What an approval has verified stands until it commits, whatever policy   *)
(* updates and approvals of adjustments passed their checks before; and an  *)
(* approved run pays what still stands, and lacks only what such an         *)
(* approval added.                                                          *)
THEOREM ApprovalsStand == DeskSpec => []ApprovesWhatIs
<1>1. IInv => ApprovesWhatIs
  BY DEF IInv
<1> QED
  BY <1>1, RequestsKeepTheMonth, IInvHolds, PTL
=============================================================================
