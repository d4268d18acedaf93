--------------------------- MODULE SalaryPayment ---------------------------
(***************************************************************************)
(* Paying one approved payroll run: internal_payroll/services/payment.py.  *)
(*                                                                         *)
(* A batch claims every payable line of the run, is exported to the bank,  *)
(* started, reconciled with the result files of the bank, retried row by   *)
(* row, closed and reopened.                                               *)
(*                                                                         *)
(* Every service takes the row lock of the batch (retry: of the row, then  *)
(* of the batch) before it reads a status that it relies on, and           *)
(* preparation takes the lock of the run, so each is one step.  Who may    *)
(* call a service, the readiness of payment profiles and the fingerprints  *)
(* of snapshots that no service edits only refuse calls: they are left out.*)
(***************************************************************************)
EXTENDS Integers, Sequences, FiniteSets, Functions

CONSTANTS Line,         \* lines of the payroll run
          Net,          \* their approved net amounts
          Batch,        \* names of batches, used once each
          SealsRevision, \* as in PayrollRun: the snapshot covers run.revision
          MaxAttempts,  \* bound on the payment attempts of one row
          MaxFiles      \* bound on the result files of one batch

ASSUME PaymentAssumption ==
  /\ Net \in [Line -> Nat] /\ SealsRevision \in BOOLEAN
  /\ MaxAttempts \in Nat /\ MaxFiles \in Nat
  /\ IsFiniteSet(Line) /\ \E l \in Line : Net[l] # 0

VARIABLES run,    \* status of the payroll run
          batch,  \* [Batch -> batch row]
          row     \* [Batch -> [Line -> payment row]]

vars == <<run, batch, row>>

(* Lines with a net of zero need no transfer. *)
Payable == {l \in Line : Net[l] # 0}

(* prepare stores run.total_net. *)
Total == SumFunctionOnSet(Net, Line)

Result == {"PAID", "FAILED", "REVERSED", "PROCESSING"}

RunStatus == {"APPROVED", "PAYMENT_PROCESSING", "PAID", "CLOSED"}

BatchStatus == {"NONE", "PREPARED", "EXPORTED", "PROCESSING", "PARTIALLY_PAID",
                "ATTENTION", "PAID", "CLOSED", "CANCELLED"}

(* A result file names some lines; a line of the file that reports no       *)
(* usable result for its row is an error of the import and changes nothing. *)
File == [Payable -> Result \cup {"ABSENT"}]

NoRow == [status |-> "NONE", claim |-> FALSE, attempts |-> <<>>]

TypeOK ==
  /\ run \in RunStatus
  /\ batch \in [Batch -> [status : BatchStatus, paid : 0..Total, files : SUBSET File]]
  /\ row \in [Batch -> [Payable -> [status   : Result \cup {"NONE", "PENDING", "CANCELLED"},
                                    claim    : BOOLEAN,
                                    attempts : Seq(Result)]]]

Init ==
  /\ run = "APPROVED"
  /\ batch = [b \in Batch |-> [status |-> "NONE", paid |-> 0, files |-> {}]]
  /\ row = [b \in Batch |-> [l \in Payable |-> NoRow]]

----------------------------------------------------------------------------
(* _refresh_batch_locked *)

LinesIn(rows, statuses) == {l \in Payable : rows[l].status \in statuses}

(* Mutant of StatusOf: a paid row hides the ones that failed. *)
StatusOfPaid(rows, status) ==
  IF LinesIn(rows, {"PAID"}) = Payable THEN "PAID"
  ELSE IF LinesIn(rows, {"PAID"}) # {} THEN "PARTIALLY_PAID"
  ELSE IF LinesIn(rows, {"FAILED", "REVERSED"}) # {} THEN "ATTENTION"
  ELSE IF LinesIn(rows, {"PROCESSING"}) # {} THEN "PROCESSING"
  ELSE status

StatusOf(rows, status) ==
  IF LinesIn(rows, {"PAID"}) = Payable THEN "PAID"
  ELSE IF LinesIn(rows, {"FAILED", "REVERSED"}) # {} THEN "ATTENTION"
  ELSE IF LinesIn(rows, {"PAID"}) # {} THEN "PARTIALLY_PAID"
  ELSE IF LinesIn(rows, {"PROCESSING"}) # {} THEN "PROCESSING"
  ELSE status

PaidAmount(rows) == SumFunctionOnSet(Net, LinesIn(rows, {"PAID"}))


Refreshed(b, rows) ==
  [batch[b] EXCEPT !.status = StatusOf(rows, @), !.paid = PaidAmount(rows)]


RunAfter(status) ==
  IF status = "PAID" THEN "PAID"
  ELSE IF status \in {"PREPARED", "EXPORTED", "CANCELLED"} THEN run
  ELSE "PAYMENT_PROCESSING"

RefreshWith(b, rows, file) ==
  /\ row' = [row EXCEPT ![b] = rows]
  /\ batch' = [batch EXCEPT ![b] = [Refreshed(b, rows) EXCEPT !.files = @ \cup file]]
  /\ run' = RunAfter(StatusOf(rows, batch[b].status))

----------------------------------------------------------------------------
(* Mutant of Claimed: only rows that were started hold their line. *)
ClaimedStarted(l) == \E b \in Batch : row[b][l].claim /\ row[b][l].attempts # <<>>

(* payment_readiness: the line belongs to an active payment lifecycle. *)
Claimed(l) == \E b \in Batch : row[b][l].claim

(* verify_payroll_run_integrity: review, approval and start have revised    *)
(* the run since it was calculated and sealed.                              *)
SnapshotIntact == ~SealsRevision

(* prepare_salary_payment_batch *)
Prepare(b) ==
  /\ batch[b].status = "NONE" /\ SnapshotIntact
  /\ run = "APPROVED"
  /\ \A l \in Payable : ~Claimed(l)
  /\ batch' = [batch EXCEPT ![b].status = "PREPARED"]
  /\ row' = [row EXCEPT ![b] = [l \in Payable |->
               [status |-> "PENDING", claim |-> TRUE, attempts |-> <<>>]]]
  /\ UNCHANGED run

(* export_salary_payment_batch: the file holds every row at any time. *)
Export(b) ==
  /\ batch[b].status \notin {"NONE", "CANCELLED", "CLOSED"} /\ SnapshotIntact
  /\ batch' = [batch EXCEPT ![b].status = IF @ = "PREPARED" THEN "EXPORTED" ELSE @]
  /\ UNCHANGED <<run, row>>

Attempted(r) == [r EXCEPT !.status = "PROCESSING", !.attempts = Append(@, "PROCESSING")]

(* start_salary_payment_batch *)
Start(b) ==
  /\ batch[b].status \in {"PREPARED", "EXPORTED"} /\ SnapshotIntact
  /\ \E l \in Payable : row[b][l].claim
  /\ row' = [row EXCEPT ![b] = [l \in Payable |->
               IF @[l].claim /\ @[l].status = "PENDING" THEN Attempted(@[l]) ELSE @[l]]]
  /\ batch' = [batch EXCEPT ![b].status = "PROCESSING"]
  /\ run' = "PAYMENT_PROCESSING"

(* A result overwrites the row and its newest attempt, whatever they were. *)
Reported(r, result) ==
  IF result = "ABSENT" \/ r.attempts = <<>> THEN r
  ELSE [r EXCEPT !.status = result, !.attempts[Len(r.attempts)] = result]

(* Mutant of Reconcilable: results are accepted after the batch is closed. *)
ReconcilableLate(b) == batch[b].status \notin {"NONE", "PREPARED", "EXPORTED", "CANCELLED"}

Reconcilable(b) ==
  batch[b].status \notin {"NONE", "PREPARED", "EXPORTED", "CANCELLED", "CLOSED"}


Imported(b, file) == file \in batch[b].files

(* import_salary_payment_results *)
Import(b, file) ==
  /\ Reconcilable(b)
  /\ ~Imported(b, file)
  /\ Cardinality(batch[b].files) < MaxFiles
  /\ RefreshWith(b, [l \in Payable |-> Reported(row[b][l], file[l])], {file})

Retriable(r) == r.status \in {"FAILED", "REVERSED"}

(* retry_salary_payment_row *)
Retry(b, l) ==
  /\ batch[b].status \notin {"NONE", "CLOSED"}
  /\ Retriable(row[b][l])
  /\ Len(row[b][l].attempts) < MaxAttempts
  /\ RefreshWith(b, [row[b] EXCEPT ![l] = Attempted(@)], {})

(* cancel_salary_payment_batch *)
Cancel(b) ==
  /\ batch[b].status \in {"PREPARED", "EXPORTED"}
  /\ row' = [row EXCEPT ![b] = [l \in Payable |->
               [@[l] EXCEPT !.status = "CANCELLED", !.claim = FALSE]]]
  /\ batch' = [batch EXCEPT ![b].status = "CANCELLED"]
  /\ UNCHANGED run

(* close_salary_payment_batch: refreshed first, rolled back unless Paid. *)
Close(b) ==
  /\ batch[b].status # "NONE"
  /\ StatusOf(row[b], batch[b].status) = "PAID"
  /\ batch' = [batch EXCEPT ![b] = [Refreshed(b, row[b]) EXCEPT !.status = "CLOSED"]]
  /\ run' = "CLOSED"
  /\ UNCHANGED row

(* Mutant of RunReopened: the run stays closed. *)
RunStaysClosed == run

RunReopened == "PAID"

(* reopen_salary_payment_batch *)
Reopen(b) ==
  /\ batch[b].status = "CLOSED"
  /\ batch' = [batch EXCEPT ![b].status = "PAID"]
  /\ run' = RunReopened
  /\ UNCHANGED row

Next ==
  \E b \in Batch :
    \/ Prepare(b) \/ Export(b) \/ Start(b) \/ Cancel(b) \/ Close(b) \/ Reopen(b)
    \/ \E file \in File : Import(b, file)
    \/ \E l \in Payable : Retry(b, l)

Spec == Init /\ [][Next]_vars

----------------------------------------------------------------------------
(* Properties *)

Live(b) == batch[b].status \notin {"NONE", "CANCELLED"}

Started(b) == Live(b) /\ batch[b].status \notin {"PREPARED", "EXPORTED"}

(* A line is claimed by one batch at most, and exactly the rows of live     *)
(* batches claim: cancelling and preparing in any order can neither leave a *)
(* line out of every batch for good nor put it into two.                    *)
OneClaim ==
  /\ \A b \in Batch, l \in Payable : row[b][l].claim <=> Live(b)
  /\ \A b1, b2 \in Batch : Live(b1) /\ Live(b2) => b1 = b2

(* The attempts of a row are one after the other: the newest has the status *)
(* of the row and every earlier one has failed or was reversed, so that a   *)
(* salary has one paid attempt at most.                                     *)
AttemptsLinear ==
  \A b \in Batch, l \in Payable :
    LET a == row[b][l].attempts
    IN  /\ a # <<>> <=> Started(b)
        /\ a # <<>> => a[Len(a)] = row[b][l].status
        /\ \A n \in 1..(Len(a) - 1) : a[n] \in {"FAILED", "REVERSED"}

(* The summary of a started batch says what its rows say, after any order   *)
(* of results and retries, and what is paid is the whole run once all is.   *)
BatchAgrees ==
  \A b \in Batch : Started(b) =>
    /\ batch[b].paid = PaidAmount(row[b])
    /\ batch[b].status \in {"PAID", "CLOSED"} <=> batch[b].paid = Total
    /\ batch[b].status = "ATTENTION" <=> \E l \in Payable : row[b][l].status \in {"FAILED", "REVERSED"}

(* payment.py: "One active payment row per payroll line ensures this means  *)
(* every payroll line in the batch is paid."  The status of the run is the  *)
(* one its live batch gives it.                                             *)
RunAgrees ==
  /\ run \in {"PAID", "CLOSED"} =>
       \A l \in Payable : \E b \in Batch : row[b][l].claim /\ row[b][l].status = "PAID"
  /\ \A b \in Batch : Live(b) =>
       /\ run = "APPROVED" <=> ~Started(b)
       /\ run = "CLOSED" <=> batch[b].status = "CLOSED"
       /\ run = "PAID" <=> batch[b].status = "PAID"

(* The typed state; no salary is on its way twice; and rows, batch and run  *)
(* tell the same.                                                           *)
SalaryInv == TypeOK /\ OneClaim /\ AttemptsLinear /\ BatchAgrees /\ RunAgrees

(* A closed batch is out of reach of the bank until it is reopened: no      *)
(* result or retry changes its rows or its amounts.                         *)
ClosedFrozen ==
  [][\A b \in Batch : batch[b].status = "CLOSED" =>
       row'[b] = row[b] /\ batch'[b].paid = batch[b].paid]_vars

(* An outcome is given to a row only together with the record of the file   *)
(* that reported it, so importing a file twice has no effect.               *)
OutcomesRecorded ==
  [][\A b \in Batch, l \in Payable :
       row'[b][l].status \in {"PAID", "FAILED", "REVERSED"} /\ row'[b][l] # row[b][l]
         => batch'[b].files # batch[b].files]_vars

(* What a row says changes by a recorded file of an open batch only.        *)
OutcomesStand == ClosedFrozen /\ OutcomesRecorded
=============================================================================
