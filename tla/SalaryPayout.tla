---------------------------- MODULE SalaryPayout ----------------------------
(***************************************************************************)
(* SalaryPayment implements SalaryPromise.  The money of a line is where   *)
(* the row that claims the line says it is; cancelled batches, exports and *)
(* reports that change nothing are invisible.                              *)
(***************************************************************************)
EXTENDS SalaryPayment

ClaimOf(l) == CHOOSE b \in Batch : row[b][l].claim

MoneyIn(status) ==
  CASE status = "PENDING"                -> "kept"
    [] status = "PROCESSING"             -> "sent"
    [] status = "PAID"                   -> "arrived"
    [] status \in {"FAILED", "REVERSED"} -> "back"

Phase ==
  CASE run = "APPROVED"           -> "approved"
    [] run = "PAYMENT_PROCESSING" -> "paying"
    [] run = "PAID"               -> "paid"
    [] run = "CLOSED"             -> "closed"

Promise == INSTANCE SalaryPromise
  WITH Line      <- Payable,
       money     <- [l \in Payable |-> IF Claimed(l) THEN MoneyIn(row[ClaimOf(l)][l].status)
                                       ELSE "kept"],
       transfers <- [l \in Payable |-> IF Claimed(l) THEN Len(row[ClaimOf(l)][l].attempts) ELSE 0],
       phase     <- Phase

(* Any order of batches, cancellations, result files, retries, closing and  *)
(* reopening pays the run as promised: no second transfer of a salary while *)
(* the last one is under way or has arrived.                                *)
PaysAsPromised == Promise!Spec
=============================================================================
