--------------------------- MODULE SalaryPromise ---------------------------
(***************************************************************************)
(* What paying a payroll run promises, without batches, claims and files.  *)
(* All of its money is sent out at once; the money of a line is sent again *)
(* only when the bank has reported that it came back; and the run is paid  *)
(* exactly while all of its money is reported to have arrived.             *)
(***************************************************************************)
EXTENDS Naturals

CONSTANT Line

VARIABLES money,      \* [Line -> where the bank says the money is]
          transfers,  \* [Line -> transfers ordered so far]
          phase       \* of the payroll run

State == {"kept", "sent", "arrived", "back"}

PhaseOf(m) == IF \A l \in Line : m[l] = "arrived" THEN "paid" ELSE "paying"

Init ==
  /\ money = [l \in Line |-> "kept"]
  /\ transfers = [l \in Line |-> 0]
  /\ phase = "approved"

Send ==
  /\ phase = "approved"
  /\ money' = [l \in Line |-> "sent"]
  /\ transfers' = [l \in Line |-> 1]
  /\ phase' = "paying"

(* The bank reports, and may correct what it reported before. *)
Report ==
  /\ phase \in {"paying", "paid"}
  /\ money' \in [Line -> State \ {"kept"}]
  /\ phase' = PhaseOf(money')
  /\ UNCHANGED transfers

SendAgain(l) ==
  /\ phase = "paying" /\ money[l] = "back"
  /\ money' = [money EXCEPT ![l] = "sent"]
  /\ transfers' = [transfers EXCEPT ![l] = @ + 1]
  /\ UNCHANGED phase

Close  == phase = "paid" /\ phase' = "closed" /\ UNCHANGED <<money, transfers>>
Reopen == phase = "closed" /\ phase' = "paid" /\ UNCHANGED <<money, transfers>>

Next == Send \/ Report \/ (\E l \in Line : SendAgain(l)) \/ Close \/ Reopen

Spec == Init /\ [][Next]_<<money, transfers, phase>>
=============================================================================
