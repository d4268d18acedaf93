------------------------- MODULE SupplierSettlement -------------------------
(***************************************************************************)
(* What a project owes its manpower suppliers for one month:               *)
(* rental_manpower/services/settlements.py.                                *)
(*                                                                         *)
(* The settlements of all suppliers of the month are calculated, reviewed, *)
(* approved and closed together, each is invoiced and paid on its own, and *)
(* adjustments of what a supplier's worker earns arrive at any time.       *)
(*                                                                         *)
(* The transitions of the month lock the project and the settlements,      *)
(* payments lock their settlement before they read its allocations, so     *)
(* each is one step.  Two transactions are not:  a calculation reads the   *)
(* approved adjustments once for the source fingerprint and once more for  *)
(* the lines (ReadSource, Calculate), and the approval of an adjustment    *)
(* looks for approved settlements, finds none and locks nothing            *)
(* (CheckAdjustment, ApproveAdjustment).                                   *)
(*                                                                         *)
(* A supplier has one worker here.  A locked timesheet stays locked, so    *)
(* what it says is a constant (Gross).  Dates and references only refuse   *)
(* calls; they are left out.  Who may call is in SupplierDesk.             *)
(***************************************************************************)
EXTENDS Integers, Sequences, FiniteSets, Functions

CONSTANTS Supplier,     \* suppliers with rows in the locked timesheet
          Gross,        \* what the timesheet says each has earned
          Adj,          \* rental adjustments of the month
          Owner,        \* the supplier of an adjustment
          Effect,       \* amounts one may have, negative for a deduction
          Vat,          \* VAT amounts of supplier invoices
          Amounts,      \* amounts of payments
          MaxPayments,  \* bound on the payments of the month
          None

ASSUME SettlementAssumption ==
  /\ Gross \in [Supplier -> Nat] /\ Owner \in [Adj -> Supplier] /\ Effect \subseteq Int
  /\ Vat \subseteq Nat /\ Amounts \subseteq Nat \ {0} /\ MaxPayments \in Nat
  /\ IsFiniteSet(Adj)
  /\ None \notin Nat /\ None \notin [Supplier -> SUBSET Adj]

VARIABLES adj,          \* [Adj -> status and effect of the adjustment]
          approving,    \* adjustments whose approval is checked, not committed
          calculating,  \* sources read by the calculation under way, or None
          settlement,   \* [Supplier -> settlement row]
          invoice,      \* [Supplier -> total of the received invoice, or None]
          payment       \* supplier payments, in the order of their numbers

vars == <<adj, approving, calculating, settlement, invoice, payment>>

PayableStatuses == {"APPROVED", "PAYMENT_PROCESSING", "PARTIALLY_PAID", "PAID", "CLOSED"}

SettlementStatus == {"NONE", "CALCULATED", "REVIEW"} \cup PayableStatuses

PaymentStatus == {"PROCESSING", "PAID", "FAILED", "REVERSED", "CANCELLED"}

EffectOf(set) == SumFunctionOnSet([a \in Adj |-> adj[a].effect], set)

(* total_net of the snapshot *)
Net(s) == Gross[s] + EffectOf(settlement[s].lines)

TypeOK ==
  /\ adj \in [Adj -> [status : {"NONE", "DRAFT", "REVIEW", "APPROVED"}, effect : Effect \cup {0}]]
  /\ approving \subseteq Adj
  /\ calculating \in [Supplier -> SUBSET Adj] \cup {None}
  /\ settlement \in [Supplier -> [status : SettlementStatus, source : SUBSET Adj, lines : SUBSET Adj]]
  /\ \A s \in Supplier : Net(s) \in Nat
  /\ invoice \in [Supplier -> Nat \cup {None}]
  /\ payment \in Seq([to : Supplier, amount : Amounts, status : PaymentStatus])

Init ==
  /\ adj = [a \in Adj |-> [status |-> "NONE", effect |-> 0]]
  /\ approving = {} /\ calculating = None
  /\ settlement = [s \in Supplier |-> [status |-> "NONE", source |-> {}, lines |-> {}]]
  /\ invoice = [s \in Supplier |-> None]
  /\ payment = <<>>

Status(s) == settlement[s].status

(* The settlement rows of the month. *)
Rows == {s \in Supplier : Status(s) # "NONE"}

AllIn(status) == Rows # {} /\ \A s \in Rows : Status(s) = status

(* The approved adjustments that a statement sees. *)
ApprovedOf(s) == {a \in Adj : Owner[a] = s /\ adj[a].status = "APPROVED"}

----------------------------------------------------------------------------
(* Adjustments *)

(* create_rental_adjustment, update_rental_adjustment *)
WriteAdjustment(a) ==
  /\ adj[a].status \in {"NONE", "DRAFT"}
  /\ \E e \in Effect : adj' = [adj EXCEPT ![a] = [status |-> "DRAFT", effect |-> e]]
  /\ UNCHANGED <<approving, calculating, settlement, invoice, payment>>

(* transition_rental_adjustment *)
SubmitAdjustment(a) ==
  /\ adj[a].status = "DRAFT"
  /\ adj' = [adj EXCEPT ![a].status = "REVIEW"]
  /\ UNCHANGED <<approving, calculating, settlement, invoice, payment>>

ReturnAdjustment(a) ==
  /\ adj[a].status = "REVIEW" /\ a \notin approving
  /\ adj' = [adj EXCEPT ![a].status = "DRAFT"]
  /\ UNCHANGED <<approving, calculating, settlement, invoice, payment>>

(* The query locks approved settlements only; this one is not. *)
CheckAdjustment(a) ==
  /\ adj[a].status = "REVIEW" /\ a \notin approving
  /\ Status(Owner[a]) \notin PayableStatuses
  /\ approving' = approving \cup {a}
  /\ UNCHANGED <<adj, calculating, settlement, invoice, payment>>

ApproveAdjustment(a) ==
  /\ a \in approving
  /\ adj' = [adj EXCEPT ![a].status = "APPROVED"]
  /\ approving' = approving \ {a}
  /\ UNCHANGED <<calculating, settlement, invoice, payment>>

----------------------------------------------------------------------------
(* The month: calculate_project_settlements, transition_project_settlements *)

(* The project's row is locked by the calculation or by nobody. *)
Unlocked == calculating = None

ReadSource ==
  /\ Unlocked
  /\ \A s \in Rows : Status(s) = "CALCULATED"
  /\ calculating' = [s \in Supplier |-> ApprovedOf(s)]
  /\ UNCHANGED <<adj, approving, settlement, invoice, payment>>


Covered(s) == Gross[s] + EffectOf(ApprovedOf(s)) >= 0


(* One negative payable rolls the whole calculation back. *)
Calculates(s) == \A t \in Supplier : Covered(t)

Calculate ==
  /\ calculating # None
  /\ settlement' = [s \in Supplier |->
       IF Calculates(s)
       THEN [status |-> "CALCULATED", source |-> calculating[s], lines |-> ApprovedOf(s)]
       ELSE settlement[s]]
  /\ calculating' = None
  /\ UNCHANGED <<adj, approving, invoice, payment>>

(* Mutant of Fresh: the source is not compared again. *)
FreshAlways(s) == TRUE

(* _assert_settlement_integrity: the source fingerprint still fits. *)
Fresh(s) == settlement[s].source = ApprovedOf(s)

Move(to) ==
  settlement' = [s \in Supplier |->
    IF s \in Rows THEN [settlement[s] EXCEPT !.status = to[s]] ELSE settlement[s]]

SubmitMonth ==
  /\ Unlocked /\ AllIn("CALCULATED")
  /\ \A s \in Rows : Fresh(s)
  /\ Move([s \in Rows |-> "REVIEW"])
  /\ UNCHANGED <<adj, approving, calculating, invoice, payment>>

ApproveMonth ==
  /\ Unlocked /\ AllIn("REVIEW")
  /\ \A s \in Rows : Fresh(s)
  /\ Move([s \in Rows |-> IF Net(s) = 0 THEN "PAID" ELSE "APPROVED"])
  /\ UNCHANGED <<adj, approving, calculating, invoice, payment>>

ReturnMonth ==
  /\ Unlocked /\ AllIn("REVIEW")
  /\ Move([s \in Rows |-> "CALCULATED"])
  /\ UNCHANGED <<adj, approving, calculating, invoice, payment>>

(* Mutant of Closable: what is under way counts as paid. *)
ClosableEarly == Rows # {} /\ \A s \in Rows : Status(s) \in {"PAID", "PAYMENT_PROCESSING"}

Closable == AllIn("PAID")

CloseMonth ==
  /\ Unlocked /\ Closable
  /\ Move([s \in Rows |-> "CLOSED"])
  /\ UNCHANGED <<adj, approving, calculating, invoice, payment>>

----------------------------------------------------------------------------
(* Invoices and payments *)

(* finalize_business_document: one invoice for a settlement, of its net. *)
RecordInvoice(s, vat) ==
  /\ Status(s) \in PayableStatuses
  /\ invoice[s] = None
  /\ invoice' = [invoice EXCEPT ![s] = Net(s) + vat]
  /\ UNCHANGED <<adj, approving, calculating, settlement, payment>>

(* _allocation_totals of a settlement, over any state of the payments *)
Total(s, payments, status) ==
  SumFunctionOnSet([n \in DOMAIN payments |-> payments[n].amount],
                   {n \in DOMAIN payments : payments[n].to = s /\ payments[n].status = status})

(* _supplier_invoice_payable *)
Payable(s) == IF invoice[s] = None THEN Net(s) ELSE invoice[s]

(* Mutant of Available: transfers under way are not reserved. *)
AvailableUnreserved(s) == Payable(s) - Total(s, payment, "PAID")

Available(s) == Payable(s) - Total(s, payment, "PAID") - Total(s, payment, "PROCESSING")

Target(s, payments) ==
  LET paid == Total(s, payments, "PAID") IN
  IF paid >= Payable(s) THEN "PAID"
  ELSE IF paid > 0 THEN "PARTIALLY_PAID"
  ELSE IF Total(s, payments, "PROCESSING") > 0 THEN "PAYMENT_PROCESSING"
  ELSE "APPROVED"

(* _sync_settlement_payment_status, after the payments became payments *)
Sync(s, payments) ==
  /\ payment' = payments
  /\ settlement' = [settlement EXCEPT ![s].status =
       IF @ = "CLOSED" /\ Target(s, payments) = "PAID" THEN @ ELSE Target(s, payments)]
  /\ UNCHANGED <<adj, approving, calculating, invoice>>

WithPayment(s, amount, status) ==
  Append(payment, [to |-> s, amount |-> amount, status |-> status])

(* record_supplier_payment *)
RecordPayment(s, amount, status) ==
  /\ Len(payment) < MaxPayments
  /\ Status(s) \in PayableStatuses \ {"CLOSED"}
  /\ invoice[s] # 0
  /\ invoice[s] # None \/ \E n \in DOMAIN payment : payment[n].to = s
  /\ amount <= Available(s)
  /\ Sync(s, WithPayment(s, amount, status))

(* transition_supplier_payment: what may follow a status *)
Outcomes == [PROCESSING |-> {"PAID", "FAILED", "CANCELLED"}, PAID |-> {"REVERSED"},
             FAILED |-> {}, REVERSED |-> {}, CANCELLED |-> {}]

SettlePayment(n, status) ==
  /\ status \in Outcomes[payment[n].status]
  /\ Sync(payment[n].to, [payment EXCEPT ![n].status = status])

(* Mutant of RetryPayment: what is left to pay is not looked at.            *)
RetryPaymentUnchecked(n) ==
  LET p == payment[n] IN
  /\ Len(payment) < MaxPayments /\ p.status \in {"FAILED", "REVERSED"}
  /\ Sync(p.to, WithPayment(p.to, p.amount, "PROCESSING"))

(* retry_supplier_payment: a closed settlement is not excluded, and one     *)
(* payment may be retried any number of times.                              *)
RetryPayment(n) ==
  LET p == payment[n] IN
  /\ Len(payment) < MaxPayments
  /\ p.status \in {"FAILED", "REVERSED"}
  /\ p.amount <= Available(p.to)
  /\ Sync(p.to, WithPayment(p.to, p.amount, "PROCESSING"))

Next ==
  \/ \E a \in Adj : \/ WriteAdjustment(a) \/ SubmitAdjustment(a) \/ ReturnAdjustment(a)
                    \/ CheckAdjustment(a) \/ ApproveAdjustment(a)
  \/ ReadSource \/ Calculate \/ SubmitMonth \/ ApproveMonth \/ ReturnMonth \/ CloseMonth
  \/ \E s \in Supplier : \/ \E vat \in Vat : RecordInvoice(s, vat)
                         \/ \E amount \in Amounts, status \in {"PROCESSING", "PAID"} :
                              RecordPayment(s, amount, status)
  \/ \E n \in DOMAIN payment : \/ \E status \in PaymentStatus : SettlePayment(n, status)
                               \/ RetryPayment(n)

Spec == Init /\ [][Next]_vars

----------------------------------------------------------------------------
(* Properties *)

Paid(s) == Total(s, payment, "PAID")

(* What a supplier has received and what is on its way never exceed the     *)
(* payable, whatever fails, is reversed and is retried, even repeatedly;    *)
(* nothing is sent before an invoice fixed the payable.                     *)
NeverOverpaid ==
  \A s \in Supplier :
    /\ Available(s) >= 0
    /\ Paid(s) + Total(s, payment, "PROCESSING") > 0 => invoice[s] # None

(* The cached status of a settlement with something to pay is the one its   *)
(* allocations imply; a closed settlement is a fully paid one, however it   *)
(* was reversed and paid again.                                             *)
StatusAgrees ==
  \A s \in Supplier : Status(s) \in PayableStatuses /\ Net(s) > 0 =>
    LET moving == Total(s, payment, "PROCESSING") IN
    /\ Status(s) \in {"PAID", "CLOSED"} <=> Paid(s) = Payable(s)
    /\ Status(s) = "PARTIALLY_PAID"     <=> Paid(s) \in 1..(Payable(s) - 1)
    /\ Status(s) = "PAYMENT_PROCESSING" <=> Paid(s) = 0 /\ moving > 0
    /\ Status(s) = "APPROVED"           <=> Paid(s) = 0 /\ moving = 0

(* Until a month is approved its suppliers move together: there is no       *)
(* moment at which one supplier of the month is payable and another is      *)
(* still open to recalculation, and nothing is invoiced or paid before.     *)
MonthTogether ==
  (\E s \in Supplier : Status(s) \notin PayableStatuses) =>
    /\ \A s, t \in Supplier : Status(s) = Status(t)
    /\ \A s \in Supplier : invoice[s] = None
    /\ payment = <<>>

(* The typed state, and the status of each settlement, on its own and with  *)
(* the others of its month.                                                 *)
SupplierInv == TypeOK /\ StatusAgrees /\ MonthTogether

(* "Settlement source data changed after calculation."  What is approved    *)
(* holds every adjustment approved at that moment and no other, although    *)
(* the calculation reads the adjustments twice and they keep arriving.      *)
ApprovedTrue ==
  [][\A s \in Supplier :
       Status(s) = "REVIEW" /\ settlement'[s].status \in PayableStatuses
         => settlement[s].lines = ApprovedOf(s)]_vars

(* A closed settlement is left only through the reversal of one of its      *)
(* payments, although a retry does not ask whether it is closed.            *)
ClosedUntilReversed ==
  [][\A s \in Supplier : Status(s) = "CLOSED" /\ settlement'[s].status # "CLOSED" =>
       \E n \in DOMAIN payment : /\ payment[n].to = s
                                 /\ payment[n].status = "PAID"
                                 /\ payment'[n].status = "REVERSED"]_vars

(* A claim of the code that the code does not keep.  settlements.py: "All   *)
(* supplier settlements must be fully Paid before this project settlement   *)
(* period can be closed."  A month whose settlements are all fully paid is  *)
(* closed or can be.                                                        *)
PaidMonthCloses ==
  (\A s \in Supplier : Status(s) \in {"PAID", "CLOSED"}) => Closable \/ AllIn("CLOSED")
=============================================================================
