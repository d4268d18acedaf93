---------------------------- MODULE SupplierDesk ----------------------------
(***************************************************************************)
(* The request layer of a month of supplier settlements                    *)
(* (rental_manpower/api.py and the generator of documents/api.py), and     *)
(* what the pages drawn from their selectors offer.                        *)
(*                                                                         *)
(* A request passes two checks: the view asks for one permission of the    *)
(* access profile, the service for a coarse capability that any of several *)
(* permissions gives, of the internal workspace too.  The selectors ask    *)
(* the coarse question only.  An action is a request and is named after    *)
(* its view.                                                               *)
(***************************************************************************)
EXTENDS SupplierSettlement

CONSTANTS User, May   \* what the access profile of each user permits

Elsewhere == {"internal_approve", "internal_pay"}
Rental == {"view", "manage_adjustments", "approve_adjustments", "prepare", "approve",
           "prepare_payments", "execute", "finalize"}

ASSUME DeskAssumption == May \in [User -> SUBSET (Rental \cup Elsewhere)]

membership_can_workspace(u) == May[u] \cap Rental # {}
membership_can_edit(u) ==
  May[u] \cap {"manage_adjustments", "prepare", "prepare_payments", "finalize"} # {}
CanApprove(u) ==
  membership_can_workspace(u) /\ May[u] \cap {"approve_adjustments", "approve", "internal_approve"} # {}
CanPay(u) == membership_can_workspace(u) /\ May[u] \cap {"execute", "internal_pay"} # {}

----------------------------------------------------------------------------
(* Requests *)

rental_adjustments_api(u, a) ==
  "manage_adjustments" \in May[u] /\ adj[a].status = "NONE" /\ WriteAdjustment(a)
rental_adjustment_detail_api(u, a) ==
  "manage_adjustments" \in May[u] /\ adj[a].status = "DRAFT" /\ WriteAdjustment(a)

(* "reject" is another word for "return", with another permission.          *)
rental_adjustment_workflow_api(u, a, action) ==
  /\ (IF action \in {"approve", "reject"} THEN "approve_adjustments" ELSE "manage_adjustments")
       \in May[u]
  /\ \/ action = "submit" /\ membership_can_edit(u) /\ SubmitAdjustment(a)
     \/ action = "approve" /\ CanApprove(u) /\ CheckAdjustment(a)
     \/ action \in {"return", "reject"} /\ CanApprove(u) /\ ReturnAdjustment(a)

WorkflowRight(action) == IF action = "approve" THEN "approve" ELSE "prepare"

rental_settlements_calculate_api(u) == "prepare" \in May[u] /\ ReadSource

rental_settlements_workflow_api(u, action) ==
  /\ WorkflowRight(action) \in May[u]
  /\ \/ action = "submit" /\ membership_can_edit(u) /\ SubmitMonth
     \/ action = "approve" /\ CanApprove(u) /\ ApproveMonth
     \/ action = "return" /\ CanApprove(u) /\ ReturnMonth
     \/ action = "close" /\ CanPay(u) /\ CloseMonth

supplier_payments_api(u, s, amount, status) ==
  "execute" \in May[u] /\ RecordPayment(s, amount, status)
supplier_payment_result_api(u, n, status) == "execute" \in May[u] /\ SettlePayment(n, status)
supplier_payment_retry_api(u, n)          == "execute" \in May[u] /\ RetryPayment(n)

(* What the generator finds for an invoice: the settlements of the supplier *)
(* in the month that are final, an invoiced one with its document.          *)
eligible_sources == {s \in Supplier : Status(s) \in PayableStatuses}

document_generator_create_api(u, s, vat) ==
  "finalize" \in May[u] /\ s \in eligible_sources /\ RecordInvoice(s, vat)

DeskNext ==
  \/ \E u \in User :
       \/ \E a \in Adj :
            \/ rental_adjustments_api(u, a) \/ rental_adjustment_detail_api(u, a)
            \/ \E action \in {"submit", "approve", "return", "reject"} :
                 rental_adjustment_workflow_api(u, a, action)
       \/ rental_settlements_calculate_api(u)
       \/ \E action \in {"submit", "approve", "return", "close"} :
            rental_settlements_workflow_api(u, action)
       \/ \E s \in Supplier :
            \/ \E vat \in Vat : document_generator_create_api(u, s, vat)
            \/ \E amount \in Amounts, status \in {"PROCESSING", "PAID"} :
                 supplier_payments_api(u, s, amount, status)
       \/ \E n \in DOMAIN payment :
            \/ \E status \in PaymentStatus : supplier_payment_result_api(u, n, status)
            \/ supplier_payment_retry_api(u, n)
  \/ \E a \in Adj : ApproveAdjustment(a)
  \/ Calculate

DeskSpec == Init /\ [][DeskNext]_vars

----------------------------------------------------------------------------
(* What the pages offer *)

(* project_settlement_workflow *)
MonthActions(u) ==
  LET all(status) == AllIn(status) IN
  {action \in {"calculate", "submit", "return", "approve", "close"} :
     \/ action = "calculate" /\ membership_can_edit(u) /\ (Rows = {} \/ all("CALCULATED"))
     \/ action = "submit" /\ membership_can_edit(u) /\ all("CALCULATED")
     \/ action \in {"return", "approve"} /\ CanApprove(u) /\ all("REVIEW")
     \/ action = "close" /\ CanPay(u) /\ all("PAID")}

(* Mutant of Invoiced: the page offers a payment before the invoice.        *)
InvoicedAlways(s) == TRUE

Invoiced(s) == invoice[s] # None \/ Total(s, payment, "PAID") + Total(s, payment, "PROCESSING") > 0

(* settlement_allowed_actions: pay *)
MayBePaid(u, s) ==
  /\ CanPay(u)
  /\ Status(s) \in {"APPROVED", "PAYMENT_PROCESSING", "PARTIALLY_PAID"}
  /\ Available(s) > 0 /\ Invoiced(s)

(* supplier_payment_settlement_lookup_api: the same question in SQL.        *)
LookedUp(s) ==
  /\ Status(s) \in {"APPROVED", "PAYMENT_PROCESSING", "PARTIALLY_PAID"}
  /\ invoice[s] # None \/ Total(s, payment, "PAID") + Total(s, payment, "PROCESSING") > 0
  /\ Payable(s) > Total(s, payment, "PAID") + Total(s, payment, "PROCESSING")

(* serialize_supplier_settlement: canRecordSupplierInvoice *)
InvoiceAwaited(s) ==
  Status(s) \in {"APPROVED", "PAYMENT_PROCESSING", "PARTIALLY_PAID"} /\ invoice[s] = None

(* supplier_payment_allowed_actions *)
PaymentActions(u, n) ==
  IF ~CanPay(u) THEN {}
  ELSE CASE payment[n].status = "PROCESSING" -> {"PAID", "FAILED", "CANCELLED"}
         [] payment[n].status = "PAID" -> {"REVERSED"}
         [] payment[n].status \in {"FAILED", "REVERSED"} -> {"RETRY"}
         [] OTHER -> {}

(* The page of the month                                                    *)
rental_settlement_context(u) ==
  [workflow |-> MonthActions(u),
   pay      |-> {s \in Supplier : MayBePaid(u, s)},
   invoice  |-> {s \in Supplier : InvoiceAwaited(s)},
   payments |-> [n \in DOMAIN payment |-> PaymentActions(u, n)]]

----------------------------------------------------------------------------
(* Properties *)

MonthAccepts(u, action) ==
  ENABLED (IF action = "calculate" THEN rental_settlements_calculate_api(u)
           ELSE rental_settlements_workflow_api(u, action))

PayAccepts(u, s) ==
  \E amount \in Amounts : ENABLED supplier_payments_api(u, s, amount, "PROCESSING")

InvoiceAccepts(u, s) == \E vat \in Vat : ENABLED document_generator_create_api(u, s, vat)

PaymentAccepts(u, n, action) ==
  ENABLED (IF action = "RETRY" THEN supplier_payment_retry_api(u, n)
           ELSE supplier_payment_result_api(u, n, action))

Stale == \E s \in Rows : ~Fresh(s)

(* What the pages offer to somebody whose profile has the permission the    *)
(* view asks for is accepted.  The pages do not see that an adjustment was  *)
(* approved after the calculation, nor that a retry is for more than is     *)
(* left; nothing else is offered in vain.                                   *)
OffersWork ==
  Unlocked /\ Len(payment) < MaxPayments =>
    \A u \in User : LET page == rental_settlement_context(u) IN
      /\ \A action \in page.workflow : WorkflowRight(action) \in May[u] =>
           \/ MonthAccepts(u, action)
           \/ action \in {"submit", "approve"} /\ Stale
      /\ "execute" \in May[u] =>
           /\ \A s \in page.pay : PayAccepts(u, s)
           /\ \A n \in DOMAIN payment : \A action \in page.payments[n] :
                \/ PaymentAccepts(u, n, action)
                \/ action = "RETRY" /\ payment[n].amount > Available(payment[n].to)
      /\ "finalize" \in May[u] => \A s \in page.invoice : InvoiceAccepts(u, s)

(* Two implementations of one question, the list and the lookup, agree.     *)
ListsAgree ==
  \A u \in User : CanPay(u) =>
    rental_settlement_context(u).pay = {s \in Supplier : LookedUp(s)}

(* A month that is not paid never comes to a stop: whatever failed and      *)
(* whatever was approved under it, a page offers somebody a request that is *)
(* accepted, unless approved deductions exceed what was earned.             *)
WayForward ==
  /\ Unlocked /\ Len(payment) < MaxPayments
  /\ \A s \in Supplier : Covered(s)
  /\ \E s \in Supplier : Status(s) \notin {"PAID", "CLOSED"}
  => \E u \in User : LET page == rental_settlement_context(u) IN
       \/ \E action \in page.workflow : MonthAccepts(u, action)
       \/ \E s \in page.pay : PayAccepts(u, s)
       \/ \E s \in page.invoice : InvoiceAccepts(u, s)
       \/ \E n \in DOMAIN payment : \E action \in page.payments[n] : PaymentAccepts(u, n, action)

(* Settlements agree with their payments and with each other, and the list  *)
(* of those that can be paid with the lookup.                               *)
SupplierDeskInv == SupplierInv /\ ListsAgree

(* The pages of a month agree with its services and never run out.          *)
PagesOffer == OffersWork /\ WayForward
=============================================================================
