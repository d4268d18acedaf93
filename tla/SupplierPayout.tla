--------------------------- MODULE SupplierPayout ---------------------------
(***************************************************************************)
(* SupplierSettlement implements SupplierPromise.  What a supplier has     *)
(* earned is the net of the approved statement, what is owed is the total  *)
(* of the invoice, and the money is where the payments say it is.          *)
(* Adjustments, calculations, the review, closing and reopening are        *)
(* invisible, and a retry is money that is sent again.                     *)
(***************************************************************************)
EXTENDS SupplierDesk

ASSUME NoStatementAssumption == None \notin [Supplier -> Nat]

Approved == \E s \in Supplier : Status(s) \in PayableStatuses

EarnedBy == IF Approved THEN [s \in Supplier |-> Net(s)] ELSE None
SentTo   == [s \in Supplier |-> Total(s, payment, "PROCESSING")]
PaidTo   == [s \in Supplier |-> Paid(s)]

Promise == INSTANCE SupplierPromise
  WITH earned <- EarnedBy, owed <- invoice, sent <- SentTo, received <- PaidTo

(* Whatever is adjusted, failed, reversed and retried after the approval,   *)
(* each supplier is paid what was approved then, with the VAT of one        *)
(* invoice, and never more of it is under way or paid than is owed.         *)
SettlesAsPromised == Promise!Spec
=============================================================================
