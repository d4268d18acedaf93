----------------------------- MODULE BackOffice -----------------------------
(***************************************************************************)
(* The parts of the back office side by side: accounts and their upgrade,  *)
(* imports, documents, packs, the browser, and the employees with their    *)
(* payroll month.  No two share a variable but for the employee file,      *)
(* which the month extends, so the whole is the conjunction of the parts:  *)
(* any of them moves, alone or together with others.                       *)
(***************************************************************************)
EXTENDS AccessControl, WorkspaceClient, DocumentLibrary, DocumentDelivery,
        StockImport, PayrollMonth, AccessUpgrade

BackOfficeSpec ==
  AccessSpec /\ ClientSpec /\ LibrarySpec /\ DeliverySpec /\ ImportSpec /\ MonthSpec /\ UpgradeSpec

------------------------------------------------------------------------------
(* Properties *)

(* Every part keeps the type of its state.                                 *)
BackOfficeTypeOK ==
  AccessTypeOK /\ ImportTypeOK /\ LibraryTypeOK /\ DeliveryTypeOK
  /\ ClientTypeOK /\ FileTypeOK /\ MonthTypeOK /\ UpgradeTypeOK
=============================================================================
