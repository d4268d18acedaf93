---------------------------- MODULE MCPayrollRun ----------------------------
(* The instance of PayrollRun in which a sign-off is impossible. *)
EXTENDS PayrollRun, TLC

CONSTANTS u1, u2, u3, bonus, advance, early, late

(* A bonus, which no balance limits. *)
PlainKind == (bonus :> "OTHER")
PlainDate == (bonus :> 1)

(* An advance on day 1 and two recoveries, on days 2 and 3. *)
RecoveryKind == (advance :> "ADVANCE") @@ (early :> "RECOVERY") @@ (late :> "RECOVERY")
RecoveryDate == (advance :> 1) @@ (early :> 2) @@ (late :> 3)
=============================================================================
