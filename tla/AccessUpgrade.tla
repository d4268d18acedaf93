---------------------------- MODULE AccessUpgrade ----------------------------
(* apps/accounts: the data migrations 0004 to 0014 that carry the accounts   *)
(* of the old inventory system to memberships and persisted profiles, and    *)
(* the catalog that says today what a built-in profile grants.  The grants   *)
(* are written twice in the code: the migrations move them step by step, and *)
(* the catalog states the result.  A permission here stands for all those    *)
(* that every set of the catalog and of the migrations treats alike.  A      *)
(* migration is one transaction; an upgrade may stop between two.  0007,     *)
(* 0011 and 0013_rename move no data and are part of the order only.         *)
EXTENDS Naturals, FiniteSets, Absence

CONSTANT Login  \* the accounts of the old system, by number


VARIABLES
  applied,  \* the migrations that have run
  tenant,   \* the company: its activity, or None
  login,    \* account -> its flags; "admin" is the role of the old system
  seat,     \* account -> its membership, or None
  builtin,  \* role -> the grants of its built-in profile, for those that exist
  allowed   \* the permissions that the check constraint of the grants admits

upgradeVars == <<applied, tenant, login, seat, builtin, allowed>>

Right ==
  {"users.view", "users.manage", "audit", "settings.manage", "search", "shared.view",
   "shared.export", "stock.view", "stock.edit", "stock.manage", "stock.import",
   "payroll.view", "payroll.enter", "payroll.check", "runs.review", "runs.approve",
   "payout.prepare", "payout.pay", "crew.view", "crew.enter", "rental.view",
   "rental.manage", "rental.approve", "rental.pay", "sourcing", "subcontractors"}

ClassifiedRole ==
  {"owner", "operations-admin", "access-admin", "inventory-manager", "storekeeper",
   "finance", "internal-officer", "rental-officer", "rental-supervisor", "reviewer",
   "auditor"}

(* What the catalog grants today.                                            *)
Stock   == [view |-> {"stock.view", "search"}, edit |-> {"stock.edit"},
            manage |-> {"stock.manage"}]
Payroll == [view |-> {"payroll.view", "shared.view", "search"},
            edit |-> {"payroll.enter", "payout.prepare", "shared.export"},
            approve |-> {"payroll.check", "runs.approve"}, pay |-> {"payout.pay"}]
Rental  == [view |-> {"crew.view", "rental.view", "shared.view", "search"},
            edit |-> {"crew.enter", "rental.manage", "shared.export"},
            approve |-> {"rental.approve"}, pay |-> {"rental.pay"}]

Capabilities(r) ==
  CASE r = "operations-admin" ->
         {"edit stock", "manage stock", "import stock", "settings", "audit", "see access"}
    [] r = "access-admin" -> {"audit", "see access", "manage access"}
    [] r = "inventory-manager" -> {"edit stock", "manage stock", "import stock"}
    [] r = "rental-officer" -> {"edit rental"}
    [] r = "auditor" -> {"audit"}

Workspaces(r) ==
  CASE r = "operations-admin" -> {"management", "stock"}
    [] r \in {"access-admin", "auditor"} -> {"management"}
    [] r = "inventory-manager" -> {"stock"}
    [] r = "rental-officer" -> {"rental"}

Spelled(r) ==
  CASE r = "internal-officer" -> Payroll.view \cup Payroll.edit
    [] r = "reviewer" ->
         Payroll.view \cup {"payroll.check", "runs.review"} \cup Rental.view
           \cup Rental.approve \cup {"audit"}
    [] r = "finance" ->
         Payroll.view \cup {"payroll.check", "runs.approve", "payout.prepare", "payout.pay"}
           \cup {"shared.export"} \cup Rental.view \cup Rental.edit \cup Rental.approve
           \cup {"rental.pay", "audit", "users.view"}
    [] r = "storekeeper" -> {"stock.view", "stock.edit", "search"}
    [] r = "rental-supervisor" -> {"crew.view", "crew.enter"}

Derived(r) ==
  LET can(c) == c \in Capabilities(r)
      in(w)  == w \in Workspaces(r)
      If(p, set) == IF p THEN set ELSE {}
  IN If(in("stock"), Stock.view) \cup If(can("edit stock"), Stock.edit)
     \cup If(can("manage stock"), Stock.manage) \cup If(can("import stock"), {"stock.import"})
     \cup If(in("rental"), Rental.view) \cup If(can("edit rental"), Rental.edit)
     \* "audit" is settings.view as well: the two are granted together
     \cup If(can("settings"), {"settings.manage"}) \cup If(can("audit"), {"audit"})
     \cup If(can("see access"), {"users.view"})
     \cup If(can("manage access"), {"users.view", "users.manage"})

Template(r) ==
  CASE r = "owner" -> Right
    [] r \in {"internal-officer", "reviewer", "finance", "storekeeper",
              "rental-supervisor"} -> Spelled(r)
    [] OTHER -> Derived(r)

(* The pages that an action needs: what the service asks of custom profiles. *)
PagesOf(p) ==
  CASE p = "users.manage" -> {"users.view"}
    [] p = "settings.manage" -> {"audit"}
    [] p = "shared.export" -> {"shared.view"}
    [] p \in {"stock.edit", "stock.manage"} -> {"stock.view"}
    [] p \in {"payroll.enter", "payroll.check", "runs.review", "runs.approve",
              "payout.prepare", "payout.pay"} -> {"payroll.view"}
    [] p = "crew.enter" -> {"crew.view"}
    [] p \in {"rental.manage", "rental.approve"} -> {"crew.view", "rental.view"}
    [] p = "rental.pay" -> {"rental.view"}
    [] OTHER -> {}
------------------------------------------------------------------------------
Tenant == [active : BOOLEAN]
Flags  == [super : BOOLEAN, staff : BOOLEAN, admin : BOOLEAN, active : BOOLEAN]
Seat   == [role : ClassifiedRole, active : BOOLEAN, profile : ClassifiedRole \cup {None}]

ASSUME LoginAssumption ==
  Login \subseteq Nat /\ None \notin Tenant /\ None \notin Seat /\ None \notin ClassifiedRole

UpgradeTypeOK ==
  /\ applied \subseteq {"4", "5", "6", "8", "9", "10", "12", "13", "14"}
  /\ tenant \in {None} \cup Tenant /\ login \in [Login -> Flags]
  /\ seat \in [Login -> {None} \cup Seat]
  /\ DOMAIN builtin \subseteq ClassifiedRole /\ builtin \in [DOMAIN builtin -> SUBSET Right]
  /\ allowed \subseteq Right

UpgradeInit ==
  /\ applied = {}
  /\ tenant \in {None} \cup Tenant /\ login \in [Login -> Flags]
  /\ seat = [u \in Login |-> None]
  /\ builtin = [r \in {} |-> {}]
  /\ allowed = Right

(* After 0012 there are two branches; 0015 joins them.                       *)
Before(m) ==
  CASE m = "4" -> {} [] m = "5" -> {"4"} [] m = "6" -> {"5"} [] m = "8" -> {"6"}
    [] m = "9" -> {"8"} [] m = "10" -> {"9"} [] m = "12" -> {"10"}
    [] m \in {"13", "14"} -> {"12"}

Upgraded == {"13", "14"} \subseteq applied

Runs(m) ==
  /\ m \notin applied /\ Before(m) \subseteq applied
  /\ applied' = applied \cup {m}

(* A migration that gives and takes grants of built-in profiles that exist.  *)
Regrants(grants) ==
  /\ builtin' = [r \in DOMAIN builtin |-> grants[r]]
  /\ UNCHANGED <<tenant, login, seat>>

Lowest(S) == CHOOSE u \in S : \A v \in S : u <= v

ClassifiedAs(u) ==
  IF login[u].super THEN "owner"
  ELSE IF login[u].admin THEN "operations-admin" ELSE "storekeeper"

(* The company is made when there is none, every account gets a membership,  *)
(* and if no active one is an owner's, the first active administrator or the *)
(* first active account is promoted.                                         *)
BackfillInitialCompanyAccess ==
  LET open   == {u \in Login : login[u].active}
      admins == {u \in open : login[u].admin}
      first  == IF admins # {} THEN Lowest(admins) ELSE Lowest(open)
      none   == \A u \in open : ClassifiedAs(u) # "owner"
      role(u) == IF none /\ open # {} /\ u = first THEN "owner" ELSE ClassifiedAs(u)
  IN /\ Runs("4")
     /\ tenant' = IF tenant = None THEN [active |-> TRUE] ELSE tenant
     /\ seat' = [u \in Login |->
                   [role |-> role(u), active |-> login[u].active, profile |-> None]]
     /\ UNCHANGED <<login, builtin, allowed>>

(* The roles of 1.0.88, and what they granted then.                          *)
FirstGrants(r) ==
  LET stock   == {"stock.view", "search", "stock.edit"}
      seen    == {"payroll.view", "shared.view", "search"}
      entered == {"payroll.enter", "payout.prepare", "shared.export"}
      checked == {"payroll.check", "runs.approve"}
      hired   == {"crew.view", "rental.view", "shared.view", "search"}
      crews   == {"rental.manage", "crew.enter", "shared.export"}
  IN CASE r = "owner" -> Right \ {"runs.review", "sourcing", "subcontractors"}
       [] r = "operations-admin" ->
            stock \cup {"stock.manage", "stock.import", "settings.manage", "audit", "users.view"}
       [] r = "access-admin" -> {"audit", "users.view", "users.manage"}
       [] r = "inventory-manager" -> stock \cup {"stock.manage"}
       [] r = "storekeeper" -> stock
       [] r = "finance" ->
            seen \cup entered \cup checked \cup {"payout.pay"} \cup hired \cup crews
              \cup {"rental.approve", "rental.pay", "audit", "users.view"}
       [] r = "internal-officer" -> seen \cup entered
       [] r = "rental-officer" -> hired \cup crews
       [] r = "reviewer" -> seen \cup checked \cup hired \cup {"rental.approve", "audit"}
       [] r = "auditor" -> {"audit"}

BackfillAccessProfiles ==
  /\ Runs("5")
  /\ builtin' = [r \in ClassifiedRole \ {"rental-supervisor"} |-> FirstGrants(r)]
  /\ seat' = [u \in Login |->
                IF seat[u] # None /\ seat[u].profile = None
                THEN [seat[u] EXCEPT !.profile = seat[u].role] ELSE seat[u]]
  /\ allowed' = Right \ {"runs.review", "sourcing", "subcontractors"}
  /\ UNCHANGED <<tenant, login>>

(* Only superusers may enter the Django admin; who has no profile yet gets   *)
(* that of the role.                                                         *)
EnforceProfileAuthority ==
  /\ Runs("6")
  /\ login' = [u \in Login |-> [login[u] EXCEPT !.staff = login[u].super]]
  /\ seat' = [u \in Login |->
                IF seat[u] # None /\ seat[u].profile = None
                THEN [seat[u] EXCEPT !.profile = seat[u].role] ELSE seat[u]]
  /\ UNCHANGED <<tenant, builtin, allowed>>

CreateForemanProfiles ==
  /\ Runs("8")
  /\ builtin' = [r \in DOMAIN builtin \cup {"rental-supervisor"} |->
                   IF r = "rental-supervisor" THEN {"crew.view", "crew.enter"} ELSE builtin[r]]
  /\ UNCHANGED <<tenant, login, seat, allowed>>

ReconcileStorekeeperProfiles ==
  /\ Runs("9")
  /\ Regrants([builtin EXCEPT !["storekeeper"] = {"stock.view", "stock.edit", "search"}])
  /\ UNCHANGED allowed

(* Mutant of ReconcileInternalFinanceProfiles: the reviewer keeps the final approval. *)
ReconcileInternalFinanceProfilesAsWell ==
  /\ Runs("10")
  /\ Regrants(
       [builtin EXCEPT
          !["owner"] = @ \cup {"runs.review"},
          !["reviewer"] = @ \cup {"runs.review"},
          !["finance"] = (@ \ {"payroll.enter", "runs.review"})
                           \cup {"runs.approve", "payout.prepare", "payout.pay"}])
  /\ allowed' = Right \ {"sourcing", "subcontractors"}

(* Review becomes a right of its own; finance prepares no payroll any more.  *)
ReconcileInternalFinanceProfiles ==
  /\ Runs("10")
  /\ Regrants(
       [builtin EXCEPT
          !["owner"] = @ \cup {"runs.review"},
          !["reviewer"] = (@ \ {"runs.approve"}) \cup {"runs.review"},
          !["finance"] = (@ \ {"payroll.enter", "runs.review"})
                           \cup {"runs.approve", "payout.prepare", "payout.pay"}])
  /\ allowed' = Right \ {"sourcing", "subcontractors"}

GrantOwnerSourcing ==
  /\ Runs("12")
  /\ Regrants([builtin EXCEPT !["owner"] = @ \cup {"sourcing"}])
  /\ allowed' = Right \ {"subcontractors"}

GrantOwnerSubcontractors ==
  /\ Runs("13")
  /\ Regrants([builtin EXCEPT !["owner"] = @ \cup {"subcontractors"}])
  /\ allowed' = Right

ReconcileInventoryManagerImport ==
  /\ Runs("14")
  /\ Regrants([builtin EXCEPT !["inventory-manager"] = @ \cup {"stock.import"}])
  /\ UNCHANGED allowed

UpgradeNext ==
  \/ BackfillInitialCompanyAccess \/ BackfillAccessProfiles \/ EnforceProfileAuthority
  \/ CreateForemanProfiles \/ ReconcileStorekeeperProfiles
  \/ ReconcileInternalFinanceProfiles \/ GrantOwnerSourcing \/ GrantOwnerSubcontractors
  \/ ReconcileInventoryManagerImport

UpgradeSpec == UpgradeInit /\ [][UpgradeNext]_upgradeVars
------------------------------------------------------------------------------
(* What the report of the command merge_access_report counts as an error.    *)
ReportErrors ==
  LET in(u)    == seat[u] # None /\ seat[u].active /\ login[u].active
      rules(u) == in(u) /\ seat[u].profile = "owner"
  IN {<<"outside", u>> : u \in {u \in Login : login[u].active
                                  /\ ~(in(u) /\ tenant # None /\ tenant.active)}}
     \cup (IF tenant # None /\ tenant.active /\ (\A u \in Login : ~rules(u))
           THEN {<<"no owner", "">>} ELSE {})
     \cup {<<"staff", u>> : u \in {u \in Login : login[u].staff /\ ~login[u].super}}
     \cup {<<"no profile", u>> : u \in {u \in Login : seat[u] # None /\ seat[u].profile = None}}
     \cup {<<"drift", r>> : r \in {r \in ClassifiedRole :
                                       r \notin DOMAIN builtin \/ builtin[r] # Template(r)}}

(* Properties *)

(* Whatever accounts the old system had, the upgrade ends with what the code *)
(* of today expects: every active account is a member with the profile of    *)
(* its role, somebody owns the company, and the eleven built-in profiles,    *)
(* given and taken piece by piece by nine migrations, two of them in either  *)
(* order, grant exactly what the catalog grants (the hard errors of the      *)
(* report, for an active company that somebody can enter).  On the way no    *)
(* migration inserts a permission that the check constraint of its time      *)
(* refuses, nobody but a superuser and the one promoted becomes an owner,    *)
(* and a built-in profile never acts on a page that it cannot open.          *)
UpgradeTrue ==
  /\ \A r \in DOMAIN builtin :
       /\ builtin[r] \subseteq allowed
       /\ \A p \in builtin[r] : PagesOf(p) \subseteq builtin[r]
  /\ \A u, v \in Login : (u # v /\ seat[u] # None /\ seat[v] # None
                           /\ seat[u].role = "owner" /\ seat[v].role = "owner") =>
       login[u].super \/ login[v].super
  /\ Upgraded /\ tenant.active /\ (\E u \in Login : login[u].active) => ReportErrors = {}
==============================================================================
