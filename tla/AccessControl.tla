--------------------------- MODULE AccessControl ---------------------------
(***************************************************************************)
(* Who may do what in one company: memberships and accounts                *)
(* (accounts/user_management.py), access profiles (access_profiles.py),    *)
(* the sessions a change has to end (security.py, middleware.py, views.py) *)
(* and the two bulk actions of the Django admin (admin.py).                *)
(*                                                                         *)
(* A request works on what the middleware loaded when it began; by the     *)
(* time its service runs, the actor may have been demoted.  Services that  *)
(* change a member lock the row together with its company, so they are one *)
(* step each; only the bulk deactivation reads the other owners and writes *)
(* without a lock, in two steps.  An identity edit, which changes no       *)
(* authority, and services.py, which only tests call, are left out.        *)
(***************************************************************************)
EXTENDS Naturals, FiniteSets, Absence

CONSTANTS Member, Profile,
          OwnerProfile,   \* the built-in role-owner: immutable, always active
          Scope,          \* project, branch and location scopes
          MaxChanges      \* bound on the changes

Users == "access.users.manage"
Profiles == "access.profiles.manage"
Permission == {Users, Profiles}

VARIABLES member,    \* [Member -> membership and account, or None]
          profile,   \* [Profile -> activity and grants, or None]
          history,   \* [Member -> the before snapshots of its audit events]
          session,   \* [Member -> its browser session, or None]
          request,   \* [Member -> what the middleware loaded for it, or None]
          leaving,   \* accounts the bulk deactivation has checked
          bulk,      \* accounts a bulk action has written
          changes    \* how many changes were made

accessVars == <<member, profile, history, session, request, leaving, bulk, changes>>

Account == [profile : Profile, active : BOOLEAN, account : BOOLEAN, scope : Scope,
            temporary : BOOLEAN, used : BOOLEAN, version : Nat]
Granted == [active : BOOLEAN, grants : SUBSET Permission]

ASSUME AccessAssumption ==
  OwnerProfile \in Profile /\ MaxChanges \in Nat /\ None \notin Account \cup Granted

(* What a session and a request may do rests on these.                      *)
Authority(m) == [profile |-> member[m].profile, scope |-> member[m].scope,
                 active |-> member[m].active, grants |-> profile[member[m].profile].grants]

(* _effective access: an inactive profile grants nothing.                   *)
Grants(p) == IF profile[p].active THEN profile[p].grants ELSE {}

There(m) == member[m] # None
Works(m) == There(m) /\ member[m].active /\ member[m].account
Owns(m) == There(m) /\ member[m].profile = OwnerProfile
OwnersBut(m) == {o \in Member \ {m} : Owns(o) /\ Works(o)}

(* Mutant of KeepsOwner: any other owner counts, a deactivated one as well. *)
KeepsOwnerOfAnyKind(m, row) ==
  Owns(m) /\ Works(m) /\ ~(row.profile = OwnerProfile /\ row.active)
    => \E o \in Member \ {m} : Owns(o)
(* CompanyMembership.clean, on every save of a membership: the last active  *)
(* owner stays one.                                                         *)
KeepsOwner(m, row) ==
  Owns(m) /\ Works(m) /\ ~(row.profile = OwnerProfile /\ row.active) => OwnersBut(m) # {}

(* _identity_snapshot: what a restore can bring back.                       *)
Snapshot(m) == [profile |-> member[m].profile, active |-> member[m].active,
                account |-> member[m].account, scope |-> member[m].scope]

AccessTypeOK ==
  /\ member \in [Member -> Account \cup {None}]
  /\ profile \in [Profile -> Granted \cup {None}]
  /\ \A m \in Member : There(m) => profile[member[m].profile] # None
  /\ \A m \in Member : \A s \in history[m] :
       s \in [profile : Profile, active : BOOLEAN, account : BOOLEAN, scope : Scope]
  /\ leaving \subseteq Member /\ bulk \subseteq Member
  /\ changes \in 0..MaxChanges

(* A new company: its first owner and its built-in profiles.                *)
AccessInit ==
  /\ \E first \in Member : \E s \in Scope :
       member = [m \in Member |-> IF m # first THEN None ELSE
                   [profile |-> OwnerProfile, active |-> TRUE, account |-> TRUE, scope |-> s,
                    temporary |-> FALSE, used |-> FALSE, version |-> 1]]
  /\ profile = [p \in Profile |-> IF p = OwnerProfile
                  THEN [active |-> TRUE, grants |-> Permission] ELSE None]
  /\ history = [m \in Member |-> {}]
  /\ session = [m \in Member |-> None] /\ request = [m \in Member |-> None]
  /\ leaving = {} /\ bulk = {} /\ changes = 0

----------------------------------------------------------------------------
(* Sessions and requests *)

(* LoginView checks the account only, and stamps nothing.                   *)
SignIn(m) ==
  /\ There(m) /\ member[m].account /\ session[m] = None
  /\ session' = [session EXCEPT ![m] = [stamp |-> 0, seen |-> None, renewed |-> FALSE]]
  /\ member' = [member EXCEPT ![m].used = TRUE]
  /\ UNCHANGED <<profile, history, request, leaving, bulk, changes>>

Stamped(m) == [stamp |-> member[m].version, seen |-> Authority(m), renewed |-> FALSE]

Loaded(m) == [profile |-> member[m].profile, grants |-> Grants(member[m].profile),
              temporary |-> member[m].temporary, account |-> member[m].account,
              version |-> member[m].version]

(* The middlewares in their order: a session without a stamp gets one, one  *)
(* with an old stamp ends, a member that works gets its request.            *)
BeginRequest(m) ==
  /\ There(m) /\ member[m].account /\ session[m] # None /\ request[m] = None
  /\ IF session[m].stamp \notin {0, member[m].version}
       THEN session' = [session EXCEPT ![m] = None] /\ UNCHANGED request
       ELSE /\ session' = [session EXCEPT ![m] = IF @.stamp = 0 THEN Stamped(m) ELSE @]
            /\ request' = [request EXCEPT ![m] = IF Works(m) THEN Loaded(m) ELSE None]
  /\ UNCHANGED <<member, profile, history, leaving, bulk, changes>>

(* A request that changed nothing: read only, or refused.                   *)
EndRequest(m) ==
  /\ request[m] # None
  /\ request' = [request EXCEPT ![m] = None]
  /\ UNCHANGED <<member, profile, history, session, leaving, bulk, changes>>

(* change_password_view: form.save writes the whole row it loaded, then the *)
(* next version counted from the loaded one goes to the row and into this   *)
(* session.                                                                 *)
ChangePassword(m) ==
  /\ request[m] # None /\ changes < MaxChanges
  /\ LET next == request[m].version + 1 IN
       /\ member' = [member EXCEPT ![m].temporary = FALSE, ![m].version = next,
                                   ![m].account = request[m].account]
       /\ session' = [session EXCEPT ![m].stamp = next, ![m].renewed = TRUE]
  /\ request' = [request EXCEPT ![m] = None]
  /\ changes' = changes + 1
  /\ UNCHANGED <<profile, history, leaving, bulk>>

(* MandatoryPasswordChangeMiddleware, then the permission the service asks  *)
(* for: both on the loaded rows.                                            *)
May(a, permission) ==
  request[a] # None /\ ~request[a].temporary /\ permission \in request[a].grants

ActsAsOwner(a) == request[a].profile = OwnerProfile

(* Every service ends the request and leaves an audit event.                *)
Ended(a) == /\ request' = [request EXCEPT ![a] = None]
            /\ changes < MaxChanges /\ changes' = changes + 1
            /\ UNCHANGED <<leaving, bulk>>

Bumped(row) == [row EXCEPT !.version = @ + 1]

(* Mutant of Assignable: an inactive profile can be assigned.               *)
AssignableInactive(a, p) == profile[p] # None /\ (p = OwnerProfile => ActsAsOwner(a))
(* Mutant of Assignable: anybody assigns the owner profile.                 *)
AssignableByAll(a, p) == profile[p] # None /\ profile[p].active
(* _profile_for_assignment, under the lock of the profile.                  *)
Assignable(a, p) == /\ profile[p] # None /\ profile[p].active
                    /\ p = OwnerProfile => ActsAsOwner(a)

(* Whom a service that changes another member accepts.                      *)
Target(a, m) == May(a, Users) /\ There(m) /\ m # a /\ (Owns(m) => ActsAsOwner(a))

----------------------------------------------------------------------------
(* Members *)

CreateUser(a, m, p, s) ==
  /\ May(a, Users) /\ ~There(m) /\ Assignable(a, p)
  /\ member' = [member EXCEPT ![m] =
       [profile |-> p, active |-> TRUE, account |-> TRUE, scope |-> s,
        temporary |-> TRUE, used |-> FALSE, version |-> 1]]
  /\ Ended(a)
  /\ UNCHANGED <<profile, history, session>>

(* Mutant of Saved: the sessions of the member go on.                       *)
SavedQuietly(a, m, row) ==
  /\ KeepsOwner(m, row)
  /\ member' = [member EXCEPT ![m] = row]
  /\ history' = [history EXCEPT ![m] = @ \cup {Snapshot(m)}]
  /\ Ended(a)
  /\ UNCHANGED <<profile, session>>
(* What every change of an existing member does: the save is validated, the *)
(* version is bumped and the state before it is audited.                    *)
Saved(a, m, row) ==
  /\ KeepsOwner(m, row)
  /\ member' = [member EXCEPT ![m] = Bumped(row)]
  /\ history' = [history EXCEPT ![m] = @ \cup {Snapshot(m)}]
  /\ Ended(a)
  /\ UNCHANGED <<profile, session>>

UpdateUser(a, m, p, s) ==
  /\ Target(a, m)
  /\ \/ p = member[m].profile /\ s # member[m].scope
     \/ Assignable(a, p)
  /\ Saved(a, m, [member[m] EXCEPT !.profile = p, !.scope = s])

ActivateUser(a, m) ==
  /\ Target(a, m) /\ profile[member[m].profile].active
  /\ Saved(a, m, [member[m] EXCEPT !.active = TRUE, !.account = TRUE])

(* The account goes with its only membership.                               *)
DeactivateUser(a, m) ==
  /\ Target(a, m)
  /\ Saved(a, m, [member[m] EXCEPT !.active = FALSE, !.account = FALSE])

(* Not a recoverable event: the history stays as it is.                     *)
ResetPassword(a, m) ==
  /\ Target(a, m)
  /\ member' = [member EXCEPT ![m] = Bumped([@ EXCEPT !.temporary = TRUE])]
  /\ Ended(a)
  /\ UNCHANGED <<profile, history, session>>

(* The membership is saved first, so User.save finds its own check of the   *)
(* last owner on the restored membership.                                   *)
RestoreAccess(a, m) ==
  /\ Target(a, m)
  /\ \E s \in history[m] :
       LET row == [member[m] EXCEPT !.profile = s.profile, !.active = s.active,
                                    !.scope = s.scope, !.account = s.account] IN
         /\ Assignable(a, s.profile)
         /\ member[m].account /\ ~s.account /\ s.active /\ s.profile = OwnerProfile
              => OwnersBut(m) # {}
         /\ Saved(a, m, row)

DeleteUser(a, m) ==
  /\ May(a, Users) /\ There(m) /\ m # a /\ ~Owns(m) /\ ~member[m].used
  /\ member' = [member EXCEPT ![m] = None]
  /\ history' = [history EXCEPT ![m] = {}]
  /\ Ended(a)
  /\ UNCHANGED <<profile, session>>

----------------------------------------------------------------------------
(* Profiles *)

Assigned(p) == {m \in Member : There(m) /\ member[m].profile = p}
InUse(p) == {m \in Assigned(p) : Works(m)}

(* _assert_custom_mutable, against the profile the request was loaded with. *)
CustomMutable(a, p) == /\ May(a, Profiles) /\ profile[p] # None
                       /\ p # OwnerProfile /\ request[a].profile # p

CreateProfile(a, p, grants) ==
  /\ May(a, Profiles) /\ profile[p] = None /\ grants # {}
  /\ profile' = [profile EXCEPT ![p] = [active |-> TRUE, grants |-> grants]]
  /\ Ended(a)
  /\ UNCHANGED <<member, history, session>>

UpdateProfile(a, p, active, grants) ==
  /\ CustomMutable(a, p) /\ grants # {}
  /\ ~active => InUse(p) = {}
  /\ profile' = [profile EXCEPT ![p] = [active |-> active, grants |-> grants]]
  /\ member' = [m \in Member |-> IF m \in Assigned(p) THEN Bumped(member[m]) ELSE member[m]]
  /\ Ended(a)
  /\ UNCHANGED <<history, session>>

DeleteProfile(a, p) ==
  /\ CustomMutable(a, p) /\ Assigned(p) = {}
  /\ profile' = [profile EXCEPT ![p] = None]
  /\ Ended(a)
  /\ UNCHANGED <<member, history, session>>

----------------------------------------------------------------------------
(* The bulk actions of the Django admin: accounts only, no lock, no event.  *)

BulkActivate(m) ==
  /\ There(m) /\ ~member[m].account /\ changes < MaxChanges /\ changes' = changes + 1
  /\ member' = [member EXCEPT ![m] = Bumped([@ EXCEPT !.account = TRUE])]
  /\ bulk' = bulk \cup {m}
  /\ UNCHANGED <<profile, history, session, request, leaving>>

(* User.save looks for another owner ...                                    *)
BulkCheck(m) ==
  /\ There(m) /\ member[m].account
  /\ Owns(m) /\ member[m].active => OwnersBut(m) # {}
  /\ leaving' = leaving \cup {m}
  /\ UNCHANGED <<member, profile, history, session, request, bulk, changes>>

(* ... and writes; the version follows at once.                             *)
BulkDeactivate(m) ==
  /\ m \in leaving /\ changes < MaxChanges /\ changes' = changes + 1
  /\ leaving' = leaving \ {m}
  /\ IF There(m)
       THEN /\ member' = [member EXCEPT ![m] = Bumped([@ EXCEPT !.account = FALSE])]
            /\ bulk' = bulk \cup {m}
       ELSE UNCHANGED <<member, bulk>>
  /\ UNCHANGED <<profile, history, session, request>>

AccessNext ==
  \/ \E m \in Member : \/ SignIn(m) \/ BeginRequest(m) \/ EndRequest(m) \/ ChangePassword(m)
                       \/ BulkActivate(m) \/ BulkCheck(m) \/ BulkDeactivate(m)
  \/ \E a, m \in Member :
       \/ ActivateUser(a, m) \/ DeactivateUser(a, m) \/ ResetPassword(a, m)
       \/ RestoreAccess(a, m) \/ DeleteUser(a, m)
       \/ \E p \in Profile, s \in Scope : CreateUser(a, m, p, s) \/ UpdateUser(a, m, p, s)
  \/ \E a \in Member, p \in Profile :
       \/ DeleteProfile(a, p)
       \/ \E grants \in SUBSET Permission :
            \/ CreateProfile(a, p, grants)
            \/ \E active \in BOOLEAN : UpdateProfile(a, p, active, grants)

AccessSpec == AccessInit /\ [][AccessNext]_accessVars

----------------------------------------------------------------------------
(* Properties *)

(* CompanyMembership.clean: "A company must keep at least one active owner  *)
(* profile", whatever order demotions, deactivations, restores and requests *)
(* of owners who no longer are take.  (The bulk actions, which lock         *)
(* nothing, can break it: once one has written, nothing is promised.)       *)
OwnerRemains == bulk = {} => \E m \in Member : Owns(m) /\ Works(m)

(* A member that can work has a profile in force: profiles retire only when *)
(* nobody is left on them, and nobody returns to a retired one, neither by  *)
(* an activation nor by a restored snapshot.                                *)
ProfilesInForce ==
  \A m \in Member \ bulk : Works(m) => profile[member[m].profile].active

(* A session the middleware accepts was stamped on the authority its member *)
(* has now.  (A session renewed by a password change is RevokedStay's.)     *)
Accepted(m) == /\ There(m) /\ member[m].account /\ session[m] # None
               /\ session[m].stamp = member[m].version
SessionsCurrent ==
  \A m \in Member : Accepted(m) /\ ~session[m].renewed => session[m].seen = Authority(m)

(* Only a request that began with the owner profile makes an owner or       *)
(* changes one's membership, also through a snapshot of the audit history.  *)
Ownership(m) == IF Owns(m) THEN <<member[m].active, member[m].scope>> ELSE None
OwnersByOwners ==
  [][\A m \in Member : Ownership(m)' # Ownership(m) =>
       \E a \in Member \ {m} : request[a] # None /\ request'[a] = None /\ ActsAsOwner(a)]_accessVars

(* bump_user_security_version: "Invalidate every authenticated browser      *)
(* session for one SESCCO identity" when its access changes.                *)
RevokedStay == \A m \in Member : Accepted(m) => session[m].seen = Authority(m)
=============================================================================
