-------------------------- MODULE BackOfficeProofs --------------------------
(***************************************************************************)
(* The modules that MCBackOffice runs side by side, for any number of      *)
(* members, pages, documents, packs, imports, employees, logins and calls. *)
(* They share no variable but for the employees' file, which the payroll   *)
(* month reads, and each has an inductive invariant of its own.            *)
(***************************************************************************)
EXTENDS BackOffice, SumTheorems

(***************************************************************************)
(* Accounts, profiles and sessions (AccessControl)                         *)
(***************************************************************************)

Authorities == [profile : Profile, scope : Scope, active : BOOLEAN, grants : SUBSET Permission]
Session     == [stamp : Nat, seen : Authorities \cup {None}, renewed : BOOLEAN]
Request     == [profile : Profile, grants : SUBSET Permission, temporary : BOOLEAN,
                account : BOOLEAN, version : Nat]
Snapshots   == [profile : Profile, active : BOOLEAN, account : BOOLEAN, scope : Scope]

(* Whoever has a session has signed in and is therefore never deleted, and *)
(* a request belongs to a session and found an account that was open.      *)
Signed ==
  /\ history \in [Member -> SUBSET Snapshots]
  /\ session \in [Member -> Session \cup {None}]
  /\ request \in [Member -> Request \cup {None}]
  /\ \A m \in Member : session[m] # None => There(m) /\ member[m].used
  /\ \A m \in Member : request[m] # None =>
       There(m) /\ member[m].used /\ session[m] \in Session /\ request[m].account

(* Outside the bulk actions no active membership, now or in the history,   *)
(* has a closed account, and none is on a retired profile.                 *)
Opened ==
  \A m \in Member \ bulk :
    /\ There(m) /\ member[m].active => member[m].account /\ profile[member[m].profile].active
    /\ \A s \in history[m] : s.active => s.account

(* A stamp is not ahead of the version of its member, and while it is that *)
(* version nothing the session rests on has changed.                       *)
Versioned ==
  \A m \in Member :
    /\ There(m) => member[m].version > 0
    /\ session[m] # None /\ ~session[m].renewed =>
         /\ session[m].stamp <= member[m].version
         /\ session[m].stamp = member[m].version => session[m].seen = Authority(m)

AccessIInv == AccessTypeOK /\ Signed /\ Opened /\ Versioned /\ OwnerRemains

-----------------------------------------------------------------------------
USE AccessAssumption DEF Account, Granted, Session, Request, Snapshots, Authorities

(* A bumped row differs in its version only.                               *)
LEMMA BumpedRow ==
  ASSUME NEW row \in Account
  PROVE  LET new == Bumped(row) IN
         /\ new \in Account /\ new.version = row.version + 1
         /\ new.profile = row.profile /\ new.active = row.active /\ new.account = row.account
         /\ new.scope = row.scope /\ new.used = row.used
BY DEF Bumped

(* Every service that writes one member: its row keeps what the signed     *)
(* sessions rest on or counts a new version, opens no account on a retired *)
(* profile, and the last owner stays one.                                  *)
LEMMA MemberWritten ==
  ASSUME AccessIInv, NEW m \in Member, NEW row \in Account,
         member' = [member EXCEPT ![m] = row], profile' = profile, session' = session,
         profile[row.profile] # None, row.version > 0,
         There(m) => (member[m].used => row.used) /\ row.version > member[m].version,
         \/ history' = history
         \/ There(m) /\ history' = [history EXCEPT ![m] = @ \cup {Snapshot(m)}],
         request' \in [Member -> Request \cup {None}],
         \A x \in Member : request'[x] # None => request'[x] = request[x],
         bulk \subseteq bulk', bulk' \subseteq bulk \cup {m}, leaving' \subseteq Member,
         changes' \in 0..MaxChanges,
         m \notin bulk' /\ row.active => row.account /\ profile[row.profile].active,
         bulk' = {} /\ Owns(m) /\ Works(m) =>
           \/ row.profile = OwnerProfile /\ row.active /\ row.account
           \/ OwnersBut(m) # {}
  PROVE  AccessIInv'
<1>1. /\ member'[m] = row /\ row # None
      /\ \A x \in Member \ {m} : member'[x] = member[x]
      /\ member' \in [Member -> Account \cup {None}]
  BY DEF AccessIInv, AccessTypeOK
<1>2. There(m) => Snapshot(m) \in Snapshots
  BY DEF AccessIInv, AccessTypeOK, There, Snapshot
<1>3. /\ history' \in [Member -> SUBSET Snapshots]
      /\ \A x \in Member \ {m} : history'[x] = history[x]
      /\ \A t \in history'[m] : t \in history[m] \/ (There(m) /\ t = Snapshot(m))
  BY <1>2 DEF AccessIInv, Signed
<1>4. AccessTypeOK'
  <2>1. \A x \in Member : There(x)' => profile'[member'[x].profile] # None
    BY <1>1 DEF AccessIInv, AccessTypeOK, There
  <2>2. \A x \in Member : \A t \in history'[x] : t \in Snapshots
    BY <1>3
  <2> QED
    BY <1>1, <2>1, <2>2 DEF AccessIInv, AccessTypeOK
<1>5. Signed'
  BY <1>1, <1>3 DEF AccessIInv, Signed, There
<1>6. Opened'
  <2>1. There(m) /\ m \notin bulk /\ Snapshot(m).active => Snapshot(m).account
    BY DEF AccessIInv, Opened, Snapshot
  <2> QED
    BY <1>1, <1>3, <2>1 DEF AccessIInv, Opened, There
<1>7. Versioned'
  <2>1. \A x \in Member \ {m} : Authority(x)' = Authority(x)
    BY <1>1 DEF Authority
  <2>2. session[m] # None /\ ~session[m].renewed => session[m].stamp < row.version
    BY DEF AccessIInv, Signed, Versioned, AccessTypeOK, There
  <2>3. session[m] # None => session[m].stamp \in Nat
    BY DEF AccessIInv, Signed
  <2> QED
    BY <1>1, <2>1, <2>2, <2>3 DEF AccessIInv, Versioned, There
<1>8. OwnerRemains'
  <2>1. SUFFICES ASSUME bulk' = {}
                 PROVE  \E x \in Member : (Owns(x) /\ Works(x))'
    BY DEF OwnerRemains
  <2>2. PICK x \in Member : Owns(x) /\ Works(x)
    BY <2>1 DEF AccessIInv, OwnerRemains
  <2>3. \A y \in Member \ {m} : Owns(y) /\ Works(y) => (Owns(y) /\ Works(y))'
    BY <1>1 DEF Owns, Works, There
  <2>4. CASE x = m
    <3>1. CASE row.profile = OwnerProfile /\ row.active /\ row.account
      BY <1>1, <3>1 DEF Owns, Works, There
    <3>2. CASE OwnersBut(m) # {}
      BY <2>3, <3>2 DEF OwnersBut
    <3> QED
      BY <2>1, <2>2, <2>4, <3>1, <3>2
  <2> QED
    BY <2>2, <2>3, <2>4
<1> QED
  BY <1>4, <1>5, <1>6, <1>7, <1>8 DEF AccessIInv

(* A service keeps what MemberWritten asks of it besides the row.          *)
LEMMA EndedKeeps ==
  ASSUME AccessIInv, NEW a \in Member, Ended(a)
  PROVE  /\ request' \in [Member -> Request \cup {None}]
         /\ \A x \in Member : request'[x] # None => request'[x] = request[x]
         /\ bulk' = bulk /\ leaving' = leaving /\ leaving \subseteq Member
         /\ changes' \in 0..MaxChanges
BY DEF AccessIInv, AccessTypeOK, Signed, Ended

(* Every member is a whole row on a profile there is.                      *)
LEMMA MemberRow ==
  ASSUME AccessIInv, NEW m \in Member, There(m)
  PROVE  /\ member[m] \in Account /\ profile[member[m].profile] # None
         /\ member[m].version > 0
         /\ m \notin bulk /\ member[m].active =>
              member[m].account /\ profile[member[m].profile].active
BY DEF AccessIInv, AccessTypeOK, Versioned, Opened, There

(* A member saved by a service, with the row bumped.                       *)
LEMMA SavedKeeps ==
  ASSUME AccessIInv, NEW a \in Member, NEW m \in Member, NEW row \in Account,
         There(m), Saved(a, m, row),
         profile[row.profile] # None, row.version = member[m].version, row.used = member[m].used,
         m \notin bulk /\ row.active => row.account /\ profile[row.profile].active
  PROVE  AccessIInv'
<1> DEFINE new == Bumped(row)
<1>1. /\ new \in Account /\ new.version = row.version + 1
      /\ new.profile = row.profile /\ new.active = row.active /\ new.account = row.account
      /\ new.scope = row.scope /\ new.used = row.used
  BY BumpedRow
<1>2. /\ member' = [member EXCEPT ![m] = new]
      /\ history' = [history EXCEPT ![m] = @ \cup {Snapshot(m)}]
      /\ profile' = profile /\ session' = session /\ KeepsOwner(m, row) /\ Ended(a)
  BY DEF Saved
<1>3. member[m].version \in Nat /\ member[m].version > 0
  BY MemberRow
<1>4. ASSUME bulk' = {}, Owns(m), Works(m)
      PROVE  \/ new.profile = OwnerProfile /\ new.active /\ new.account
             \/ OwnersBut(m) # {}
  BY <1>1, <1>2, <1>4, EndedKeeps DEF KeepsOwner
<1>5. new.version > 0 /\ new.version > member[m].version /\ profile[new.profile] # None
  BY <1>1, <1>3
<1>6. m \notin bulk' /\ new.active => new.account /\ profile[new.profile].active
  BY <1>1, <1>2, EndedKeeps
<1>7. bulk \subseteq bulk' /\ bulk' \subseteq bulk \cup {m} /\ leaving' \subseteq Member
  BY <1>2, EndedKeeps
<1> HIDE DEF new
<1> QED
  BY <1>1, <1>2, <1>4, <1>5, <1>6, <1>7, EndedKeeps, MemberWritten

(* The services on one member.                                             *)
LEMMA MembersKeep ==
  ASSUME AccessIInv, NEW a \in Member, NEW m \in Member,
         \/ ActivateUser(a, m) \/ DeactivateUser(a, m) \/ RestoreAccess(a, m)
         \/ \E p \in Profile, s \in Scope : UpdateUser(a, m, p, s)
  PROVE  AccessIInv'
<1>1. There(m)
  BY DEF ActivateUser, DeactivateUser, RestoreAccess, UpdateUser, Target
<1>2. /\ member[m] \in Account /\ profile[member[m].profile] # None
      /\ m \notin bulk /\ member[m].active =>
           member[m].account /\ profile[member[m].profile].active
  BY <1>1, MemberRow
<1>3. CASE ActivateUser(a, m)
  <2> DEFINE row == [member[m] EXCEPT !.active = TRUE, !.account = TRUE]
  <2>1. /\ row \in Account /\ row.profile = member[m].profile /\ row.account
        /\ row.version = member[m].version /\ row.used = member[m].used
    BY <1>2
  <2>2. Saved(a, m, row) /\ profile[member[m].profile].active
    BY <1>3 DEF ActivateUser
  <2> HIDE DEF row
  <2> QED
    BY <1>1, <1>2, <2>1, <2>2, SavedKeeps
<1>4. CASE DeactivateUser(a, m)
  <2> DEFINE row == [member[m] EXCEPT !.active = FALSE, !.account = FALSE]
  <2>1. /\ row \in Account /\ row.profile = member[m].profile /\ ~row.active
        /\ row.version = member[m].version /\ row.used = member[m].used
    BY <1>2
  <2>2. Saved(a, m, row)
    BY <1>4 DEF DeactivateUser
  <2> HIDE DEF row
  <2> QED
    BY <1>1, <1>2, <2>1, <2>2, SavedKeeps
<1>5. ASSUME NEW p \in Profile, NEW s \in Scope, UpdateUser(a, m, p, s)
      PROVE  AccessIInv'
  <2> DEFINE row == [member[m] EXCEPT !.profile = p, !.scope = s]
  <2>1. /\ row \in Account /\ row.profile = p /\ row.active = member[m].active
        /\ row.account = member[m].account
        /\ row.version = member[m].version /\ row.used = member[m].used
    BY <1>2
  <2>2. Saved(a, m, row) /\ (p = member[m].profile \/ (profile[p] # None /\ profile[p].active))
    BY <1>5 DEF UpdateUser, Assignable
  <2> HIDE DEF row
  <2> QED
    BY <1>1, <1>2, <2>1, <2>2, SavedKeeps
<1>6. CASE RestoreAccess(a, m)
  <2>1. PICK s \in history[m] :
          /\ Assignable(a, s.profile)
          /\ Saved(a, m, [member[m] EXCEPT !.profile = s.profile, !.active = s.active,
                                            !.scope = s.scope, !.account = s.account])
    BY <1>6 DEF RestoreAccess
  <2> DEFINE row == [member[m] EXCEPT !.profile = s.profile, !.active = s.active,
                                      !.scope = s.scope, !.account = s.account]
  <2>2. s \in Snapshots /\ (m \notin bulk /\ s.active => s.account)
    BY DEF AccessIInv, Signed, Opened
  <2>3. /\ row \in Account /\ row.profile = s.profile /\ row.active = s.active
        /\ row.account = s.account
        /\ row.version = member[m].version /\ row.used = member[m].used
    BY <1>2, <2>2
  <2>4. Saved(a, m, row) /\ profile[s.profile] # None /\ profile[s.profile].active
    BY <2>1 DEF Assignable
  <2> HIDE DEF row
  <2> QED
    BY <1>1, <2>2, <2>3, <2>4, SavedKeeps
<1> QED
  BY <1>3, <1>4, <1>5, <1>6

(* The writes that save no snapshot: a new member, a password reset, and   *)
(* the two bulk actions.                                                   *)
LEMMA CreateUserKeeps ==
  ASSUME AccessIInv, NEW a \in Member, NEW m \in Member, NEW p \in Profile, NEW s \in Scope,
         CreateUser(a, m, p, s)
  PROVE  AccessIInv'
<1> DEFINE row == [profile |-> p, active |-> TRUE, account |-> TRUE, scope |-> s,
                   temporary |-> TRUE, used |-> FALSE, version |-> 1]
<1>1. /\ row \in Account /\ row.profile = p /\ row.active /\ row.account /\ row.version = 1
      /\ ~There(m) /\ member' = [member EXCEPT ![m] = row]
      /\ UNCHANGED <<profile, history, session>> /\ Ended(a)
      /\ profile[p] # None /\ profile[p].active
  BY DEF CreateUser, Assignable
<1>2. ~Owns(m)
  BY <1>1 DEF Owns
<1>3. /\ bulk' = bulk /\ leaving' \subseteq Member /\ changes' \in 0..MaxChanges
      /\ request' \in [Member -> Request \cup {None}]
      /\ \A x \in Member : request'[x] # None => request'[x] = request[x]
  BY <1>1, EndedKeeps
<1> HIDE DEF row
<1>4. profile[row.profile] # None /\ profile[row.profile].active /\ row.version > 0
  BY <1>1
<1> QED
  BY <1>1, <1>2, <1>3, <1>4, MemberWritten

LEMMA ResetPasswordKeeps ==
  ASSUME AccessIInv, NEW a \in Member, NEW m \in Member, ResetPassword(a, m)
  PROVE  AccessIInv'
<1> DEFINE old == [member[m] EXCEPT !.temporary = TRUE]
           row == Bumped(old)
<1>1. There(m) /\ Ended(a)
  BY DEF ResetPassword, Target
<1>2. /\ member[m] \in Account /\ profile[member[m].profile] # None /\ member[m].version > 0
      /\ m \notin bulk /\ member[m].active =>
           member[m].account /\ profile[member[m].profile].active
  BY <1>1, MemberRow
<1>3. /\ old \in Account /\ old.profile = member[m].profile /\ old.active = member[m].active
      /\ old.account = member[m].account /\ old.version = member[m].version
      /\ old.used = member[m].used
  BY <1>2
<1>4. /\ member' = [member EXCEPT ![m] = row]
      /\ UNCHANGED <<profile, history, session>>
  BY <1>2 DEF ResetPassword
<1> HIDE DEF old
<1>5. /\ row \in Account /\ row.version = old.version + 1 /\ row.profile = old.profile
      /\ row.active = old.active /\ row.account = old.account /\ row.used = old.used
  BY <1>3, BumpedRow
<1>6. row.version > 0 /\ row.version > member[m].version
  BY <1>2, <1>3, <1>5
<1>7. Owns(m) /\ Works(m) => row.profile = OwnerProfile /\ row.active /\ row.account
  BY <1>3, <1>5 DEF Owns, Works
<1>8. /\ bulk' = bulk /\ leaving' \subseteq Member /\ changes' \in 0..MaxChanges
      /\ request' \in [Member -> Request \cup {None}]
      /\ \A x \in Member : request'[x] # None => request'[x] = request[x]
  BY <1>1, EndedKeeps
<1> HIDE DEF row
<1>9. /\ profile[row.profile] # None /\ (member[m].used => row.used)
      /\ m \notin bulk' /\ row.active => row.account /\ profile[row.profile].active
  BY <1>2, <1>3, <1>5, <1>8
<1> QED
  BY <1>1, <1>4, <1>5, <1>6, <1>7, <1>8, <1>9, MemberWritten

LEMMA BulkKeeps ==
  ASSUME AccessIInv, NEW m \in Member, There(m), NEW open \in BOOLEAN,
         member' = [member EXCEPT ![m] = Bumped([@ EXCEPT !.account = open])],
         bulk' = bulk \cup {m}, leaving' \subseteq Member, changes' \in 0..MaxChanges,
         UNCHANGED <<profile, history, session, request>>
  PROVE  AccessIInv'
<1> DEFINE old == [member[m] EXCEPT !.account = open]
           row == Bumped(old)
<1>1. /\ member[m] \in Account /\ profile[member[m].profile] # None /\ member[m].version > 0
  BY MemberRow
<1>2. /\ old \in Account /\ old.profile = member[m].profile /\ old.version = member[m].version
      /\ old.used = member[m].used
  BY <1>1
<1>3. member' = [member EXCEPT ![m] = row]
  BY <1>1
<1> HIDE DEF old
<1>4. /\ row \in Account /\ row.version = old.version + 1 /\ row.profile = old.profile
      /\ row.used = old.used
  BY <1>2, BumpedRow
<1>5. row.version > 0 /\ row.version > member[m].version
  BY <1>1, <1>2, <1>4
<1>6. request' \in [Member -> Request \cup {None}]
  BY DEF AccessIInv, Signed
<1> HIDE DEF row
<1> QED
  BY <1>1, <1>2, <1>3, <1>4, <1>5, <1>6, MemberWritten

LEMMA BulkActionsKeep ==
  ASSUME AccessIInv, NEW m \in Member, BulkActivate(m) \/ BulkCheck(m) \/ BulkDeactivate(m)
  PROVE  AccessIInv'
<1> USE DEF AccessIInv, AccessTypeOK
<1>1. CASE BulkActivate(m)
  <2>1. /\ member' = [member EXCEPT ![m] = Bumped([@ EXCEPT !.account = TRUE])]
        /\ There(m) /\ bulk' = bulk \cup {m} /\ leaving' \subseteq Member
        /\ changes' \in 0..MaxChanges /\ UNCHANGED <<profile, history, session, request>>
    BY <1>1 DEF BulkActivate
  <2> QED
    BY <2>1, BulkKeeps
<1>2. CASE BulkDeactivate(m) /\ There(m)
  <2>1. /\ member' = [member EXCEPT ![m] = Bumped([@ EXCEPT !.account = FALSE])]
        /\ bulk' = bulk \cup {m} /\ leaving' \subseteq Member /\ changes' \in 0..MaxChanges
        /\ UNCHANGED <<profile, history, session, request>>
    BY <1>2 DEF BulkDeactivate
  <2> QED
    BY <1>2, <2>1, BulkKeeps
<1>3. CASE BulkCheck(m) \/ (BulkDeactivate(m) /\ ~There(m))
  <2>1. /\ UNCHANGED <<member, profile, history, session, request, bulk>>
        /\ leaving' \subseteq Member /\ changes' \in 0..MaxChanges
    BY <1>3 DEF BulkCheck, BulkDeactivate
  <2> QED
    BY <2>1 DEF Signed, Opened, Versioned, OwnerRemains, There, Owns, Works, Authority
<1> QED
  BY <1>1, <1>2, <1>3

(* Signing in and out, requests, and the change of one's own password.     *)
LEMMA SignInKeeps ==
  ASSUME AccessIInv, NEW m \in Member, SignIn(m)
  PROVE  AccessIInv'
<1> DEFINE row == [member[m] EXCEPT !.used = TRUE]
           fresh == [stamp |-> 0, seen |-> None, renewed |-> FALSE]
<1>1. There(m) /\ member[m] \in Account /\ member[m].version > 0
  BY MemberRow DEF SignIn
<1>2. /\ row \in Account /\ row # None /\ row.used /\ row.profile = member[m].profile
      /\ row.active = member[m].active /\ row.account = member[m].account
      /\ row.version = member[m].version /\ row.scope = member[m].scope
  BY <1>1
<1>3. /\ member' = [member EXCEPT ![m] = row] /\ session' = [session EXCEPT ![m] = fresh]
      /\ UNCHANGED <<profile, history, request, leaving, bulk, changes>>
  BY <1>1 DEF SignIn
<1>4. fresh \in Session /\ fresh.stamp = 0
  OBVIOUS
<1> HIDE DEF row, fresh
<1>5. /\ member'[m] = row /\ \A x \in Member \ {m} : member'[x] = member[x]
      /\ member' \in [Member -> Account \cup {None}]
      /\ session'[m] = fresh /\ \A x \in Member \ {m} : session'[x] = session[x]
      /\ session' \in [Member -> Session \cup {None}]
  BY <1>2, <1>3, <1>4 DEF AccessIInv, AccessTypeOK, Signed
<1>6. AccessTypeOK'
  BY <1>1, <1>2, <1>3, <1>5 DEF AccessIInv, AccessTypeOK, There
<1>7. Signed'
  BY <1>2, <1>3, <1>4, <1>5 DEF AccessIInv, Signed, There
<1>8. Opened'
  BY <1>1, <1>2, <1>3, <1>5 DEF AccessIInv, Opened, There
<1>9. Versioned'
  <2>1. \A x \in Member \ {m} : Authority(x)' = Authority(x)
    BY <1>3, <1>5 DEF Authority
  <2> QED
    BY <1>1, <1>2, <1>4, <1>5, <2>1 DEF AccessIInv, Versioned, There
<1>10. OwnerRemains'
  BY <1>1, <1>2, <1>3, <1>5 DEF AccessIInv, OwnerRemains, Owns, Works, There
<1> QED
  BY <1>6, <1>7, <1>8, <1>9, <1>10 DEF AccessIInv

LEMMA BeginRequestKeeps ==
  ASSUME AccessIInv, NEW m \in Member, BeginRequest(m)
  PROVE  AccessIInv'
<1>1. There(m) /\ member[m] \in Account /\ member[m].version > 0 /\ session[m] \in Session
  BY MemberRow DEF BeginRequest, AccessIInv, Signed
<1>2. profile[member[m].profile] \in Granted /\ Grants(member[m].profile) \in SUBSET Permission
  BY <1>1, MemberRow DEF AccessIInv, AccessTypeOK, Grants
<1>3. /\ Stamped(m) \in Session /\ Stamped(m).stamp = member[m].version
      /\ Stamped(m).seen = Authority(m)
  BY <1>1, <1>2 DEF Stamped, Authority
<1>4. Loaded(m) \in Request /\ Loaded(m).account = member[m].account
  BY <1>1, <1>2 DEF Loaded
<1>5. PICK s \in Session \cup {None}, r \in Request \cup {None} :
        /\ session' = [session EXCEPT ![m] = s] /\ request' = [request EXCEPT ![m] = r]
        /\ s \in {None, session[m], Stamped(m)}
        /\ r # None => s \in Session /\ r = Loaded(m) /\ member[m].account
  <2>1. CASE session[m].stamp \notin {0, member[m].version}
    <3>1. request' = [request EXCEPT ![m] = None]
      BY <2>1 DEF BeginRequest, AccessIInv, Signed
    <3> QED
      BY <2>1, <3>1 DEF BeginRequest
  <2>2. CASE session[m].stamp \in {0, member[m].version}
    <3>1. PICK s \in {session[m], Stamped(m)} : session' = [session EXCEPT ![m] = s]
      BY <2>2 DEF BeginRequest
    <3>2. PICK r \in {None, Loaded(m)} : request' = [request EXCEPT ![m] = r]
      BY <2>2 DEF BeginRequest
    <3>3. member[m].account
      BY DEF BeginRequest
    <3>4. s \in Session /\ r \in Request \cup {None}
      BY <1>1, <1>3, <1>4
    <3> QED
      BY <3>1, <3>2, <3>3, <3>4
  <2> QED
    BY <2>1, <2>2
<1>6. UNCHANGED <<member, profile, history, leaving, bulk, changes>>
  BY DEF BeginRequest
<1>7. AccessTypeOK' /\ Opened' /\ OwnerRemains'
  BY <1>6 DEF AccessIInv, AccessTypeOK, Opened, OwnerRemains, There, Owns, Works
<1>8. /\ session'[m] = s /\ \A x \in Member \ {m} : session'[x] = session[x]
      /\ session' \in [Member -> Session \cup {None}]
      /\ request'[m] = r /\ \A x \in Member \ {m} : request'[x] = request[x]
      /\ request' \in [Member -> Request \cup {None}]
  BY <1>5 DEF AccessIInv, Signed
<1>9. member[m].used
  BY <1>1 DEF BeginRequest, AccessIInv, Signed
<1>10. Signed'
  BY <1>1, <1>4, <1>5, <1>6, <1>8, <1>9 DEF AccessIInv, Signed, There
<1>11. Versioned'
  <2>1. \A x \in Member : Authority(x)' = Authority(x)
    BY <1>6 DEF Authority
  <2>2. s # None /\ ~s.renewed =>
          s.stamp <= member[m].version /\ (s.stamp = member[m].version => s.seen = Authority(m))
    BY <1>1, <1>3, <1>5 DEF AccessIInv, Versioned
  <2> QED
    BY <1>6, <1>8, <2>1, <2>2 DEF AccessIInv, Versioned, There
<1> QED
  BY <1>7, <1>10, <1>11 DEF AccessIInv

LEMMA EndRequestKeeps ==
  ASSUME AccessIInv, NEW m \in Member, EndRequest(m)
  PROVE  AccessIInv'
<1>1. /\ UNCHANGED <<member, profile, history, session, leaving, bulk, changes>>
      /\ request' = [request EXCEPT ![m] = None]
  BY DEF EndRequest
<1>2. AccessTypeOK' /\ Opened' /\ OwnerRemains'
  BY <1>1 DEF AccessIInv, AccessTypeOK, Opened, OwnerRemains, There, Owns, Works
<1>3. Signed'
  BY <1>1 DEF AccessIInv, Signed, There
<1>4. Versioned'
  BY <1>1 DEF AccessIInv, Versioned, There, Authority
<1> QED
  BY <1>2, <1>3, <1>4 DEF AccessIInv

(* What the new password writes to the row of a member and to its session. *)
LEMMA PasswordRow ==
  ASSUME NEW old \in Account, NEW next \in Nat \ {0}, NEW open \in BOOLEAN
  PROVE  LET new == [old EXCEPT !.temporary = FALSE, !.version = next, !.account = open] IN
         /\ new \in Account /\ new.version = next /\ new.account = open
         /\ new.profile = old.profile /\ new.active = old.active
         /\ new.scope = old.scope /\ new.used = old.used
OBVIOUS

LEMMA PasswordSession ==
  ASSUME NEW old \in Session, NEW next \in Nat
  PROVE  LET new == [old EXCEPT !.stamp = next, !.renewed = TRUE]
         IN  new \in Session /\ new.renewed
OBVIOUS

LEMMA ChangePasswordKeeps ==
  ASSUME AccessIInv, NEW m \in Member, ChangePassword(m)
  PROVE  AccessIInv'
<1> DEFINE next == request[m].version + 1
           open == request[m].account
           row == [member[m] EXCEPT !.temporary = FALSE, !.version = next, !.account = open]
           renewed == [session[m] EXCEPT !.stamp = next, !.renewed = TRUE]
<1>0. /\ request' = [request EXCEPT ![m] = None] /\ changes < MaxChanges /\ changes' = changes + 1
      /\ UNCHANGED <<profile, history, leaving, bulk>>
      /\ member' = [member EXCEPT ![m].temporary = FALSE, ![m].version = next, ![m].account = open]
      /\ session' = [session EXCEPT ![m].stamp = next, ![m].renewed = TRUE]
  BY DEF ChangePassword
<1>1. /\ There(m) /\ member[m].used /\ session[m] \in Session
      /\ request[m] \in Request /\ request[m].account
      /\ next \in Nat \ {0} /\ open = TRUE
  BY DEF ChangePassword, AccessIInv, Signed
<1>2. /\ member[m] \in Account /\ profile[member[m].profile] # None
      /\ m \notin bulk /\ member[m].active =>
           member[m].account /\ profile[member[m].profile].active
  BY <1>1, MemberRow
<1> HIDE DEF next, open
<1>3. /\ row \in Account /\ row # None /\ row.used /\ row.profile = member[m].profile
      /\ row.active = member[m].active /\ row.account /\ row.version > 0
      /\ row.scope = member[m].scope
  <2>1. /\ row \in Account /\ row.version = next /\ row.account = open
        /\ row.profile = member[m].profile /\ row.active = member[m].active
        /\ row.scope = member[m].scope /\ row.used = member[m].used
    BY <1>1, <1>2, PasswordRow
  <2> HIDE DEF row
  <2> QED
    BY <1>1, <2>1
<1>4. renewed \in Session /\ renewed.renewed
  BY <1>1, PasswordSession
<1>5. /\ member' = [member EXCEPT ![m] = row] /\ session' = [session EXCEPT ![m] = renewed]
      /\ request' = [request EXCEPT ![m] = None] /\ changes' \in 0..MaxChanges
      /\ UNCHANGED <<profile, history, leaving, bulk>>
  <2>1. member' = [member EXCEPT ![m] = row]
    BY <1>0, Zenon
  <2>2. session' = [session EXCEPT ![m] = renewed]
    BY <1>0, Zenon
  <2>3. changes' \in 0..MaxChanges
    BY <1>0 DEF AccessIInv, AccessTypeOK
  <2> QED
    BY <1>0, <2>1, <2>2, <2>3
<1> HIDE DEF row, renewed
<1>6. /\ member'[m] = row /\ \A x \in Member \ {m} : member'[x] = member[x]
      /\ member' \in [Member -> Account \cup {None}]
      /\ session'[m] = renewed /\ \A x \in Member \ {m} : session'[x] = session[x]
      /\ session' \in [Member -> Session \cup {None}]
      /\ request'[m] = None /\ \A x \in Member \ {m} : request'[x] = request[x]
      /\ request' \in [Member -> Request \cup {None}]
  BY <1>3, <1>4, <1>5 DEF AccessIInv, AccessTypeOK, Signed
<1>7. AccessTypeOK'
  BY <1>2, <1>3, <1>5, <1>6 DEF AccessIInv, AccessTypeOK, There
<1>8. Signed'
  BY <1>3, <1>5, <1>6 DEF AccessIInv, Signed, There
<1>9. Opened'
  BY <1>1, <1>2, <1>3, <1>5, <1>6 DEF AccessIInv, Opened, There
<1>10. Versioned'
  <2>1. \A x \in Member \ {m} : Authority(x)' = Authority(x)
    BY <1>5, <1>6 DEF Authority
  <2> QED
    BY <1>3, <1>4, <1>6, <2>1 DEF AccessIInv, Versioned, There
<1>11. OwnerRemains'
  BY <1>1, <1>3, <1>5, <1>6 DEF AccessIInv, OwnerRemains, Owns, Works, There
<1> QED
  BY <1>7, <1>8, <1>9, <1>10, <1>11 DEF AccessIInv

(* Whoever has signed in is never deleted, nor is an owner.                *)
LEMMA DeleteUserKeeps ==
  ASSUME AccessIInv, NEW a \in Member, NEW m \in Member, DeleteUser(a, m)
  PROVE  AccessIInv'
<1>1. /\ There(m) /\ ~Owns(m) /\ ~member[m].used /\ Ended(a)
      /\ member' = [member EXCEPT ![m] = None] /\ history' = [history EXCEPT ![m] = {}]
      /\ UNCHANGED <<profile, session>>
  BY DEF DeleteUser
<1>2. /\ bulk' = bulk /\ leaving' \subseteq Member /\ changes' \in 0..MaxChanges
      /\ request' \in [Member -> Request \cup {None}]
      /\ \A x \in Member : request'[x] # None => request'[x] = request[x]
  BY <1>1, EndedKeeps
<1>3. /\ member'[m] = None /\ \A x \in Member \ {m} : member'[x] = member[x]
      /\ member' \in [Member -> Account \cup {None}]
      /\ history'[m] = {} /\ \A x \in Member \ {m} : history'[x] = history[x]
      /\ history' \in [Member -> SUBSET Snapshots]
  BY <1>1 DEF AccessIInv, AccessTypeOK, Signed
<1>4. session[m] = None /\ request[m] = None
  BY <1>1 DEF AccessIInv, Signed
<1>5. AccessTypeOK'
  BY <1>1, <1>2, <1>3 DEF AccessIInv, AccessTypeOK, There
<1>6. Signed'
  BY <1>1, <1>2, <1>3, <1>4 DEF AccessIInv, Signed, There
<1>7. Opened'
  BY <1>1, <1>2, <1>3 DEF AccessIInv, Opened, There
<1>8. Versioned'
  <2>1. \A x \in Member \ {m} : Authority(x)' = Authority(x)
    BY <1>1, <1>3 DEF Authority
  <2> QED
    BY <1>1, <1>3, <1>4, <2>1 DEF AccessIInv, Versioned, There
<1>9. OwnerRemains'
  BY <1>1, <1>2, <1>3 DEF AccessIInv, OwnerRemains, Owns, Works, There
<1> QED
  BY <1>5, <1>6, <1>7, <1>8, <1>9 DEF AccessIInv

(* Profiles: what is added or deleted has nobody on it, and an update      *)
(* counts a new version for everybody who is.                              *)
LEMMA ProfilesKeep ==
  ASSUME AccessIInv, NEW a \in Member, NEW p \in Profile, NEW new \in Granted \cup {None},
         Ended(a), profile' = [profile EXCEPT ![p] = new], Assigned(p) = {},
         UNCHANGED <<member, history, session>>
  PROVE  AccessIInv'
<1>1. /\ bulk' = bulk /\ leaving' \subseteq Member /\ changes' \in 0..MaxChanges
      /\ request' \in [Member -> Request \cup {None}]
      /\ \A x \in Member : request'[x] # None => request'[x] = request[x]
  BY EndedKeeps
<1>2. /\ profile' \in [Profile -> Granted \cup {None}]
      /\ \A x \in Member : There(x) =>
           member[x].profile \in Profile /\ profile'[member[x].profile] = profile[member[x].profile]
  BY DEF AccessIInv, AccessTypeOK, Assigned, There
<1>3. AccessTypeOK'
  BY <1>1, <1>2 DEF AccessIInv, AccessTypeOK, There
<1>4. Signed'
  BY <1>1 DEF AccessIInv, Signed, There
<1>5. Opened'
  BY <1>1, <1>2 DEF AccessIInv, Opened, There
<1>6. Versioned'
  <2>1. \A x \in Member : There(x) => Authority(x)' = Authority(x)
    BY <1>2 DEF Authority
  <2> QED
    BY <2>1 DEF AccessIInv, Versioned, Signed, There
<1>7. OwnerRemains'
  BY <1>1 DEF AccessIInv, OwnerRemains, Owns, Works, There
<1> QED
  BY <1>3, <1>4, <1>5, <1>6, <1>7 DEF AccessIInv

LEMMA UpdateProfileKeeps ==
  ASSUME AccessIInv, NEW a \in Member, NEW p \in Profile, NEW active \in BOOLEAN,
         NEW grants \in SUBSET Permission, UpdateProfile(a, p, active, grants)
  PROVE  AccessIInv'
<1> DEFINE new == [active |-> active, grants |-> grants]
<1>1. /\ new \in Granted /\ new.active = active
      /\ Ended(a) /\ profile' = [profile EXCEPT ![p] = new]
      /\ member' = [m \in Member |-> IF m \in Assigned(p) THEN Bumped(member[m]) ELSE member[m]]
      /\ UNCHANGED <<history, session>>
      /\ ~active => InUse(p) = {}
  BY DEF UpdateProfile
<1> HIDE DEF new
<1>2. /\ bulk' = bulk /\ leaving' \subseteq Member /\ changes' \in 0..MaxChanges
      /\ request' \in [Member -> Request \cup {None}]
      /\ \A x \in Member : request'[x] # None => request'[x] = request[x]
  BY <1>1, EndedKeeps
<1>3. /\ profile' \in [Profile -> Granted \cup {None}] /\ profile'[p] = new
      /\ \A q \in Profile \ {p} : profile'[q] = profile[q]
  BY <1>1 DEF AccessIInv, AccessTypeOK
<1>4. ASSUME NEW m \in Member, There(m)
      PROVE  /\ There(m)' /\ member'[m] \in Account
             /\ member'[m].profile = member[m].profile /\ member'[m].active = member[m].active
             /\ member'[m].account = member[m].account /\ member'[m].used = member[m].used
             /\ member'[m].version >= member[m].version
             /\ member'[m].version > member[m].version \/ (m \notin Assigned(p) /\ member'[m] = member[m])
  <2>1. member[m] \in Account
    BY <1>4, MemberRow
  <2>2. CASE m \in Assigned(p)
    <3>1. member'[m] = Bumped(member[m])
      BY <1>1, <2>2
    <3> QED
      BY <2>1, <3>1, BumpedRow DEF There
  <2>3. CASE m \notin Assigned(p)
    BY <1>1, <1>4, <2>1, <2>3 DEF There
  <2> QED
    BY <2>2, <2>3
<1>5. \A m \in Member : ~There(m) => member'[m] = None /\ ~There(m)'
  BY <1>1 DEF There, Assigned
<1>6. AccessTypeOK'
  <2>1. member' \in [Member -> Account \cup {None}]
    BY <1>1, <1>4, <1>5
  <2>2. \A m \in Member : There(m)' => profile'[member'[m].profile] # None
    BY <1>1, <1>3, <1>4, <1>5, MemberRow
  <2> QED
    BY <1>1, <1>2, <1>3, <2>1, <2>2 DEF AccessIInv, AccessTypeOK
<1>7. Signed'
  BY <1>1, <1>2, <1>4, <1>5 DEF AccessIInv, Signed
<1>8. Opened'
  <2> SUFFICES ASSUME NEW m \in Member \ bulk
               PROVE  /\ There(m)' /\ member'[m].active =>
                           member'[m].account /\ profile'[member'[m].profile].active
                      /\ \A t \in history'[m] : t.active => t.account
    BY <1>2 DEF Opened
  <2>1. \A t \in history'[m] : t.active => t.account
    BY <1>1 DEF AccessIInv, Opened
  <2>2. ASSUME There(m)', member'[m].active
        PROVE  member'[m].account /\ profile'[member'[m].profile].active
    <3>1. /\ There(m) /\ member[m].active /\ member[m].account
          /\ profile[member[m].profile].active /\ member[m] \in Account
      BY <1>4, <1>5, <2>2, MemberRow
    <3>2. Works(m)
      BY <3>1 DEF Works
    <3>3. member[m].profile = p => active
      BY <1>1, <3>1, <3>2 DEF InUse, Assigned
    <3> QED
      BY <1>1, <1>3, <1>4, <3>1, <3>3
  <2> QED
    BY <2>1, <2>2
<1>9. Versioned'
  <2> SUFFICES ASSUME NEW m \in Member
               PROVE  /\ There(m)' => member'[m].version > 0
                      /\ session[m] # None /\ ~session[m].renewed =>
                           /\ session[m].stamp <= member'[m].version
                           /\ session[m].stamp = member'[m].version => session[m].seen = Authority(m)'
    BY <1>1 DEF Versioned
  <2>1. CASE ~There(m)
    BY <1>5, <2>1 DEF AccessIInv, Signed
  <2>2. CASE There(m)
    <3>1. member[m] \in Account /\ member[m].version > 0 /\ member'[m] \in Account
      BY <1>4, <2>2, MemberRow
    <3>2. session[m] # None => session[m].stamp \in Nat
      BY DEF AccessIInv, Signed
    <3>3. m \notin Assigned(p) /\ member'[m] = member[m] => Authority(m)' = Authority(m)
      BY <1>3, <2>2, <3>1 DEF Assigned, Authority
    <3> QED
      BY <1>4, <2>2, <3>1, <3>2, <3>3 DEF AccessIInv, Versioned
  <2> QED
    BY <2>1, <2>2
<1>10. OwnerRemains'
  BY <1>2, <1>4 DEF AccessIInv, OwnerRemains, Owns, Works
<1> QED
  BY <1>6, <1>7, <1>8, <1>9, <1>10 DEF AccessIInv

-----------------------------------------------------------------------------
(* The first owner of a new company works, and nobody else is there.       *)
LEMMA InitKeeps == AccessInit => AccessIInv
<1> SUFFICES ASSUME AccessInit
             PROVE  AccessIInv
  OBVIOUS
<1>1. PICK first \in Member, s \in Scope :
        member = [m \in Member |-> IF m # first THEN None ELSE
                    [profile |-> OwnerProfile, active |-> TRUE, account |-> TRUE, scope |-> s,
                     temporary |-> FALSE, used |-> FALSE, version |-> 1]]
  BY DEF AccessInit
<1>2. /\ profile = [p \in Profile |-> IF p = OwnerProfile
                     THEN [active |-> TRUE, grants |-> Permission] ELSE None]
      /\ history = [m \in Member |-> {}]
      /\ session = [m \in Member |-> None] /\ request = [m \in Member |-> None]
      /\ leaving = {} /\ bulk = {} /\ changes = 0
  BY DEF AccessInit
<1>3. /\ member[first] \in Account /\ member[first] # None
      /\ member[first].profile = OwnerProfile /\ member[first].active
      /\ member[first].account /\ member[first].version = 1
      /\ \A m \in Member \ {first} : member[m] = None
      /\ member \in [Member -> Account \cup {None}]
  <2> DEFINE row == [profile |-> OwnerProfile, active |-> TRUE, account |-> TRUE, scope |-> s,
                     temporary |-> FALSE, used |-> FALSE, version |-> 1]
  <2>1. /\ row \in Account /\ row.profile = OwnerProfile /\ row.active /\ row.account
        /\ row.version = 1
    OBVIOUS
  <2>2. member = [m \in Member |-> IF m # first THEN None ELSE row]
    BY <1>1
  <2> HIDE DEF row
  <2> QED
    BY <2>1, <2>2
<1>4. /\ profile[OwnerProfile] # None /\ profile[OwnerProfile].active
      /\ profile \in [Profile -> Granted \cup {None}]
  <2> DEFINE owner == [active |-> TRUE, grants |-> Permission]
  <2>1. owner \in Granted /\ owner.active
    OBVIOUS
  <2>2. profile = [p \in Profile |-> IF p = OwnerProfile THEN owner ELSE None]
    BY <1>2
  <2> HIDE DEF owner
  <2> QED
    BY <2>1, <2>2
<1>5. AccessTypeOK
  <2>1. \A m \in Member : There(m) => profile[member[m].profile] # None
    BY <1>3, <1>4 DEF There
  <2>2. \A m \in Member : history[m] = {}
    BY <1>2
  <2> QED
    BY <1>2, <1>3, <1>4, <2>1, <2>2 DEF AccessTypeOK
<1>6. Signed
  BY <1>2 DEF Signed
<1>7. Opened
  <2>1. \A m \in Member : history[m] = {}
    BY <1>2
  <2> QED
    BY <1>3, <1>4, <2>1 DEF Opened, There
<1>8. Versioned
  BY <1>2, <1>3 DEF Versioned, There
<1>9. OwnerRemains
  BY <1>3 DEF OwnerRemains, Owns, Works, There
<1> QED
  BY <1>5, <1>6, <1>7, <1>8, <1>9 DEF AccessIInv

(* One step per action.                                                    *)
LEMMA NextKeeps ==
  ASSUME AccessIInv, [AccessNext]_accessVars
  PROVE  AccessIInv'
<1>1. ASSUME NEW m \in Member,
             \/ SignIn(m) \/ BeginRequest(m) \/ EndRequest(m) \/ ChangePassword(m)
             \/ BulkActivate(m) \/ BulkCheck(m) \/ BulkDeactivate(m)
      PROVE  AccessIInv'
  BY <1>1, SignInKeeps, BeginRequestKeeps, EndRequestKeeps, ChangePasswordKeeps, BulkActionsKeep
<1>2. ASSUME NEW a \in Member, NEW m \in Member,
             \/ ActivateUser(a, m) \/ DeactivateUser(a, m) \/ ResetPassword(a, m)
             \/ RestoreAccess(a, m) \/ DeleteUser(a, m)
             \/ \E p \in Profile, s \in Scope : CreateUser(a, m, p, s) \/ UpdateUser(a, m, p, s)
      PROVE  AccessIInv'
  BY <1>2, MembersKeep, ResetPasswordKeeps, DeleteUserKeeps, CreateUserKeeps
<1>3. ASSUME NEW a \in Member, NEW p \in Profile, DeleteProfile(a, p)
      PROVE  AccessIInv'
  BY <1>3, ProfilesKeep DEF DeleteProfile
<1>4. ASSUME NEW a \in Member, NEW p \in Profile, NEW grants \in SUBSET Permission,
             CreateProfile(a, p, grants)
      PROVE  AccessIInv'
  <2>1. [active |-> TRUE, grants |-> grants] \in Granted
    OBVIOUS
  <2>2. Assigned(p) = {}
    BY <1>4 DEF CreateProfile, Assigned, AccessIInv, AccessTypeOK
  <2> QED
    BY <1>4, <2>1, <2>2, ProfilesKeep DEF CreateProfile
<1>5. ASSUME NEW a \in Member, NEW p \in Profile, NEW grants \in SUBSET Permission,
             NEW active \in BOOLEAN, UpdateProfile(a, p, active, grants)
      PROVE  AccessIInv'
  BY <1>5, UpdateProfileKeeps
<1>6. CASE UNCHANGED accessVars
  BY <1>6 DEF accessVars, AccessIInv, AccessTypeOK, Signed, Opened, Versioned, OwnerRemains,
              There, Owns, Works, Authority
<1> QED
  BY <1>1, <1>2, <1>3, <1>4, <1>5, <1>6 DEF AccessNext

(* The invariant holds of every reachable state.                           *)
THEOREM AccessInductive == AccessSpec => []AccessIInv
<1> QED
  BY InitKeeps, NextKeeps, PTL DEF AccessSpec

(* Until a bulk action writes, an owner that can work remains: the two     *)
(* halves of "active", the membership and its account, fall together, so   *)
(* that KeepsOwner, which looks at the membership, guards both.            *)
THEOREM OwnerAlwaysRemains == AccessSpec => []OwnerRemains
<1>1. AccessIInv => OwnerRemains
  BY DEF AccessIInv
<1> QED
  BY <1>1, AccessInductive, PTL

(* No member the bulk actions left alone works on a retired profile.       *)
THEOREM ProfilesAlwaysInForce == AccessSpec => []ProfilesInForce
<1>1. AccessIInv => ProfilesInForce
  BY DEF AccessIInv, Opened, ProfilesInForce, Works
<1> QED
  BY <1>1, AccessInductive, PTL

(* A session that is still accepted was stamped on what its member is      *)
(* allowed now: every change of it counted a version.                      *)
THEOREM SessionsAlwaysCurrent == AccessSpec => []SessionsCurrent
<1>1. AccessIInv => SessionsCurrent
  BY DEF AccessIInv, Versioned, SessionsCurrent, Accepted
<1> QED
  BY <1>1, AccessInductive, PTL

-----------------------------------------------------------------------------
(* A row with the profile, the activity and the scope it had changes the   *)
(* ownership of nobody, a saved one at most that of its member.            *)
LEMMA SameOwnership ==
  ASSUME AccessIInv, NEW m \in Member, There(m), NEW row \in Account,
         member' = [member EXCEPT ![m] = row],
         row.profile = member[m].profile, row.active = member[m].active,
         row.scope = member[m].scope
  PROVE  \A x \in Member : Ownership(x)' = Ownership(x)
<1>1. member'[m] = row /\ \A x \in Member \ {m} : member'[x] = member[x]
  BY DEF AccessIInv, AccessTypeOK
<1> QED
  BY <1>1 DEF Ownership, Owns, There

LEMMA OthersOwnership ==
  ASSUME AccessIInv, NEW m \in Member, NEW row, member' = [member EXCEPT ![m] = row]
  PROVE  \A x \in Member \ {m} : Ownership(x)' = Ownership(x)
BY DEF AccessIInv, AccessTypeOK, Ownership, Owns, There

(* What a member does alone changes the ownership of nobody.               *)
LEMMA AloneNoOwnership ==
  ASSUME AccessIInv, NEW m \in Member,
         \/ SignIn(m) \/ BeginRequest(m) \/ EndRequest(m) \/ ChangePassword(m)
         \/ BulkActivate(m) \/ BulkCheck(m) \/ BulkDeactivate(m)
  PROVE  \A x \in Member : Ownership(x)' = Ownership(x)
<1>1. CASE UNCHANGED member
  BY <1>1 DEF Ownership, Owns, There
<1>2. CASE SignIn(m)
  <2> DEFINE row == [member[m] EXCEPT !.used = TRUE]
  <2>1. There(m) /\ member[m] \in Account
    BY <1>2, MemberRow DEF SignIn
  <2>2. /\ row \in Account /\ row.profile = member[m].profile /\ row.active = member[m].active
        /\ row.scope = member[m].scope /\ member' = [member EXCEPT ![m] = row]
    BY <1>2, <2>1 DEF SignIn
  <2> HIDE DEF row
  <2> QED
    BY <2>1, <2>2, SameOwnership
<1>3. CASE ChangePassword(m)
  <2> DEFINE next == request[m].version + 1
             open == request[m].account
             row == [member[m] EXCEPT !.temporary = FALSE, !.version = next, !.account = open]
  <2>1. /\ There(m) /\ next \in Nat \ {0} /\ open \in BOOLEAN
        /\ member' = [member EXCEPT ![m].temporary = FALSE, ![m].version = next, ![m].account = open]
    BY <1>3 DEF ChangePassword, AccessIInv, Signed
  <2> HIDE DEF next, open
  <2>2. member[m] \in Account
    BY <2>1, MemberRow
  <2>3. /\ row \in Account /\ row.profile = member[m].profile /\ row.active = member[m].active
        /\ row.scope = member[m].scope
    BY <2>1, <2>2, PasswordRow
  <2>4. member' = [member EXCEPT ![m] = row]
    BY <2>1, Zenon
  <2> HIDE DEF row
  <2> QED
    BY <2>1, <2>3, <2>4, SameOwnership
<1>4. ASSUME NEW open \in BOOLEAN, There(m),
             member' = [member EXCEPT ![m] = Bumped([@ EXCEPT !.account = open])]
      PROVE  \A x \in Member : Ownership(x)' = Ownership(x)
  <2> DEFINE old == [member[m] EXCEPT !.account = open]
             row == Bumped(old)
  <2>1. /\ old \in Account /\ old.profile = member[m].profile /\ old.active = member[m].active
        /\ old.scope = member[m].scope
    BY <1>4, MemberRow
  <2>2. There(m) /\ member' = [member EXCEPT ![m] = row]
    BY <1>4
  <2> HIDE DEF old
  <2>3. /\ row \in Account /\ row.profile = old.profile /\ row.active = old.active
        /\ row.scope = old.scope
    BY <2>1, BumpedRow
  <2> HIDE DEF row
  <2> QED
    BY <2>1, <2>2, <2>3, SameOwnership
<1>5. CASE BulkActivate(m)
  BY <1>4, <1>5 DEF BulkActivate
<1>6. CASE BulkDeactivate(m) /\ There(m)
  BY <1>4, <1>6 DEF BulkDeactivate
<1> QED
  BY <1>1, <1>2, <1>3, <1>5, <1>6 DEF BeginRequest, EndRequest, BulkCheck, BulkDeactivate

(* What a service does to a member it accepts changes the ownership of     *)
(* that member only, and if the member is or becomes an owner, for an owner. *)
LEMMA ServiceOwnership ==
  ASSUME AccessIInv, NEW a \in Member, NEW m \in Member, NEW x \in Member,
         Ownership(x)' # Ownership(x),
         \/ ActivateUser(a, m) \/ DeactivateUser(a, m) \/ ResetPassword(a, m)
         \/ RestoreAccess(a, m) \/ DeleteUser(a, m)
         \/ \E p \in Profile, s \in Scope : CreateUser(a, m, p, s) \/ UpdateUser(a, m, p, s)
  PROVE  a # x /\ request[a] # None /\ request'[a] = None /\ ActsAsOwner(a)
<1>1. /\ May(a, Users) /\ request' = [request EXCEPT ![a] = None]
      /\ \E row : member' = [member EXCEPT ![m] = row]
  BY DEF ActivateUser, DeactivateUser, ResetPassword, RestoreAccess, DeleteUser, CreateUser,
         UpdateUser, Target, Saved, Ended
<1>2. request[a] # None /\ request'[a] = None /\ There(a)
  BY <1>1 DEF May, AccessIInv, Signed
<1>3. x = m
  BY <1>1, OthersOwnership
<1>4. a # m
  BY <1>2 DEF ActivateUser, DeactivateUser, ResetPassword, RestoreAccess, DeleteUser, CreateUser,
              UpdateUser, Target
<1>5. Owns(m) \/ Owns(m)'
  BY <1>3 DEF Ownership
<1>6. ASSUME Owns(m)
      PROVE  ActsAsOwner(a)
  BY <1>6 DEF ActivateUser, DeactivateUser, ResetPassword, RestoreAccess, DeleteUser, CreateUser,
              UpdateUser, Target, Owns
<1>7. ASSUME ~Owns(m), Owns(m)'
      PROVE  ActsAsOwner(a)
  <2>1. \A row : member' = [member EXCEPT ![m] = row] => member'[m] = row
    BY DEF AccessIInv, AccessTypeOK
  <2>2. member'[m].profile = OwnerProfile /\ (There(m) => member[m].profile # OwnerProfile)
    BY <1>7 DEF Owns
  <2>3. There(m) => member[m] \in Account
    BY MemberRow
  <2>4. CASE \E p \in Profile, s \in Scope : CreateUser(a, m, p, s)
    <3>1. PICK p \in Profile, s \in Scope : CreateUser(a, m, p, s)
      BY <2>4
    <3>2. member'[m].profile = p
      BY <2>1, <3>1 DEF CreateUser
    <3> QED
      BY <2>2, <3>1, <3>2 DEF CreateUser, Assignable
  <2>5. ASSUME There(m), NEW row \in Account, Saved(a, m, row)
        PROVE  row.profile = OwnerProfile
    BY <2>1, <2>2, <2>5, BumpedRow DEF Saved
  <2>6. CASE \E p \in Profile, s \in Scope : UpdateUser(a, m, p, s)
    <3>1. PICK p \in Profile, s \in Scope : UpdateUser(a, m, p, s)
      BY <2>6
    <3> DEFINE row == [member[m] EXCEPT !.profile = p, !.scope = s]
    <3>2. There(m) /\ Saved(a, m, row) /\ (p = member[m].profile \/ Assignable(a, p))
      BY <3>1 DEF UpdateUser, Target
    <3>3. row \in Account /\ row.profile = p
      BY <2>3, <3>2
    <3> HIDE DEF row
    <3> QED
      BY <2>2, <2>5, <3>2, <3>3 DEF Assignable
  <2>7. CASE RestoreAccess(a, m)
    <3>1. PICK s \in history[m] :
            /\ Assignable(a, s.profile)
            /\ Saved(a, m, [member[m] EXCEPT !.profile = s.profile, !.active = s.active,
                                              !.scope = s.scope, !.account = s.account])
      BY <2>7 DEF RestoreAccess
    <3> DEFINE row == [member[m] EXCEPT !.profile = s.profile, !.active = s.active,
                                        !.scope = s.scope, !.account = s.account]
    <3>2. There(m) /\ s \in Snapshots /\ Saved(a, m, row)
      BY <2>7, <3>1 DEF RestoreAccess, Target, AccessIInv, Signed
    <3>3. row \in Account /\ row.profile = s.profile
      BY <2>3, <3>2
    <3> HIDE DEF row
    <3> QED
      BY <2>5, <3>1, <3>2, <3>3 DEF Assignable
  <2>8. ASSUME There(m), NEW row \in Account, row.profile = member[m].profile, Saved(a, m, row)
        PROVE  FALSE
    BY <2>2, <2>5, <2>8
  <2>9. CASE ActivateUser(a, m)
    <3>1. /\ There(m) /\ Saved(a, m, [member[m] EXCEPT !.active = TRUE, !.account = TRUE])
      BY <2>9 DEF ActivateUser, Target
    <3>2. LET row == [member[m] EXCEPT !.active = TRUE, !.account = TRUE]
          IN  row \in Account /\ row.profile = member[m].profile
      BY <2>3, <3>1
    <3> QED
      BY <2>8, <3>1, <3>2
  <2>10. CASE DeactivateUser(a, m)
    <3>1. /\ There(m) /\ Saved(a, m, [member[m] EXCEPT !.active = FALSE, !.account = FALSE])
      BY <2>10 DEF DeactivateUser, Target
    <3>2. LET row == [member[m] EXCEPT !.active = FALSE, !.account = FALSE]
          IN  row \in Account /\ row.profile = member[m].profile
      BY <2>3, <3>1
    <3> QED
      BY <2>8, <3>1, <3>2
  <2>11. CASE ResetPassword(a, m)
    <3>1. There(m) /\ member'[m] = Bumped([member[m] EXCEPT !.temporary = TRUE])
      BY <2>1, <2>11 DEF ResetPassword, Target
    <3>2. LET old == [member[m] EXCEPT !.temporary = TRUE]
          IN  old \in Account /\ old.profile = member[m].profile
      BY <2>3, <3>1
    <3> QED
      BY <2>2, <3>1, <3>2, BumpedRow
  <2>12. CASE DeleteUser(a, m)
    BY <1>7, <2>1, <2>12 DEF DeleteUser, Owns, There
  <2> QED
    BY <2>4, <2>6, <2>7, <2>9, <2>10, <2>11, <2>12
<1> QED
  BY <1>2, <1>3, <1>4, <1>5, <1>6, <1>7

(* Profiles come, change and go without changing the ownership of anybody. *)
LEMMA ProfilesNoOwnership ==
  ASSUME AccessIInv, NEW a \in Member, NEW p \in Profile,
         \/ DeleteProfile(a, p)
         \/ \E grants \in SUBSET Permission :
              \/ CreateProfile(a, p, grants)
              \/ \E active \in BOOLEAN : UpdateProfile(a, p, active, grants)
  PROVE  \A x \in Member : Ownership(x)' = Ownership(x)
<1>1. CASE UNCHANGED member
  BY <1>1 DEF Ownership, Owns, There
<1>2. CASE member' = [m \in Member |-> IF m \in Assigned(p) THEN Bumped(member[m]) ELSE member[m]]
  <2> TAKE x \in Member
  <2>1. CASE x \in Assigned(p)
    <3>1. There(x) /\ member[x] \in Account /\ member'[x] = Bumped(member[x])
      BY <1>2, <2>1, MemberRow DEF Assigned
    <3>2. /\ member'[x] # None /\ member'[x].profile = member[x].profile
          /\ member'[x].active = member[x].active /\ member'[x].scope = member[x].scope
      BY <3>1, BumpedRow
    <3> QED
      BY <3>1, <3>2 DEF Ownership, Owns, There
  <2>2. CASE x \notin Assigned(p)
    BY <1>2, <2>2 DEF Ownership, Owns, There
  <2> QED
    BY <2>1, <2>2
<1> QED
  BY <1>1, <1>2 DEF DeleteProfile, CreateProfile, UpdateProfile

(* Only a service that an owner called on somebody else makes an owner,    *)
(* unmakes one or changes an owner's membership.                           *)
THEOREM OwnersOnlyByOwners == AccessSpec => OwnersByOwners
<1>1. ASSUME AccessIInv, [AccessNext]_accessVars
      PROVE  \A m \in Member : Ownership(m)' # Ownership(m) =>
               \E a \in Member \ {m} : request[a] # None /\ request'[a] = None /\ ActsAsOwner(a)
  <2> TAKE x \in Member
  <2> SUFFICES ASSUME Ownership(x)' # Ownership(x)
               PROVE  \E a \in Member \ {x} :
                        request[a] # None /\ request'[a] = None /\ ActsAsOwner(a)
    OBVIOUS
  <2>1. CASE UNCHANGED accessVars
    BY <2>1 DEF accessVars, Ownership, Owns, There
  <2> QED
    BY <1>1, <2>1, AloneNoOwnership, ServiceOwnership, ProfilesNoOwnership DEF AccessNext
<1>2. AccessIInv /\ [AccessNext]_accessVars =>
        [\A m \in Member : Ownership(m)' # Ownership(m) =>
           \E a \in Member \ {m} :
             request[a] # None /\ request'[a] = None /\ ActsAsOwner(a)]_accessVars
  BY <1>1
<1> QED
  BY <1>2, AccessInductive, PTL DEF AccessSpec, OwnersByOwners

HIDE AccessAssumption DEF Account, Granted, Session, Request, Snapshots, Authorities

(***************************************************************************)
(* Pages of the browser (WorkspaceClient)                                  *)
(*                                                                         *)
(* Neither AwaitedIsComing nor SlowReadsLose is inductive: both rest on    *)
(* there being one read at a time, of the page the reader is on            *)
(* (OneRead), and the second on what is shown, served and answered never   *)
(* being ahead of the database (NeverAhead).                               *)
(***************************************************************************)


(* One read is under way, of the page the reader is on, which is the only  *)
(* page that may be awaited.                                               *)
OneRead ==
  /\ \A r, t \in reads : r = t
  /\ \A r \in reads : r.page = page
  /\ pending \in {None, page}

(* What was read is not ahead of the database, nor, unless a change has    *)
(* superseded it, behind what is shown.                                    *)
NeverAhead ==
  /\ drawn # None => value <= server[drawn]
  /\ \A r \in reads : r.value # None => r.value <= server[r.page]
  /\ \A s \in Slot : saves[s] # None /\ saves[s].value # None =>
       saves[s].value <= server[saves[s].page]
  /\ \A r \in reads :
       surface # "run" /\ ~Stale(r) /\ r.value # None /\ drawn = r.page => value <= r.value

ClientIInv == ClientTypeOK /\ OneRead /\ AwaitedIsComing /\ NeverAhead

-----------------------------------------------------------------------------
USE ClientAssumption DEF Value, Reading, Saving, screen

(* A read that is sent is the only one, and of the page in view.           *)
LEMMA SentRead ==
  ASSUME page \in Sheet, Send
  PROVE  /\ reads' \in SUBSET Reading /\ pending' = page
         /\ \A r, t \in reads' : r = t
         /\ \A r \in reads' : r.page = page
         /\ \E r \in reads' : r.page = page
BY DEF Send

(* Reads that are superseded stay what they are.                           *)
LEMMA SupersededReads ==
  ASSUME reads \in SUBSET Reading, OneRead, Superseded
  PROVE  /\ reads' \in SUBSET Reading
         /\ \A r, t \in reads' : r = t
         /\ \A r \in reads' : r.page = page
         /\ (\E r \in reads : r.page = page) => \E r \in reads' : r.page = page
         /\ \A t \in reads' : ~t.current /\ \E r \in reads : t.page = r.page /\ t.value = r.value
<1>1. ASSUME NEW r \in reads
      PROVE  LET t == [r EXCEPT !.current = FALSE]
             IN  t \in Reading /\ t.page = r.page /\ t.value = r.value /\ ~t.current
  OBVIOUS
<1>2. \A t \in reads' : \E r \in reads :
        /\ t \in Reading /\ t = [r EXCEPT !.current = FALSE]
        /\ t.page = r.page /\ t.value = r.value /\ ~t.current
  BY <1>1 DEF Superseded
<1>3. \A r \in reads : \E t \in reads' : t.page = r.page
  BY <1>1 DEF Superseded
<1>4. \A r, t \in reads' : r = t
  <2> TAKE r, t \in reads'
  <2>1. PICK x \in reads, y \in reads :
          r = [x EXCEPT !.current = FALSE] /\ t = [y EXCEPT !.current = FALSE]
    BY <1>2
  <2>2. x = y
    BY DEF OneRead
  <2> QED
    BY <2>1, <2>2
<1> QED
  BY <1>2, <1>3, <1>4 DEF OneRead

(* A read that is forced is sent, or one is under way already.             *)
LEMMA ForcedRead ==
  ASSUME page \in Sheet, reads \in SUBSET Reading, OneRead, AwaitedIsComing, Forced
  PROVE  /\ reads' \in SUBSET Reading /\ pending' \in {None, page}
         /\ \A r, t \in reads' : r = t
         /\ \A r \in reads' : r.page = page
         /\ \E r \in reads' : r.page = page
<1>1. CASE Send
  BY <1>1, SentRead
<1>2. CASE surface = "payments" /\ pending # None /\ UNCHANGED <<reads, pending>>
  BY <1>2 DEF OneRead, AwaitedIsComing
<1> QED
  BY <1>1, <1>2 DEF Forced

(* Each kind of step keeps the types, the one read of the page in view and *)
(* what is awaited on its way.                                             *)
LEMMA AwaitedInductive ==
  ASSUME ClientTypeOK, OneRead, AwaitedIsComing, [ClientNext]_clientVars
  PROVE  ClientTypeOK' /\ OneRead' /\ AwaitedIsComing'
<1> USE DEF ClientTypeOK, OneRead, AwaitedIsComing
<1>1. CASE Draw
  BY <1>1, SentRead DEF Draw
<1>2. CASE Refresh
  BY <1>2, ForcedRead DEF Refresh
<1>3. CASE Evict
  BY <1>3 DEF Evict, Cancel
<1>4. CASE Forget
  BY <1>4 DEF Forget
<1>5. ASSUME NEW p \in Sheet, Turn(p)
      PROVE  ClientTypeOK' /\ OneRead' /\ AwaitedIsComing'
  BY <1>5 DEF Turn, Cancel
<1>6. ASSUME NEW p \in Sheet, Elsewhere(p)
      PROVE  ClientTypeOK' /\ OneRead' /\ AwaitedIsComing'
  BY <1>6 DEF Elsewhere
<1>7. ASSUME NEW r \in reads, ReadServed(r)
      PROVE  ClientTypeOK' /\ OneRead' /\ AwaitedIsComing'
  <2>1. /\ reads' = {[r EXCEPT !.value = server[r.page]]}
        /\ r \in Reading /\ server[r.page] \in Value /\ r.page = page
    BY <1>7 DEF ReadServed
  <2>2. [r EXCEPT !.value = server[r.page]] \in Reading
    BY <2>1
  <2>3. UNCHANGED <<surface, server, screen, saves>>
    BY <1>7 DEF ReadServed
  <2> QED
    BY <2>1, <2>2, <2>3
<1>8. ASSUME NEW r \in reads, ReadAnswered(r)
      PROVE  ClientTypeOK' /\ OneRead' /\ AwaitedIsComing'
  BY <1>8 DEF ReadAnswered, Stale, Shows
<1>9. ASSUME NEW r \in reads, ReadFailed(r)
      PROVE  ClientTypeOK' /\ OneRead' /\ AwaitedIsComing'
  BY <1>9 DEF ReadFailed
<1>10. ASSUME NEW s \in Slot, Save(s)
       PROVE  ClientTypeOK' /\ OneRead' /\ AwaitedIsComing'
  BY <1>10 DEF Save, Cancel
<1>11. ASSUME NEW s \in Slot, SaveCommitted(s)
       PROVE  ClientTypeOK' /\ OneRead' /\ AwaitedIsComing'
  <2>1. /\ saves[s] \in Saving /\ server[saves[s].page] + 1 \in Value
        /\ saves' = [saves EXCEPT ![s] = [saves[s] EXCEPT !.done = TRUE]]
        /\ server' = [server EXCEPT ![saves[s].page] = server[saves[s].page] + 1]
    BY <1>11 DEF SaveCommitted
  <2>2. saves' \in [Slot -> Saving \cup {None}] /\ server' \in [Sheet -> Value]
    BY <2>1
  <2>3. UNCHANGED <<surface, screen, reads>>
    BY <1>11 DEF SaveCommitted
  <2> QED
    BY <2>2, <2>3
<1>12. ASSUME NEW s \in Slot, SaveServed(s)
       PROVE  ClientTypeOK' /\ OneRead' /\ AwaitedIsComing'
  <2>1. /\ saves[s] \in Saving /\ server[saves[s].page] \in Value
        /\ saves' = [saves EXCEPT ![s] = [saves[s] EXCEPT !.value = server[saves[s].page]]]
    BY <1>12 DEF SaveServed
  <2>2. saves' \in [Slot -> Saving \cup {None}]
    BY <2>1
  <2>3. UNCHANGED <<surface, server, screen, reads>>
    BY <1>12 DEF SaveServed
  <2> QED
    BY <2>2, <2>3
<1>13. ASSUME NEW s \in Slot, SaveAnswered(s)
       PROVE  ClientTypeOK' /\ OneRead' /\ AwaitedIsComing'
  <2>1. /\ saves[s] \in Saving /\ saves[s].value # None
        /\ saves' \in [Slot -> Saving \cup {None}]
        /\ UNCHANGED <<surface, server, page>>
    BY <1>13 DEF SaveAnswered
  <2>2. CASE surface = "sheet" /\ SheetSaved(saves[s])
    BY <2>1, <2>2, SupersededReads DEF SheetSaved, Shows
  <2>3. CASE surface = "sheet" /\ SheetImported
    BY <2>1, <2>3, SentRead DEF SheetImported
  <2>4. CASE surface = "run" /\ RunSaved(saves[s])
    BY <2>1, <2>4, SupersededReads DEF RunSaved, Shows
  <2>5. CASE surface = "payments" /\ PaymentSaved
    BY <2>1, <2>5, ForcedRead DEF PaymentSaved
  <2> QED
    BY <1>13, <2>2, <2>3, <2>4, <2>5 DEF SaveAnswered
<1>14. ASSUME NEW s \in Slot, SaveFailed(s)
       PROVE  ClientTypeOK' /\ OneRead' /\ AwaitedIsComing'
  <2>1. CASE surface = "sheet" /\ Send
    BY <1>14, <2>1, SentRead DEF SaveFailed
  <2>2. CASE UNCHANGED <<reads, pending>>
    BY <1>14, <2>2 DEF SaveFailed
  <2> QED
    BY <1>14, <2>1, <2>2 DEF SaveFailed
<1>15. CASE UNCHANGED clientVars
  BY <1>15 DEF clientVars
<1> QED
  BY <1>1, <1>2, <1>3, <1>4, <1>5, <1>6, <1>7, <1>8, <1>9, <1>10, <1>11, <1>12, <1>13,
     <1>14, <1>15 DEF ClientNext

(* What the browser knows of the rows of a page never runs ahead of the    *)
(* database, and no read that may still be shown is behind what is shown.  *)
LEMMA NeverAheadInductive ==
  ASSUME ClientTypeOK, OneRead, AwaitedIsComing, NeverAhead, [ClientNext]_clientVars
  PROVE  NeverAhead'
<1> USE DEF ClientTypeOK, OneRead, NeverAhead, Stale
<1>1. CASE Draw
  BY <1>1 DEF Draw, Send
<1>2. CASE Refresh
  BY <1>2 DEF Refresh, Forced, Send
<1>3. CASE Evict
  BY <1>3 DEF Evict, Cancel
<1>4. CASE Forget
  BY <1>4 DEF Forget
<1>5. ASSUME NEW p \in Sheet, Turn(p)
      PROVE  NeverAhead'
  BY <1>5 DEF Turn, Cancel
<1>6. ASSUME NEW p \in Sheet, Elsewhere(p)
      PROVE  NeverAhead'
  BY <1>6 DEF Elsewhere
<1>7. ASSUME NEW r \in reads, ReadServed(r)
      PROVE  NeverAhead'
  BY <1>7 DEF ReadServed
<1>8. ASSUME NEW r \in reads, ReadAnswered(r)
      PROVE  NeverAhead'
  BY <1>8 DEF ReadAnswered, Shows
<1>9. ASSUME NEW r \in reads, ReadFailed(r)
      PROVE  NeverAhead'
  BY <1>9 DEF ReadFailed
<1>10. ASSUME NEW s \in Slot, Save(s)
       PROVE  NeverAhead'
  BY <1>10 DEF Save, Cancel
<1>11. ASSUME NEW s \in Slot, SaveCommitted(s)
       PROVE  NeverAhead'
  BY <1>11 DEF SaveCommitted
<1>12. ASSUME NEW s \in Slot, SaveServed(s)
       PROVE  NeverAhead'
  BY <1>12 DEF SaveServed
<1>13. ASSUME NEW s \in Slot, SaveAnswered(s)
       PROVE  NeverAhead'
  <2>1. /\ saves[s] \in Saving /\ saves[s].value # None
        /\ saves[s].value <= server[saves[s].page]
        /\ saves' = [saves EXCEPT ![s] = None]
        /\ UNCHANGED <<surface, server, page>>
    BY <1>13 DEF SaveAnswered
  <2>2. CASE surface = "sheet" /\ SheetSaved(saves[s])
    <3>1. /\ \A t \in reads' : ~t.current /\ \E r \in reads : t.page = r.page /\ t.value = r.value
          /\ drawn' = drawn /\ value' = IF drawn = saves[s].page THEN saves[s].value ELSE value
      BY <2>2, SupersededReads DEF SheetSaved, Shows
    <3>2. drawn' # None => value' <= server'[drawn']
      BY <2>1, <3>1
    <3>3. \A t \in reads' : t.value # None => t.value <= server'[t.page]
      BY <2>1, <3>1
    <3>4. \A t \in reads' : surface' # "run" => Stale(t)'
      BY <2>1, <2>2, <3>1
    <3>5. \A x \in Slot : saves'[x] # None /\ saves'[x].value # None =>
            saves'[x].value <= server'[saves'[x].page]
      BY <2>1
    <3> QED
      BY <3>2, <3>3, <3>4, <3>5, Zenon
  <2>3. CASE surface = "sheet" /\ SheetImported
    BY <2>1, <2>3 DEF SheetImported, Send
  <2>4. CASE surface = "run" /\ RunSaved(saves[s])
    <3>1. /\ \A t \in reads' : ~t.current /\ \E r \in reads : t.page = r.page /\ t.value = r.value
          /\ drawn' = saves[s].page /\ value' = saves[s].value
      BY <2>4, SupersededReads DEF RunSaved, Shows
    <3>2. drawn' # None => value' <= server'[drawn']
      BY <2>1, <3>1
    <3>3. \A t \in reads' : t.value # None => t.value <= server'[t.page]
      BY <2>1, <3>1
    <3>4. \A t \in reads' : surface' # "run" => Stale(t)'
      BY <2>1, <2>4, <3>1
    <3>5. \A x \in Slot : saves'[x] # None /\ saves'[x].value # None =>
            saves'[x].value <= server'[saves'[x].page]
      BY <2>1
    <3> QED
      BY <3>2, <3>3, <3>4, <3>5, Zenon
  <2>5. CASE surface = "payments" /\ PaymentSaved
    BY <2>1, <2>5 DEF PaymentSaved, Forced, Send
  <2> QED
    BY <1>13, <2>2, <2>3, <2>4, <2>5 DEF SaveAnswered
<1>14. ASSUME NEW s \in Slot, SaveFailed(s)
       PROVE  NeverAhead'
  BY <1>14 DEF SaveFailed, Send
<1>15. CASE UNCHANGED clientVars
  BY <1>15 DEF clientVars
<1> QED
  BY <1>1, <1>2, <1>3, <1>4, <1>5, <1>6, <1>7, <1>8, <1>9, <1>10, <1>11, <1>12, <1>13,
     <1>14, <1>15 DEF ClientNext

(* A step in which no change is answered shows nothing older, and rows of  *)
(* another page only when the reader is on it.                             *)
LEMMA StepsForward ==
  ASSUME ClientIInv, [ClientNext]_clientVars, surface # "run"
  PROVE  /\ drawn' = drawn /\ drawn # None => value' >= value \/ Answered
         /\ drawn' # drawn => drawn' = page
<1> USE DEF ClientIInv, ClientTypeOK, OneRead, NeverAhead
<1>1. ASSUME NEW r \in reads, ReadAnswered(r)
      PROVE  /\ drawn' = drawn /\ drawn # None => value' >= value
             /\ drawn' # drawn => drawn' = page
  BY <1>1 DEF ReadAnswered, Shows, Stale
<1>2. ASSUME NEW s \in Slot, SaveAnswered(s)
      PROVE  Answered /\ drawn' = drawn
  BY <1>2 DEF SaveAnswered, SheetSaved, SheetImported, RunSaved, PaymentSaved, Shows, Answered
<1>3. \/ \E r \in reads : ReadAnswered(r)
      \/ \E s \in Slot : SaveAnswered(s)
      \/ UNCHANGED <<drawn, value>>
  BY DEF ClientNext, clientVars, Draw, Refresh, Evict, Forget, Turn, Elsewhere, ReadServed,
         ReadFailed, Save, SaveCommitted, SaveServed, SaveFailed
<1>4. ASSUME UNCHANGED <<drawn, value>>, drawn # None
      PROVE  value' >= value
  BY <1>4
<1> QED
  BY <1>1, <1>2, <1>3, <1>4

-----------------------------------------------------------------------------
(* The invariant holds of every reachable state.                           *)
THEOREM ClientInductive == ClientSpec => []ClientIInv
<1>1. ClientInit => ClientIInv
  BY DEF ClientInit, ClientIInv, ClientTypeOK, OneRead, AwaitedIsComing, NeverAhead
<1>2. ClientIInv /\ [ClientNext]_clientVars => ClientIInv'
  BY AwaitedInductive, NeverAheadInductive DEF ClientIInv
<1> QED
  BY <1>1, <1>2, PTL DEF ClientSpec

(* Of the run and of the payments, a page that is awaited is being read,   *)
(* for any number of pages and changes: app.js never waits for nothing.    *)
THEOREM AwaitedAlwaysComing == ClientSpec => []AwaitedIsComing
<1>1. ClientIInv => AwaitedIsComing
  BY DEF ClientIInv
<1> QED
  BY <1>1, ClientInductive, PTL

(* A slow read never overwrites a change that was answered before it, for  *)
(* any number of pages, reads and changes under way (the tickets of        *)
(* payrollAuthorityIsCurrent, and the single flight of the payments).      *)
THEOREM SlowReadsAlwaysLose == ClientSpec => SlowReadsLose
<1>1. ClientIInv /\ [ClientNext]_clientVars =>
        [surface # "run" =>
           /\ drawn' = drawn /\ drawn # None => value' >= value \/ Answered
           /\ drawn' # drawn => drawn' = page]_clientVars
  BY StepsForward
<1> QED
  BY <1>1, ClientInductive, PTL DEF ClientSpec, SlowReadsLose

HIDE ClientAssumption DEF Value, Reading, Saving, screen

(***************************************************************************)
(* Documents and their numbers (DocumentLibrary)                           *)
(***************************************************************************)

(* What a call has inserted in a series, and the documents of a series.    *)
Inserted(made, x) == {d \in made : SeriesOf(d[1]) = x}
Numbered(x)       == {o \in Origin : document[o] # None /\ SeriesOf(o) = x}

(* The documents of a call take up the numbers that come next in their     *)
(* series, each one once, and none of their sources has a document.        *)
Continues(made, x) ==
  /\ IsFiniteSet(Inserted(made, x))
  /\ {d[2] : d \in Inserted(made, x)} =
       upcoming[x]..(upcoming[x] + Cardinality(Inserted(made, x)) - 1)
  /\ \A d, e \in Inserted(made, x) : d[1] = e[1] \/ d[2] = e[2] => d = e
  /\ \A d \in Inserted(made, x) : document[d[1]] = None

IsCall(task) ==
  task \in [todo : {task.todo}, loaded : BOOLEAN, made : SUBSET (Origin \X Nat),
            report : BOOLEAN]

(* A call that has inserted into a series holds its row: two calls never   *)
(* continue the same numbers.                                              *)
CallsContinue ==
  /\ creating = [c \in Caller |-> creating[c]]
  /\ \A c \in Caller : creating[c] # None =>
       /\ IsCall(creating[c])
       /\ \A x \in Series \ {"batch"} :
            /\ Continues(creating[c].made, x)
            /\ Inserted(creating[c].made, x) # {} => holder[x] = c

(* The numbers given in a series are those below the next one, once each.  *)
NumberedOnce ==
  \A x \in Series \ {"batch"} :
    /\ {document[o] : o \in Numbered(x)} = 1..(upcoming[x] - 1)
    /\ \A o, p \in Numbered(x) : document[o] = document[p] => o = p

LibraryIInv == LibraryTypeOK /\ CallsContinue /\ NumberedOnce

-----------------------------------------------------------------------------
(* The invariant counts the documents of a series.                         *)
LEMMA NumbersCounted == LibraryIInv => NumbersWhole
<1> SUFFICES ASSUME LibraryIInv, NEW x \in Series \ {"batch"}
             PROVE  /\ {document[o] : o \in Numbered(x)} = 1..(upcoming[x] - 1)
                    /\ Cardinality(Numbered(x)) = upcoming[x] - 1
  BY DEF NumbersWhole, Numbered
<1> DEFINE n == upcoming[x] - 1
           of == Numbered(x)
           at == [k \in 1..n |-> CHOOSE o \in of : document[o] = k]
<1>1. n \in Nat
  BY DEF LibraryIInv, LibraryTypeOK
<1>2. /\ {document[o] : o \in of} = 1..n
      /\ \A o, p \in of : document[o] = document[p] => o = p
  BY DEF LibraryIInv, NumberedOnce
<1> HIDE DEF n, of
<1>3. \A k \in 1..n : at[k] \in of /\ document[at[k]] = k
  <2> TAKE k \in 1..n
  <2>1. \E o \in of : document[o] = k
    BY <1>2
  <2> QED
    BY <2>1
<1>4. \A o \in of : document[o] \in 1..n /\ at[document[o]] = o
  BY <1>2, <1>3
<1> HIDE DEF at
<1>5. at \in [1..n -> of]
  BY <1>3 DEF at
<1>6. at \in Bijection(1..n, of)
  <2>1. \A j, k \in 1..n : at[j] = at[k] => j = k
    BY <1>3
  <2>2. \A o \in of : \E k \in 1..n : at[k] = o
    BY <1>4
  <2> QED
    BY <1>5, <2>1, <2>2 DEF Bijection, Injection, Surjection, IsInjective
<1>7. Cardinality(of) = n
  BY <1>1, <1>6, FS_CountingElements DEF ExistsBijection
<1> QED
  BY <1>2, <1>7 DEF n, of

-----------------------------------------------------------------------------
USE LibraryAssumption DEF libraryVars

(* Whatever leaves the documents, the next numbers and what was inserted   *)
(* as they are, and takes no row from a call, keeps the invariant.         *)
LEMMA CallsKept ==
  ASSUME LibraryIInv, UNCHANGED <<document, upcoming>>,
         origin' \in [Origin -> {"open", "final", "reversed"}],
         holder' \in [Series -> Caller \cup {None}],
         creating' = [c \in Caller |-> creating'[c]],
         \A c \in Caller : creating'[c] # None =>
           /\ IsCall(creating'[c])
           /\ creating[c] # None \/ creating'[c].made = {}
           /\ creating[c] # None => creating'[c].made = creating[c].made
           /\ \A x \in Series : holder[x] = c => holder'[x] = c
  PROVE  LibraryIInv'
<1>1. LibraryTypeOK'
  BY DEF LibraryIInv, LibraryTypeOK
<1>2. NumberedOnce'
  BY DEF LibraryIInv, NumberedOnce, Numbered
<1>3. ASSUME NEW c \in Caller, creating'[c] # None, NEW x \in Series \ {"batch"}
      PROVE  /\ Continues(creating[c].made, x)' 
             /\ Inserted(creating[c].made, x)' # {} => holder'[x] = c
  <2>1. Inserted(creating[c].made, x)' = Inserted(creating'[c].made, x)
    BY DEF Inserted
  <2>2. Continues(creating[c].made, x)' <=> Continues(creating'[c].made, x)
    BY <2>1 DEF Continues
  <2>3. CASE creating[c] # None
    BY <1>3, <2>1, <2>2, <2>3 DEF LibraryIInv, CallsContinue
  <2>4. CASE creating[c] = None
    <3>1. Inserted(creating'[c].made, x) = {}
      BY <1>3, <2>4 DEF Inserted
    <3>2. upcoming[x] \in Nat
      BY DEF LibraryIInv, LibraryTypeOK
    <3>3. IsFiniteSet({}) /\ Cardinality({}) = 0
      BY FS_EmptySet
    <3>4. upcoming[x]..(upcoming[x] + 0 - 1) = {}
      BY <3>2
    <3>5. Continues(creating'[c].made, x)
      BY <3>1, <3>3, <3>4 DEF Continues
    <3> QED
      BY <2>1, <2>2, <3>1, <3>5
  <2> QED
    BY <2>3, <2>4
<1>4. CallsContinue'
  BY <1>3 DEF CallsContinue
<1> QED
  BY <1>1, <1>2, <1>4 DEF LibraryIInv

(* A record without its first candidate, and one that is loaded.           *)
LEMMA CallRows ==
  ASSUME NEW task, IsCall(task)
  PROVE  /\ IsCall(Popped(task)) /\ Popped(task).made = task.made
         /\ Popped(task).report = task.report
         /\ IsCall([task EXCEPT !.loaded = TRUE])
         /\ [task EXCEPT !.loaded = TRUE].made = task.made
<1> DEFINE Row(todo) == [todo : {todo}, loaded : BOOLEAN, made : SUBSET (Origin \X Nat),
                         report : BOOLEAN]
           rest == Tail(task.todo)
<1>1. task \in Row(task.todo)
  BY DEF IsCall
<1> HIDE DEF rest
<1>2. [task EXCEPT !.todo = rest, !.loaded = FALSE] \in Row(rest)
  BY <1>1
<1>3. /\ [task EXCEPT !.todo = rest, !.loaded = FALSE].made = task.made
      /\ [task EXCEPT !.todo = rest, !.loaded = FALSE].report = task.report
      /\ [task EXCEPT !.todo = rest, !.loaded = FALSE].todo = rest
  BY <1>1
<1>4. Popped(task) = [task EXCEPT !.todo = rest, !.loaded = FALSE]
  BY DEF Popped, rest
<1>5. /\ [task EXCEPT !.loaded = TRUE] \in Row(task.todo)
      /\ [task EXCEPT !.loaded = TRUE].made = task.made
      /\ [task EXCEPT !.loaded = TRUE].todo = task.todo
  BY <1>1
<1> QED
  BY <1>2, <1>3, <1>4, <1>5 DEF IsCall

(* Beginning a call, loading a source and losing the call insert nothing.  *)
LEMMA CallsKeep ==
  ASSUME LibraryIInv, NEW c \in Caller,
         \/ \E o \in Origin : LoadSource(c, o)
         \/ \E order \in Orders, report \in BOOLEAN : BeginCreation(c, order, report)
         \/ FailCreation(c)
  PROVE  LibraryIInv'
<1> USE DEF LibraryIInv, LibraryTypeOK, CallsContinue
<1>1. ASSUME NEW o \in Origin, LoadSource(c, o)
      PROVE  LibraryIInv'
  <2> DEFINE task == creating[c]
  <2>1. IsCall(task)
    BY <1>1 DEF LoadSource, Current
  <2>2. \/ creating'[c] = Popped(task)
        \/ creating'[c] = [task EXCEPT !.loaded = TRUE]
    BY <1>1 DEF LoadSource
  <2>5. IsCall(creating'[c]) /\ creating'[c].made = task.made
    <3> HIDE DEF task
    <3>1. /\ IsCall(Popped(task)) /\ Popped(task).made = task.made
          /\ IsCall([task EXCEPT !.loaded = TRUE])
          /\ [task EXCEPT !.loaded = TRUE].made = task.made
      BY <2>1, CallRows, Zenon
    <3>2. CASE creating'[c] = Popped(task)
      BY <3>1, <3>2, Zenon
    <3>3. CASE creating'[c] = [task EXCEPT !.loaded = TRUE]
      <4> DEFINE new == [task EXCEPT !.loaded = TRUE]
      <4> HIDE DEF new
      <4> QED
        BY <3>1, <3>3, Zenon DEF new
    <3> QED
      BY <2>2, <3>2, <3>3
  <2>6. \A d \in Caller \ {c} : creating'[d] = creating[d]
    BY <1>1 DEF LoadSource
  <2>7. creating[c] # None
    BY <1>1 DEF LoadSource, Current
  <2>8. creating' = [d \in Caller |-> creating'[d]]
    BY <1>1 DEF LoadSource
  <2>9. /\ holder' = holder /\ origin' = origin /\ UNCHANGED <<document, upcoming>>
    BY <1>1 DEF LoadSource
  <2> QED
    BY <2>5, <2>6, <2>7, <2>8, <2>9, CallsKept
<1>2. ASSUME NEW order \in Orders, NEW report \in BOOLEAN, BeginCreation(c, order, report)
      PROVE  LibraryIInv'
  <2>1. creating[c] = None
    BY <1>2 DEF BeginCreation
  <2>2. PICK t : creating' =
                   [creating EXCEPT ![c] = [todo |-> t, loaded |-> FALSE, made |-> {},
                                            report |-> report]]
    BY <1>2 DEF BeginCreation
  <2>3. IsCall(creating'[c]) /\ creating'[c].made = {}
    BY <2>2 DEF IsCall
  <2>4. \A d \in Caller \ {c} : creating'[d] = creating[d]
    BY <2>2
  <2>5. creating' = [d \in Caller |-> creating'[d]]
    BY <2>2
  <2>6. holder' = holder /\ origin' = origin /\ UNCHANGED <<document, upcoming>>
    BY <1>2 DEF BeginCreation
  <2> QED
    BY <2>1, <2>3, <2>4, <2>5, <2>6, CallsKept
<1>3. ASSUME FailCreation(c)
      PROVE  LibraryIInv'
  <2>1. creating' = [creating EXCEPT ![c] = None]
    BY <1>3 DEF FailCreation
  <2>2. creating'[c] = None
    BY <2>1
  <2>3. \A d \in Caller \ {c} : creating'[d] = creating[d]
    BY <2>1
  <2>4. creating' = [d \in Caller |-> creating'[d]]
    BY <2>1
  <2>5. /\ holder' \in [Series -> Caller \cup {None}]
        /\ \A d \in Caller \ {c}, x \in Series : holder[x] = d => holder'[x] = d
    BY <1>3 DEF FailCreation, Released
  <2>6. origin' = origin /\ UNCHANGED <<document, upcoming>>
    BY <1>3 DEF FailCreation
  <2> QED
    BY <2>2, <2>3, <2>4, <2>5, <2>6, CallsKept
<1> QED
  BY <1>1, <1>2, <1>3

(* Inserting a document: it takes the number after those the call has      *)
(* taken, and the row of the series is the call's.                         *)
LEMMA InsertKeeps ==
  ASSUME LibraryIInv, NEW c \in Caller, NEW o \in Origin, InsertDocument(c, o)
  PROVE  LibraryIInv'
<1> DEFINE task   == creating[c]
           y      == SeriesOf(o)
           number == upcoming[y] + Drawn(c, y)
           filled == [task EXCEPT !.made = @ \cup {<<o, number>>}]
           later  == task.made \cup {<<o, number>>}
<1> USE DEF LibraryIInv, LibraryTypeOK, CallsContinue
<1>1. /\ task # None /\ IsCall(task) /\ holder[y] \in {None, c}
      /\ y \in Series /\ document[o] = None
      /\ \A d \in task.made : d[1] # o
  <2>1. \A p \in Origin : document[p] # None => ~Clashes(o, p)
    BY DEF InsertDocument
  <2>2. \A d \in task.made : ~Clashes(o, d[1])
    BY DEF InsertDocument
  <2> QED
    BY <2>1, <2>2 DEF InsertDocument, Current, Held, Series, Clashes
<1>2. \A x \in Series \ {"batch"} :
        Drawn(c, x) \in Nat /\ Drawn(c, x) = Cardinality(Inserted(task.made, x))
  BY <1>1, FS_CardinalityType DEF Drawn, Inserted, Continues
<1>3. /\ \A d \in Caller \ {c} : creating'[d] = creating[d]
      /\ creating'[c] = Popped(filled)
      /\ creating' = [d \in Caller |-> creating'[d]]
  <2>1. creating' = [creating EXCEPT ![c] = Popped(filled)]
    BY DEF InsertDocument, Filled
  <2> HIDE DEF filled
  <2> QED
    BY <2>1
<1>4. /\ holder' = [holder EXCEPT ![y] = c]
      /\ UNCHANGED <<origin, document, upcoming>>
  BY DEF InsertDocument
<1>5. number \in Nat /\ number = upcoming[y] + Cardinality(Inserted(task.made, y))
  BY <1>1, <1>2
<1> HIDE DEF number
<1>6. IsCall(filled) /\ filled.made = later
  <2> DEFINE Row == [todo : {task.todo}, loaded : BOOLEAN, made : SUBSET (Origin \X Nat),
                     report : BOOLEAN]
  <2>1. task \in Row
    BY <1>1 DEF IsCall
  <2>2. later \in SUBSET (Origin \X Nat)
    BY <1>5, <2>1
  <2>3. filled = [task EXCEPT !.made = later]
    OBVIOUS
  <2> HIDE DEF later, task
  <2>4. /\ [task EXCEPT !.made = later] \in Row
        /\ [task EXCEPT !.made = later].made = later
        /\ [task EXCEPT !.made = later].todo = task.todo
    BY <2>1, <2>2
  <2> QED
    BY <2>3, <2>4 DEF IsCall
<1>7. IsCall(creating'[c]) /\ creating'[c].made = later
  <2>1. IsCall(Popped(filled)) /\ Popped(filled).made = filled.made
    BY <1>6, CallRows, Zenon
  <2> HIDE DEF filled, later
  <2> QED
    BY <1>3, <1>6, <2>1, Zenon
<1>8. \A d \in Caller \ {c}, x \in Series : holder[x] = d => holder'[x] = d
  BY <1>1, <1>4
<1>9. ASSUME NEW x \in Series \ {"batch"}
      PROVE  /\ Continues(creating'[c].made, x)
             /\ Inserted(creating'[c].made, x) # {} => holder'[x] = c
  <2> DEFINE old == Inserted(task.made, x)
             k   == Cardinality(old)
             u   == upcoming[x]
  <2>1. /\ IsFiniteSet(old) /\ {d[2] : d \in old} = u..(u + k - 1)
        /\ \A d, e \in old : d[1] = e[1] \/ d[2] = e[2] => d = e
        /\ \A d \in old : document[d[1]] = None
        /\ old # {} => holder[x] = c
    BY <1>1 DEF Continues
  <2>2. k \in Nat /\ u \in Nat
    BY <2>1, FS_CardinalityType
  <2>3. CASE x # y
    <3>1. Inserted(later, x) = old
      BY <2>3 DEF Inserted
    <3>2. holder'[x] = holder[x]
      BY <1>4, <2>3
    <3>3. Continues(later, x)
      BY <2>1, <3>1 DEF Continues
    <3> HIDE DEF later
    <3> QED
      BY <1>7, <2>1, <3>1, <3>2, <3>3
  <2>4. CASE x = y
    <3> DEFINE d0 == <<o, number>>
    <3>1. Inserted(later, x) = old \cup {d0} /\ d0[1] = o /\ d0[2] = number
      BY <2>4 DEF Inserted
    <3>2. number = u + k
      BY <1>5, <2>4
    <3>3. \A d \in old : d[2] \in u..(u + k - 1) /\ d[1] # o
      BY <1>1, <2>1 DEF Inserted
    <3>4. \A d \in old : d[2] # number
      <4> HIDE DEF k, u, old
      <4> QED
        BY <2>2, <3>2, <3>3
    <3>5. d0 \notin old
      BY <3>1, <3>4
    <3> HIDE DEF d0, old, k, u
    <3>6. /\ IsFiniteSet(old \cup {d0}) /\ Cardinality(old \cup {d0}) = k + 1
      BY <2>1, <3>5, FS_AddElement DEF k
    <3>7. {d[2] : d \in old \cup {d0}} = u..(u + (k + 1) - 1)
      <4>1. {d[2] : d \in old \cup {d0}} = {d[2] : d \in old} \cup {number}
        BY <3>1
      <4>2. u..(u + (k + 1) - 1) = u..(u + k - 1) \cup {u + k}
        BY <2>2
      <4> QED
        BY <2>1, <3>2, <4>1, <4>2
    <3>8. \A d, e \in old \cup {d0} : d[1] = e[1] \/ d[2] = e[2] => d = e
      BY <2>1, <3>1, <3>3, <3>4
    <3>9. \A d \in old \cup {d0} : document[d[1]] = None
      BY <1>1, <2>1, <3>1
    <3>10. Continues(later, x)
      BY <3>1, <3>6, <3>7, <3>8, <3>9 DEF Continues, u
    <3>11. holder'[x] = c
      BY <1>1, <1>4, <2>4
    <3> HIDE DEF later
    <3> QED
      BY <1>7, <3>10, <3>11
  <2> QED
    BY <2>3, <2>4
<1>10. LibraryTypeOK' /\ NumberedOnce'
  BY <1>1, <1>4 DEF NumberedOnce, Numbered
<1>11. ASSUME NEW d \in Caller, creating'[d] # None, NEW x \in Series \ {"batch"}
      PROVE  /\ IsCall(creating'[d])
             /\ Continues(creating'[d].made, x)
             /\ Inserted(creating'[d].made, x) # {} => holder'[x] = d
  <2>1. CASE d = c
    BY <1>7, <1>9, <2>1
  <2>2. CASE d # c
    BY <1>3, <1>8, <1>11, <2>2
  <2> QED
    BY <2>1, <2>2
<1>12. \A d \in Caller : creating'[d] # None => IsCall(creating'[d])
  BY <1>3, <1>7
<1>13. ASSUME NEW d \in Caller, NEW x \in Series
       PROVE  /\ Continues(creating[d].made, x)' <=> Continues(creating'[d].made, x)
              /\ Inserted(creating[d].made, x)' = Inserted(creating'[d].made, x)
  BY <1>4 DEF Continues, Inserted
<1>14. CallsContinue'
  BY <1>3, <1>11, <1>12, <1>13
<1> QED
  BY <1>10, <1>14

(* The commit: the documents of the call take the numbers they drew, and   *)
(* no other call holds the row of a series it has inserted into.           *)
LEMMA CommitKeeps ==
  ASSUME LibraryIInv, NEW c \in Caller, CommitCreation(c)
  PROVE  LibraryIInv'
<1> DEFINE made  == creating[c].made
           by(o) == CHOOSE d \in made : d[1] = o
<1> USE DEF LibraryIInv, LibraryTypeOK, CallsContinue
<1>1. /\ creating[c] # None /\ IsCall(creating[c]) /\ made \subseteq Origin \X Nat
      /\ \A d, e \in made : d[1] = e[1] => d = e
      /\ \A d \in made : document[d[1]] = None
  <2>1. creating[c] # None /\ IsCall(creating[c]) /\ made \subseteq Origin \X Nat
    BY DEF CommitCreation, IsCall
  <2>2. \A d \in made : LET x == SeriesOf(d[1]) IN
          x \in Series \ {"batch"} /\ d \in Inserted(made, x)
    BY <2>1 DEF Inserted, Series
  <2>3. \A x \in Series \ {"batch"} : Continues(made, x)
    BY <2>1
  <2>4. ASSUME NEW d \in made, NEW e \in made, d[1] = e[1]
        PROVE  d = e
    BY <2>2, <2>3, <2>4 DEF Continues
  <2>5. ASSUME NEW d \in made
        PROVE  document[d[1]] = None
    BY <2>2, <2>3 DEF Continues
  <2> QED
    BY <2>1, <2>4, <2>5
<1>2. /\ document' = [o \in Origin |-> IF \E d \in made : d[1] = o THEN by(o)[2] ELSE document[o]]
      /\ creating' = [creating EXCEPT ![c] = None]
      /\ holder' = [x \in Series |-> IF holder[x] = c THEN None ELSE holder[x]]
      /\ origin' = origin
      /\ upcoming' = [x \in Series |-> upcoming[x] +
           IF x = "batch" THEN (IF creating[c].report THEN 1 ELSE 0) ELSE Drawn(c, x)]
  BY DEF CommitCreation, Released
<1>3. \A d \in made : d[1] \in Origin /\ document'[d[1]] = d[2] /\ d[2] \in Nat
  <2> TAKE d \in made
  <2>1. \A e \in made : e[1] = d[1] => e = d
    BY <1>1
  <2>2. by(d[1]) = d
    BY <2>1
  <2> HIDE DEF by
  <2> QED
    BY <1>1, <1>2, <2>2
<1>4. \A o \in Origin : (\A d \in made : d[1] # o) => document'[o] = document[o]
  BY <1>2
<1>5. \A x \in Series \ {"batch"} :
        /\ Drawn(c, x) \in Nat /\ Drawn(c, x) = Cardinality(Inserted(made, x))
        /\ upcoming'[x] = upcoming[x] + Drawn(c, x)
  <2> TAKE x \in Series \ {"batch"}
  <2>1. Drawn(c, x) = Cardinality(Inserted(made, x))
    BY DEF Drawn, Inserted
  <2>2. IsFiniteSet(Inserted(made, x))
    BY <1>1 DEF Continues
  <2> QED
    BY <1>2, <2>1, <2>2, FS_CardinalityType
<1>6. LibraryTypeOK'
  <2>1. document' \in [Origin -> Nat \cup {None}]
    <3>1. \A o \in Origin : document'[o] \in Nat \cup {None}
      BY <1>3, <1>4
    <3> HIDE DEF by
    <3> QED
      BY <1>2, <3>1
  <2>2. upcoming' \in [Series -> Nat \ {0}]
    <3>1. \A x \in Series : upcoming'[x] \in Nat \ {0}
      BY <1>2, <1>5
    <3> QED
      BY <1>2, <3>1
  <2> QED
    BY <1>2, <2>1, <2>2
<1>7. ASSUME NEW x \in Series \ {"batch"}
      PROVE  /\ {document'[o] : o \in Numbered(x)'} = 1..(upcoming'[x] - 1)
             /\ \A o, p \in Numbered(x)' : document'[o] = document'[p] => o = p
  <2> DEFINE u == upcoming[x]
             k == Drawn(c, x)
             added == {d[1] : d \in Inserted(made, x)}
  <2>1. /\ {document[o] : o \in Numbered(x)} = 1..(u - 1)
        /\ \A o, p \in Numbered(x) : document[o] = document[p] => o = p
    BY DEF NumberedOnce
  <2>2. /\ {d[2] : d \in Inserted(made, x)} = u..(u + k - 1)
        /\ \A d, e \in Inserted(made, x) : d[2] = e[2] => d = e
    BY <1>1, <1>5 DEF Continues
  <2>3. u \in Nat \ {0} /\ k \in Nat /\ upcoming'[x] = u + k
    BY <1>5
  <2>4. Numbered(x)' = Numbered(x) \cup added
    <3>1. ASSUME NEW o \in Numbered(x)' PROVE o \in Numbered(x) \cup added
      BY <1>4 DEF Numbered, Inserted
    <3>2. ASSUME NEW o \in Numbered(x) PROVE o \in Numbered(x)'
      BY <1>1, <1>4 DEF Numbered
    <3>3. ASSUME NEW o \in added PROVE o \in Numbered(x)'
      BY <1>3 DEF Numbered, Inserted
    <3> QED
      BY <3>1, <3>2, <3>3
  <2>5. \A o \in Numbered(x) : document'[o] = document[o]
    BY <1>1, <1>4 DEF Numbered
  <2>6. \A d \in Inserted(made, x) : document'[d[1]] = d[2]
    BY <1>3 DEF Inserted
  <2>7. \A o \in Numbered(x) : document'[o] \in 1..(u - 1)
    BY <2>1, <2>5
  <2>8. \A d \in Inserted(made, x) : document'[d[1]] \in u..(u + k - 1)
    BY <2>2, <2>6
  <2> HIDE DEF u, k
  <2>9. 1..(u + k - 1) = 1..(u - 1) \cup u..(u + k - 1)
    BY <2>3
  <2>10. 1..(u - 1) \cap u..(u + k - 1) = {}
    BY <2>3
  <2>11. {document'[o] : o \in Numbered(x)'} = 1..(u + k - 1)
    <3>1. {document'[o] : o \in Numbered(x)} = 1..(u - 1)
      BY <2>1, <2>5
    <3>2. {document'[o] : o \in added} = u..(u + k - 1)
      BY <2>2, <2>6
    <3> QED
      BY <2>4, <2>9, <3>1, <3>2
  <2>12. \A o, p \in Numbered(x)' : document'[o] = document'[p] => o = p
    <3>1. \A o, p \in Numbered(x) : document'[o] = document'[p] => o = p
      BY <2>1, <2>5
    <3>2. \A o, p \in added : document'[o] = document'[p] => o = p
      BY <2>2, <2>6
    <3>3. \A o \in Numbered(x), p \in added : document'[o] # document'[p]
      BY <2>7, <2>8, <2>10
    <3> QED
      BY <2>4, <3>1, <3>2, <3>3
  <2> QED
    BY <2>3, <2>11, <2>12
<1>8. NumberedOnce'
  BY <1>7 DEF NumberedOnce
<1>9. ASSUME NEW d \in Caller, creating'[d] # None, NEW x \in Series \ {"batch"}
      PROVE  /\ Continues(creating[d].made, x)'
             /\ Inserted(creating[d].made, x)' # {} => holder'[x] = d
  <2> DEFINE theirs == Inserted(creating[d].made, x)
  <2>1. d # c /\ creating'[d] = creating[d] /\ creating[d] # None
    BY <1>2, <1>9
  <2>2. Inserted(creating[d].made, x)' = theirs
    BY <2>1 DEF Inserted
  <2>3. Continues(creating[d].made, x) /\ (theirs # {} => holder[x] = d)
    BY <2>1
  <2>4. theirs # {} => holder'[x] = d
    BY <1>2, <2>1, <2>3
  <2>5. CASE theirs = {}
    <3>1. IsFiniteSet({}) /\ Cardinality({}) = 0
      BY FS_EmptySet
    <3>2. upcoming'[x] \in Nat
      BY <1>6
    <3>3. upcoming'[x]..(upcoming'[x] + 0 - 1) = {}
      BY <3>2
    <3>4. Inserted(creating[d].made, x)' = {}
      BY <2>2, <2>5
    <3>5. {e[2] : e \in {}} = upcoming'[x]..(upcoming'[x] + Cardinality({}) - 1)
      BY <3>1, <3>3
    <3> QED
      BY <3>1, <3>4, <3>5 DEF Continues
  <2>6. CASE theirs # {}
    <3>1. Inserted(made, x) = {}
      BY <1>1, <2>1, <2>3, <2>6
    <3>2. Drawn(c, x) = 0
      BY <1>5, <3>1, FS_EmptySet
    <3>3. upcoming'[x] = upcoming[x]
      <4>1. upcoming[x] \in Nat
        OBVIOUS
      <4> QED
        BY <1>5, <3>2, <4>1
    <3>4. \A e \in theirs : e[1] \in Origin /\ SeriesOf(e[1]) = x /\ document[e[1]] = None
      BY <2>1, <2>3 DEF Continues, Inserted, IsCall
    <3>5. \A e \in theirs : document'[e[1]] = None
      BY <1>4, <3>1, <3>4 DEF Inserted
    <3> QED
      BY <2>2, <2>3, <2>4, <3>3, <3>5 DEF Continues
  <2> QED
    BY <2>2, <2>4, <2>5, <2>6
<1>10. /\ creating' = [d \in Caller |-> creating'[d]]
       /\ \A d \in Caller : creating'[d] # None => IsCall(creating'[d])
  BY <1>2
<1>11. CallsContinue'
  BY <1>9, <1>10
<1> QED
  BY <1>6, <1>8, <1>11

(* The invariant holds of every reachable state.                           *)
THEOREM LibraryInductive == LibrarySpec => []LibraryIInv
<1>1. LibraryInit => LibraryIInv
  <2> SUFFICES ASSUME LibraryInit PROVE LibraryIInv
    OBVIOUS
  <2> USE DEF LibraryInit
  <2>1. LibraryTypeOK
    BY DEF LibraryTypeOK
  <2>2. CallsContinue
    BY DEF CallsContinue
  <2>3. ASSUME NEW x \in Series \ {"batch"}
        PROVE  /\ {document[o] : o \in Numbered(x)} = 1..(upcoming[x] - 1)
               /\ \A o, p \in Numbered(x) : document[o] = document[p] => o = p
    <3>1. Numbered(x) = {} /\ upcoming[x] = 1
      BY DEF Numbered
    <3> QED
      BY <3>1
  <2> QED
    BY <2>1, <2>2, <2>3 DEF LibraryIInv, NumberedOnce
<1>2. LibraryIInv /\ [LibraryNext]_libraryVars => LibraryIInv'
  <2> SUFFICES ASSUME LibraryIInv, [LibraryNext]_libraryVars PROVE LibraryIInv'
    OBVIOUS
  <2>1. ASSUME NEW o \in Origin, FinishOrigin(o) \/ ReverseOrigin(o)
        PROVE  LibraryIInv'
    <3>1. origin' \in [Origin -> {"open", "final", "reversed"}]
      BY <2>1 DEF FinishOrigin, ReverseOrigin, LibraryIInv, LibraryTypeOK
    <3> QED
      BY <2>1, <3>1, CallsKept
        DEF FinishOrigin, ReverseOrigin, LibraryIInv, LibraryTypeOK, CallsContinue
  <2>2. ASSUME NEW c \in Caller, NEW o \in Origin, LoadSource(c, o) \/ InsertDocument(c, o)
        PROVE  LibraryIInv'
    BY <2>2, CallsKeep, InsertKeeps
  <2>3. ASSUME NEW c \in Caller, NEW order \in Orders, NEW report \in BOOLEAN,
               BeginCreation(c, order, report)
        PROVE  LibraryIInv'
    BY <2>3, CallsKeep
  <2>4. ASSUME NEW c \in Caller, CommitCreation(c) \/ FailCreation(c)
        PROVE  LibraryIInv'
    BY <2>4, CommitKeeps, CallsKeep
  <2>5. CASE UNCHANGED libraryVars
    BY <2>5, CallsKept DEF LibraryIInv, LibraryTypeOK, CallsContinue
  <2> QED
    BY <2>1, <2>2, <2>3, <2>4, <2>5 DEF LibraryNext
<1> QED
  BY <1>1, <1>2, PTL DEF LibrarySpec

(* The documents of a series are numbered without a gap or a repetition,   *)
(* for any number of sources, series and calls that overlap: the lock of   *)
(* allocate_number, held to the end of the transaction, is what it takes.  *)
THEOREM NumbersAlwaysWhole == LibrarySpec => []NumbersWhole
<1> QED
  BY LibraryInductive, NumbersCounted, PTL

HIDE LibraryAssumption DEF libraryVars

(***************************************************************************)
(* Packs and their evidence (DocumentDelivery)                             *)
(***************************************************************************)

(* The pack that a call is at, and its step.                               *)
At(r, p, step) == call[r] # None /\ call[r].step = step /\ call[r].todo # <<>> /\ Handled(r) = p

(* A mail has been handed over and its transaction is open.                *)
Out(p) == \E r \in Sender : At(r, p, "record")

(* From the checks under the lock to the record, the pack stands still, and *)
(* with it the link that the call has read.                                *)
Sending(r) ==
  LET p == Handled(r) IN
  /\ call[r].todo # <<>> /\ locker[p] = r /\ Channel(p) = "email"
  /\ pack[p].sent = 0 /\ pack[p].generation \notin pack[p].revoked
  /\ call[r].link = pack[p].generation

(* A call is given packs that were issued; who acknowledges has opened.    *)
CallSound(r) ==
  call[r] # None =>
    /\ \A i \in DOMAIN call[r].todo : Issued(call[r].todo[i])
    /\ call[r].step \in {"open", "deliver"} => call[r].todo # <<>>
    /\ call[r].step = "deliver" => pack[Handled(r)].opened > 0
    /\ call[r].step \in {"mail", "record"} => Sending(r)

CallsSound == \A r \in Sender : CallSound(r)

(* Mails are those that are recorded, lost, or about to be either.         *)
MailsCounted ==
  \A p \in Pack :
    mails[p] = lost[p] + IF Out(p) THEN 1
                         ELSE IF Issued(p) /\ Channel(p) = "email" THEN pack[p].sent ELSE 0

(* The inductive invariant: a pack is sent once because who sends it holds *)
(* its row from the check to the end.                                      *)
DeliveryIInv == DeliveryTypeOK /\ CallsSound /\ EvidenceOnce /\ MailsCounted

-----------------------------------------------------------------------------
USE DeliveryAssumption DEF deliveryVars

LEMMA CallFields ==
  ASSUME DeliveryTypeOK, NEW r \in Sender, call[r] # None
  PROVE  /\ call[r] \in Call /\ call[r].todo \in Seq(Pack) /\ call[r].link \in 0..MaxGeneration
         /\ DOMAIN call[r].todo = 1..Len(call[r].todo) /\ Len(call[r].todo) \in Nat
         /\ call[r].todo # <<>> => /\ Handled(r) \in Pack /\ Handled(r) = call[r].todo[1]
                                  /\ 1 \in DOMAIN call[r].todo
<1>1. call[r] \in Call
  BY DEF DeliveryTypeOK
<1> QED
  BY <1>1 DEF Call, Handled

LEMMA EvidenceFields ==
  ASSUME DeliveryTypeOK, NEW p \in Pack, Issued(p)
  PROVE  /\ pack[p] \in Evidence
         /\ pack[p].sent \in Nat /\ pack[p].opened \in Nat /\ pack[p].delivered \in Nat
         /\ pack[p].expired \in BOOLEAN /\ pack[p].generation \in 1..MaxGeneration
         /\ pack[p].revoked \subseteq 1..MaxGeneration
BY DEF DeliveryTypeOK, Issued, Evidence

(* What no step takes back.                                                *)
Kept(p) == Issued(p) => Issued(p)' /\ pack'[p].opened >= pack[p].opened

(* What does not happen to a pack that is being sent.                      *)
Still(p) == /\ locker'[p] = locker[p] /\ pack'[p].sent = pack[p].sent
            /\ pack'[p].generation = pack[p].generation /\ pack'[p].revoked = pack[p].revoked

LEMMA SoundStays ==
  ASSUME DeliveryTypeOK, DeliveryTypeOK', NEW r \in Sender, CallSound(r), call'[r] = call[r],
         \A p \in Pack : Kept(p),
         call[r] # None /\ call[r].step \in {"mail", "record"} => Still(Handled(r))
  PROVE  CallSound(r)'
<1> SUFFICES ASSUME call[r] # None PROVE CallSound(r)'
  BY DEF CallSound
<1>1. /\ \A i \in DOMAIN call[r].todo : call[r].todo[i] \in Pack
      /\ call[r].todo # <<>> => Handled(r) \in Pack /\ Handled(r) = call[r].todo[1] /\ 1 \in DOMAIN call[r].todo
  BY CallFields
<1>2. Handled(r)' = Handled(r)
  BY DEF Handled
<1>3. \A i \in DOMAIN call[r].todo : Issued(call[r].todo[i]) /\ Issued(call[r].todo[i])'
  BY <1>1 DEF CallSound, Kept
<1>4. call[r].step = "deliver" => pack'[Handled(r)].opened > 0
  <2> SUFFICES ASSUME call[r].step = "deliver" PROVE pack'[Handled(r)].opened > 0
    OBVIOUS
  <2>1. Handled(r) \in Pack /\ Issued(Handled(r)) /\ pack[Handled(r)].opened > 0
    BY <1>1, <1>3 DEF CallSound
  <2>2. PICK p \in Pack : p = Handled(r)
    BY <2>1
  <2>3. Issued(p) /\ Kept(p) /\ pack[p].opened \in Nat
    BY <2>1, <2>2, EvidenceFields
  <2>4. pack'[p] \in Evidence /\ pack'[p].opened >= pack[p].opened
    BY <2>3 DEF Kept, DeliveryTypeOK, Issued
  <2> QED
    BY <2>1, <2>2, <2>3, <2>4 DEF Evidence
<1>5. call[r].step \in {"mail", "record"} => Sending(r)'
  BY <1>2 DEF CallSound, Sending, Still
<1> QED
  BY <1>2, <1>3, <1>4, <1>5 DEF CallSound

(* Whether a mail is out depends on the calls at their record alone.       *)
LEMMA OutStays ==
  ASSUME NEW r \in Sender, NEW p \in Pack, \A q \in Sender \ {r} : call'[q] = call[q],
         At(r, p, "record") <=> At(r, p, "record")'
  PROVE  Out(p) <=> Out(p)'
<1>1. \A q \in Sender : At(q, p, "record") <=> At(q, p, "record")'
  BY DEF At, Handled
<1> QED
  BY <1>1 DEF Out

LEMMA CountStays ==
  ASSUME DeliveryTypeOK, DeliveryTypeOK', NEW p \in Pack, MailsCounted,
         Out(p) <=> Out(p)', mails'[p] = mails[p], lost'[p] = lost[p],
         Issued(p) => Issued(p)' /\ (Channel(p) = "email" => pack'[p].sent = pack[p].sent),
         ~Issued(p) /\ Issued(p)' => pack'[p].sent = 0
  PROVE  mails'[p] = lost'[p] + IF Out(p)' THEN 1
                                ELSE IF Issued(p)' /\ Channel(p) = "email" THEN pack'[p].sent ELSE 0
BY DEF MailsCounted
(* What keeps the invariant: calls that are new, or go on undisturbed.      *)
LEMMA DeliveryKept ==
  ASSUME DeliveryIInv, DeliveryTypeOK', EvidenceOnce', \A p \in Pack : Kept(p),
         \A q \in Sender :
           \/ CallSound(q)'
           \/ /\ call'[q] = call[q]
              /\ call[q] # None /\ call[q].step \in {"mail", "record"} => Still(Handled(q)),
         \A p \in Pack : mails'[p] = lost'[p] + IF Out(p)' THEN 1
                                ELSE IF Issued(p)' /\ Channel(p) = "email" THEN pack'[p].sent ELSE 0
  PROVE  DeliveryIInv'
<1>1. \A q \in Sender : CallSound(q)'
  BY SoundStays DEF DeliveryIInv, CallsSound
<1> QED
  BY <1>1 DEF DeliveryIInv, CallsSound, MailsCounted

(* An operator or time changes one pack, under its lock or only its expiry. *)
LEMMA PackKept ==
  ASSUME DeliveryIInv, NEW p \in Pack, Issued(p), NEW row \in Evidence,
         pack' = [pack EXCEPT ![p] = row], UNCHANGED <<locker, call, mails, mailed, lost>>,
         \/ Unlocked(p)
         \/ row.sent = pack[p].sent /\ row.generation = pack[p].generation /\ row.revoked = pack[p].revoked,
         row.sent <= 1, row.opened <= 1, row.delivered <= 1,
         row.delivered > 0 => row.sent > 0 \/ row.opened > 0,
         row.opened >= pack[p].opened, Channel(p) = "email" => row.sent = pack[p].sent
  PROVE  DeliveryIInv'
<1>1. DeliveryTypeOK /\ CallsSound /\ EvidenceOnce /\ MailsCounted
  BY DEF DeliveryIInv
<1>2. pack'[p] = row /\ row # None /\ \A x \in Pack \ {p} : pack'[x] = pack[x]
  BY <1>1 DEF DeliveryTypeOK
<1>3. DeliveryTypeOK'
  BY <1>1 DEF DeliveryTypeOK
<1>4. EvidenceOnce'
  BY <1>1, <1>2 DEF EvidenceOnce, Issued
<1>5. \A x \in Pack : Kept(x)
  <2>1. \A x \in Pack : Issued(x) => pack[x].opened \in Nat
    BY <1>1, EvidenceFields
  <2> QED
    BY <2>1, <1>2 DEF Kept, Issued
<1>6. ASSUME NEW q \in Sender, call[q] # None, call[q].step \in {"mail", "record"}
      PROVE  Still(Handled(q))
  <2>1. Handled(q) \in Pack /\ locker[Handled(q)] = q /\ q # None
    BY <1>1, <1>6, CallFields DEF CallsSound, CallSound, Sending
  <2> QED
    BY <2>1, <1>2 DEF Still, Unlocked
<1>7. ASSUME NEW x \in Pack
      PROVE  mails'[x] = lost'[x] + IF Out(x)' THEN 1
                           ELSE IF Issued(x)' /\ Channel(x) = "email" THEN pack'[x].sent ELSE 0
  <2>1. Out(x) <=> Out(x)'
    BY DEF Out, At, Handled
  <2> QED
    BY <2>1, <1>1, <1>2, <1>3, CountStays DEF Issued
<1> QED
  BY <1>3, <1>4, <1>5, <1>6, <1>7, DeliveryKept

(* The columns of a pack are changed one at a time.                        *)
SameBut(e, f, changed) ==
  /\ e \in Evidence
  /\ "sent" \notin changed => e.sent = f.sent
  /\ "opened" \notin changed => e.opened = f.opened
  /\ "delivered" \notin changed => e.delivered = f.delivered
  /\ "generation" \notin changed => e.generation = f.generation
  /\ "revoked" \notin changed => e.revoked = f.revoked

LEMMA Columns ==
  ASSUME NEW e \in Evidence, NEW n \in Nat, NEW g \in 1..MaxGeneration, NEW gs \in SUBSET (1..MaxGeneration)
  PROVE  /\ SameBut([e EXCEPT !.sent = n], e, {"sent"}) /\ [e EXCEPT !.sent = n].sent = n
         /\ SameBut([e EXCEPT !.opened = n], e, {"opened"}) /\ [e EXCEPT !.opened = n].opened = n
         /\ SameBut([e EXCEPT !.delivered = n], e, {"delivered"}) /\ [e EXCEPT !.delivered = n].delivered = n
         /\ SameBut([e EXCEPT !.revoked = gs], e, {"revoked"})
         /\ SameBut([e EXCEPT !.expired = TRUE], e, {})
         /\ SameBut([e EXCEPT !.generation = g, !.expired = FALSE], e, {"generation"})
<1>1. SameBut([e EXCEPT !.sent = n], e, {"sent"}) /\ [e EXCEPT !.sent = n].sent = n
  BY DEF SameBut, Evidence
<1>2. SameBut([e EXCEPT !.opened = n], e, {"opened"}) /\ [e EXCEPT !.opened = n].opened = n
  BY DEF SameBut, Evidence
<1>3. SameBut([e EXCEPT !.delivered = n], e, {"delivered"}) /\ [e EXCEPT !.delivered = n].delivered = n
  BY DEF SameBut, Evidence
<1>4. SameBut([e EXCEPT !.revoked = gs], e, {"revoked"})
  BY DEF SameBut, Evidence
<1>5. SameBut([e EXCEPT !.expired = TRUE], e, {})
  BY DEF SameBut, Evidence
<1>6. SameBut([e EXCEPT !.generation = g, !.expired = FALSE], e, {"generation"})
  BY DEF SameBut, Evidence
<1> QED
  BY <1>1, <1>2, <1>3, <1>4, <1>5, <1>6

LEMMA Marks ==
  ASSUME NEW e \in Evidence
  PROVE  /\ SameBut([e EXCEPT !.sent = 1], e, {"sent"}) /\ [e EXCEPT !.sent = 1].sent = 1
         /\ SameBut([e EXCEPT !.delivered = 1], e, {"delivered"}) /\ [e EXCEPT !.delivered = 1].delivered = 1
<1>1. SameBut([e EXCEPT !.sent = 1], e, {"sent"}) /\ [e EXCEPT !.sent = 1].sent = 1
  BY DEF SameBut, Evidence
<1>2. SameBut([e EXCEPT !.delivered = 1], e, {"delivered"}) /\ [e EXCEPT !.delivered = 1].delivered = 1
  BY DEF SameBut, Evidence
<1> QED
  BY <1>1, <1>2

LEMMA EvidenceBits ==
  ASSUME DeliveryIInv, NEW p \in Pack, Issued(p)
  PROVE  /\ pack[p] \in Evidence
         /\ pack[p].generation \in 1..MaxGeneration /\ pack[p].revoked \in SUBSET (1..MaxGeneration)
         /\ pack[p].sent \in {0, 1} /\ pack[p].opened \in {0, 1} /\ pack[p].delivered \in {0, 1}
         /\ pack[p].delivered = 1 => pack[p].sent = 1 \/ pack[p].opened = 1
BY EvidenceFields DEF DeliveryIInv, EvidenceOnce

LEMMA OperatorsKeep ==
  ASSUME DeliveryIInv, NEW p \in Pack,
         RevokeShare(p) \/ ReissueShare(p) \/ ExpireShare(p) \/ ConfirmSent(p) \/ MarkDelivered(p)
  PROVE  DeliveryIInv'
<1>1. Issued(p) /\ UNCHANGED <<locker, call, mails, mailed, lost>>
  BY DEF RevokeShare, ReissueShare, ExpireShare, ConfirmSent, MarkDelivered
<1>2. /\ pack[p] \in Evidence
      /\ pack[p].sent \in {0, 1} /\ pack[p].opened \in {0, 1} /\ pack[p].delivered \in {0, 1}
      /\ pack[p].delivered = 1 => pack[p].sent = 1 \/ pack[p].opened = 1
  BY <1>1, EvidenceBits
<1>3. pack[p].generation \in 1..MaxGeneration /\ pack[p].revoked \subseteq 1..MaxGeneration
  BY <1>2 DEF Evidence
<1>4. ASSUME NEW row, pack' = [pack EXCEPT ![p] = row],
             \/ Unlocked(p) /\ SameBut(row, pack[p], {"generation", "revoked"})
             \/ SameBut(row, pack[p], {})
             \/ Unlocked(p) /\ SameBut(row, pack[p], {"sent"}) /\ row.sent = 1 /\ Channel(p) # "email"
             \/ /\ Unlocked(p) /\ SameBut(row, pack[p], {"delivered"}) /\ row.delivered = 1
                /\ pack[p].sent > 0 \/ pack[p].opened > 0
      PROVE  DeliveryIInv'
  <2>1. /\ row \in Evidence /\ row.opened = pack[p].opened
        /\ row.sent \in {0, 1} /\ row.delivered \in {0, 1}
        /\ Channel(p) = "email" => row.sent = pack[p].sent
        /\ row.delivered = 1 => row.sent = 1 \/ row.opened = 1
    BY <1>2, <1>4 DEF SameBut
  <2>2. \/ Unlocked(p)
        \/ row.sent = pack[p].sent /\ row.generation = pack[p].generation /\ row.revoked = pack[p].revoked
    BY <1>4 DEF SameBut
  <2>3. /\ row.sent <= 1 /\ row.opened <= 1 /\ row.delivered <= 1 /\ row.opened >= pack[p].opened
        /\ row.delivered > 0 => row.sent > 0 \/ row.opened > 0
    BY <2>1, <1>2
  <2> QED
    BY <1>1, <1>4, <2>1, <2>2, <2>3, PackKept
<1>5. CASE RevokeShare(p)
  <2> DEFINE gs  == pack[p].revoked \cup {pack[p].generation}
             row == [pack[p] EXCEPT !.revoked = gs]
  <2>1. pack' = [pack EXCEPT ![p] = row] /\ Unlocked(p)
    BY <1>5 DEF RevokeShare
  <2>2. gs \in SUBSET (1..MaxGeneration)
    BY <1>3
  <2>3. SameBut(row, pack[p], {"revoked"})
    <3> HIDE DEF gs
    <3> QED
      BY <2>2, <1>2, <1>3, Columns
  <2> HIDE DEF row
  <2>4. SameBut(row, pack[p], {"generation", "revoked"})
    BY <2>3 DEF SameBut
  <2> QED
    BY <1>4, <2>1, <2>4
<1>6. CASE ReissueShare(p)
  <2> DEFINE row == [pack[p] EXCEPT !.generation = pack[p].generation + 1, !.expired = FALSE]
  <2>1. pack' = [pack EXCEPT ![p] = row] /\ Unlocked(p)
    BY <1>6 DEF ReissueShare
  <2>2. pack[p].generation + 1 \in 1..MaxGeneration
    BY <1>3, <1>6 DEF ReissueShare
  <2>3. SameBut(row, pack[p], {"generation"})
    BY <2>2, <1>2, <1>3, Columns
  <2> HIDE DEF row
  <2>4. SameBut(row, pack[p], {"generation", "revoked"})
    BY <2>3 DEF SameBut
  <2> QED
    BY <1>4, <2>1, <2>4
<1>7. CASE ExpireShare(p)
  <2> DEFINE row == [pack[p] EXCEPT !.expired = TRUE]
  <2>1. pack' = [pack EXCEPT ![p] = row]
    BY <1>7 DEF ExpireShare
  <2>2. SameBut(row, pack[p], {})
    BY <1>2, <1>3, Columns
  <2> HIDE DEF row
  <2> QED
    BY <1>4, <2>1, <2>2
<1>8. CASE ConfirmSent(p)
  <2> DEFINE row == [pack[p] EXCEPT !.sent = 1]
  <2>1. pack' = [pack EXCEPT ![p] = row] /\ Unlocked(p) /\ Channel(p) # "email"
    BY <1>8, <1>2 DEF ConfirmSent, Once
  <2>2. SameBut(row, pack[p], {"sent"}) /\ row.sent = 1
    BY <1>2, <1>3, Columns
  <2> HIDE DEF row
  <2> QED
    BY <1>4, <2>1, <2>2
<1>9. CASE MarkDelivered(p)
  <2> DEFINE row == [pack[p] EXCEPT !.delivered = 1]
  <2>1. pack' = [pack EXCEPT ![p] = row] /\ Unlocked(p) /\ (pack[p].sent > 0 \/ pack[p].opened > 0)
    BY <1>9, <1>2 DEF MarkDelivered, Once
  <2>2. SameBut(row, pack[p], {"delivered"}) /\ row.delivered = 1
    BY <1>2, <1>3, Columns
  <2> HIDE DEF row
  <2> QED
    BY <1>4, <2>1, <2>2
<1> QED
  BY <1>5, <1>6, <1>7, <1>8, <1>9

LEMMA SendingFacts ==
  ASSUME DeliveryIInv, NEW q \in Sender, call[q] # None, call[q].step \in {"mail", "record"}
  PROVE  /\ Handled(q) \in Pack /\ locker[Handled(q)] = q /\ q # None /\ call[q].todo # <<>>
         /\ Channel(Handled(q)) = "email" /\ Issued(Handled(q)) /\ pack[Handled(q)].sent = 0
         /\ pack[Handled(q)].generation \notin pack[Handled(q)].revoked
         /\ call[q].link = pack[Handled(q)].generation
         /\ At(q, Handled(q), call[q].step)
<1>1. DeliveryTypeOK /\ CallSound(q)
  BY DEF DeliveryIInv, CallsSound
<1>2. Sending(q) /\ \A i \in DOMAIN call[q].todo : Issued(call[q].todo[i])
  BY <1>1 DEF CallSound
<1> QED
  BY <1>1, <1>2, CallFields DEF Sending, At

(* A call goes on, and no pack changes.                                    *)
LEMMA CallKept ==
  ASSUME DeliveryIInv, NEW r \in Sender, NEW c \in Call \cup {None},
         call' = [call EXCEPT ![r] = c], pack' = pack, CallSound(r)',
         locker' \in [Pack -> Sender \cup {None}],
         \A p \in Pack : locker[p] \in Sender \ {r} => locker'[p] = locker[p],
         mails' \in [Pack -> Nat], mailed' \in [Pack -> 0..MaxGeneration], lost' \in [Pack -> 0..MaxLost],
         \A p \in Pack :
           \/ (At(r, p, "record") <=> At(r, p, "record")') /\ mails'[p] = mails[p] /\ lost'[p] = lost[p]
           \/ /\ At(r, p, "record")' /\ ~Out(p) /\ (Issued(p) => pack[p].sent = 0)
              /\ mails'[p] = mails[p] + 1 /\ lost'[p] = lost[p]
           \/ /\ Out(p) /\ ~Out(p)' /\ (Issued(p) => pack[p].sent = 0)
              /\ mails'[p] = mails[p] /\ lost'[p] = lost[p] + 1
  PROVE  DeliveryIInv'
<1>1. DeliveryTypeOK /\ CallsSound /\ EvidenceOnce /\ MailsCounted
  BY DEF DeliveryIInv
<1>2. call'[r] = c /\ \A q \in Sender \ {r} : call'[q] = call[q]
  BY <1>1 DEF DeliveryTypeOK
<1>3. DeliveryTypeOK'
  BY <1>1 DEF DeliveryTypeOK
<1>4. EvidenceOnce'
  BY <1>1 DEF EvidenceOnce, Issued
<1>5. \A x \in Pack : Kept(x)
  <2>1. \A x \in Pack : Issued(x) => pack[x].opened \in Nat
    BY <1>1, EvidenceFields
  <2> QED
    BY <2>1 DEF Kept, Issued
<1>6. ASSUME NEW q \in Sender \ {r}, call[q] # None, call[q].step \in {"mail", "record"}
      PROVE  Still(Handled(q))
  BY <1>6, SendingFacts DEF Still
<1>7. ASSUME NEW p \in Pack
      PROVE  mails'[p] = lost'[p] + IF Out(p)' THEN 1
                           ELSE IF Issued(p)' /\ Channel(p) = "email" THEN pack'[p].sent ELSE 0
  <2>1. /\ mails[p] \in Nat /\ lost[p] \in Nat
        /\ mails[p] = lost[p] + IF Out(p) THEN 1
                           ELSE IF Issued(p) /\ Channel(p) = "email" THEN pack[p].sent ELSE 0
    BY <1>1 DEF DeliveryTypeOK, MailsCounted
  <2>2. ASSUME At(r, p, "record") <=> At(r, p, "record")'
        PROVE  Out(p) <=> Out(p)'
    BY <1>2, <2>2, OutStays
  <2>3. At(r, p, "record")' => Out(p)'
    BY DEF Out
  <2>4. Issued(p)' <=> Issued(p)
    BY DEF Issued
  <2> QED
    BY <2>1, <2>2, <2>3, <2>4
<1> QED
  BY <1>2, <1>3, <1>4, <1>5, <1>6, <1>7, DeliveryKept

(* After a pack the call goes on with the next one, which it has to check. *)
LEMMA NextPackSound ==
  ASSUME DeliveryIInv, NEW r \in Sender, call[r] # None, call[r].todo # <<>>, NextPack(r),
         \A p \in Pack : Issued(p) => Issued(p)'
  PROVE  \E c \in Call \cup {None} :
           /\ call' = [call EXCEPT ![r] = c] /\ CallSound(r)'
           /\ \A p \in Pack : ~At(r, p, "record")'
<1> DEFINE c == IF Len(call[r].todo) = 1 THEN None
                ELSE [call[r] EXCEPT !.todo = Tail(call[r].todo), !.link = 0, !.step = "check"]
<1>1. /\ DeliveryTypeOK /\ call[r] \in Call /\ call[r].todo \in Seq(Pack) /\ Len(call[r].todo) \in Nat
      /\ \A i \in DOMAIN call[r].todo : Issued(call[r].todo[i])
  BY CallFields DEF DeliveryIInv, CallsSound, CallSound
<1>2. /\ Tail(call[r].todo) \in Seq(Pack)
      /\ \A i \in DOMAIN Tail(call[r].todo) :
           Tail(call[r].todo)[i] \in Pack /\ Issued(Tail(call[r].todo)[i])
  BY <1>1
<1>3. c \in Call \cup {None} /\ (c # None => c.todo = Tail(call[r].todo) /\ c.step = "check")
  <2>1. 0 \in 0..MaxGeneration
    BY SMT
  <2>2. CASE Len(call[r].todo) = 1
    BY <2>2
  <2>3. CASE Len(call[r].todo) # 1
    <3>1. [call[r] EXCEPT !.todo = Tail(call[r].todo), !.link = 0, !.step = "check"] \in Call
      BY <1>1, <1>2, <2>1 DEF Call
    <3> QED
      BY <3>1, <2>3, <1>1 DEF Call
  <2> QED
    BY <2>2, <2>3
<1>4. call' = [call EXCEPT ![r] = c]
  BY DEF NextPack
<1> HIDE DEF c
<1>7. call'[r] = c
  BY <1>1, <1>4 DEF DeliveryTypeOK
<1>5. \A i \in DOMAIN Tail(call[r].todo) : pack'[Tail(call[r].todo)[i]] # None
  <2>1. ASSUME NEW i \in DOMAIN Tail(call[r].todo), NEW p, p = Tail(call[r].todo)[i]
        PROVE  pack'[p] # None
    BY <2>1, <1>2 DEF Issued
  <2> QED
    BY <2>1, <1>2
<1>6. CallSound(r)'
  BY <1>3, <1>5, <1>7 DEF CallSound, Issued
<1>8. \A p \in Pack : ~At(r, p, "record")'
  BY <1>3, <1>7 DEF At
<1> QED
  BY <1>3, <1>4, <1>6, <1>8
LEMMA DispatchStarts ==
  ASSUME DeliveryIInv, NEW r \in Sender, NEW batch \in Batches, StartDispatch(r, batch)
  PROVE  DeliveryIInv'
<1> DEFINE c == [doing |-> "dispatch", todo |-> batch, link |-> 0, step |-> "check"]
<1>1. c \in Call /\ DeliveryTypeOK /\ c # None
  BY DEF Call, DeliveryIInv
<1>2. call' = [call EXCEPT ![r] = c] /\ call'[r] = c /\ call[r] = None
  BY <1>1 DEF StartDispatch, DeliveryTypeOK
<1>3. CallSound(r)'
  BY <1>2 DEF StartDispatch, CallSound, Issued
<1>4. \A p \in Pack : ~At(r, p, "record") /\ ~At(r, p, "record")'
  BY <1>2 DEF At
<1> QED
  BY <1>1, <1>2, <1>3, <1>4, CallKept DEF StartDispatch, DeliveryTypeOK

LEMMA ShareResolves ==
  ASSUME DeliveryIInv, NEW r \in Sender, NEW p \in Pack, NEW generation \in 1..MaxGeneration,
         NEW doing \in {"open", "acknowledge"}, ResolveShare(r, p, generation, doing)
  PROVE  DeliveryIInv'
<1> DEFINE c == [doing |-> doing, todo |-> <<p>>, link |-> 0, step |-> "open"]
<1>0. <<p>> \in Seq(Pack)
  OBVIOUS
<1>1. c \in Call /\ DeliveryTypeOK /\ c # None
  <2>1. c \in Call
    BY <1>0 DEF Call
  <2> QED
    BY <2>1 DEF DeliveryIInv
<1>2. call' = [call EXCEPT ![r] = c] /\ call'[r] = c /\ call[r] = None
  BY <1>1 DEF ResolveShare, DeliveryTypeOK
<1>3. CallSound(r)'
  BY <1>2 DEF ResolveShare, CallSound, Issued
<1>4. \A x \in Pack : ~At(r, x, "record") /\ ~At(r, x, "record")'
  BY <1>2 DEF At
<1> QED
  BY <1>1, <1>2, <1>3, <1>4, CallKept DEF ResolveShare, DeliveryTypeOK

LEMMA CheckKeeps ==
  ASSUME DeliveryIInv, NEW r \in Sender, CheckPack(r)
  PROVE  DeliveryIInv'
<1>1. /\ DeliveryTypeOK /\ call[r] # None /\ call[r].todo # <<>> /\ call[r].step = "check"
      /\ UNCHANGED <<pack, locker, mails, mailed, lost>>
  BY DEF CheckPack, Dispatching, DeliveryIInv
<1>2. \A p \in Pack : ~At(r, p, "record") /\ (Issued(p) => Issued(p)')
  BY <1>1 DEF At, Issued
<1>3. CASE NextPack(r)
  <2>1. PICK c \in Call \cup {None} : /\ call' = [call EXCEPT ![r] = c] /\ CallSound(r)'
                                      /\ \A p \in Pack : ~At(r, p, "record")'
    BY <1>1, <1>2, <1>3, NextPackSound
  <2> QED
    BY <2>1, <1>1, <1>2, CallKept DEF DeliveryTypeOK
<1>4. CASE ReadLink(r, "lock")
  <2> DEFINE c == [call[r] EXCEPT !.link = pack[Handled(r)].generation, !.step = "lock"]
  <2>0. pack[Handled(r)].generation \in 0..MaxGeneration
    BY <1>1, CallFields, EvidenceFields DEF DeliveryIInv, CallsSound, CallSound
  <2>1. c \in Call /\ c.todo = call[r].todo /\ c.step = "lock"
    BY <1>1, <2>0, CallFields DEF Call
  <2>2. call' = [call EXCEPT ![r] = c] /\ call'[r] = c
    BY <1>1, <1>4 DEF DeliveryTypeOK, ReadLink
  <2> HIDE DEF c
  <2>3. CallSound(r)'
    BY <1>1, <2>1, <2>2 DEF DeliveryIInv, CallsSound, CallSound, Issued
  <2>4. \A p \in Pack : ~At(r, p, "record")'
    BY <2>1, <2>2 DEF At
  <2> QED
    BY <2>1, <2>2, <2>3, <2>4, <1>1, <1>2, CallKept DEF DeliveryTypeOK
<1> QED
  BY <1>3, <1>4 DEF CheckPack

LEMMA LockKeeps ==
  ASSUME DeliveryIInv, NEW r \in Sender, LockPack(r)
  PROVE  DeliveryIInv'
<1> DEFINE p == Handled(r)
<1>1. /\ DeliveryTypeOK /\ call[r] # None /\ call[r].todo # <<>> /\ call[r].step = "lock"
      /\ UNCHANGED <<pack, mails, mailed, lost>> /\ p \in Pack /\ Channel(p) = "email" /\ Unlocked(p)
      /\ Issued(p)
  BY CallFields DEF LockPack, Dispatching, DeliveryIInv, CallsSound, CallSound
<1>2. \A x \in Pack : ~At(r, x, "record") /\ (Issued(x) => Issued(x)')
  BY <1>1 DEF At, Issued
<1>3. CASE NextPack(r) /\ UNCHANGED locker
  <2>1. PICK c \in Call \cup {None} : /\ call' = [call EXCEPT ![r] = c] /\ CallSound(r)'
                                      /\ \A x \in Pack : ~At(r, x, "record")'
    BY <1>1, <1>2, <1>3, NextPackSound
  <2> QED
    BY <2>1, <1>1, <1>2, <1>3, CallKept DEF DeliveryTypeOK
<1>4. CASE ~Refused(p) /\ ReadLink(r, "mail") /\ locker' = [locker EXCEPT ![p] = r]
  <2> DEFINE c == [call[r] EXCEPT !.link = pack[p].generation, !.step = "mail"]
  <2>0. pack[p].generation \in 0..MaxGeneration
    BY <1>1, EvidenceFields
  <2>1. c \in Call /\ c.todo = call[r].todo /\ c.step = "mail" /\ c.link = pack[p].generation
    BY <1>1, <2>0, CallFields DEF Call
  <2>2. call' = [call EXCEPT ![r] = c] /\ call'[r] = c
    BY <1>1, <1>4 DEF DeliveryTypeOK, ReadLink
  <2> HIDE DEF c
  <2>3. Handled(r)' = p
    BY <2>1, <2>2 DEF Handled
  <2>4. pack[p].sent = 0 /\ pack[p].generation \notin pack[p].revoked
    BY <1>1, <1>4, EvidenceFields DEF Refused, CurrentLive, Live
  <2>5. locker'[p] = r /\ locker' \in [Pack -> Sender \cup {None}] /\ \A x \in Pack \ {p} : locker'[x] = locker[x]
    BY <1>1, <1>4 DEF DeliveryTypeOK
  <2> HIDE DEF p
  <2>6. Sending(r)'
    BY <2>1, <2>2, <2>3, <2>4, <2>5, <1>1 DEF Sending
  <2>7. CallSound(r)'
    BY <1>1, <2>1, <2>2, <2>6 DEF DeliveryIInv, CallsSound, CallSound, Issued
  <2>8. \A x \in Pack : ~At(r, x, "record")'
    BY <2>1, <2>2 DEF At
  <2>9. \A x \in Pack : locker[x] \in Sender \ {r} => locker'[x] = locker[x]
    BY <2>5, <1>1 DEF Unlocked
  <2> QED
    BY <2>1, <2>2, <2>5, <2>7, <2>8, <2>9, <1>1, <1>2, CallKept DEF DeliveryTypeOK
<1> QED
  BY <1>3, <1>4 DEF LockPack

LEMMA MailKeeps ==
  ASSUME DeliveryIInv, NEW r \in Sender, SendMail(r)
  PROVE  DeliveryIInv'
<1>1. PICK p \in Pack : p = Handled(r)
  BY SendingFacts DEF SendMail, Dispatching
<1>2. /\ DeliveryTypeOK /\ call[r] # None /\ call[r].todo # <<>> /\ call[r].step = "mail"
      /\ UNCHANGED <<pack, locker, lost>> /\ Issued(p) /\ locker[p] = r /\ pack[p].sent = 0
      /\ mails' = [mails EXCEPT ![p] = @ + 1] /\ Sending(r)
      /\ mailed' = [mailed EXCEPT ![p] = call[r].link]
  BY <1>1, SendingFacts DEF SendMail, Dispatching, DeliveryIInv, CallsSound, CallSound
<1> DEFINE c == [call[r] EXCEPT !.step = "record"]
<1>3. c \in Call /\ c.todo = call[r].todo /\ c.step = "record" /\ c.link = call[r].link
  BY <1>2, CallFields DEF Call
<1>4. call' = [call EXCEPT ![r] = c] /\ call'[r] = c
  BY <1>2 DEF DeliveryTypeOK, SendMail
<1> HIDE DEF c
<1>5. Handled(r)' = p /\ c # None
  BY <1>1, <1>3, <1>4 DEF Handled
<1>6. CallSound(r)'
  BY <1>1, <1>2, <1>3, <1>4, <1>5 DEF DeliveryIInv, CallsSound, CallSound, Issued, Sending
<1>7. At(r, p, "record")' /\ \A x \in Pack \ {p} : ~At(r, x, "record") /\ ~At(r, x, "record")'
  BY <1>2, <1>3, <1>4, <1>5 DEF At
<1>8. ~Out(p)
  <2> SUFFICES ASSUME NEW q \in Sender, At(q, p, "record") PROVE FALSE
    BY DEF Out
  <2>1. call[q] # None /\ call[q].step = "record" /\ Handled(q) = p
    BY DEF At
  <2>2. locker[p] = q
    BY <2>1, SendingFacts
  <2> QED
    BY <2>1, <2>2, <1>2
<1>9. /\ mails' \in [Pack -> Nat] /\ mails'[p] = mails[p] + 1 /\ \A x \in Pack \ {p} : mails'[x] = mails[x]
      /\ mailed' \in [Pack -> 0..MaxGeneration]
  BY <1>2, CallFields DEF DeliveryTypeOK
<1>10. /\ locker' \in [Pack -> Sender \cup {None}] /\ lost' \in [Pack -> 0..MaxLost]
       /\ \A x \in Pack : locker'[x] = locker[x] /\ lost'[x] = lost[x]
  BY <1>2 DEF DeliveryTypeOK
<1>11. \A x \in Pack :
         \/ (At(r, x, "record") <=> At(r, x, "record")') /\ mails'[x] = mails[x] /\ lost'[x] = lost[x]
         \/ /\ At(r, x, "record")' /\ ~Out(x) /\ (Issued(x) => pack[x].sent = 0)
            /\ mails'[x] = mails[x] + 1 /\ lost'[x] = lost[x]
  BY <1>2, <1>7, <1>8, <1>9, <1>10
<1> QED
  BY <1>2, <1>3, <1>4, <1>6, <1>9, <1>10, <1>11, CallKept

(* Only the call that holds the pack has a mail of it out.                 *)
LEMMA OutIsMine ==
  ASSUME DeliveryIInv, NEW r \in Sender, NEW p \in Pack, locker[p] \in {None, r},
         \A q \in Sender \ {r} : call'[q] = call[q], ~At(r, p, "record")'
  PROVE  ~Out(p)'
<1> SUFFICES ASSUME NEW q \in Sender, At(q, p, "record")' PROVE FALSE
  BY DEF Out
<1>1. q # r /\ call'[q] = call[q]
  OBVIOUS
<1>2. call[q] # None /\ call[q].step = "record" /\ Handled(q) = p
  BY <1>1 DEF At, Handled
<1>3. locker[p] = q /\ q # None
  BY <1>2, SendingFacts
<1> QED
  BY <1>1, <1>3

LEMMA UnsentKeep ==
  ASSUME DeliveryIInv, NEW r \in Sender, RefuseMail(r) \/ LoseMailed(r)
  PROVE  DeliveryIInv'
<1>1. PICK p \in Pack : p = Handled(r)
  BY SendingFacts DEF RefuseMail, LoseMailed, Dispatching
<1>2. /\ DeliveryTypeOK /\ call[r] # None /\ call[r].todo # <<>>
      /\ UNCHANGED <<pack, mails, mailed>> /\ locker[p] = r /\ pack[p].sent = 0
      /\ locker' = [locker EXCEPT ![p] = None] /\ NextPack(r)
  BY <1>1, SendingFacts DEF RefuseMail, LoseMailed, Dispatching, DeliveryIInv
<1>3. \A x \in Pack : Issued(x) => Issued(x)'
  BY <1>2 DEF Issued
<1>4. PICK c \in Call \cup {None} : /\ call' = [call EXCEPT ![r] = c] /\ CallSound(r)'
                                    /\ \A x \in Pack : ~At(r, x, "record")'
  BY <1>2, <1>3, NextPackSound
<1>5. \A q \in Sender \ {r} : call'[q] = call[q]
  BY <1>2, <1>4 DEF DeliveryTypeOK
<1>6. ~Out(p)'
  BY <1>2, <1>4, <1>5, OutIsMine
<1>7. /\ locker' \in [Pack -> Sender \cup {None}]
      /\ \A x \in Pack : locker[x] \in Sender \ {r} => locker'[x] = locker[x]
  BY <1>2 DEF DeliveryTypeOK
<1>8. \A x \in Pack \ {p} : ~At(r, x, "record")
  BY <1>1 DEF At
<1>9. CASE RefuseMail(r)
  <2>1. ~At(r, p, "record") /\ lost' = lost
    BY <1>9 DEF At, RefuseMail, Dispatching
  <2>2. \A x \in Pack : /\ At(r, x, "record") <=> At(r, x, "record")'
                        /\ mails'[x] = mails[x] /\ lost'[x] = lost[x]
    BY <2>1, <1>2, <1>4, <1>8
  <2>3. mails' \in [Pack -> Nat] /\ lost' \in [Pack -> 0..MaxLost] /\ pack' = pack
        /\ mailed' \in [Pack -> 0..MaxGeneration]
    BY <2>1, <1>2 DEF DeliveryTypeOK
  <2> QED
    BY <2>2, <2>3, <1>4, <1>7, CallKept
<1>10. CASE LoseMailed(r)
  <2>1. Out(p)
    BY <1>1, <1>2, <1>10 DEF At, LoseMailed, Dispatching, Out
  <2>2. /\ lost' \in [Pack -> 0..MaxLost] /\ lost'[p] = lost[p] + 1
        /\ \A x \in Pack \ {p} : lost'[x] = lost[x]
    <3>1. lost[p] + 1 \in 0..MaxLost /\ lost' = [lost EXCEPT ![p] = lost[p] + 1]
      BY <1>1, <1>2, <1>10 DEF LoseMailed, DeliveryTypeOK
    <3> QED
      BY <3>1, <1>2 DEF DeliveryTypeOK
  <2>3. \A x \in Pack :
          \/ /\ At(r, x, "record") <=> At(r, x, "record")'
             /\ mails'[x] = mails[x] /\ lost'[x] = lost[x]
          \/ /\ Out(x) /\ ~Out(x)' /\ (Issued(x) => pack[x].sent = 0)
             /\ mails'[x] = mails[x] /\ lost'[x] = lost[x] + 1
    BY <2>1, <2>2, <1>2, <1>4, <1>6, <1>8
  <2>4. mails' \in [Pack -> Nat] /\ pack' = pack /\ mailed' \in [Pack -> 0..MaxGeneration]
    BY <1>2 DEF DeliveryTypeOK
  <2> QED
    BY <2>2, <2>3, <2>4, <1>4, <1>7, CallKept
<1> QED
  BY <1>9, <1>10

LEMMA DropKeeps ==
  ASSUME DeliveryIInv, NEW r \in Sender, DropCall(r)
  PROVE  DeliveryIInv'
<1>1. /\ DeliveryTypeOK /\ call' = [call EXCEPT ![r] = None] /\ call'[r] = None
      /\ UNCHANGED <<pack, mails, mailed, lost>>
      /\ locker' = [p \in Pack |-> IF locker[p] = r THEN None ELSE locker[p]]
      /\ call[r].step # "record"
  BY DEF DropCall, DeliveryIInv, DeliveryTypeOK
<1>2. CallSound(r)' /\ \A p \in Pack : ~At(r, p, "record") /\ ~At(r, p, "record")'
  BY <1>1 DEF CallSound, At
<1>3. /\ locker' \in [Pack -> Sender \cup {None}]
      /\ \A p \in Pack : locker[p] \in Sender \ {r} => locker'[p] = locker[p]
  BY <1>1 DEF DeliveryTypeOK
<1> QED
  BY <1>1, <1>2, <1>3, CallKept DEF DeliveryTypeOK

(* A call adds evidence to a pack that no other call holds.                *)
LEMMA RecordKept ==
  ASSUME DeliveryIInv, NEW r \in Sender, NEW c \in Call \cup {None}, call' = [call EXCEPT ![r] = c],
         NEW p \in Pack, Issued(p), NEW row \in Evidence, pack' = [pack EXCEPT ![p] = row],
         UNCHANGED <<mails, mailed, lost>>, CallSound(r)',
         locker[p] \in {None, r}, locker'[p] \in {None, r}, locker' \in [Pack -> Sender \cup {None}],
         \A x \in Pack \ {p} : locker'[x] = locker[x],
         row.sent <= 1, row.opened <= 1, row.delivered <= 1,
         row.delivered > 0 => row.sent > 0 \/ row.opened > 0, row.opened >= pack[p].opened,
         \A x \in Pack : ~At(r, x, "record")', \A x \in Pack \ {p} : ~At(r, x, "record"),
         IF At(r, p, "record") THEN row.sent = 1 ELSE Channel(p) = "email" => row.sent = pack[p].sent
  PROVE  DeliveryIInv'
<1>1. DeliveryTypeOK /\ CallsSound /\ EvidenceOnce /\ MailsCounted
  BY DEF DeliveryIInv
<1>2. /\ pack'[p] = row /\ row # None /\ \A x \in Pack \ {p} : pack'[x] = pack[x]
      /\ call'[r] = c /\ \A q \in Sender \ {r} : call'[q] = call[q]
  BY <1>1 DEF DeliveryTypeOK
<1>3. DeliveryTypeOK'
  BY <1>1 DEF DeliveryTypeOK
<1>4. EvidenceOnce'
  BY <1>1, <1>2 DEF EvidenceOnce, Issued
<1>5. \A x \in Pack : Kept(x)
  <2>1. \A x \in Pack : Issued(x) => pack[x].opened \in Nat
    BY <1>1, EvidenceFields
  <2> QED
    BY <2>1, <1>2 DEF Kept, Issued
<1>6. ASSUME NEW q \in Sender \ {r}, call[q] # None, call[q].step \in {"mail", "record"}
      PROVE  Still(Handled(q))
  <2>1. Handled(q) \in Pack /\ locker[Handled(q)] = q /\ q # None
    BY <1>6, SendingFacts
  <2> QED
    BY <2>1, <1>2 DEF Still
<1>7. ASSUME NEW x \in Pack
      PROVE  mails'[x] = lost'[x] + IF Out(x)' THEN 1
                           ELSE IF Issued(x)' /\ Channel(x) = "email" THEN pack'[x].sent ELSE 0
  <2>1. CASE At(r, x, "record")
    <3>1. x = p /\ Out(p) /\ ~Out(p)'
      BY <2>1, <1>2, OutIsMine DEF Out
    <3>2. Channel(p) = "email"
      BY <2>1, <3>1, SendingFacts DEF At
    <3>3. mails[p] = lost[p] + 1
      BY <1>1, <3>1 DEF MailsCounted
    <3> QED
      BY <2>1, <3>1, <3>2, <3>3, <1>2 DEF Issued
  <2>2. CASE ~At(r, x, "record")
    <3>1. Out(x) <=> Out(x)'
      BY <2>2, <1>2, OutStays
    <3> QED
      BY <2>2, <3>1, <1>1, <1>2, <1>3, CountStays DEF Issued
  <2> QED
    BY <2>1, <2>2
<1> QED
  BY <1>2, <1>3, <1>4, <1>5, <1>6, <1>7, DeliveryKept
LEMMA SentKeep ==
  ASSUME DeliveryIInv, NEW r \in Sender, RecordMailed(r) \/ RecordHanded(r)
  PROVE  DeliveryIInv'
<1>1. /\ DeliveryTypeOK /\ call[r] # None /\ call[r].todo # <<>> /\ NextPack(r)
      /\ UNCHANGED <<mails, mailed, lost>> /\ call[r].step \in {"lock", "record"}
  BY DEF RecordMailed, RecordHanded, Dispatching, DeliveryIInv
<1>2. PICK p \in Pack : p = Handled(r)
  BY <1>1, CallFields
<1>3. Issued(p)
  BY <1>1, <1>2, CallFields DEF DeliveryIInv, CallsSound, CallSound
<1> DEFINE row == [pack[p] EXCEPT !.sent = 1]
<1>0. SameBut(row, pack[p], {"sent"}) /\ row.sent = 1
  <2>1. pack[p] \in Evidence
    BY <1>3, EvidenceBits
  <2> QED
    BY <2>1, Marks
<1>4. /\ row \in Evidence /\ row.sent = 1 /\ row.opened = pack[p].opened /\ row.delivered = pack[p].delivered
      /\ row.sent <= 1 /\ row.opened <= 1 /\ row.delivered <= 1 /\ row.opened >= pack[p].opened
      /\ row.delivered > 0 => row.sent > 0 \/ row.opened > 0
      /\ pack[p].sent \in {0, 1}
  <2> HIDE DEF row
  <2> QED
    BY <1>0, <1>3, EvidenceBits DEF SameBut
<1>5. pack' = [pack EXCEPT ![p] = row]
  <2>2. CASE RecordMailed(r)
    <3>1. pack[p].sent + 1 = 1
      BY <2>2, <1>2, SendingFacts DEF RecordMailed, Dispatching
    <3> QED
      BY <2>2, <3>1, <1>2 DEF RecordMailed
  <2>3. CASE RecordHanded(r)
    BY <2>3, <1>2, <1>4 DEF RecordHanded, Once
  <2> QED
    BY <2>2, <2>3
<1> HIDE DEF row
<1>6. \A x \in Pack : Issued(x) => Issued(x)'
  BY <1>4, <1>5, <1>1 DEF Issued, DeliveryTypeOK
<1>7. PICK c \in Call \cup {None} : /\ call' = [call EXCEPT ![r] = c] /\ CallSound(r)'
                                    /\ \A x \in Pack : ~At(r, x, "record")'
  BY <1>1, <1>6, NextPackSound
<1>8. /\ locker[p] \in {None, r} /\ locker'[p] \in {None, r}
      /\ \A x \in Pack \ {p} : locker'[x] = locker[x]
      /\ locker' \in [Pack -> Sender \cup {None}]
  <2>1. CASE RecordMailed(r)
    <3>1. locker[p] = r /\ locker' = [locker EXCEPT ![p] = None]
      BY <2>1, <1>2, SendingFacts DEF RecordMailed, Dispatching
    <3> QED
      BY <3>1, <1>1 DEF DeliveryTypeOK
  <2>2. CASE RecordHanded(r)
    BY <2>2, <1>1, <1>2 DEF RecordHanded, Unlocked, DeliveryTypeOK
  <2> QED
    BY <2>1, <2>2
<1>9. \A x \in Pack \ {p} : ~At(r, x, "record")
  BY <1>2 DEF At
<1>10. IF At(r, p, "record") THEN row.sent = 1 ELSE Channel(p) = "email" => row.sent = pack[p].sent
  BY <1>2, <1>4 DEF RecordMailed, RecordHanded, Dispatching, At
<1> QED
  BY <1>1, <1>3, <1>4, <1>5, <1>7, <1>8, <1>9, <1>10, RecordKept

LEMMA OpenedKeeps ==
  ASSUME DeliveryIInv, NEW r \in Sender, RecordShareOpened(r)
  PROVE  DeliveryIInv'
<1>1. /\ DeliveryTypeOK /\ call[r] # None /\ call[r].step = "open" /\ call[r].todo # <<>>
      /\ UNCHANGED <<locker, mails, mailed, lost>>
  BY DEF RecordShareOpened, DeliveryIInv, CallsSound, CallSound
<1>2. PICK p \in Pack : p = Handled(r)
  BY <1>1, CallFields
<1>3. Issued(p) /\ locker[p] = None
  BY <1>1, <1>2, CallFields DEF DeliveryIInv, CallsSound, CallSound, RecordShareOpened, Unlocked
<1> DEFINE row == [pack[p] EXCEPT !.opened = 1]
<1>0. SameBut(row, pack[p], {"opened"}) /\ row.opened = 1
  <2>1. /\ pack[p] \in Evidence /\ pack[p].generation \in 1..MaxGeneration
        /\ pack[p].revoked \in SUBSET (1..MaxGeneration) /\ 1 \in Nat
    BY <1>3, EvidenceBits
  <2> QED
    BY <2>1, Columns
<1>4. /\ row \in Evidence /\ row.opened = 1 /\ row.sent = pack[p].sent /\ row.delivered = pack[p].delivered
      /\ row.sent <= 1 /\ row.opened <= 1 /\ row.delivered <= 1 /\ row.opened >= pack[p].opened
      /\ row.delivered > 0 => row.sent > 0 \/ row.opened > 0
      /\ pack[p].opened \in {0, 1}
  <2> HIDE DEF row
  <2> QED
    BY <1>0, <1>3, EvidenceBits DEF SameBut
<1>5. pack' = [pack EXCEPT ![p] = row]
  BY <1>2, <1>4 DEF RecordShareOpened, Once
<1> HIDE DEF row
<1> DEFINE c == IF call[r].doing = "acknowledge" THEN [call[r] EXCEPT !.step = "deliver"] ELSE None
<1>6. c \in Call \cup {None} /\ (c # None => c.todo = call[r].todo /\ c.step = "deliver")
  BY <1>1, CallFields DEF Call
<1>7. call' = [call EXCEPT ![r] = c] /\ call'[r] = c
  BY <1>1 DEF RecordShareOpened, DeliveryTypeOK
<1> HIDE DEF c
<1>8. CallSound(r)'
  <2> SUFFICES ASSUME c # None PROVE CallSound(r)'
    BY <1>7 DEF CallSound
  <2>1. \A x \in Pack : Issued(x) => pack'[x] # None
    BY <1>4, <1>5, <1>1 DEF Issued, DeliveryTypeOK
  <2>2. \A i \in DOMAIN call[r].todo : pack'[call[r].todo[i]] # None
    BY <2>1, <1>1, CallFields DEF DeliveryIInv, CallsSound, CallSound
  <2>3. pack'[p].opened > 0
    BY <1>4, <1>5, <1>1 DEF DeliveryTypeOK
  <2>4. Handled(r)' = p
    BY <1>2, <1>6, <1>7 DEF Handled
  <2> QED
    BY <2>2, <2>3, <2>4, <1>1, <1>6, <1>7 DEF CallSound, Issued
<1>9. \A x \in Pack : ~At(r, x, "record") /\ ~At(r, x, "record")'
  BY <1>1, <1>6, <1>7 DEF At
<1> QED
  BY <1>1, <1>3, <1>4, <1>5, <1>6, <1>7, <1>8, <1>9, RecordKept DEF DeliveryTypeOK

LEMMA AcknowledgeKeeps ==
  ASSUME DeliveryIInv, NEW r \in Sender, AcknowledgeShare(r)
  PROVE  DeliveryIInv'
<1>1. /\ DeliveryTypeOK /\ call[r] # None /\ call[r].step = "deliver" /\ call[r].todo # <<>>
      /\ UNCHANGED <<locker, mails, mailed, lost>>
  BY DEF AcknowledgeShare, DeliveryIInv, CallsSound, CallSound
<1>2. PICK p \in Pack : p = Handled(r)
  BY <1>1, CallFields
<1>3. Issued(p) /\ locker[p] = None /\ pack[p].opened > 0
  BY <1>1, <1>2, CallFields DEF DeliveryIInv, CallsSound, CallSound, AcknowledgeShare, Unlocked
<1> DEFINE row == [pack[p] EXCEPT !.delivered = 1]
<1>0. SameBut(row, pack[p], {"delivered"}) /\ row.delivered = 1
  <2>1. pack[p] \in Evidence
    BY <1>3, EvidenceBits
  <2> QED
    BY <2>1, Marks
<1>4. /\ row \in Evidence /\ row.delivered = 1 /\ row.sent = pack[p].sent /\ row.opened = pack[p].opened
      /\ row.sent <= 1 /\ row.opened <= 1 /\ row.delivered <= 1 /\ row.opened >= pack[p].opened
      /\ row.delivered > 0 => row.sent > 0 \/ row.opened > 0
      /\ pack[p].delivered \in {0, 1}
  <2> HIDE DEF row
  <2> QED
    BY <1>0, <1>3, EvidenceBits DEF SameBut
<1>5. pack' = [pack EXCEPT ![p] = row]
  BY <1>2, <1>4 DEF AcknowledgeShare, Once
<1> HIDE DEF row
<1>6. call' = [call EXCEPT ![r] = None] /\ call'[r] = None
  BY <1>1 DEF AcknowledgeShare, DeliveryTypeOK
<1>7. CallSound(r)' /\ \A x \in Pack : ~At(r, x, "record") /\ ~At(r, x, "record")'
  BY <1>1, <1>6 DEF At, CallSound
<1> QED
  BY <1>1, <1>3, <1>4, <1>5, <1>6, <1>7, RecordKept DEF DeliveryTypeOK

LEMMA IssueKeeps ==
  ASSUME DeliveryIInv, NEW batch \in Batches, IssuePacks(batch)
  PROVE  DeliveryIInv'
<1>1. /\ DeliveryTypeOK /\ CallsSound /\ EvidenceOnce /\ MailsCounted
      /\ UNCHANGED <<locker, call, mails, mailed, lost>>
  BY DEF DeliveryIInv, IssuePacks
<1>2. /\ Fresh \in Evidence /\ Fresh # None
      /\ Fresh.sent = 0 /\ Fresh.opened = 0 /\ Fresh.delivered = 0
  <2>1. 1 \in 1..MaxGeneration /\ {} \in SUBSET (1..MaxGeneration)
    OBVIOUS
  <2>2. Fresh \in Evidence
    BY <2>1 DEF Fresh, Evidence
  <2> QED
    BY <2>2 DEF Fresh
<1> HIDE DEF Fresh
<1>3. \A p \in Pack : pack'[p] = pack[p] \/ (~Issued(p) /\ pack'[p] = Fresh)
  <2> SUFFICES ASSUME NEW p \in Pack PROVE pack'[p] = pack[p] \/ (~Issued(p) /\ pack'[p] = Fresh)
    OBVIOUS
  <2>1. pack'[p] = IF \E i \in DOMAIN batch : batch[i] = p THEN Fresh ELSE pack[p]
    BY DEF IssuePacks
  <2>2. \A i \in DOMAIN batch : batch[i] = p => ~Issued(p)
    BY DEF IssuePacks
  <2> QED
    BY <2>1, <2>2
<1>4. DeliveryTypeOK'
  BY <1>1, <1>2 DEF DeliveryTypeOK, IssuePacks
<1>5. EvidenceOnce'
  BY <1>1, <1>2, <1>3 DEF EvidenceOnce, Issued
<1>6. \A p \in Pack : Kept(p)
  <2>1. \A p \in Pack : Issued(p) => pack[p].opened \in Nat
    BY <1>1, EvidenceFields
  <2> QED
    BY <2>1, <1>2, <1>3 DEF Kept, Issued
<1>7. ASSUME NEW q \in Sender, call[q] # None, call[q].step \in {"mail", "record"}
      PROVE  Still(Handled(q))
  <2>1. Handled(q) \in Pack /\ Issued(Handled(q))
    BY <1>7, SendingFacts
  <2> QED
    BY <2>1, <1>1, <1>3 DEF Still
<1>8. ASSUME NEW p \in Pack
      PROVE  mails'[p] = lost'[p] + IF Out(p)' THEN 1
                           ELSE IF Issued(p)' /\ Channel(p) = "email" THEN pack'[p].sent ELSE 0
  <2>1. Out(p) <=> Out(p)'
    BY <1>1 DEF Out, At, Handled
  <2> QED
    BY <2>1, <1>1, <1>2, <1>3, <1>4, CountStays DEF Issued
<1> QED
  BY <1>1, <1>4, <1>5, <1>6, <1>7, <1>8, DeliveryKept

THEOREM DeliveryInductive == DeliverySpec => []DeliveryIInv
<1>1. DeliveryInit => DeliveryIInv
  BY DEF DeliveryInit, DeliveryIInv, DeliveryTypeOK, CallsSound, CallSound, EvidenceOnce, MailsCounted, Issued, Out, At
<1>2. DeliveryIInv /\ [DeliveryNext]_deliveryVars => DeliveryIInv'
  <2> SUFFICES ASSUME DeliveryIInv, [DeliveryNext]_deliveryVars PROVE DeliveryIInv'
    OBVIOUS
  <2>1. ASSUME NEW batch \in Batches, IssuePacks(batch) PROVE DeliveryIInv'
    BY <2>1, IssueKeeps
  <2>2. ASSUME NEW p \in Pack, \/ RevokeShare(p) \/ ReissueShare(p) \/ ExpireShare(p)
                              \/ ConfirmSent(p) \/ MarkDelivered(p)
        PROVE  DeliveryIInv'
    BY <2>2, OperatorsKeep
  <2>3. ASSUME NEW r \in Sender, \E batch \in Batches : StartDispatch(r, batch) PROVE DeliveryIInv'
    BY <2>3, DispatchStarts
  <2>4. ASSUME NEW r \in Sender, CheckPack(r) \/ LockPack(r) \/ SendMail(r) \/ RefuseMail(r)
                                \/ RecordMailed(r) \/ LoseMailed(r) \/ RecordHanded(r)
        PROVE  DeliveryIInv'
    BY <2>4, CheckKeeps, LockKeeps, MailKeeps, UnsentKeep, SentKeep
  <2>5. ASSUME NEW r \in Sender,
               \/ \E p \in Pack, generation \in 1..MaxGeneration, doing \in {"open", "acknowledge"} :
                    ResolveShare(r, p, generation, doing)
               \/ RecordShareOpened(r) \/ AcknowledgeShare(r) \/ DropCall(r)
        PROVE  DeliveryIInv'
    BY <2>5, ShareResolves, OpenedKeeps, AcknowledgeKeeps, DropKeeps
  <2>6. CASE UNCHANGED deliveryVars
    BY <2>6 DEF DeliveryIInv, DeliveryTypeOK, CallsSound, CallSound, Sending, EvidenceOnce, MailsCounted,
                Issued, Out, At, Handled
  <2> QED
    BY <2>1, <2>2, <2>3, <2>4, <2>5, <2>6 DEF DeliveryNext
<1> QED
  BY <1>1, <1>2, PTL DEF DeliverySpec

(* Whatever operators, suppliers and lost transactions do at once, a pack   *)
(* has one piece of evidence of each kind, and a second mail only after one *)
(* whose transaction was lost (_dispatch_delivery_pack_email, under the     *)
(* lock from the second check on).                                          *)
THEOREM EvidenceAlwaysTrue == DeliverySpec => []EvidenceTrue
<1>1. DeliveryIInv => EvidenceTrue
  <2> SUFFICES ASSUME DeliveryIInv PROVE MailAccounted
    BY DEF DeliveryIInv, EvidenceTrue
  <2>1. DeliveryTypeOK /\ MailsCounted
    BY DEF DeliveryIInv
  <2> SUFFICES ASSUME NEW p \in Pack
               PROVE  /\ mails[p] <= 1 + lost[p]
                      /\ Issued(p) /\ Channel(p) = "email" /\ pack[p].sent > 0 => mails[p] = 1 + lost[p]
    BY DEF MailAccounted
  <2>2. /\ mails[p] \in Nat /\ lost[p] \in Nat
        /\ mails[p] = lost[p] + IF Out(p) THEN 1
                           ELSE IF Issued(p) /\ Channel(p) = "email" THEN pack[p].sent ELSE 0
    BY <2>1 DEF DeliveryTypeOK, MailsCounted
  <2>3. Issued(p) => pack[p].sent \in {0, 1}
    BY EvidenceBits
  <2> QED
    BY <2>2, <2>3
<1> QED
  BY <1>1, DeliveryInductive, PTL

(* The link that a mail carries was read some steps before; it is neither   *)
(* revoked nor replaced when the mail goes out, because the call has held   *)
(* the pack since it read it (_dispatch_delivery_pack_email).               *)
THEOREM MailedLinksStand == DeliverySpec => MailedLinkStands
<1>1. DeliveryIInv /\ [DeliveryNext]_deliveryVars =>
        [\A p \in Pack : mails'[p] > mails[p] =>
           mailed'[p] = pack[p].generation /\ mailed'[p] \notin pack[p].revoked]_deliveryVars
  <2> SUFFICES ASSUME DeliveryIInv, DeliveryNext, NEW p \in Pack, mails'[p] > mails[p]
               PROVE  mailed'[p] = pack[p].generation /\ mailed'[p] \notin pack[p].revoked
    BY DEF DeliveryIInv
  <2>1. mails[p] \in Nat
    BY DEF DeliveryIInv, DeliveryTypeOK
  <2>2. PICK r \in Sender : SendMail(r)
    <3> SUFFICES ASSUME \A r \in Sender : ~SendMail(r) PROVE mails' = mails
      BY <2>1
    <3>1. ASSUME NEW batch \in Batches, IssuePacks(batch) PROVE mails' = mails
      BY <3>1 DEF IssuePacks
    <3>2. ASSUME NEW x \in Pack, \/ RevokeShare(x) \/ ReissueShare(x) \/ ExpireShare(x)
                                \/ ConfirmSent(x) \/ MarkDelivered(x)
          PROVE  mails' = mails
      BY <3>2 DEF RevokeShare, ReissueShare, ExpireShare, ConfirmSent, MarkDelivered
    <3>3. ASSUME NEW r \in Sender, \/ \E batch \in Batches : StartDispatch(r, batch)
                                  \/ CheckPack(r) \/ LockPack(r) \/ RefuseMail(r)
                                  \/ RecordMailed(r) \/ LoseMailed(r) \/ RecordHanded(r)
          PROVE  mails' = mails
      BY <3>3 DEF StartDispatch, CheckPack, LockPack, RefuseMail, RecordMailed, LoseMailed, RecordHanded
    <3>4. ASSUME NEW r \in Sender,
                 \/ \E x \in Pack, generation \in 1..MaxGeneration, doing \in {"open", "acknowledge"} :
                      ResolveShare(r, x, generation, doing)
                 \/ RecordShareOpened(r) \/ AcknowledgeShare(r) \/ DropCall(r)
          PROVE  mails' = mails
      BY <3>4 DEF ResolveShare, RecordShareOpened, AcknowledgeShare, DropCall
    <3> QED
      BY <3>1, <3>2, <3>3, <3>4 DEF DeliveryNext
  <2>3. /\ Handled(r) \in Pack /\ pack[Handled(r)].generation \notin pack[Handled(r)].revoked
        /\ call[r].link = pack[Handled(r)].generation
    BY <2>2, SendingFacts DEF SendMail, Dispatching
  <2>4. p = Handled(r)
    BY <2>1, <2>2, <2>3 DEF SendMail, DeliveryIInv, DeliveryTypeOK
  <2>5. mailed'[p] = call[r].link
    BY <2>2, <2>4 DEF SendMail, DeliveryIInv, DeliveryTypeOK
  <2> QED
    BY <2>3, <2>4, <2>5
<1> QED
  BY <1>1, DeliveryInductive, PTL DEF DeliverySpec, MailedLinkStands

HIDE DeliveryAssumption DEF deliveryVars

(***************************************************************************)
(* Imports of stock records (StockImport)                                  *)
(***************************************************************************)

(* A row that applies is the only one of its book for its record, and a    *)
(* row with a match has a record: deleting the record clears the match.    *)
RowsDistinct ==
  \A j \in Job : \A i, h \in DOMAIN rows[j] :
    i # h /\ rows[j][i].key = rows[j][h].key => "SKIP" \in {rows[j][i].action, rows[j][h].action}

RowsMatched == \A j \in Job : \A i \in DOMAIN rows[j] : rows[j][i].match => item[rows[j][i].key] # None

(* Nothing of a book is applied before its confirmation, and what it has   *)
(* opened has moved.                                                       *)
NothingBefore ==
  /\ \A j \in Job : job[j] \in {None, "PREVIEW"} => \A i \in DOMAIN rows[j] : rows[j][i].done = "NO"
  /\ \A o \in openings : /\ job[o[2]] \in {"COMPLETED", "FAILED"}
                         /\ item[o[1]] # None /\ item[o[1]].moved

ImportIInv == ImportTypeOK /\ WholeBooks /\ RowsDistinct /\ RowsMatched /\ NothingBefore

-----------------------------------------------------------------------------
USE DEF importVars

LEMMA NoneApart == None \notin Record \cup {"PREVIEW", "COMPLETED", "FAILED"}
BY ImportAssumption

LEMMA RowFields ==
  ASSUME ImportTypeOK, NEW j \in Job
  PROVE  /\ rows[j] \in Seq(PreviewRow) /\ DOMAIN rows[j] = 1..Len(rows[j]) /\ Len(rows[j]) \in Nat
         /\ \A i \in DOMAIN rows[j] :
              /\ rows[j][i] \in PreviewRow /\ rows[j][i].key \in Identity
              /\ rows[j][i].action \in {"SKIP", "UPDATE", "CREATE", "OPEN"}
              /\ rows[j][i].done \in {"NO", "IMPORTED", "SKIPPED"}
              /\ rows[j][i].asks \in BOOLEAN /\ rows[j][i].match \in BOOLEAN
<1>1. rows[j] \in Seq(PreviewRow)
  BY DEF ImportTypeOK
<1>2. DOMAIN rows[j] = 1..Len(rows[j]) /\ Len(rows[j]) \in Nat /\ \A i \in DOMAIN rows[j] : rows[j][i] \in PreviewRow
  BY <1>1
<1> QED
  BY <1>1, <1>2 DEF PreviewRow

LEMMA RecordFields ==
  ASSUME ImportTypeOK, NEW k \in Identity, item[k] # None
  PROVE  item[k] \in Record /\ item[k].moved \in BOOLEAN
BY DEF ImportTypeOK, Record

(* Where only records change, and only as the import allows: no record     *)
(* with a match or an opening goes, and none forgets that it moved.        *)
LEMMA RecordsKept ==
  ASSUME ImportIInv, UNCHANGED <<job, rows, openings>>, ImportTypeOK',
         \A k \in Identity : item[k] # None =>
           item'[k] # None /\ (item[k].moved => item'[k].moved)
  PROVE  ImportIInv'
<1>1. ImportTypeOK /\ WholeBooks /\ RowsDistinct /\ RowsMatched /\ NothingBefore
  BY DEF ImportIInv
<1>2. WholeBooks' /\ RowsDistinct'
  BY <1>1 DEF WholeBooks, RowsDistinct
<1>3. RowsMatched'
  BY <1>1, RowFields DEF RowsMatched
<1>4. \A o \in openings : o[1] \in Identity
  BY <1>1 DEF ImportTypeOK
<1>5. NothingBefore'
  BY <1>1, <1>4 DEF NothingBefore
<1> QED
  BY <1>2, <1>3, <1>5 DEF ImportIInv

LEMMA OthersKeep ==
  ASSUME ImportIInv, NEW k \in Identity, CreateItem(k) \/ MoveItem(k) \/ SetItemStatus(k)
  PROVE  ImportIInv'
<1>1. ImportTypeOK /\ UNCHANGED <<project, rows, job, failing, openings>> /\ edits' \in 0..MaxEdits
  BY ImportAssumption DEF CreateItem, MoveItem, SetItemStatus, Edited, ImportIInv, ImportTypeOK
<1>2. PICK row \in Record : /\ item' = [item EXCEPT ![k] = row]
                            /\ item[k] # None /\ item[k].moved => row.moved
  <2>1. CASE CreateItem(k)
    <3>1. New \in Record
      BY DEF New, Record
    <3> QED
      BY <2>1, <3>1 DEF CreateItem, Creatable
  <2>2. CASE MoveItem(k)
    <3> DEFINE other == [item[k] EXCEPT !.moved = TRUE]
    <3>1. other \in Record /\ other.moved
      BY <2>2, <1>1, RecordFields DEF MoveItem, Record
    <3>2. item' = [item EXCEPT ![k] = other]
      BY <2>2 DEF MoveItem
    <3> HIDE DEF other
    <3> QED
      BY <3>1, <3>2
  <2>3. CASE SetItemStatus(k)
    <3>1. PICK s \in {"ACTIVE", "ARCHIVED", "TRASHED"} : item' = [item EXCEPT ![k].status = s]
      BY <2>3 DEF SetItemStatus
    <3> DEFINE other == [item[k] EXCEPT !.status = s]
    <3>2. other \in Record /\ other.moved = item[k].moved
      BY <2>3, <1>1, RecordFields DEF SetItemStatus, Record
    <3>3. item' = [item EXCEPT ![k] = other]
      BY <3>1
    <3> HIDE DEF other
    <3> QED
      BY <3>2, <3>3
  <2> QED
    BY <2>1, <2>2, <2>3
<1>3. item \in [Identity -> Record \cup {None}] /\ item' = [item EXCEPT ![k] = row]
  BY <1>1, <1>2 DEF ImportTypeOK
<1>4. item' \in [Identity -> Record \cup {None}]
  BY <1>3
<1>5. ImportTypeOK'
  BY <1>1, <1>4 DEF ImportTypeOK
<1>6. row # None
  BY NoneApart
<1>7. \A x \in Identity : item[x] # None => item'[x] # None /\ (item[x].moved => item'[x].moved)
  <2> SUFFICES ASSUME NEW x \in Identity, item[x] # None
               PROVE  item'[x] # None /\ (item[x].moved => item'[x].moved)
    OBVIOUS
  <2>1. CASE x = k
    <3>1. item'[k] = row
      BY <1>3
    <3> QED
      BY <2>1, <3>1, <1>2, <1>6
  <2>2. CASE x # k
    <3>1. item'[x] = item[x]
      BY <2>2, <1>3
    <3> QED
      BY <3>1
  <2> QED
    BY <2>1, <2>2
<1> QED
  BY <1>1, <1>5, <1>7, RecordsKept

LEMMA SequenceOf == ASSUME NEW S, NEW n \in Nat, NEW f \in [1..n -> S] PROVE f \in Seq(S)
OBVIOUS

LEMMA DeleteKeeps ==
  ASSUME ImportIInv, NEW k \in Identity, DeleteItem(k)
  PROVE  ImportIInv'
<1>1. /\ ImportTypeOK /\ WholeBooks /\ RowsDistinct /\ RowsMatched /\ NothingBefore
      /\ UNCHANGED <<project, job, failing, openings>> /\ edits' \in 0..MaxEdits
      /\ item[k] # None /\ ~item[k].moved /\ item' = [item EXCEPT ![k] = None]
  BY ImportAssumption DEF ImportIInv, ImportTypeOK, DeleteItem, Edited
<1>2. \A x \in Identity \ {k} : item'[x] = item[x]
  BY <1>1 DEF ImportTypeOK
<1>3. ASSUME NEW j \in Job
      PROVE  /\ rows'[j] \in Seq(PreviewRow) /\ DOMAIN rows'[j] = DOMAIN rows[j]
             /\ \A i \in DOMAIN rows[j] :
                  /\ rows'[j][i].key = rows[j][i].key /\ rows'[j][i].action = rows[j][i].action
                  /\ rows'[j][i].done = rows[j][i].done
                  /\ rows'[j][i].match => rows[j][i].match /\ rows[j][i].key # k
  <2>1. rows'[j] = [i \in DOMAIN rows[j] |->
           IF rows[j][i].key = k THEN [rows[j][i] EXCEPT !.match = FALSE] ELSE rows[j][i]]
    BY DEF DeleteItem
  <2>2. DOMAIN rows[j] = 1..Len(rows[j]) /\ Len(rows[j]) \in Nat /\ \A i \in DOMAIN rows[j] : rows[j][i] \in PreviewRow
    BY <1>1, RowFields
  <2>3. ASSUME NEW i \in DOMAIN rows[j]
        PROVE  /\ rows'[j][i] \in PreviewRow
               /\ rows'[j][i].key = rows[j][i].key /\ rows'[j][i].action = rows[j][i].action
               /\ rows'[j][i].done = rows[j][i].done
               /\ rows'[j][i].match => rows[j][i].match /\ rows[j][i].key # k
    <3>1. CASE rows[j][i].key = k
      <4>1. rows'[j][i] = [rows[j][i] EXCEPT !.match = FALSE]
        BY <2>1, <3>1
      <4>2. [rows[j][i] EXCEPT !.match = FALSE] \in PreviewRow
        BY <2>2 DEF PreviewRow
      <4> QED
        BY <2>2, <4>1, <4>2 DEF PreviewRow
    <3>2. CASE rows[j][i].key # k
      BY <2>1, <2>2, <3>2
    <3> QED
      BY <3>1, <3>2
  <2>4. DOMAIN rows'[j] = 1..Len(rows[j])
    BY <2>1, <2>2
  <2>5. rows'[j] \in [1..Len(rows[j]) -> PreviewRow]
    BY <2>1, <2>2, <2>3
  <2>6. rows'[j] \in Seq(PreviewRow)
    BY <2>2, <2>5, SequenceOf
  <2> QED
    BY <2>2, <2>3, <2>4, <2>6
<1>4. ImportTypeOK'
  <2>1. rows' = [j \in Job |-> rows'[j]]
    BY DEF DeleteItem
  <2>2. rows' \in [Job -> Seq(PreviewRow)]
    BY <2>1, <1>3
  <2> QED
    BY <2>2, <1>1 DEF ImportTypeOK
<1>5. WholeBooks'
  <2> SUFFICES ASSUME NEW j \in Job
               PROVE  /\ \/ \A i \in DOMAIN rows'[j] : rows'[j][i].done = "NO"
                         \/ \A i \in DOMAIN rows'[j] : rows'[j][i].done # "NO"
                      /\ \A i \in DOMAIN rows'[j] :
                           (rows'[j][i].done = "IMPORTED" /\ rows'[j][i].action = "OPEN")
                             <=> <<rows'[j][i].key, j, i>> \in openings
                      /\ job[j] = "COMPLETED" => \A i \in DOMAIN rows'[j] : rows'[j][i].done # "NO"
    BY <1>1 DEF WholeBooks
  <2>1. /\ \/ \A i \in DOMAIN rows[j] : rows[j][i].done = "NO"
           \/ \A i \in DOMAIN rows[j] : rows[j][i].done # "NO"
        /\ job[j] = "COMPLETED" => \A i \in DOMAIN rows[j] : rows[j][i].done # "NO"
    BY <1>1 DEF WholeBooks
  <2>2. \A i \in DOMAIN rows[j] :
          (rows[j][i].done = "IMPORTED" /\ rows[j][i].action = "OPEN") <=> <<rows[j][i].key, j, i>> \in openings
    BY <1>1 DEF WholeBooks
  <2>3. /\ DOMAIN rows'[j] = DOMAIN rows[j]
        /\ \A i \in DOMAIN rows[j] : /\ rows'[j][i].key = rows[j][i].key
                                     /\ rows'[j][i].action = rows[j][i].action
                                     /\ rows'[j][i].done = rows[j][i].done
    BY <1>3
  <2>4. \A i \in DOMAIN rows'[j] :
          (rows'[j][i].done = "IMPORTED" /\ rows'[j][i].action = "OPEN") <=> <<rows'[j][i].key, j, i>> \in openings
    BY <2>2, <2>3
  <2> QED
    BY <2>1, <2>3, <2>4
<1>8. RowsDistinct'
  <2> SUFFICES ASSUME NEW j \in Job, NEW i \in DOMAIN rows'[j], NEW h \in DOMAIN rows'[j],
                      i # h, rows'[j][i].key = rows'[j][h].key
               PROVE  "SKIP" \in {rows'[j][i].action, rows'[j][h].action}
    BY DEF RowsDistinct
  <2> QED
    BY <1>1, <1>3 DEF RowsDistinct
<1>6. RowsMatched'
  <2> SUFFICES ASSUME NEW j \in Job, NEW i \in DOMAIN rows'[j], rows'[j][i].match
               PROVE  item'[rows'[j][i].key] # None
    BY DEF RowsMatched
  <2>1. /\ i \in DOMAIN rows[j] /\ rows[j][i].match /\ rows[j][i].key # k
        /\ rows'[j][i].key = rows[j][i].key
    BY <1>3
  <2>2. rows[j][i].key \in Identity
    BY <1>1, <2>1, RowFields
  <2> QED
    BY <1>1, <1>2, <2>1, <2>2 DEF RowsMatched
<1>7. NothingBefore'
  <2>1. \A o \in openings : o[1] \in Identity /\ o[1] # k
    BY <1>1 DEF NothingBefore, ImportTypeOK
  <2> QED
    BY <2>1, <1>1, <1>2, <1>3 DEF NothingBefore
<1> QED
  BY <1>4, <1>5, <1>6, <1>7, <1>8 DEF ImportIInv

(* What the preview plans for a row: its record is there if it says so, and *)
(* nothing is done yet.                                                     *)
LEMMA PlannedRow ==
  ASSUME NEW k \in Identity, NEW r \in {Skipped(k), LegacyRow(k), OpeningRow(k)}
  PROVE  r \in PreviewRow /\ r.key = k /\ r.done = "NO" /\ (r.match => item[k] # None)
<1>1. Skipped(k) \in PreviewRow /\ Skipped(k).key = k /\ Skipped(k).done = "NO" /\ ~Skipped(k).match
  BY DEF Skipped, PreviewRow
<1>2. ASSUME NEW a \in {"UPDATE", "CREATE", "OPEN"}
      PROVE  /\ Planned(k, a) \in PreviewRow /\ Planned(k, a).key = k
             /\ Planned(k, a).done = "NO" /\ ~Planned(k, a).match
  BY DEF Planned, Skipped, PreviewRow
<1>3. ASSUME NEW a \in {"UPDATE", "CREATE", "OPEN"}
      PROVE  /\ [Planned(k, a) EXCEPT !.match = TRUE] \in PreviewRow
             /\ [Planned(k, a) EXCEPT !.match = TRUE].key = k
             /\ [Planned(k, a) EXCEPT !.match = TRUE].done = "NO"
  BY DEF Planned, Skipped, PreviewRow
<1>4. ASSUME NEW a \in {"UPDATE", "CREATE", "OPEN"}
      PROVE  /\ [Planned(k, a) EXCEPT !.asks = TRUE] \in PreviewRow
             /\ [Planned(k, a) EXCEPT !.asks = TRUE].key = k
             /\ [Planned(k, a) EXCEPT !.asks = TRUE].done = "NO"
             /\ ~[Planned(k, a) EXCEPT !.asks = TRUE].match
  BY DEF Planned, Skipped, PreviewRow
<1>5. PICK a \in {"UPDATE", "CREATE", "OPEN"} :
        \/ r \in {Skipped(k), Planned(k, a), [Planned(k, a) EXCEPT !.asks = TRUE]}
        \/ r = [Planned(k, a) EXCEPT !.match = TRUE] /\ Found(k)
  <2>1. CASE r = Skipped(k)
    BY <2>1
  <2>2. CASE r = LegacyRow(k)
    BY <2>2 DEF LegacyRow
  <2>3. CASE r = OpeningRow(k)
    BY <2>3 DEF OpeningRow
  <2> QED
    BY <2>1, <2>2, <2>3
<1> QED
  BY <1>1, <1>2, <1>3, <1>4, <1>5 DEF Found

(* A parsed book plans every identity once.                                 *)
LEMMA ParsedBook ==
  ASSUME NEW j \in Job
  PROVE  /\ Parsed(j) \in Seq(PreviewRow)
         /\ \A i \in DOMAIN Parsed(j) :
              /\ Parsed(j)[i].done = "NO"
              /\ Parsed(j)[i].match => item[Parsed(j)[i].key] # None
         /\ \A i, h \in DOMAIN Parsed(j) :
              i # h /\ Parsed(j)[i].key = Parsed(j)[h].key
                => "SKIP" \in {Parsed(j)[i].action, Parsed(j)[h].action}
<1> DEFINE keys == Book(j).rows
<1> DEFINE Repeated(i) == \E h \in 1..(i - 1) : keys[h] = keys[i]
<1>1. keys \in Seq(Identity)
  BY ImportAssumption
<1> HIDE DEF keys
<1>2. Len(keys) \in Nat /\ \A i \in 1..Len(keys) : keys[i] \in Identity
  BY <1>1
<1>3. Parsed(j) = [i \in 1..Len(keys) |->
        IF Repeated(i) THEN Skipped(keys[i])
        ELSE IF Book(j).opening THEN OpeningRow(keys[i]) ELSE LegacyRow(keys[i])]
  BY DEF Parsed, keys
<1>4. DOMAIN Parsed(j) = 1..Len(keys)
  BY <1>3
<1>5. \A i \in 1..Len(keys) : /\ Parsed(j)[i] \in {Skipped(keys[i]), LegacyRow(keys[i]), OpeningRow(keys[i])}
                              /\ Repeated(i) => Parsed(j)[i] = Skipped(keys[i])
  BY <1>3
<1>6. \A i \in 1..Len(keys) :
        /\ Parsed(j)[i] \in PreviewRow /\ Parsed(j)[i].key = keys[i] /\ Parsed(j)[i].done = "NO"
        /\ Parsed(j)[i].match => item[keys[i]] # None
  BY <1>2, <1>5, PlannedRow
<1>7. Parsed(j) \in [1..Len(keys) -> PreviewRow]
  BY <1>3, <1>4, <1>6
<1>8. Parsed(j) \in Seq(PreviewRow)
  BY <1>2, <1>7, SequenceOf
<1>9. ASSUME NEW i \in 1..Len(keys), NEW h \in 1..Len(keys), i # h, keys[i] = keys[h]
      PROVE  "SKIP" \in {Parsed(j)[i].action, Parsed(j)[h].action}
  <2>1. Repeated(i) \/ Repeated(h)
    <3>1. CASE h < i
      <4>1. h \in 1..(i - 1)
        BY <1>2, <3>1
      <4> QED
        BY <4>1, <1>9
    <3>2. CASE i < h
      <4>1. i \in 1..(h - 1)
        BY <1>2, <3>2
      <4> QED
        BY <4>1, <1>9
    <3> QED
      BY <1>2, <1>9, <3>1, <3>2
  <2>2. Skipped(keys[i]).action = "SKIP" /\ Skipped(keys[h]).action = "SKIP"
    BY DEF Skipped
  <2> HIDE DEF Repeated
  <2> QED
    BY <1>5, <2>1, <2>2
<1> QED
  BY <1>4, <1>6, <1>8, <1>9

(* A preview has done nothing and opened nothing.                           *)
LEMMA PreviewKeeps ==
  ASSUME ImportIInv, NEW j \in Job, PreviewImport(j)
  PROVE  ImportIInv'
<1>1. /\ ImportTypeOK /\ WholeBooks /\ RowsDistinct /\ RowsMatched /\ NothingBefore
      /\ UNCHANGED <<item, project, failing, openings, edits>> /\ job[j] = None
  BY DEF ImportIInv, PreviewImport
<1>2. \A o \in openings : o[2] # j
  BY <1>1, NoneApart DEF NothingBefore
<1>3. PICK s \in {"PREVIEW", "FAILED"}, book \in {rows[j], Parsed(j)} :
        /\ job' = [job EXCEPT ![j] = s] /\ rows' = [rows EXCEPT ![j] = book]
  BY <1>1 DEF PreviewImport, ImportTypeOK
<1>4. /\ rows[j] \in Seq(PreviewRow)
      /\ \A i \in DOMAIN rows[j] : rows[j][i].done = "NO" /\ (rows[j][i].match => item[rows[j][i].key] # None)
      /\ \A i, h \in DOMAIN rows[j] :
           i # h /\ rows[j][i].key = rows[j][h].key => "SKIP" \in {rows[j][i].action, rows[j][h].action}
  BY <1>1, RowFields DEF NothingBefore, RowsMatched, RowsDistinct
<1>5. /\ book \in Seq(PreviewRow)
      /\ \A i \in DOMAIN book : book[i].done = "NO" /\ (book[i].match => item[book[i].key] # None)
      /\ \A i, h \in DOMAIN book : i # h /\ book[i].key = book[h].key => "SKIP" \in {book[i].action, book[h].action}
  BY <1>3, <1>4, ParsedBook
<1>6. /\ job' \in [Job -> {None, "PREVIEW", "COMPLETED", "FAILED"}] /\ job'[j] = s
      /\ rows' \in [Job -> Seq(PreviewRow)] /\ rows'[j] = book
      /\ \A x \in Job \ {j} : job'[x] = job[x] /\ rows'[x] = rows[x]
  BY <1>1, <1>3, <1>5 DEF ImportTypeOK
<1>7. ImportTypeOK'
  BY <1>1, <1>6 DEF ImportTypeOK
<1>8. WholeBooks'
  <2> SUFFICES ASSUME NEW x \in Job
               PROVE  /\ \/ \A i \in DOMAIN rows'[x] : rows'[x][i].done = "NO"
                         \/ \A i \in DOMAIN rows'[x] : rows'[x][i].done # "NO"
                      /\ \A i \in DOMAIN rows'[x] :
                           (rows'[x][i].done = "IMPORTED" /\ rows'[x][i].action = "OPEN")
                             <=> <<rows'[x][i].key, x, i>> \in openings
                      /\ job'[x] = "COMPLETED" => \A i \in DOMAIN rows'[x] : rows'[x][i].done # "NO"
    BY <1>1 DEF WholeBooks
  <2>1. CASE x = j
    <3>1. \A i \in DOMAIN book : <<book[i].key, j, i>> \notin openings
      BY <1>2
    <3> QED
      BY <2>1, <3>1, <1>5, <1>6
  <2>2. CASE x # j
    <3>1. rows'[x] = rows[x] /\ job'[x] = job[x]
      BY <2>2, <1>6
    <3> QED
      BY <3>1, <1>1 DEF WholeBooks
  <2> QED
    BY <2>1, <2>2
<1>9. RowsDistinct' /\ RowsMatched'
  <2>1. RowsDistinct'
    BY <1>1, <1>5, <1>6 DEF RowsDistinct
  <2>2. ASSUME NEW x \in Job, NEW i \in DOMAIN rows'[x], rows'[x][i].match
        PROVE  item'[rows'[x][i].key] # None
    <3>1. CASE x = j
      BY <3>1, <2>2, <1>1, <1>5, <1>6
    <3>2. CASE x # j
      BY <3>2, <2>2, <1>1, <1>6 DEF RowsMatched
    <3> QED
      BY <3>1, <3>2
  <2>3. RowsMatched'
    BY <2>2 DEF RowsMatched
  <2> QED
    BY <2>1, <2>3
<1>10. \A o \in openings : o[2] \in Job
  BY <1>1 DEF ImportTypeOK
<1>11. NothingBefore'
  <2>1. \A x \in Job : job'[x] \in {None, "PREVIEW"} => \A i \in DOMAIN rows'[x] : rows'[x][i].done = "NO"
    BY <1>1, <1>5, <1>6 DEF NothingBefore
  <2>2. \A o \in openings : job'[o[2]] = job[o[2]]
    BY <1>2, <1>6, <1>10
  <2>3. \A o \in openings' : /\ job'[o[2]] \in {"COMPLETED", "FAILED"}
                             /\ item'[o[1]] # None /\ item'[o[1]].moved
    BY <1>1, <2>2 DEF NothingBefore
  <2> QED
    BY <2>1, <2>3 DEF NothingBefore
<1> QED
  BY <1>7, <1>8, <1>9, <1>11 DEF ImportIInv

(* What an applicable row does to its record.                               *)
LEMMA RowApplied ==
  ASSUME ImportTypeOK, NEW r \in PreviewRow, r.action # "SKIP", Applicable(r),
         r.match => item[r.key] # None
  PROVE  /\ After(r) \in Record
         /\ item[r.key] # None /\ item[r.key].moved => After(r).moved
         /\ r.action = "OPEN" => /\ After(r).moved
                                 /\ item[r.key] # None => item[r.key].status = "ACTIVE" /\ ~item[r.key].moved
<1>1. r.key \in Identity /\ r.action \in {"SKIP", "UPDATE", "CREATE", "OPEN"} /\ r.match \in BOOLEAN
  BY DEF PreviewRow
<1>2. CASE r.action = "UPDATE"
  <2>1. r.match /\ After(r) = item[r.key]
    BY <1>2 DEF Applicable, After
  <2> QED
    BY <1>1, <1>2, <2>1, RecordFields
<1>3. CASE r.action # "UPDATE" /\ ~r.match
  <2>1. item[r.key] = None
    BY <1>1, <1>3 DEF Applicable, Creatable
  <2>2. After(r) = [New EXCEPT !.moved = r.action = "OPEN"]
    BY <1>3 DEF After
  <2>3. After(r) \in Record /\ (r.action = "OPEN" => After(r).moved)
    BY <2>2 DEF New, Record
  <2> QED
    BY <2>1, <2>3
<1>4. CASE r.action # "UPDATE" /\ r.match
  <2>1. After(r) = [item[r.key] EXCEPT !.moved = TRUE]
    BY <1>4 DEF After
  <2>2. item[r.key] \in Record
    BY <1>1, <1>4, RecordFields
  <2>3. After(r) \in Record /\ After(r).moved
    BY <2>1, <2>2 DEF Record
  <2>4. r.action = "OPEN" => item[r.key].status = "ACTIVE" /\ ~item[r.key].moved
    BY <1>4 DEF Applicable, Openable
  <2> QED
    BY <2>3, <2>4
<1> QED
  BY <1>1, <1>2, <1>3, <1>4

(* A confirmation: the rows it applies, each the only one for its record,   *)
(* take effect; every record it opens was there unmoved, or was not there.  *)
LEMMA ConfirmKeeps ==
  ASSUME ImportIInv, NEW j \in Job, NEW similar \in BOOLEAN, ConfirmImport(j, similar)
  PROVE  /\ ImportIInv'
         /\ \A o \in openings' \ openings :
              /\ \A p \in openings : p[1] # o[1]
              /\ item[o[1]] # None => item[o[1]].status = "ACTIVE" /\ ~item[o[1]].moved
              /\ item'[o[1]].moved
<1> DEFINE written == Applied(j, similar)
<1> DEFINE Changer(k) == CHOOSE i \in written : rows[j][i].key = k
<1>1. /\ ImportTypeOK /\ WholeBooks /\ RowsDistinct /\ RowsMatched /\ NothingBefore
      /\ job[j] = "PREVIEW" /\ \A i \in written : Applicable(rows[j][i])
      /\ Imported(j, written, "SKIPPED")
  BY DEF ImportIInv, ConfirmImport
<1>2. /\ rows[j] \in Seq(PreviewRow) /\ DOMAIN rows[j] = 1..Len(rows[j]) /\ Len(rows[j]) \in Nat
      /\ \A i \in DOMAIN rows[j] : rows[j][i] \in PreviewRow /\ rows[j][i].key \in Identity
  BY <1>1, RowFields
<1>3. written \subseteq DOMAIN rows[j] /\ \A i \in written : rows[j][i].action # "SKIP"
  BY <1>2 DEF Applied
<1>4. \A i, h \in written : rows[j][i].key = rows[j][h].key => i = h
  BY <1>1, <1>3 DEF RowsDistinct
<1>5. /\ item' = [k \in Identity |->
           IF \E i \in written : rows[j][i].key = k THEN After(rows[j][Changer(k)]) ELSE item[k]]
      /\ openings' = openings \cup
           {<<rows[j][i].key, j, i>> : i \in {x \in written : rows[j][x].action = "OPEN"}}
      /\ rows' = [rows EXCEPT ![j] = [i \in DOMAIN rows[j] |->
           [rows[j][i] EXCEPT !.done = IF i \in written THEN "IMPORTED" ELSE "SKIPPED"]]]
      /\ job' = [job EXCEPT ![j] = "COMPLETED"]
      /\ UNCHANGED <<project, failing, edits>>
  BY <1>1 DEF Imported
<1> HIDE DEF written
<1>6. ASSUME NEW i \in written
      PROVE  /\ item'[rows[j][i].key] = After(rows[j][i])
             /\ After(rows[j][i]) \in Record
             /\ item[rows[j][i].key] # None /\ item[rows[j][i].key].moved => After(rows[j][i]).moved
             /\ rows[j][i].action = "OPEN" =>
                  /\ After(rows[j][i]).moved
                  /\ item[rows[j][i].key] # None =>
                       item[rows[j][i].key].status = "ACTIVE" /\ ~item[rows[j][i].key].moved
  <2>1. Changer(rows[j][i].key) = i
    BY <1>4
  <2>2. item'[rows[j][i].key] = After(rows[j][i])
    BY <2>1, <1>2, <1>3, <1>5
  <2>3. rows[j][i] \in PreviewRow /\ rows[j][i].action # "SKIP" /\ Applicable(rows[j][i])
    BY <1>1, <1>2, <1>3
  <2>4. rows[j][i].match => item[rows[j][i].key] # None
    BY <1>1, <1>3 DEF RowsMatched
  <2> QED
    BY <1>1, <2>2, <2>3, <2>4, RowApplied
<1>7. ASSUME NEW k \in Identity
      PROVE  \/ item'[k] = item[k]
             \/ \E i \in written : rows[j][i].key = k
  BY <1>5
<1>8. ASSUME NEW k \in Identity
      PROVE  /\ item'[k] \in Record \cup {None}
             /\ item[k] # None => item'[k] # None /\ (item[k].moved => item'[k].moved)
  <2>1. CASE item'[k] = item[k]
    BY <1>1, <2>1 DEF ImportTypeOK
  <2>2. CASE \E i \in written : rows[j][i].key = k
    <3>1. PICK i \in written : rows[j][i].key = k
      BY <2>2
    <3> QED
      BY <3>1, <1>6, NoneApart
  <2> QED
    BY <1>7, <2>1, <2>2
<1>9. /\ job'[j] = "COMPLETED" /\ job' \in [Job -> {None, "PREVIEW", "COMPLETED", "FAILED"}]
      /\ \A x \in Job \ {j} : job'[x] = job[x] /\ rows'[x] = rows[x]
  BY <1>1, <1>5 DEF ImportTypeOK
<1>10. rows'[j] = [i \in DOMAIN rows[j] |->
           [rows[j][i] EXCEPT !.done = IF i \in written THEN "IMPORTED" ELSE "SKIPPED"]]
  BY <1>1, <1>5 DEF ImportTypeOK
<1>11. ASSUME NEW i \in DOMAIN rows[j]
       PROVE  /\ rows'[j][i] \in PreviewRow
              /\ rows'[j][i].key = rows[j][i].key /\ rows'[j][i].action = rows[j][i].action
              /\ rows'[j][i].match = rows[j][i].match
              /\ rows'[j][i].done = IF i \in written THEN "IMPORTED" ELSE "SKIPPED"
  <2> DEFINE result == IF i \in written THEN "IMPORTED" ELSE "SKIPPED"
  <2>1. result \in {"NO", "IMPORTED", "SKIPPED"} /\ rows'[j][i] = [rows[j][i] EXCEPT !.done = result]
    BY <1>10
  <2> HIDE DEF result
  <2>2. /\ rows'[j][i] \in PreviewRow
        /\ rows'[j][i].key = rows[j][i].key /\ rows'[j][i].action = rows[j][i].action
        /\ rows'[j][i].match = rows[j][i].match /\ rows'[j][i].done = result
    BY <1>2, <2>1 DEF PreviewRow
  <2> QED
    BY <2>2 DEF result
<1>12. DOMAIN rows'[j] = DOMAIN rows[j]
  BY <1>10
<1>13. rows'[j] \in Seq(PreviewRow)
  <2>1. rows'[j] \in [1..Len(rows[j]) -> PreviewRow]
    BY <1>2, <1>10, <1>11
  <2> QED
    BY <1>2, <2>1, SequenceOf
<1>14. \A o \in openings : /\ o[2] \in Job /\ o[2] # j /\ job'[o[2]] \in {"COMPLETED", "FAILED"}
                          /\ o[1] \in Identity /\ item[o[1]] # None /\ item[o[1]].moved
  BY <1>1, <1>9 DEF NothingBefore, ImportTypeOK
<1>15. \A o \in openings' \ openings :
         \E i \in written : rows[j][i].action = "OPEN" /\ o = <<rows[j][i].key, j, i>>
  BY <1>5
<1>16. ImportTypeOK'
  <2>1. item' \in [Identity -> Record \cup {None}]
    BY <1>5, <1>8
  <2>2. rows' \in [Job -> Seq(PreviewRow)]
    BY <1>1, <1>5, <1>10, <1>13 DEF ImportTypeOK
  <2>3. openings' \subseteq Identity \X Job \X Nat
    BY <1>1, <1>2, <1>3, <1>15 DEF ImportTypeOK
  <2> QED
    BY <1>1, <1>5, <1>9, <2>1, <2>2, <2>3 DEF ImportTypeOK
<1>17. WholeBooks'
  <2> SUFFICES ASSUME NEW x \in Job
               PROVE  /\ \/ \A i \in DOMAIN rows'[x] : rows'[x][i].done = "NO"
                         \/ \A i \in DOMAIN rows'[x] : rows'[x][i].done # "NO"
                      /\ \A i \in DOMAIN rows'[x] :
                           (rows'[x][i].done = "IMPORTED" /\ rows'[x][i].action = "OPEN")
                             <=> <<rows'[x][i].key, x, i>> \in openings'
                      /\ job'[x] = "COMPLETED" => \A i \in DOMAIN rows'[x] : rows'[x][i].done # "NO"
    BY DEF WholeBooks
  <2>1. CASE x = j
    <3>1. \A i \in DOMAIN rows[j] : rows'[j][i].done # "NO" /\ (rows'[j][i].done = "IMPORTED" <=> i \in written)
      BY <1>11
    <3>2. ASSUME NEW i \in DOMAIN rows[j]
          PROVE  (i \in written /\ rows[j][i].action = "OPEN") <=> <<rows[j][i].key, j, i>> \in openings'
      <4>1. CASE i \in written /\ rows[j][i].action = "OPEN"
        BY <4>1, <1>5
      <4>2. CASE <<rows[j][i].key, j, i>> \in openings'
        <5>1. <<rows[j][i].key, j, i>> \notin openings
          BY <1>14
        <5>2. PICK h \in written : rows[j][h].action = "OPEN" /\ <<rows[j][i].key, j, i>> = <<rows[j][h].key, j, h>>
          BY <4>2, <5>1, <1>15
        <5>3. i = h
          BY <5>2
        <5> QED
          BY <4>2, <5>2, <5>3
      <4> QED
        BY <4>1, <4>2
    <3> QED
      BY <2>1, <3>1, <3>2, <1>11, <1>12
  <2>2. CASE x # j
    <3>1. rows'[x] = rows[x] /\ job'[x] = job[x]
      BY <2>2, <1>9
    <3>2. \A i \in DOMAIN rows[x] : <<rows[x][i].key, x, i>> \in openings' <=> <<rows[x][i].key, x, i>> \in openings
      BY <2>2, <1>5
    <3> QED
      BY <3>1, <3>2, <1>1 DEF WholeBooks
  <2> QED
    BY <2>1, <2>2
<1>18. RowsDistinct'
  BY <1>1, <1>9, <1>11, <1>12 DEF RowsDistinct
<1>19. RowsMatched'
  <2> SUFFICES ASSUME NEW x \in Job, NEW i \in DOMAIN rows'[x], rows'[x][i].match
               PROVE  item'[rows'[x][i].key] # None
    BY DEF RowsMatched
  <2>1. i \in DOMAIN rows[x] /\ rows[x][i].match /\ rows'[x][i].key = rows[x][i].key
    BY <1>9, <1>11, <1>12
  <2>2. rows[x][i].key \in Identity /\ item[rows[x][i].key] # None
    BY <1>1, <2>1, RowFields DEF RowsMatched
  <2> QED
    BY <1>8, <2>1, <2>2
<1>20. NothingBefore'
  <2>1. \A x \in Job : job'[x] \in {None, "PREVIEW"} => \A i \in DOMAIN rows'[x] : rows'[x][i].done = "NO"
    BY <1>1, <1>9, NoneApart DEF NothingBefore
  <2>2. \A o \in openings : /\ job'[o[2]] \in {"COMPLETED", "FAILED"}
                            /\ item'[o[1]] # None /\ item'[o[1]].moved
    BY <1>8, <1>14
  <2>3. ASSUME NEW o \in openings' \ openings
        PROVE  /\ job'[o[2]] \in {"COMPLETED", "FAILED"} /\ item'[o[1]] # None /\ item'[o[1]].moved
    <3>1. PICK i \in written : rows[j][i].action = "OPEN" /\ o = <<rows[j][i].key, j, i>>
      BY <1>15
    <3> QED
      BY <3>1, <1>6, <1>9, NoneApart
  <2> QED
    BY <2>1, <2>2, <2>3 DEF NothingBefore
<1>21. ASSUME NEW o \in openings' \ openings
       PROVE  /\ \A p \in openings : p[1] # o[1]
              /\ item[o[1]] # None => item[o[1]].status = "ACTIVE" /\ ~item[o[1]].moved
              /\ item'[o[1]].moved
  <2>1. PICK i \in written : rows[j][i].action = "OPEN" /\ o = <<rows[j][i].key, j, i>>
    BY <1>15
  <2> QED
    BY <2>1, <1>6, <1>14
<1> QED
  BY <1>16, <1>17, <1>18, <1>19, <1>20, <1>21 DEF ImportIInv

(* A failure is recorded whatever has become of the job meanwhile.          *)
LEMMA FailureKeeps ==
  ASSUME ImportIInv, NEW j \in Job, RecordFailure(j)
  PROVE  ImportIInv'
<1>1. /\ ImportTypeOK /\ WholeBooks /\ RowsDistinct /\ RowsMatched /\ NothingBefore
      /\ job' = [job EXCEPT ![j] = "FAILED"] /\ failing' = failing \ {j}
      /\ UNCHANGED <<item, project, rows, openings, edits>>
  BY DEF ImportIInv, RecordFailure
<1>2. /\ job'[j] = "FAILED" /\ job' \in [Job -> {None, "PREVIEW", "COMPLETED", "FAILED"}]
      /\ \A x \in Job \ {j} : job'[x] = job[x]
  BY <1>1 DEF ImportTypeOK
<1>3. ImportTypeOK'
  BY <1>1, <1>2 DEF ImportTypeOK
<1>4. WholeBooks'
  BY <1>1, <1>2 DEF WholeBooks
<1>5. RowsDistinct' /\ RowsMatched'
  BY <1>1 DEF RowsDistinct, RowsMatched
<1>6. \A o \in openings : o[2] \in Job
  BY <1>1 DEF ImportTypeOK
<1>7. NothingBefore'
  BY <1>1, <1>2, <1>6, NoneApart DEF NothingBefore
<1> QED
  BY <1>3, <1>4, <1>5, <1>7 DEF ImportIInv

-----------------------------------------------------------------------------
LEMMA ImportStarts == ImportInit => ImportIInv
<1> SUFFICES ASSUME ImportInit PROVE ImportIInv
  OBVIOUS
<1>1. \A j \in Job : rows[j] = <<>> /\ rows[j] \in Seq(PreviewRow) /\ DOMAIN rows[j] = {}
  BY DEF ImportInit
<1>2. ImportTypeOK
  BY <1>1, ImportAssumption DEF ImportInit, ImportTypeOK
<1>3. WholeBooks /\ RowsDistinct /\ RowsMatched /\ NothingBefore
  BY <1>1, NoneApart DEF ImportInit, WholeBooks, RowsDistinct, RowsMatched, NothingBefore
<1> QED
  BY <1>2, <1>3 DEF ImportIInv

(* Each step keeps the invariant and opens a record only as its first       *)
(* movement.                                                                *)
LEMMA ImportStep ==
  ASSUME ImportIInv, [ImportNext]_importVars
  PROVE  /\ ImportIInv'
         /\ \A o \in openings' \ openings :
              /\ \A p \in openings : p[1] # o[1]
              /\ item[o[1]] # None => item[o[1]].status = "ACTIVE" /\ ~item[o[1]].moved
              /\ item'[o[1]].moved
<1> DEFINE Booked == \A o \in openings' \ openings :
                       /\ \A p \in openings : p[1] # o[1]
                       /\ item[o[1]] # None => item[o[1]].status = "ACTIVE" /\ ~item[o[1]].moved
                       /\ item'[o[1]].moved
<1> SUFFICES ImportIInv' /\ Booked
  OBVIOUS
<1>1. openings' = openings => Booked
  OBVIOUS
<1> HIDE DEF Booked
<1>2. ASSUME NEW j \in Job, NEW similar \in BOOLEAN, ConfirmImport(j, similar)
      PROVE  ImportIInv' /\ Booked
  BY <1>2, ConfirmKeeps DEF Booked
<1>3. ASSUME NEW j \in Job, PreviewImport(j)
      PROVE  ImportIInv' /\ Booked
  BY <1>1, <1>3, PreviewKeeps DEF PreviewImport
<1>4. ASSUME NEW j \in Job, RecordFailure(j)
      PROVE  ImportIInv' /\ Booked
  BY <1>1, <1>4, FailureKeeps DEF RecordFailure
<1>5. ASSUME UNCHANGED <<item, job, rows, openings>>, ImportTypeOK'
      PROVE  ImportIInv' /\ Booked
  BY <1>1, <1>5, RecordsKept
<1>6. ASSUME NEW j \in Job, FailConfirm(j)
      PROVE  ImportIInv' /\ Booked
  <2>1. UNCHANGED <<item, project, job, rows, openings, edits>> /\ failing' = failing \cup {j}
    BY <1>6 DEF FailConfirm
  <2>2. ImportTypeOK'
    BY <2>1 DEF ImportIInv, ImportTypeOK
  <2> QED
    BY <1>5, <2>1, <2>2
<1>7. CASE SetProject
  <2>1. /\ UNCHANGED <<item, job, rows, failing, openings>> /\ project' \in BOOLEAN
        /\ edits' \in 0..MaxEdits
    BY <1>7, ImportAssumption DEF SetProject, Edited, ImportIInv, ImportTypeOK
  <2>2. ImportTypeOK'
    BY <2>1 DEF ImportIInv, ImportTypeOK
  <2> QED
    BY <1>5, <2>1, <2>2
<1>8. ASSUME NEW k \in Identity, CreateItem(k) \/ MoveItem(k) \/ SetItemStatus(k)
      PROVE  ImportIInv' /\ Booked
  <2>1. openings' = openings
    BY <1>8 DEF CreateItem, MoveItem, SetItemStatus, Edited
  <2> QED
    BY <1>1, <1>8, <2>1, OthersKeep
<1>9. ASSUME NEW k \in Identity, DeleteItem(k)
      PROVE  ImportIInv' /\ Booked
  BY <1>1, <1>9, DeleteKeeps DEF DeleteItem, Edited
<1>10. CASE UNCHANGED importVars
  <2>1. UNCHANGED <<item, job, rows, openings>> /\ ImportTypeOK'
    BY <1>10 DEF ImportIInv, ImportTypeOK
  <2> QED
    BY <1>5, <2>1
<1>11. CASE ImportNext
  <2>1. CASE \E j \in Job : \/ PreviewImport(j) \/ FailConfirm(j) \/ RecordFailure(j)
                            \/ \E similar \in BOOLEAN : ConfirmImport(j, similar)
    <3>1. PICK j \in Job : \/ PreviewImport(j) \/ FailConfirm(j) \/ RecordFailure(j)
                           \/ \E similar \in BOOLEAN : ConfirmImport(j, similar)
      BY <2>1
    <3>2. CASE \E similar \in BOOLEAN : ConfirmImport(j, similar)
      BY <3>2, <1>2
    <3> QED
      BY <3>1, <3>2, <1>3, <1>4, <1>6
  <2>2. CASE \E k \in Identity : CreateItem(k) \/ MoveItem(k) \/ SetItemStatus(k) \/ DeleteItem(k)
    <3>1. PICK k \in Identity : CreateItem(k) \/ MoveItem(k) \/ SetItemStatus(k) \/ DeleteItem(k)
      BY <2>2
    <3> QED
      BY <3>1, <1>8, <1>9
  <2> QED
    BY <1>7, <1>11, <2>1, <2>2 DEF ImportNext
<1> QED
  BY <1>10, <1>11

(* Of the rows of a book all are settled or none is, whatever happens to    *)
(* the records and the job between preview and confirmation.                *)
THEOREM ImportInductive == ImportSpec => []ImportIInv
<1>1. ImportIInv /\ [ImportNext]_importVars => ImportIInv'
  BY ImportStep
<1> QED
  BY <1>1, ImportStarts, PTL DEF ImportSpec

(* An import settles a whole book or nothing, and opens a record only as    *)
(* its first movement.                                                      *)
THEOREM ImportsWhole == ImportSpec => BooksTrue
<1> DEFINE Booked == \A o \in openings' \ openings :
                       /\ \A p \in openings : p[1] # o[1]
                       /\ item[o[1]] # None => item[o[1]].status = "ACTIVE" /\ ~item[o[1]].moved
                       /\ item'[o[1]].moved
<1>1. ImportIInv /\ [ImportNext]_importVars => WholeBooks' /\ Booked
  <2>1. ImportIInv' => WholeBooks'
    BY DEF ImportIInv
  <2> QED
    BY <2>1, ImportStep
<1> HIDE DEF Booked
<1>2. ImportIInv /\ [ImportNext]_importVars => [WholeBooks' /\ Booked]_importVars
  BY <1>1
<1>3. ImportSpec => [][WholeBooks' /\ Booked]_importVars
  BY <1>2, ImportInductive, PTL DEF ImportSpec
<1> QED
  BY <1>3, PTL DEF BooksTrue, Booked

HIDE DEF importVars

(***************************************************************************)
(* The employee file (EmployeeFile)                                        *)
(***************************************************************************)

(* A history: of two periods the earlier one ends before the other begins, *)
(* and from the first day on no day is left out, unless all have ended.    *)
InOrder(P) ==
  /\ \A s, t \in P : s.from = t.from => s = t
  /\ \A s \in P : s.to # None => s.from <= s.to
  /\ \A s, t \in P : s.from < t.from => s.to # None /\ s.to < t.from
NoGap(P) ==
  \A s \in P, day \in Day : s.from <= day =>
    (\E t \in P : Covers(t, day)) \/ (\A t \in P : t.to # None /\ t.to < day)
History(P) == InOrder(P) /\ NoGap(P)

(* An office under deletion and the employees found for it are recorded.   *)
FoundRecorded ==
  \A o \in Office : clearing[o] # None => office[o] # None /\ \A e \in clearing[o] : employee[e] # None

FileIInv ==
  /\ FileTypeOK /\ PoliciesUsable /\ FoundRecorded
  /\ \A e \in Employee : employee[e] # None => posting[e] # {}
  /\ \A e \in Employee : History(posting[e]) /\ History(structure[e])
  /\ \A e \in Employee : structure[e] # {} => \E s \in structure[e] : s.to = None

-----------------------------------------------------------------------------
USE DEF fileVars

LEMMA Days == (\A d \in Day : d \in Nat) /\ None \notin Day
BY FileAssumption DEF Day

LEMMA InDay == ASSUME NEW d \in Nat PROVE d \in Day <=> 1 <= d /\ d <= MaxDay
BY FileAssumption DEF Day

(* A set of days has a first and a last one.                               *)
LEMMA LastDayOf ==
  ASSUME NEW D \in SUBSET Day, D # {}
  PROVE  \E m \in D : \A d \in D : d <= m
<1> DEFINE Above(d) == (d + 1)..MaxDay
           T == {Above(d) : d \in D}
<1>1. IsFiniteSet(1..MaxDay) /\ D \subseteq 1..MaxDay /\ MaxDay \in Nat
  BY FS_Interval, FileAssumption DEF Day
<1>2. T \subseteq SUBSET (1..MaxDay) /\ T # {}
  <2>1. \A d \in D : Above(d) \subseteq 1..MaxDay
    BY <1>1
  <2> HIDE DEF Above
  <2> QED
    BY <2>1
<1>3. PICK x \in T : \A y \in T : y \subseteq x => y = x
  <2> DEFINE S == 1..MaxDay
  <2>1. IsFiniteSet(S) /\ T \subseteq SUBSET S /\ T # {}
    BY <1>1, <1>2
  <2> HIDE DEF S, T, Above
  <2> QED
    BY <2>1, SmallestSubset
<1>4. PICK m \in D : x = Above(m)
  BY <1>3
<1>5. \A d \in D : d <= m
  <2> SUFFICES ASSUME NEW d \in D, d > m PROVE FALSE
    BY <1>1
  <2>1. Above(d) \subseteq Above(m) /\ d \in Above(m) /\ d \notin Above(d)
    BY <1>1
  <2> HIDE DEF Above
  <2> QED
    BY <1>3, <1>4, <2>1
<1> QED
  BY <1>5

LEMMA FirstDayOf ==
  ASSUME NEW D \in SUBSET Day, D # {}
  PROVE  \E m \in D : \A d \in D : m <= d
<1> DEFINE E == {MaxDay + 1 - d : d \in D}
<1>1. E \in SUBSET Day /\ E # {}
  <2>1. D \subseteq 1..MaxDay /\ MaxDay \in Nat
    BY FileAssumption DEF Day
  <2>2. \A d \in D : MaxDay + 1 - d \in 1..MaxDay
    BY <2>1
  <2> QED
    BY <2>2 DEF Day
<1>2. PICK l \in E : \A k \in E : k <= l
  <2> HIDE DEF E
  <2> QED
    BY <1>1, LastDayOf
<1>3. PICK m \in D : l = MaxDay + 1 - m
  BY <1>2
<1>4. \A d \in D : MaxDay + 1 - d <= MaxDay + 1 - m
  BY <1>2, <1>3
<1> QED
  BY <1>4, Days, FileAssumption

Timed(P) == \A s \in P : s.from \in Day /\ s.to \in Day \cup {None}

LEMMA LatestIs ==
  ASSUME NEW P, P # {}, Timed(P)
  PROVE  \E s \in P : \A t \in P : s.from >= t.from
<1> DEFINE D == {s.from : s \in P}
<1>1. D \in SUBSET Day /\ D # {}
  BY DEF Timed
<1>2. PICK m \in D : \A d \in D : d <= m
  <2> HIDE DEF D
  <2> QED
    BY <1>1, LastDayOf
<1>3. PICK s \in P : s.from = m
  BY <1>2
<1>4. \A t \in P : t.from <= s.from
  BY <1>2, <1>3
<1> QED
  BY <1>4, Days DEF Timed

LEMMA EarliestIs ==
  ASSUME NEW P, P # {}, Timed(P)
  PROVE  \E s \in P : \A t \in P : s.from <= t.from
<1> DEFINE D == {s.from : s \in P}
<1>1. D \in SUBSET Day /\ D # {}
  BY DEF Timed
<1>2. PICK m \in D : \A d \in D : m <= d
  <2> HIDE DEF D
  <2> QED
    BY <1>1, FirstDayOf
<1>3. PICK s \in P : s.from = m
  BY <1>2
<1>4. \A t \in P : s.from <= t.from
  BY <1>2, <1>3
<1> QED
  BY <1>4

(* A history gives every day since its first exactly one period, unless    *)
(* all have ended.                                                         *)
LEMMA HistorySeamless ==
  ASSUME NEW P, Timed(P), History(P)
  PROVE  Seamless(P)
<1> SUFFICES ASSUME NEW day \in Day, NEW s \in P, s.from <= day,
                    ~\A t \in P : t.to # None /\ t.to < day
             PROVE  Cardinality({t \in P : Covers(t, day)}) = 1
  BY DEF Seamless
<1>1. PICK c \in P : Covers(c, day)
  BY DEF History, NoGap
<1>2. ASSUME NEW t \in P, Covers(t, day) PROVE t = c
  <2>1. /\ c.from \in Nat /\ t.from \in Nat /\ day \in Nat
        /\ c.to # None => c.to \in Nat
        /\ t.to # None => t.to \in Nat
    BY Days DEF Timed
  <2>2. CASE t.from < c.from
    <3>1. t.to # None /\ t.to < c.from
      BY <2>2 DEF History, InOrder
    <3> QED
      BY <1>1, <1>2, <2>1, <3>1 DEF Covers
  <2>3. CASE c.from < t.from
    <3>1. c.to # None /\ c.to < t.from
      BY <2>3 DEF History, InOrder
    <3> QED
      BY <1>1, <1>2, <2>1, <3>1 DEF Covers
  <2>4. CASE c.from = t.from
    BY <2>4 DEF History, InOrder
  <2> QED
    BY <2>1, <2>2, <2>3, <2>4
<1>3. {t \in P : Covers(t, day)} = {c}
  BY <1>1, <1>2
<1> QED
  BY <1>3, FS_Singleton

LEMMA HistoryOfOne ==
  ASSUME NEW n, n.from \in Day, n.to \in Day \cup {None}, n.to = None \/ n.from <= n.to
  PROVE  History({n})
<1>0. n.from \in Nat /\ (n.to = None \/ n.to \in Nat)
  BY Days
<1>1. InOrder({n})
  BY <1>0 DEF InOrder
<1>2. NoGap({n})
  <2> SUFFICES ASSUME NEW day \in Day, n.from <= day, ~(n.to # None /\ n.to < day)
               PROVE  Covers(n, day)
    BY DEF NoGap
  <2>1. day \in Nat
    BY Days
  <2> QED
    BY <1>0, <2>1 DEF Covers
<1> QED
  BY <1>1, <1>2 DEF History

(* The latest period may be given another end,                             *)
LEMMA LatestChanged ==
  ASSUME NEW Q, Timed(Q), History(Q), NEW c \in Q, \A t \in Q : t.from <= c.from,
         NEW n, n.from = c.from, n.to \in Day \cup {None}, n.to = None \/ c.from <= n.to
  PROVE  LET P == (Q \ {c}) \cup {n} IN Timed(P) /\ History(P)
<1> DEFINE P == (Q \ {c}) \cup {n}
<1>1. Timed(P)
  BY DEF Timed
<1>2. ASSUME NEW t \in Q \ {c} PROVE t.from < c.from /\ t.to # None /\ t.to < c.from
  <2>1. t.from # c.from /\ t.from <= c.from /\ t.from \in Nat /\ c.from \in Nat
    BY Days DEF History, InOrder, Timed
  <2> QED
    BY <2>1 DEF History, InOrder
<1>3. /\ c.from \in Nat /\ n.from \in Nat /\ (n.to = None \/ n.to \in Nat)
      /\ \A t \in Q : t.from \in Nat /\ (t.to = None \/ t.to \in Nat)
      /\ c.to # None => c.from <= c.to
  BY Days DEF Timed, History, InOrder
<1>4. InOrder(P)
  <2>1. \A s, t \in Q \ {c} : /\ s.from = t.from => s = t
                              /\ s.from < t.from => s.to # None /\ s.to < t.from
    BY DEF History, InOrder
  <2>2. \A s \in Q \ {c} : s.to # None => s.from <= s.to
    BY DEF History, InOrder
  <2>3. \A s \in Q \ {c} : s.from \in Nat /\ s.from < n.from
    BY <1>2, Days DEF Timed
  <2>4. \A s, t \in P : s.from = t.from => s = t
    BY <2>1, <2>3
  <2>5. \A s, t \in P : s.from < t.from => s.to # None /\ s.to < t.from
    <3> SUFFICES ASSUME NEW s \in P, NEW t \in P, s.from < t.from
                 PROVE  s.to # None /\ s.to < t.from
      OBVIOUS
    <3>1. s \in Q \ {c}
      BY <2>3, <1>3
    <3> QED
      BY <3>1, <2>1, <1>2, <1>3
  <2>6. \A s \in P : s.to # None => s.from <= s.to
    BY <2>2
  <2> QED
    BY <2>4, <2>5, <2>6 DEF InOrder
<1>5. NoGap(P)
  <2> SUFFICES ASSUME NEW s \in P, NEW day \in Day, s.from <= day,
                      ~\A t \in P : t.to # None /\ t.to < day
               PROVE  \E t \in P : Covers(t, day)
    BY DEF NoGap
  <2>0. day \in Nat
    BY Days
  <2>1. CASE c.from <= day
    <3>1. \A t \in Q \ {c} : t.to # None /\ t.to < day
      BY <1>2, <1>3, <2>0, <2>1
    <3>2. ~(n.to # None /\ n.to < day)
      BY <3>1
    <3>3. Covers(n, day)
      BY <1>3, <2>0, <2>1, <3>2 DEF Covers
    <3> QED
      BY <3>3
  <2>2. CASE day < c.from
    <3>1. s \in Q \ {c}
      BY <2>0, <2>2, <1>3
    <3>2. ~(c.to # None /\ c.to < day)
      BY <2>0, <2>2, <1>3
    <3>3. PICK t \in Q : Covers(t, day)
      BY <3>1, <3>2 DEF History, NoGap
    <3>4. t # c
      BY <2>0, <2>2, <3>3, <1>3 DEF Covers
    <3> QED
      BY <3>3, <3>4
  <2> QED
    BY <2>0, <2>1, <2>2, <1>3
<1> QED
  BY <1>1, <1>4, <1>5 DEF History

(* and another one may follow it.                                          *)
LEMMA LatestFollowed ==
  ASSUME NEW Q, Timed(Q), History(Q), NEW c \in Q, \A t \in Q : t.from <= c.from, c.to # None,
         NEW n, n.from = c.to + 1, n.from \in Day, n.to = None
  PROVE  LET P == Q \cup {n} IN Timed(P) /\ History(P)
<1> DEFINE P == Q \cup {n}
<1>1. Timed(P)
  BY DEF Timed
<1>2. c.from \in Nat /\ c.to \in Nat /\ n.from \in Nat /\ c.from <= c.to /\ c.to < n.from
  <2>1. c.from \in Nat /\ c.to \in Nat
    BY Days DEF Timed
  <2> QED
    BY <2>1 DEF History, InOrder
<1>3. ASSUME NEW t \in Q PROVE t.from \in Nat /\ t.from < n.from /\ t.to # None /\ t.to < n.from
  <2>1. t.from \in Nat /\ t.from <= c.from
    BY Days DEF Timed
  <2>2. CASE t = c
    BY <2>2, <1>2
  <2>3. CASE t # c
    <3>1. t.from < c.from
      BY <2>1, <2>3, <1>2 DEF History, InOrder
    <3>2. t.to # None /\ t.to < c.from /\ t.to \in Nat
      BY <3>1, Days DEF History, InOrder, Timed
    <3> QED
      BY <2>1, <3>1, <3>2, <1>2
  <2> QED
    BY <2>2, <2>3
<1>4. InOrder(P)
  <2>1. \A s, t \in Q : /\ s.from = t.from => s = t
                        /\ s.from < t.from => s.to # None /\ s.to < t.from
    BY DEF History, InOrder
  <2>2. \A s \in Q : s.to # None => s.from <= s.to
    BY DEF History, InOrder
  <2>3. \A s, t \in P : s.from = t.from => s = t
    BY <2>1, <1>2, <1>3
  <2>4. \A s, t \in P : s.from < t.from => s.to # None /\ s.to < t.from
    BY <2>1, <1>2, <1>3
  <2> QED
    BY <2>2, <2>3, <2>4 DEF InOrder
<1>5. NoGap(P)
  <2> SUFFICES ASSUME NEW s \in P, NEW day \in Day, s.from <= day
               PROVE  \E t \in P : Covers(t, day)
    BY DEF NoGap
  <2>0. day \in Nat
    BY Days
  <2>1. CASE n.from <= day
    BY <2>1 DEF Covers
  <2>2. CASE day < n.from
    <3>1. s \in Q
      BY <2>0, <2>2, <1>2
    <3>2. ~(c.to < day)
      BY <2>0, <2>2, <1>2
    <3>3. PICK t \in Q : Covers(t, day)
      BY <3>1, <3>2 DEF History, NoGap
    <3> QED
      BY <3>3
  <2> QED
    BY <2>0, <2>1, <2>2, <1>2
<1> QED
  BY <1>1, <1>4, <1>5 DEF History

(* A salary is entered among those of other days.                          *)
Earlier(Q, from)  == {s \in Q : s.from < from}
Later(Q, from)    == {s \in Q : s.from > from}
Reaching(Q, from) ==
  {s \in Earlier(Q, from) : s = Latest(Earlier(Q, from)) /\ (s.to = None \/ s.to >= from)}
Cut(s, Q, from) == IF s \in Reaching(Q, from) THEN [s EXCEPT !.to = from - 1] ELSE s

LEMMA UntilIs ==
  ASSUME NEW Q, Timed(Q), NEW from \in Day
  PROVE  LET until == Until(Later(Q, from))
         IN /\ until \in Day \cup {None} /\ (until # None => from <= until)
            /\ until = None <=> Later(Q, from) = {}
            /\ \A s \in Later(Q, from) : until # None /\ until < s.from
            /\ until # None => \E s \in Later(Q, from) : until = s.from - 1
<1> DEFINE L == Later(Q, from)
<1>1. Timed(L) /\ \A s \in L : s.from > from
  BY DEF Later, Timed
<1>2. CASE L = {}
  BY <1>2 DEF Until
<1>3. CASE L # {}
  <2>1. \E s \in L : \A t \in L : s.from <= t.from
    <3> HIDE DEF L
    <3> QED
      BY <1>1, <1>3, EarliestIs
  <2>2. Earliest(L) \in L /\ \A t \in L : Earliest(L).from <= t.from
    <3> HIDE DEF L
    <3> QED
      BY <2>1 DEF Earliest
  <2> DEFINE f == Earliest(L).from
  <2>3. f \in Day /\ f \in Nat /\ from \in Nat /\ from < f /\ 1 <= from /\ f <= MaxDay /\ MaxDay \in Nat
    BY <1>1, <2>2, Days, FileAssumption DEF Timed, Day
  <2>4. f - 1 \in Day /\ from <= f - 1
    BY <2>3, InDay
  <2>5. \A t \in L : t.from \in Nat /\ f <= t.from
    BY <1>1, <2>2, Days DEF Timed
  <2>6. Until(L) = f - 1
    BY <1>3 DEF Until
  <2> HIDE DEF L, f
  <2>7. \A t \in L : f - 1 < t.from
    BY <2>3, <2>5
  <2>8. \E s \in L : f - 1 = s.from - 1
    BY <2>2 DEF f
  <2>9. f - 1 # None
    BY <2>4, Days
  <2> QED
    BY <1>3, <2>4, <2>6, <2>7, <2>8, <2>9 DEF L
<1> QED
  BY <1>2, <1>3

(* What becomes of the other salaries: from its day to its end the new one *)
(* takes their place, and elsewhere they stay.                             *)
LEMMA CutIs ==
  ASSUME NEW Q \in SUBSET Salary, Timed(Q), History(Q), NEW from \in Day, NEW s \in Q, s.from # from,
         NEW n, n.from = from, n.to = Until(Later(Q, from))
  PROVE  LET c == Cut(s, Q, from)
         IN /\ c.from = s.from /\ c.policy = s.policy /\ c.lines = s.lines /\ c \in Salary
            /\ c.to \in Day \cup {None} /\ (c.to # None => c.from <= c.to)
            /\ s.to # None => c.to # None /\ c.to <= s.to
            /\ c.from < from => c.to # None /\ c.to < from
            /\ from < c.from => c = s
            /\ \A day \in Day : Covers(c, day) <=> Covers(s, day) /\ ~Covers(n, day)
<1> DEFINE c == Cut(s, Q, from)
           E == Earlier(Q, from)
           L == Later(Q, from)
<1>1. /\ from \in Nat /\ s.from \in Nat /\ s.from \in Day /\ (s.to = None \/ s.to \in Nat)
      /\ s.to \in Day \cup {None} /\ (s.to # None => s.from <= s.to) /\ s \in Salary
  BY Days DEF Timed, History, InOrder
<1>2. n.to = None \/ n.to \in Nat
  BY UntilIs, Days
<1>3. CASE from < s.from
  <2>0. s \in L
    BY <1>1, <1>3 DEF Later
  <2>1. s \in L /\ n.to # None /\ n.to < s.from
    BY <2>0, UntilIs
  <2>2. c = s
    BY <1>1, <1>3 DEF Cut, Reaching, Earlier
  <2>3. \A day \in Day : Covers(s, day) => ~Covers(n, day)
    BY <2>1, <1>1, <1>2, Days DEF Covers
  <2> HIDE DEF c
  <2>4. s.to # None => s.to <= s.to
    BY <1>1
  <2> QED
    BY <1>1, <1>3, <2>2, <2>3, <2>4 DEF Salary, c
<1>4. CASE s.from < from /\ s \notin Reaching(Q, from)
  <2>1. s \in E /\ Timed(E) /\ \A t \in E : t \in Q /\ t.from \in Nat /\ t.from < from
    BY <1>4, Days DEF Earlier, Timed
  <2>2. \E x \in E : \A t \in E : x.from >= t.from
    <3> HIDE DEF E
    <3> QED
      BY <2>1, LatestIs
  <2> DEFINE l == Latest(E)
  <2>3. l \in E /\ \A t \in E : l.from >= t.from
    <3> HIDE DEF E
    <3> QED
      BY <2>2 DEF Latest
  <2>4. s.to # None /\ s.to < from
    <3>1. CASE s = l
      BY <1>1, <1>4, <2>1, <3>1 DEF Reaching
    <3>2. CASE s # l
      <4> HIDE DEF E, l
      <4>1. s.from < l.from /\ l.from < from /\ l.from \in Nat /\ l \in Q
        BY <2>1, <2>3, <3>2, <1>1 DEF History, InOrder
      <4>2. s.to # None /\ s.to < l.from
        BY <4>1 DEF History, InOrder
      <4> QED
        BY <1>1, <4>1, <4>2
    <3> QED
      BY <3>1, <3>2
  <2>5. c = s
    BY <1>4 DEF Cut
  <2>6. \A day \in Day : Covers(s, day) => ~Covers(n, day)
    BY <2>4, <1>1, Days DEF Covers
  <2> HIDE DEF c
  <2>7. s.to <= s.to /\ ~(from < s.from)
    BY <1>1, <1>4, <2>4
  <2> QED
    BY <1>1, <1>4, <2>4, <2>5, <2>6, <2>7 DEF Salary, c
<1>5. CASE s \in Reaching(Q, from)
  <2>1. s.from < from /\ (s.to = None \/ s.to >= from)
    BY <1>5 DEF Reaching, Earlier
  <2>2. from - 1 \in Day /\ from - 1 \in Nat /\ from - 1 # None /\ s.from <= from - 1 /\ from - 1 < from
    <3>1. from - 1 \in Nat /\ s.from <= from - 1 /\ from - 1 < from
      BY <1>1, <2>1
    <3>2. from - 1 \in Day
      BY <1>1, <2>1, FileAssumption DEF Day
    <3> QED
      BY <3>1, <3>2, Days
  <2>3. c = [s EXCEPT !.to = from - 1]
    BY <1>5 DEF Cut
  <2>4. c.from = s.from /\ c.policy = s.policy /\ c.lines = s.lines /\ c.to = from - 1 /\ c \in Salary
    BY <1>1, <2>2, <2>3 DEF Salary
  <2> HIDE DEF c
  <2>5. s.to # None => from - 1 <= s.to
    BY <1>1, <2>1
  <2>6. ASSUME NEW day \in Day, Covers(s, day), from <= day PROVE Covers(n, day)
    <3>1. day \in Nat
      BY Days
    <3>2. CASE n.to = None
      BY <2>6, <3>2 DEF Covers
    <3>3. CASE n.to # None
      <4>1. PICK f \in L : n.to = f.from - 1
        BY <3>3, UntilIs
      <4>2. f \in Q /\ f.from > from /\ f.from \in Nat
        BY <4>1, Days DEF Later, Timed
      <4>3. s.from < f.from
        BY <4>2, <1>1, <2>1
      <4>4. s.to # None /\ s.to < f.from
        BY <4>2, <4>3 DEF History, InOrder
      <4> QED
        BY <2>6, <3>1, <4>1, <4>2, <4>4, <1>1 DEF Covers
    <3> QED
      BY <3>2, <3>3
  <2>7. ASSUME NEW day \in Day PROVE Covers(c, day) <=> Covers(s, day) /\ ~Covers(n, day)
    <3>1. day \in Nat
      BY Days
    <3>2. CASE from <= day
      <4>1. ~Covers(c, day)
        BY <2>2, <2>4, <3>1, <3>2, <1>1 DEF Covers
      <4> QED
        BY <2>6, <3>2, <4>1
    <3>3. CASE day < from
      <4>1. ~Covers(n, day)
        BY <3>1, <3>3, <1>1 DEF Covers
      <4>2. Covers(c, day) <=> s.from <= day
        BY <2>2, <2>4, <3>1, <3>3, <1>1 DEF Covers
      <4>3. Covers(s, day) <=> s.from <= day
        BY <2>1, <3>1, <3>3, <1>1 DEF Covers
      <4> QED
        BY <4>1, <4>2, <4>3
    <3> QED
      BY <3>1, <3>2, <3>3, <1>1
  <2>8. ~(from < s.from)
    BY <1>1, <2>1
  <2> QED
    BY <1>1, <2>1, <2>2, <2>4, <2>5, <2>7, <2>8 DEF c
<1> QED
  BY <1>1, <1>3, <1>4, <1>5

LEMMA SalaryEntered ==
  ASSUME NEW Q \in SUBSET Salary, Timed(Q), History(Q), Q # {} => \E s \in Q : s.to = None,
         NEW from \in Day, \A s \in Q : s.from # from,
         NEW n \in Salary, n.from = from, n.to = Until(Later(Q, from)),
         NEW P, P = {Cut(s, Q, from) : s \in Q} \cup {n}
  PROVE  P \in SUBSET Salary /\ Timed(P) /\ History(P) /\ \E s \in P : s.to = None
<1> DEFINE cut(s) == Cut(s, Q, from)
<1>1. ASSUME NEW s \in Q
      PROVE  /\ cut(s).from = s.from /\ cut(s) \in Salary
             /\ cut(s).to \in Day \cup {None} /\ (cut(s).to # None => cut(s).from <= cut(s).to)
             /\ s.to # None => cut(s).to # None /\ cut(s).to <= s.to
             /\ cut(s).from < from => cut(s).to # None /\ cut(s).to < from
             /\ from < cut(s).from => cut(s) = s
             /\ \A day \in Day : Covers(cut(s), day) <=> Covers(s, day) /\ ~Covers(n, day)
  BY CutIs
<1>2. /\ n.to \in Day \cup {None} /\ (n.to # None => from <= n.to)
      /\ n.to = None <=> Later(Q, from) = {}
      /\ \A s \in Later(Q, from) : n.to # None /\ n.to < s.from
      /\ n.to # None => \E s \in Later(Q, from) : n.to = s.from - 1
  BY UntilIs
<1>3. /\ from \in Nat /\ (n.to = None \/ n.to \in Nat)
      /\ \A s \in Q : /\ s.from \in Nat /\ s.from # from /\ (s.to = None \/ s.to \in Nat)
                      /\ (cut(s).to = None \/ cut(s).to \in Nat)
  BY <1>1, <1>2, Days DEF Timed
<1>4. P = {cut(s) : s \in Q} \cup {n}
  OBVIOUS
<1> HIDE DEF cut
<1>5. P \in SUBSET Salary
  <2>1. \A s \in Q : cut(s) \in Salary
    BY <1>1
  <2>2. \A x \in P : x \in Salary
    BY <2>1, <1>4
  <2> QED
    BY <2>2
<1>6. Timed(P)
  BY <1>5 DEF Timed, Salary
<1>7. InOrder(P)
  <2>1. \A s \in P : s.to # None => s.from <= s.to
    BY <1>1, <1>2, <1>4
  <2>2. \A s, t \in Q : /\ s.from = t.from => s = t
                        /\ s.from < t.from => s.to # None /\ s.to < t.from
    BY DEF History, InOrder
  <2>3. \A s, t \in P : s.from = t.from => s = t
    BY <1>1, <1>3, <1>4, <2>2
  <2>4. ASSUME NEW s \in P, NEW t \in P, s.from < t.from
        PROVE  s.to # None /\ s.to < t.from
    <3>1. CASE s = n
      <4>1. PICK u \in Q : t = cut(u)
        BY <2>4, <3>1, <1>3, <1>4
      <4>2. u \in Later(Q, from) /\ t.from = u.from
        BY <2>4, <3>1, <4>1, <1>1, <1>3 DEF Later
      <4> QED
        BY <3>1, <4>2, <1>2
    <3>2. CASE s # n
      <4>1. PICK u \in Q : s = cut(u)
        BY <3>2, <1>4
      <4>2. CASE t = n
        BY <2>4, <4>1, <4>2, <1>1
      <4>3. CASE t # n
        <5>1. PICK v \in Q : t = cut(v)
          BY <4>3, <1>4
        <5>2. u.from < v.from
          BY <2>4, <4>1, <5>1, <1>1
        <5>3. u.to # None /\ u.to < v.from
          BY <2>2, <5>2
        <5>4. s.to # None /\ s.to <= u.to /\ s.to \in Nat /\ u.to \in Nat /\ v.from \in Nat /\ t.from = v.from
          BY <4>1, <5>1, <5>3, <1>1, <1>3
        <5> QED
          BY <5>3, <5>4
      <4> QED
        BY <4>2, <4>3
    <3> QED
      BY <3>1, <3>2
  <2> QED
    BY <2>1, <2>3, <2>4 DEF InOrder
<1>8. NoGap(P)
  <2> SUFFICES ASSUME NEW s \in P, NEW day \in Day, s.from <= day, ~Covers(n, day)
               PROVE  \E t \in P : Covers(t, day)
    BY <1>4 DEF NoGap
  <2>1. day \in Nat
    BY Days
  <2>2. PICK u \in Q : u.from <= day
    <3>1. CASE s = n
      <4>1. n.to # None /\ n.to < day
        BY <3>1, <2>1, <1>3 DEF Covers
      <4>2. PICK f \in Later(Q, from) : n.to = f.from - 1
        BY <4>1, <1>2
      <4>3. f \in Q /\ f.from <= day
        BY <4>1, <4>2, <2>1, <1>3 DEF Later
      <4> QED
        BY <4>3
    <3>2. CASE s # n
      BY <3>2, <1>1, <1>4
    <3> QED
      BY <3>1, <3>2
  <2>3. \E x \in Q : x.to = None
    OBVIOUS
  <2>4. PICK t \in Q : Covers(t, day)
    BY <2>2, <2>3 DEF History, NoGap
  <2>5. Covers(cut(t), day) /\ cut(t) \in P
    BY <2>4, <1>1, <1>4
  <2> QED
    BY <2>5
<1>9. \E s \in P : s.to = None
  <2>1. CASE Later(Q, from) = {}
    BY <2>1, <1>2, <1>4
  <2>2. CASE Later(Q, from) # {}
    <3>1. PICK f \in Q : f.from > from
      BY <2>2 DEF Later
    <3>2. PICK s \in Q : s.to = None
      OBVIOUS
    <3>3. ~(s.from < f.from)
      BY <3>2 DEF History, InOrder
    <3>4. from < s.from
      BY <3>1, <3>3, <1>3
    <3>5. cut(s) = s /\ cut(s) \in P
      BY <3>4, <1>1, <1>4
    <3> QED
      BY <3>2, <3>5
  <2> QED
    BY <2>1, <2>2
<1> QED
  BY <1>5, <1>6, <1>7, <1>8, <1>9 DEF History

-----------------------------------------------------------------------------
(* The steps on the employee file *)

LEMMA FileFields ==
  ASSUME FileTypeOK, NEW e \in Employee
  PROVE  /\ posting[e] \in SUBSET Posting /\ Timed(posting[e])
         /\ structure[e] \in SUBSET Salary /\ Timed(structure[e])
         /\ employee[e] # None => employee[e] \in Person
<1>1. posting[e] \in SUBSET Posting /\ structure[e] \in SUBSET Salary /\ employee[e] \in Person \cup {None}
  BY DEF FileTypeOK
<1> QED
  BY <1>1 DEF Timed, Posting, Salary

LEMMA PartsKnown == None \notin Person /\ None \notin Master /\ None \notin Part /\ None \notin Rule
BY FileAssumption

(* Where only the masters change.                                          *)
LEMMA MastersKeep ==
  ASSUME FileIInv, UNCHANGED <<posting, structure, component, policy>>,
         employee' \in [Employee -> Person \cup {None}],
         \A e \in Employee : employee'[e] # None <=> employee[e] # None,
         office' \in [Office -> Master \cup {None}],
         clearing' \in [Office -> (SUBSET Employee) \cup {None}],
         \A o \in Office : clearing'[o] # None => office'[o] # None /\ \A e \in clearing'[o] : employee[e] # None,
         today' \in Day
  PROVE  FileIInv'
<1>1. FileTypeOK'
  BY DEF FileIInv, FileTypeOK
<1>2. PoliciesUsable'
  BY DEF FileIInv, PoliciesUsable, ActiveBase
<1>3. FoundRecorded'
  <2> SUFFICES ASSUME NEW o \in Office, clearing'[o] # None, NEW e \in clearing'[o]
               PROVE  employee'[e] # None
    BY DEF FoundRecorded
  <2>0. clearing'[o] \in (SUBSET Employee) \cup {None}
    OBVIOUS
  <2>1. clearing'[o] \in SUBSET Employee
    BY <2>0
  <2>2. e \in Employee
    BY <2>1
  <2> QED
    BY <2>2
<1> QED
  BY <1>1, <1>2, <1>3 DEF FileIInv

(* Where one employee and their postings change.                           *)
LEMMA RecordKeeps ==
  ASSUME FileIInv, UNCHANGED <<office, clearing, structure, component, policy, today>>,
         NEW e \in Employee, NEW p \in Person, employee' = [employee EXCEPT ![e] = p],
         NEW P \in SUBSET Posting, P # {}, History(P), posting' = [posting EXCEPT ![e] = P]
  PROVE  FileIInv'
<1>1. /\ employee \in [Employee -> Person \cup {None}] /\ posting \in [Employee -> SUBSET Posting]
      /\ clearing \in [Office -> (SUBSET Employee) \cup {None}]
  BY DEF FileIInv, FileTypeOK
<1>2. /\ employee' \in [Employee -> Person \cup {None}] /\ employee'[e] # None
      /\ \A x \in Employee \ {e} : employee'[x] = employee[x]
  BY <1>1, PartsKnown
<1>3. /\ posting' \in [Employee -> SUBSET Posting] /\ posting'[e] = P
      /\ \A x \in Employee \ {e} : posting'[x] = posting[x]
  BY <1>1
<1>4. FileTypeOK'
  BY <1>2, <1>3 DEF FileIInv, FileTypeOK
<1>5. PoliciesUsable'
  BY DEF FileIInv, PoliciesUsable, ActiveBase
<1>6. FoundRecorded'
  <2> SUFFICES ASSUME NEW o \in Office, clearing[o] # None, NEW x \in clearing[o]
               PROVE  employee'[x] # None
    BY DEF FoundRecorded, FileIInv
  <2>2. clearing[o] \in (SUBSET Employee) \cup {None}
    BY <1>1
  <2>0. clearing[o] \in SUBSET Employee
    BY <2>2
  <2>1. x \in Employee /\ employee[x] # None
    BY <2>0 DEF FileIInv, FoundRecorded
  <2> QED
    BY <2>1, <1>2
<1>7. \A x \in Employee : employee'[x] # None => posting'[x] # {}
  BY <1>2, <1>3 DEF FileIInv
<1>8. \A x \in Employee : History(posting'[x]) /\ History(structure'[x])
  BY <1>3 DEF FileIInv
<1>9. \A x \in Employee : structure'[x] # {} => \E s \in structure'[x] : s.to = None
  BY DEF FileIInv
<1>10. \A x \in Employee : History(posting[x])' /\ History(structure[x])'
  BY <1>8 DEF History, InOrder, NoGap, Covers
<1> QED
  BY <1>4, <1>5, <1>6, <1>7, <1>9, <1>10 DEF FileIInv

(* An employee's own record.                                               *)
LEMMA StaffKeeps ==
  ASSUME FileIInv, NEW e \in Employee, NEW p, employee[e] # None, Recorded(e, p),
         p \in Person, posting' = posting
  PROVE  FileIInv'
<1>1. /\ employee' = [employee EXCEPT ![e] = p]
      /\ UNCHANGED <<office, clearing, structure, component, policy, today>>
  BY DEF Recorded, Organization, Salaries
<1>2. posting[e] \in SUBSET Posting /\ posting[e] # {} /\ History(posting[e])
  BY FileFields DEF FileIInv
<1>3. posting' = [posting EXCEPT ![e] = posting[e]]
  BY DEF FileIInv, FileTypeOK
<1> QED
  BY <1>1, <1>2, <1>3, RecordKeeps

LEMMA MasterFields ==
  ASSUME FileTypeOK, NEW e \in Employee, employee[e] # None
  PROVE  /\ \A joined \in Day, ends \in Day \cup {None},
               status \in {"active", "on_leave", "inactive", "terminated"} :
              [employee[e] EXCEPT !.joined = joined, !.ends = ends, !.status = status] \in Person
         /\ \A ends \in Day \cup {None}, status \in {"active", "on_leave", "inactive", "terminated"} :
              [employee[e] EXCEPT !.status = status, !.ends = ends] \in Person
         /\ \A archived \in BOOLEAN : [employee[e] EXCEPT !.archived = archived] \in Person
         /\ \A trash \in {"no", "own"} \cup Office : [employee[e] EXCEPT !.trash = trash] \in Person
<1>1. employee[e] \in Person
  BY FileFields
<1>2. \A joined \in Day, ends \in Day \cup {None},
         status \in {"active", "on_leave", "inactive", "terminated"} :
        [employee[e] EXCEPT !.joined = joined, !.ends = ends, !.status = status] \in Person
  BY <1>1 DEF Person
<1>3. \A ends \in Day \cup {None}, status \in {"active", "on_leave", "inactive", "terminated"} :
        [employee[e] EXCEPT !.status = status, !.ends = ends] \in Person
  BY <1>1 DEF Person
<1>4. \A archived \in BOOLEAN : [employee[e] EXCEPT !.archived = archived] \in Person
  BY <1>1 DEF Person
<1>5. \A trash \in {"no", "own"} \cup Office : [employee[e] EXCEPT !.trash = trash] \in Person
  BY <1>1 DEF Person
<1> QED
  BY <1>2, <1>3, <1>4, <1>5

LEMMA EmployeeSteps ==
  ASSUME FileIInv, NEW e \in Employee,
         \/ \E status \in {"active", "on_leave", "inactive", "terminated"}, joined \in Day,
              ends \in Day \cup {None} : UpdateEmployee(e, joined, ends, status)
         \/ ReturnActive(e) \/ PutOnLeave(e) \/ StopActivity(e)
         \/ ArchiveEmployee(e) \/ RestoreEmployeeArchive(e)
         \/ DeleteEmployee(e) \/ RestoreEmployeeTrash(e)
  PROVE  FileIInv'
<1>1. FileTypeOK
  BY DEF FileIInv
<1>2. CASE \E status \in {"active", "on_leave", "inactive", "terminated"}, joined \in Day,
             ends \in Day \cup {None} : UpdateEmployee(e, joined, ends, status)
  <2>1. PICK status \in {"active", "on_leave", "inactive", "terminated"}, joined \in Day,
             ends \in Day \cup {None} : UpdateEmployee(e, joined, ends, status)
    BY <1>2
  <2> DEFINE p == [employee[e] EXCEPT !.joined = joined, !.ends = ends, !.status = status]
  <2>2. employee[e] # None /\ Recorded(e, p) /\ posting' = posting
    BY <2>1 DEF UpdateEmployee
  <2>3. p \in Person
    BY <1>1, <2>2, MasterFields
  <2> HIDE DEF p
  <2> QED
    BY <2>2, <2>3, StaffKeeps
<1>3. ASSUME NEW status \in {"active", "on_leave", "inactive"}, Lifecycle(e, status, None), posting' = posting
      PROVE  FileIInv'
  <2> DEFINE p == [employee[e] EXCEPT !.status = status, !.ends = None]
  <2>1. employee[e] # None /\ Recorded(e, p)
    BY <1>3 DEF Lifecycle
  <2>2. p \in Person
    BY <1>1, <2>1, MasterFields
  <2> HIDE DEF p
  <2> QED
    BY <1>3, <2>1, <2>2, StaffKeeps
<1>4. ASSUME NEW p \in {[employee[e] EXCEPT !.archived = TRUE], [employee[e] EXCEPT !.archived = FALSE],
                        [employee[e] EXCEPT !.trash = "own"], [employee[e] EXCEPT !.trash = "no"]},
             employee[e] # None, Recorded(e, p), posting' = posting
      PROVE  FileIInv'
  <2>1. p \in Person
    <3>1. /\ [employee[e] EXCEPT !.archived = TRUE] \in Person
          /\ [employee[e] EXCEPT !.archived = FALSE] \in Person
      BY <1>1, <1>4, MasterFields
    <3>2. /\ [employee[e] EXCEPT !.trash = "own"] \in Person
          /\ [employee[e] EXCEPT !.trash = "no"] \in Person
      BY <1>1, <1>4, MasterFields
    <3> QED
      BY <3>1, <3>2
  <2> QED
    BY <1>4, <2>1, StaffKeeps
<1>5. CASE ReturnActive(e) \/ PutOnLeave(e) \/ StopActivity(e)
  BY <1>3, <1>5 DEF ReturnActive, PutOnLeave, StopActivity
<1>6. CASE ArchiveEmployee(e) \/ RestoreEmployeeArchive(e)
  BY <1>4, <1>6 DEF ArchiveEmployee, RestoreEmployeeArchive
<1>7. CASE DeleteEmployee(e) \/ RestoreEmployeeTrash(e)
  BY <1>4, <1>7 DEF DeleteEmployee, RestoreEmployeeTrash
<1> QED
  BY <1>2, <1>5, <1>6, <1>7

LEMMA CreateKeeps ==
  ASSUME FileIInv, NEW e \in Employee, NEW joined \in Day, NEW ends \in Day \cup {None},
         NEW status \in {"active", "on_leave", "inactive", "terminated"}, NEW at \in Place,
         CreateEmployee(e, joined, ends, status, at)
  PROVE  FileIInv'
<1> DEFINE p == [joined |-> joined, ends |-> ends, status |-> status, archived |-> FALSE, trash |-> "no"]
           n == [from |-> joined, to |-> IF status = "terminated" THEN ends ELSE None, at |-> at]
<1>1. /\ Clean(p) /\ employee' = [employee EXCEPT ![e] = p] /\ posting' = [posting EXCEPT ![e] = {n}]
      /\ UNCHANGED <<office, clearing, structure, component, policy, today>>
  BY DEF CreateEmployee, Recorded, Organization, Salaries
<1>2. p \in Person
  BY DEF Person
<1>3. n \in Posting /\ n.from \in Day /\ n.to \in Day \cup {None}
  BY DEF Posting
<1>4. n.to = None \/ n.from <= n.to
  BY <1>1 DEF Clean
<1> HIDE DEF p, n
<1>5. History({n}) /\ {n} \in SUBSET Posting /\ {n} # {}
  BY <1>3, <1>4, HistoryOfOne
<1> QED
  BY <1>1, <1>2, <1>5, RecordKeeps

LEMMA LastIs ==
  ASSUME FileTypeOK, NEW e \in Employee, posting[e] # {}
  PROVE  Last(e) \in posting[e] /\ \A t \in posting[e] : t.from <= Last(e).from
<1>1. Timed(posting[e])
  BY FileFields
<1>2. \E s \in posting[e] : \A t \in posting[e] : s.from >= t.from
  BY <1>1, LatestIs
<1>3. Last(e) \in posting[e] /\ \A t \in posting[e] : Last(e).from >= t.from
  BY <1>2 DEF Last
<1>4. \A t \in posting[e] : t.from \in Nat
  BY <1>1, Days DEF Timed
<1> QED
  BY <1>3, <1>4

(* Only the latest posting may be open, and termination closes it.         *)
LEMMA TerminateKeeps ==
  ASSUME FileIInv, NEW e \in Employee, NEW day \in Day, Terminate(e, day)
  PROVE  FileIInv'
<1> DEFINE p == [employee[e] EXCEPT !.status = "terminated", !.ends = day]
           P == (posting[e] \ Open(e)) \cup {[a EXCEPT !.to = day] : a \in Open(e)}
<1>1. /\ employee[e] # None /\ employee' = [employee EXCEPT ![e] = p]
      /\ posting' = [posting EXCEPT ![e] = P] /\ \A a \in Open(e) : a.from <= day
      /\ UNCHANGED <<office, clearing, structure, component, policy, today>>
  BY DEF Terminate, Lifecycle, Recorded, Organization, Salaries
<1>2. p \in Person
  BY <1>1, MasterFields DEF FileIInv
<1>3. posting[e] \in SUBSET Posting /\ Timed(posting[e]) /\ History(posting[e]) /\ posting[e] # {}
  BY <1>1, FileFields DEF FileIInv
<1>4. P \in SUBSET Posting /\ P # {} /\ History(P)
  <2>1. CASE Open(e) = {}
    BY <1>3, <2>1
  <2>2. CASE Open(e) # {}
    <3>1. PICK c \in posting[e] : c.to = None
      BY <2>2 DEF Open
    <3>2. ASSUME NEW t \in posting[e] PROVE t.from <= c.from /\ (t.to = None => t = c)
      <4>1. t.from \in Nat /\ c.from \in Nat
        BY <1>3, Days DEF Timed
      <4>2. ~(c.from < t.from)
        BY <1>3, <3>1 DEF History, InOrder
      <4>3. CASE t.to = None
        <5>1. ~(t.from < c.from)
          BY <1>3, <4>3 DEF History, InOrder
        <5>2. t.from = c.from
          BY <4>1, <4>2, <5>1
        <5> QED
          BY <1>3, <4>1, <5>2 DEF History, InOrder
      <4> QED
        BY <4>1, <4>2, <4>3
    <3>3. Open(e) = {c}
      BY <3>1, <3>2 DEF Open
    <3> DEFINE n == [c EXCEPT !.to = day]
    <3>4. c \in Posting /\ c.from <= day
      BY <1>1, <1>3, <3>3
    <3>5. n \in Posting /\ n.from = c.from /\ n.to = day
      BY <3>4 DEF Posting
    <3>6. P = (posting[e] \ {c}) \cup {n}
      BY <3>3
    <3> HIDE DEF n, P
    <3>7. n.to \in Day \cup {None} /\ (n.to = None \/ c.from <= n.to)
      BY <3>4, <3>5
    <3>8. \A t \in posting[e] : t.from <= c.from
      BY <3>2
    <3>9. History(P)
      BY <1>3, <3>5, <3>6, <3>7, <3>8, LatestChanged
    <3> QED
      BY <1>3, <3>5, <3>6, <3>9
  <2> QED
    BY <2>1, <2>2
<1> HIDE DEF p, P
<1> QED
  BY <1>1, <1>2, <1>4, RecordKeeps

LEMMA MoveKeeps ==
  ASSUME FileIInv, NEW e \in Employee, NEW at \in Place, NEW from \in Day,
         ChangeEmployeeOrganization(e, at, from)
  PROVE  FileIInv'
<1> DEFINE Q == posting[e]
           c == Last(e)
           P == Moved(e, at, from)
<1>1. /\ employee[e] # None /\ employee' = employee /\ posting' = [posting EXCEPT ![e] = P]
      /\ c.from <= from
      /\ UNCHANGED <<office, clearing, structure, component, policy, today>>
  BY DEF ChangeEmployeeOrganization, Organization, Salaries
<1>2. /\ Q \in SUBSET Posting /\ Timed(Q) /\ History(Q) /\ Q # {} /\ FileTypeOK
      /\ employee[e] \in Person /\ employee' = [employee EXCEPT ![e] = employee[e]]
  BY <1>1, FileFields DEF FileIInv, FileTypeOK
<1>3. c \in Q /\ \A t \in Q : t.from <= c.from
  BY <1>2, LastIs
<1>4. /\ c \in Posting /\ c.from \in Day /\ c.from \in Nat /\ from \in Nat /\ c.to \in Day \cup {None}
      /\ c.to # None => c.from <= c.to
  BY <1>2, <1>3, Days DEF Timed, History, InOrder
<1>5. CASE from = c.from
  <2> DEFINE n == [c EXCEPT !.at = at]
  <2>1. P = (Q \ {c}) \cup {n}
    BY <1>5 DEF Moved
  <2> HIDE DEF P, c
  <2>2. n \in Posting /\ n.from = c.from /\ n.to = c.to
    BY <1>4 DEF Posting
  <2> HIDE DEF n, Q
  <2>3. n.to = None \/ c.from <= n.to
    BY <1>4, <2>2
  <2>4. History(P)
    BY <1>2, <1>3, <1>4, <2>1, <2>2, <2>3, LatestChanged
  <2>5. P \in SUBSET Posting /\ P # {}
    BY <1>2, <2>1, <2>2
  <2> QED
    BY <1>1, <1>2, <2>4, <2>5, RecordKeeps
<1>6. CASE from # c.from
  <2> DEFINE k == [c EXCEPT !.to = from - 1]
             n == [from |-> from, to |-> None, at |-> at]
             R == (Q \ {c}) \cup {k}
  <2>1. P = R \cup {n}
    BY <1>6 DEF Moved
  <2> HIDE DEF P, c
  <2>2. from - 1 \in Day /\ c.from <= from - 1 /\ from - 1 \in Nat /\ from - 1 # None /\ (from - 1) + 1 = from
    <3>1. c.from < from /\ c.from >= 1 /\ from <= MaxDay /\ MaxDay \in Nat
      BY <1>1, <1>4, <1>6, FileAssumption DEF Day
    <3>2. from - 1 \in Nat /\ c.from <= from - 1 /\ (from - 1) + 1 = from /\ 1 <= from - 1 /\ from - 1 <= MaxDay
      BY <1>4, <3>1
    <3>3. from - 1 \in Day
      BY <3>2, InDay
    <3> QED
      BY <3>2, <3>3, Days
  <2>3. k \in Posting /\ k.from = c.from /\ k.to = from - 1
    BY <1>4, <2>2 DEF Posting
  <2>4. n \in Posting /\ n.from = from /\ n.to = None
    BY DEF Posting
  <2> HIDE DEF k, n, Q
  <2>5. k.to \in Day \cup {None} /\ (k.to = None \/ c.from <= k.to)
    BY <2>2, <2>3
  <2>6. Timed(R) /\ History(R)
    BY <1>2, <1>3, <2>3, <2>5, LatestChanged
  <2>7. k \in R /\ \A t \in R : t.from <= k.from
    BY <1>3, <1>4, <2>3
  <2>8. R \in SUBSET Posting
    BY <1>2, <2>3
  <2> HIDE DEF R
  <2>9. History(P)
    BY <2>1, <2>2, <2>3, <2>4, <2>6, <2>7, LatestFollowed
  <2>10. P \in SUBSET Posting /\ P # {}
    BY <2>1, <2>4, <2>8
  <2> QED
    BY <1>1, <1>2, <2>9, <2>10, RecordKeeps
<1> QED
  BY <1>5, <1>6

(* Branches and departments.                                               *)
LEMMA HousedKeeps ==
  ASSUME FileIInv, NEW o \in Office, NEW row \in Master, Housed(o, row)
  PROVE  FileIInv'
<1>1. /\ office' = [office EXCEPT ![o] = row]
      /\ UNCHANGED <<employee, posting, clearing, structure, component, policy, today>>
  BY DEF Housed, Salaries
<1>2. /\ employee' \in [Employee -> Person \cup {None}] /\ office' \in [Office -> Master \cup {None}]
      /\ clearing' \in [Office -> (SUBSET Employee) \cup {None}] /\ today' \in Day
  BY <1>1 DEF FileIInv, FileTypeOK
<1>3. \A x \in Office : office[x] # None => office'[x] # None
  BY <1>1, PartsKnown DEF FileIInv, FileTypeOK
<1>4. \A x \in Office : clearing'[x] # None => office'[x] # None /\ \A e \in clearing'[x] : employee[e] # None
  BY <1>1, <1>3 DEF FileIInv, FoundRecorded
<1> QED
  BY <1>1, <1>2, <1>4, MastersKeep

LEMMA OfficeFields ==
  ASSUME FileTypeOK, NEW o \in Office, office[o] # None
  PROVE  /\ \A active \in BOOLEAN : [office[o] EXCEPT !.active = active] \in Master
         /\ \A archived \in BOOLEAN : [office[o] EXCEPT !.archived = archived] \in Master
         /\ \A trash \in BOOLEAN : [office[o] EXCEPT !.trash = trash] \in Master
<1>1. office[o] \in Master
  BY DEF FileTypeOK
<1> QED
  BY <1>1 DEF Master

LEMMA OfficeSteps ==
  ASSUME FileIInv, NEW o \in Office,
         \/ \E active \in BOOLEAN : Founded(o, active) \/ Toggled(o, active)
         \/ \E archived \in BOOLEAN : Shelved(o, archived)
  PROVE  FileIInv'
<1>1. ASSUME NEW active \in BOOLEAN, Founded(o, active) PROVE FileIInv'
  <2>1. [active |-> active, archived |-> FALSE, trash |-> FALSE] \in Master
    BY DEF Master
  <2> QED
    BY <1>1, <2>1, HousedKeeps DEF Founded
<1>2. ASSUME NEW active \in BOOLEAN, Toggled(o, active) PROVE FileIInv'
  <2>1. [office[o] EXCEPT !.active = active] \in Master
    BY <1>2, OfficeFields DEF Toggled, Idle, FileIInv
  <2> QED
    BY <1>2, <2>1, HousedKeeps DEF Toggled
<1>3. ASSUME NEW archived \in BOOLEAN, Shelved(o, archived) PROVE FileIInv'
  <2>1. [office[o] EXCEPT !.archived = archived] \in Master
    BY <1>3, OfficeFields DEF Shelved, Idle, FileIInv
  <2> QED
    BY <1>3, <2>1, HousedKeeps DEF Shelved
<1> QED
  BY <1>1, <1>2, <1>3

LEMMA SoughtKeeps ==
  ASSUME FileIInv, NEW o \in Office, Sought(o)
  PROVE  FileIInv'
<1> DEFINE S == {e \in Employee : employee[e] # None /\ employee[e].trash = "no" /\ WorksAt(e, o)}
<1>1. /\ office[o] # None /\ clearing' = [clearing EXCEPT ![o] = S]
      /\ UNCHANGED <<employee, posting, office, structure, component, policy, today>>
  BY DEF Sought, Salaries, Idle
<1>2. S \in SUBSET Employee /\ \A e \in S : employee[e] # None
  OBVIOUS
<1> HIDE DEF S
<1>3. clearing \in [Office -> (SUBSET Employee) \cup {None}]
  BY DEF FileIInv, FileTypeOK
<1>4. /\ clearing' \in [Office -> (SUBSET Employee) \cup {None}] /\ clearing'[o] = S
      /\ \A x \in Office \ {o} : clearing'[x] = clearing[x]
  BY <1>1, <1>2, <1>3
<1>5. \A x \in Office : clearing'[x] # None => office'[x] # None /\ \A e \in clearing'[x] : employee[e] # None
  BY <1>1, <1>2, <1>4 DEF FileIInv, FoundRecorded
<1>6. /\ employee' \in [Employee -> Person \cup {None}] /\ office' \in [Office -> Master \cup {None}]
      /\ today' \in Day
  BY <1>1 DEF FileIInv, FileTypeOK
<1> QED
  BY <1>1, <1>4, <1>5, <1>6, MastersKeep

(* Employees go to and come back from Trash with their office.             *)
LEMMA TogetherKeeps ==
  ASSUME FileIInv, NEW o \in Office, Cleared(o) \/ Returned(o)
  PROVE  FileIInv'
<1>1. /\ office \in [Office -> Master \cup {None}] /\ employee \in [Employee -> Person \cup {None}]
      /\ clearing \in [Office -> (SUBSET Employee) \cup {None}] /\ today \in Day
      /\ FileTypeOK /\ FoundRecorded
  BY DEF FileIInv, FileTypeOK
<1>2. /\ office[o] # None
      /\ UNCHANGED <<posting, structure, component, policy, today>>
      /\ \E trash \in BOOLEAN : office' = [office EXCEPT ![o].trash = trash]
      /\ clearing' = [clearing EXCEPT ![o] = None]
  BY <1>1 DEF Cleared, Returned, Idle, Salaries, FoundRecorded
<1>3. PICK row \in Master : office' = [office EXCEPT ![o] = row]
  <2>1. PICK trash \in BOOLEAN : office' = [office EXCEPT ![o].trash = trash]
    BY <1>2
  <2> DEFINE row == [office[o] EXCEPT !.trash = trash]
  <2>2. row \in Master /\ office' = [office EXCEPT ![o] = row]
    BY <1>1, <1>2, <2>1, OfficeFields
  <2> HIDE DEF row
  <2> QED
    BY <2>2
<1>4. office' \in [Office -> Master \cup {None}] /\ \A x \in Office : office[x] # None => office'[x] # None
  BY <1>1, <1>3, PartsKnown
<1>5. ASSUME NEW e \in Employee
      PROVE  employee'[e] \in Person \cup {None} /\ (employee'[e] # None <=> employee[e] # None)
  <2>1. employee'[e] \in {employee[e], [employee[e] EXCEPT !.trash = o], [employee[e] EXCEPT !.trash = "no"]}
    BY <1>1 DEF Cleared, Returned
  <2>2. CASE employee'[e] = employee[e]
    BY <1>1, <2>2
  <2>3. CASE employee'[e] # employee[e]
    <3>1. employee[e] # None
      <4>1. CASE Cleared(o)
        <5>1. e \in clearing[o] /\ clearing[o] # None
          BY <2>3, <4>1 DEF Cleared
        <5> QED
          BY <5>1, <1>1 DEF FoundRecorded
      <4>2. CASE Returned(o)
        BY <2>3, <4>2 DEF Returned
      <4> QED
        BY <4>1, <4>2
    <3>2. [employee[e] EXCEPT !.trash = o] \in Person /\ [employee[e] EXCEPT !.trash = "no"] \in Person
      BY <1>1, <3>1, MasterFields
    <3>3. employee'[e] \in Person
      BY <2>1, <2>3, <3>2
    <3> QED
      BY <3>1, <3>3, PartsKnown
  <2> QED
    BY <2>2, <2>3
<1>6. employee' \in [Employee -> Person \cup {None}]
  <2>1. employee' = [e \in Employee |-> employee'[e]]
    BY DEF Cleared, Returned
  <2> QED
    BY <2>1, <1>5
<1>7. clearing' \in [Office -> (SUBSET Employee) \cup {None}] /\ \A x \in Office : clearing'[x] # None => clearing'[x] = clearing[x]
  BY <1>1, <1>2
<1>8. \A x \in Office : clearing'[x] # None => office'[x] # None /\ \A e \in clearing'[x] : employee[e] # None
  BY <1>1, <1>4, <1>7 DEF FoundRecorded
<1>9. \A e \in Employee : employee'[e] # None <=> employee[e] # None
  BY <1>5
<1> QED
  BY <1>1, <1>2, <1>4, <1>6, <1>7, <1>8, <1>9, MastersKeep

(* Where neither employees nor offices nor their histories change.         *)
LEMMA SetupKeeps ==
  ASSUME FileIInv, UNCHANGED <<employee, posting, office, clearing, structure, today>>,
         component' \in [Component -> Part \cup {None}], policy' \in [Policy -> Rule \cup {None}],
         PoliciesUsable'
  PROVE  FileIInv'
<1>1. FileTypeOK'
  BY DEF FileIInv, FileTypeOK
<1>2. FoundRecorded'
  BY DEF FileIInv, FoundRecorded
<1> QED
  BY <1>1, <1>2 DEF FileIInv

LEMMA SetupFields ==
  ASSUME FileTypeOK
  PROVE  /\ component \in [Component -> Part \cup {None}] /\ policy \in [Policy -> Rule \cup {None}]
         /\ \A c \in Component : component[c] # None =>
              component[c] \in Part /\ component[c].sort \in Sorts /\ component[c].state \in Setup
         /\ \A q \in Policy : policy[q] # None =>
              policy[q] \in Rule /\ policy[q].base \in Component /\ policy[q].state \in Setup
         /\ \A e \in Employee : \A s \in structure[e] :
              s.lines \in SUBSET Component /\ s.policy \in Policy \cup {None}
<1>1. \A e \in Employee : structure[e] \in SUBSET Salary
  BY DEF FileTypeOK
<1>2. \A e \in Employee : \A s \in structure[e] : s.lines \in SUBSET Component /\ s.policy \in Policy \cup {None}
  BY <1>1 DEF Salary
<1> QED
  BY <1>2 DEF FileTypeOK, Part, Rule

(* An active policy keeps a component that may be paid.                    *)
LEMMA MappedKeeps ==
  ASSUME FileIInv, NEW c \in Component, NEW row \in Part, Mapped(c, row),
         ActivePolicies(c) = {} \/ (row.state = "active" /\ row.sort \in Regular)
  PROVE  FileIInv'
<1>1. /\ component' = [component EXCEPT ![c] = row]
      /\ UNCHANGED <<structure, policy, employee, posting, office, clearing, today>>
  BY DEF Mapped, Unsalaried, Organization
<1>2. PoliciesUsable /\ FileTypeOK
  BY DEF FileIInv
<1>3. /\ component' \in [Component -> Part \cup {None}] /\ component'[c] = row /\ row # None
      /\ \A d \in Component \ {c} : component'[d] = component[d]
  BY <1>1, <1>2, SetupFields, PartsKnown
<1>4. PoliciesUsable'
  <2>1. ASSUME NEW q \in Policy, policy[q] # None
        PROVE  /\ component'[policy[q].base] # None
               /\ policy[q].state = "active" =>
                    component'[policy[q].base].state = "active" /\ component'[policy[q].base].sort \in Regular
    <3>1. policy[q].base \in Component /\ component[policy[q].base] # None
      BY <1>2, <2>1, SetupFields DEF PoliciesUsable
    <3>2. policy[q].state = "active" =>
            component[policy[q].base].state = "active" /\ component[policy[q].base].sort \in Regular
      BY <1>2, <2>1 DEF PoliciesUsable, ActiveBase
    <3>3. CASE policy[q].base = c
      BY <1>3, <2>1, <3>3 DEF ActivePolicies
    <3>4. CASE policy[q].base # c
      BY <1>3, <3>1, <3>2, <3>4
    <3> QED
      BY <3>3, <3>4
  <2>2. ASSUME NEW e \in Employee, NEW s \in structure[e]
        PROVE  /\ \A d \in s.lines : component'[d] # None
               /\ s.policy # None => policy[s.policy] # None
    <3>1. s.lines \in SUBSET Component
      BY <1>2, SetupFields
    <3>2. \A d \in s.lines : d \in Component /\ component[d] # None
      BY <1>2, <3>1 DEF PoliciesUsable
    <3>3. s.policy # None => policy[s.policy] # None
      BY <1>2 DEF PoliciesUsable
    <3> QED
      BY <1>3, <3>2, <3>3
  <2> QED
    BY <1>1, <2>1, <2>2 DEF PoliciesUsable, ActiveBase
<1>5. policy' \in [Policy -> Rule \cup {None}]
  BY <1>1, <1>2, SetupFields
<1> QED
  BY <1>1, <1>3, <1>4, <1>5, SetupKeeps

LEMMA ComponentSteps ==
  ASSUME FileIInv, NEW c \in Component,
         \/ \E sort \in Sorts, state \in Setup :
              CreateSalaryComponent(c, sort, state) \/ UpdateSalaryComponent(c, sort, state)
         \/ ArchiveSalaryComponent(c) \/ RestoreSalaryComponentArchive(c)
  PROVE  FileIInv'
<1>1. FileTypeOK /\ PoliciesUsable
  BY DEF FileIInv
<1>2. ASSUME NEW sort \in Sorts, NEW state \in Setup
      PROVE  LET row == [sort |-> sort, state |-> state] IN row \in Part /\ row.sort = sort /\ row.state = state
  BY DEF Part
<1>3. CASE \E sort \in Sorts, state \in Setup : CreateSalaryComponent(c, sort, state)
  <2>1. PICK sort \in Sorts, state \in Setup : CreateSalaryComponent(c, sort, state)
    BY <1>3
  <2>2. ActivePolicies(c) = {}
    BY <1>1, <2>1 DEF CreateSalaryComponent, ActivePolicies, PoliciesUsable
  <2> QED
    BY <1>2, <2>1, <2>2, MappedKeeps DEF CreateSalaryComponent
<1>4. CASE \E sort \in Sorts, state \in Setup : UpdateSalaryComponent(c, sort, state)
  <2>1. PICK sort \in Sorts, state \in Setup : UpdateSalaryComponent(c, sort, state)
    BY <1>4
  <2> DEFINE row == [sort |-> sort, state |-> state]
  <2>2. row \in Part /\ row.sort = sort /\ row.state = state
    BY <1>2
  <2>3. Mapped(c, row) /\ (ActivePolicies(c) # {} => state = "active" /\ sort \in Regular)
    BY <2>1 DEF UpdateSalaryComponent
  <2> HIDE DEF row
  <2> QED
    BY <2>2, <2>3, MappedKeeps
<1>5. CASE ArchiveSalaryComponent(c)
  <2>1. [component[c] EXCEPT !.state = "archived"] \in Part
    BY <1>1, <1>5, SetupFields DEF ArchiveSalaryComponent, Part, Setup
  <2> QED
    BY <1>5, <2>1, MappedKeeps DEF ArchiveSalaryComponent
<1>6. CASE RestoreSalaryComponentArchive(c)
  <2>1. [component[c] EXCEPT !.state = "inactive"] \in Part
    BY <1>1, <1>6, SetupFields DEF RestoreSalaryComponentArchive, Part, Setup
  <2>2. ActivePolicies(c) = {}
    BY <1>1, <1>6 DEF RestoreSalaryComponentArchive, ActivePolicies, PoliciesUsable, ActiveBase
  <2> QED
    BY <1>6, <2>1, <2>2, MappedKeeps DEF RestoreSalaryComponentArchive
<1> QED
  BY <1>3, <1>4, <1>5, <1>6

LEMMA DeleteComponentKeeps ==
  ASSUME FileIInv, NEW c \in Component, DeleteSalaryComponent(c)
  PROVE  FileIInv'
<1>1. /\ component' = [component EXCEPT ![c] = None]
      /\ UNCHANGED <<structure, policy, employee, posting, office, clearing, today>>
      /\ \A q \in Policy : policy[q] # None => policy[q].base # c
      /\ \A e \in Employee : \A s \in structure[e] : c \notin s.lines
  BY DEF DeleteSalaryComponent, Unsalaried, Organization
<1>2. PoliciesUsable /\ FileTypeOK
  BY DEF FileIInv
<1>3. /\ component' \in [Component -> Part \cup {None}]
      /\ \A d \in Component \ {c} : component'[d] = component[d]
  BY <1>1, <1>2, SetupFields
<1>4. PoliciesUsable'
  <2>1. ASSUME NEW q \in Policy, policy[q] # None
        PROVE  component'[policy[q].base] = component[policy[q].base]
    BY <1>1, <1>2, <1>3, <2>1, SetupFields
  <2>2. ASSUME NEW e \in Employee, NEW s \in structure[e]
        PROVE  /\ \A d \in s.lines : component'[d] # None
               /\ s.policy # None => policy[s.policy] # None
    <3>1. s.lines \in SUBSET Component /\ c \notin s.lines
      BY <1>1, <1>2, SetupFields
    <3>2. \A d \in s.lines : d \in Component \ {c} /\ component[d] # None
      BY <1>2, <3>1 DEF PoliciesUsable
    <3>3. s.policy # None => policy[s.policy] # None
      BY <1>2 DEF PoliciesUsable
    <3> QED
      BY <1>3, <3>2, <3>3
  <2>3. ASSUME NEW q \in Policy, policy[q] # None
        PROVE  /\ component'[policy[q].base] # None
               /\ policy[q].state = "active" =>
                    component'[policy[q].base].state = "active" /\ component'[policy[q].base].sort \in Regular
    BY <1>2, <2>1, <2>3 DEF PoliciesUsable, ActiveBase
  <2> QED
    BY <1>1, <2>2, <2>3 DEF PoliciesUsable, ActiveBase
<1>5. policy' \in [Policy -> Rule \cup {None}]
  BY <1>1, <1>2, SetupFields
<1> QED
  BY <1>1, <1>3, <1>4, <1>5, SetupKeeps

LEMMA RuledKeeps ==
  ASSUME FileIInv, NEW q \in Policy, NEW row \in Rule, Ruled(q, row), component[row.base] # None,
         row.state = "active" => component[row.base].state = "active"
  PROVE  FileIInv'
<1>1. /\ policy' = [policy EXCEPT ![q] = row] /\ component[row.base].sort \in Regular
      /\ UNCHANGED <<structure, component, employee, posting, office, clearing, today>>
  BY DEF Ruled, Unsalaried, Organization
<1>2. PoliciesUsable /\ FileTypeOK
  BY DEF FileIInv
<1>3. /\ policy' \in [Policy -> Rule \cup {None}] /\ policy'[q] = row /\ row # None
      /\ \A x \in Policy \ {q} : policy'[x] = policy[x]
  BY <1>1, <1>2, SetupFields, PartsKnown
<1>4. PoliciesUsable'
  <2>1. ASSUME NEW x \in Policy, policy'[x] # None
        PROVE  /\ component[policy'[x].base] # None
               /\ policy'[x].state = "active" =>
                    component[policy'[x].base].state = "active" /\ component[policy'[x].base].sort \in Regular
    <3>1. CASE x = q
      BY <1>1, <1>3, <3>1
    <3>2. CASE x # q
      BY <1>2, <1>3, <2>1, <3>2 DEF PoliciesUsable, ActiveBase
    <3> QED
      BY <3>1, <3>2
  <2>2. ASSUME NEW e \in Employee, NEW s \in structure[e]
        PROVE  /\ \A d \in s.lines : component[d] # None
               /\ s.policy # None => policy'[s.policy] # None
    <3>1. s.policy # None => s.policy \in Policy /\ policy[s.policy] # None
      BY <1>2, SetupFields DEF PoliciesUsable
    <3>2. \A d \in s.lines : component[d] # None
      BY <1>2 DEF PoliciesUsable
    <3> QED
      BY <1>3, <3>1, <3>2
  <2> QED
    BY <1>1, <2>1, <2>2 DEF PoliciesUsable, ActiveBase
<1>5. component' \in [Component -> Part \cup {None}]
  BY <1>1, <1>2, SetupFields
<1> QED
  BY <1>1, <1>3, <1>4, <1>5, SetupKeeps

LEMMA PolicySteps ==
  ASSUME FileIInv, NEW q \in Policy,
         \/ \E c \in Component, state \in Setup :
              CreateOvertimePolicy(q, c, state) \/ UpdateOvertimePolicy(q, c, state)
         \/ ArchiveOvertimePolicy(q) \/ RestoreOvertimePolicyArchive(q)
  PROVE  FileIInv'
<1>1. FileTypeOK /\ PoliciesUsable
  BY DEF FileIInv
<1>2. CASE \E c \in Component, state \in Setup :
             CreateOvertimePolicy(q, c, state) \/ UpdateOvertimePolicy(q, c, state)
  <2>1. PICK c \in Component, state \in Setup :
               CreateOvertimePolicy(q, c, state) \/ UpdateOvertimePolicy(q, c, state)
    BY <1>2
  <2> DEFINE row == [base |-> c, state |-> state]
  <2>2. row \in Rule /\ row.base = c
    BY DEF Rule
  <2>3. Ruled(q, row) /\ component[c] # None /\ component[c].state = "active"
    BY <2>1 DEF CreateOvertimePolicy, UpdateOvertimePolicy, ActiveBase
  <2> HIDE DEF row
  <2> QED
    BY <2>2, <2>3, RuledKeeps
<1>3. ASSUME NEW state \in {"archived", "inactive"}, policy[q] # None,
             Ruled(q, [policy[q] EXCEPT !.state = state])
      PROVE  FileIInv'
  <2> DEFINE row == [policy[q] EXCEPT !.state = state]
  <2>1. policy[q] \in Rule /\ component[policy[q].base] # None
    BY <1>1, <1>3, SetupFields DEF PoliciesUsable
  <2>2. row \in Rule /\ row.base = policy[q].base /\ row.state = state
    BY <2>1 DEF Rule, Setup
  <2>3. Ruled(q, row)
    BY <1>3
  <2> HIDE DEF row
  <2> QED
    BY <2>1, <2>2, <2>3, RuledKeeps
<1>4. CASE ArchiveOvertimePolicy(q) \/ RestoreOvertimePolicyArchive(q)
  BY <1>3, <1>4 DEF ArchiveOvertimePolicy, RestoreOvertimePolicyArchive
<1> QED
  BY <1>2, <1>4

LEMMA DeletePolicyKeeps ==
  ASSUME FileIInv, NEW q \in Policy, DeleteOvertimePolicy(q)
  PROVE  FileIInv'
<1>1. /\ policy' = [policy EXCEPT ![q] = None]
      /\ UNCHANGED <<structure, component, employee, posting, office, clearing, today>>
      /\ \A e \in Employee : \A s \in structure[e] : s.policy # q
  BY DEF DeleteOvertimePolicy, Unsalaried, Organization
<1>2. PoliciesUsable /\ FileTypeOK
  BY DEF FileIInv
<1>3. /\ policy' \in [Policy -> Rule \cup {None}] /\ policy'[q] = None
      /\ \A x \in Policy \ {q} : policy'[x] = policy[x]
  BY <1>1, <1>2, SetupFields
<1>4. PoliciesUsable'
  <2>1. ASSUME NEW x \in Policy, policy'[x] # None
        PROVE  /\ component[policy'[x].base] # None
               /\ policy'[x].state = "active" =>
                    component[policy'[x].base].state = "active" /\ component[policy'[x].base].sort \in Regular
    BY <1>2, <1>3, <2>1 DEF PoliciesUsable, ActiveBase
  <2>2. ASSUME NEW e \in Employee, NEW s \in structure[e]
        PROVE  /\ \A d \in s.lines : component[d] # None
               /\ s.policy # None => policy'[s.policy] # None
    <3>1. s.policy # None => s.policy \in Policy \ {q} /\ policy[s.policy] # None
      BY <1>1, <1>2, SetupFields DEF PoliciesUsable
    <3>2. \A d \in s.lines : component[d] # None
      BY <1>2 DEF PoliciesUsable
    <3> QED
      BY <1>3, <3>1, <3>2
  <2> QED
    BY <1>1, <2>1, <2>2 DEF PoliciesUsable, ActiveBase
<1>5. component' \in [Component -> Part \cup {None}]
  BY <1>1, <1>2, SetupFields
<1> QED
  BY <1>1, <1>3, <1>4, <1>5, SetupKeeps

(* Entering a salary.                                                      *)
LEMMA AssignIs ==
  ASSUME FileIInv, NEW e \in Employee, NEW from \in Day, NEW lines \in SUBSET Component,
         NEW q \in Policy \cup {None}, AssignEmployeeSalaryStructure(e, from, lines, q),
         NEW n, n = [from |-> from, to |-> Until(Later(structure[e], from)), policy |-> q, lines |-> lines]
  PROVE  /\ \A s \in structure[e] : s.from # from
         /\ n \in Salary /\ n.from = from /\ n.to = Until(Later(structure[e], from))
         /\ n.policy = q /\ n.lines = lines
         /\ structure' = [structure EXCEPT ![e] = {Cut(s, structure[e], from) : s \in structure[e]} \cup {n}]
         /\ UNCHANGED <<employee, posting, office, clearing, component, policy, today>>
<1> DEFINE Q == structure[e]
           R == Reaching(Q, from)
           P == (Q \ R) \cup {[s EXCEPT !.to = from - 1] : s \in R} \cup {n}
<1>1. FileTypeOK /\ Q \in SUBSET Salary /\ Timed(Q)
  BY FileFields DEF FileIInv
<1>2. Q = Earlier(Q, from) \cup Later(Q, from)
  BY DEF AssignEmployeeSalaryStructure, Earlier, Later
<1>3. structure' = [structure EXCEPT ![e] = P]
  BY DEF AssignEmployeeSalaryStructure, Earlier, Later, Reaching
<1>4. UNCHANGED <<employee, posting, office, clearing, component, policy, today>>
  BY DEF AssignEmployeeSalaryStructure, Unsalaried, Organization
<1>5. \A s \in Q : s.from # from
  <2>1. \A s \in Q : s.from < from \/ s.from > from
    BY <1>2 DEF Earlier, Later
  <2>2. \A s \in Q : s.from \in Nat /\ from \in Nat
    BY <1>1, Days DEF Timed
  <2> QED
    BY <2>1, <2>2
<1>6. Until(Later(Q, from)) \in Day \cup {None}
  BY <1>1, UntilIs
<1>7. n \in Salary /\ n.from = from /\ n.to = Until(Later(Q, from)) /\ n.policy = q /\ n.lines = lines
  BY <1>6 DEF Salary
<1>8. P = {Cut(s, Q, from) : s \in Q} \cup {n}
  <2>1. R \subseteq Q
    BY DEF Reaching, Earlier
  <2>2. \A s \in Q : Cut(s, Q, from) = IF s \in R THEN [s EXCEPT !.to = from - 1] ELSE s
    BY DEF Cut
  <2> HIDE DEF R, Q
  <2> QED
    BY <2>1, <2>2
<1> QED
  BY <1>3, <1>4, <1>5, <1>7, <1>8

LEMMA AssignKeeps ==
  ASSUME FileIInv, NEW e \in Employee, NEW from \in Day, NEW lines \in SUBSET Component,
         NEW q \in Policy \cup {None}, AssignEmployeeSalaryStructure(e, from, lines, q)
  PROVE  FileIInv'
<1> DEFINE Q == structure[e]
           n == [from |-> from, to |-> Until(Later(structure[e], from)), policy |-> q, lines |-> lines]
           P == {Cut(s, Q, from) : s \in Q} \cup {n}
<1>1. /\ FileTypeOK /\ PoliciesUsable /\ FoundRecorded
      /\ Q \in SUBSET Salary /\ Timed(Q) /\ History(Q) /\ (Q # {} => \E s \in Q : s.to = None)
  BY FileFields DEF FileIInv
<1>2. /\ \A s \in Q : s.from # from
      /\ n \in Salary /\ n.from = from /\ n.to = Until(Later(Q, from))
      /\ n.policy = q /\ n.lines = lines /\ structure' = [structure EXCEPT ![e] = P]
      /\ UNCHANGED <<employee, posting, office, clearing, component, policy, today>>
  BY AssignIs
<1>3. PayableLines(lines, q)
  BY DEF AssignEmployeeSalaryStructure
<1> HIDE DEF n, Q
<1>14. /\ Q \in SUBSET Salary /\ Timed(Q) /\ History(Q) /\ (Q # {} => \E s \in Q : s.to = None)
       /\ \A s \in Q : s.from # from
       /\ n \in Salary /\ n.from = from /\ n.to = Until(Later(Q, from))
       /\ P = {Cut(s, Q, from) : s \in Q} \cup {n}
  BY <1>1, <1>2
<1>4. P \in SUBSET Salary /\ History(P) /\ \E s \in P : s.to = None
  <2> HIDE DEF P
  <2> QED
    BY <1>14, SalaryEntered
<1>5. \A s \in P : s = n \/ \E t \in Q : s.policy = t.policy /\ s.lines = t.lines
  BY <1>1, <1>2, CutIs
<1> HIDE DEF P
<1>6. /\ structure' \in [Employee -> SUBSET Salary] /\ structure'[e] = P
      /\ \A x \in Employee \ {e} : structure'[x] = structure[x]
  BY <1>1, <1>2, <1>4 DEF FileTypeOK
<1>7. FileTypeOK'
  BY <1>1, <1>2, <1>6 DEF FileTypeOK
<1>8. FoundRecorded'
  BY <1>1, <1>2 DEF FoundRecorded
<1>9. PoliciesUsable'
  <2>1. ASSUME NEW x \in Employee, NEW s \in structure[x]
        PROVE  /\ \A c \in s.lines : component[c] # None
               /\ s.policy # None => policy[s.policy] # None
    BY <1>1 DEF PoliciesUsable
  <2>2. /\ \A c \in n.lines : component[c] # None
        /\ n.policy # None => policy[n.policy] # None
    BY <1>2, <1>3 DEF PayableLines, ActiveBase
  <2>3. ASSUME NEW s \in P
        PROVE  /\ \A c \in s.lines : component[c] # None
               /\ s.policy # None => policy[s.policy] # None
    BY <2>1, <2>2, <1>5 DEF Q
  <2>4. ASSUME NEW x \in Employee, NEW s \in structure'[x]
        PROVE  /\ \A c \in s.lines : component[c] # None
               /\ s.policy # None => policy[s.policy] # None
    BY <2>1, <2>3, <1>6
  <2> QED
    BY <1>1, <1>2, <2>4 DEF PoliciesUsable, ActiveBase
<1>10. \A x \in Employee : employee'[x] # None => posting'[x] # {}
  BY <1>2 DEF FileIInv
<1>11. \A x \in Employee : History(posting'[x]) /\ History(structure'[x])
  BY <1>2, <1>4, <1>6 DEF FileIInv
<1>12. \A x \in Employee : History(posting[x])' /\ History(structure[x])'
  BY <1>11 DEF History, InOrder, NoGap, Covers
<1>13. \A x \in Employee : structure'[x] # {} => \E s \in structure'[x] : s.to = None
  BY <1>4, <1>6 DEF FileIInv
<1> QED
  BY <1>7, <1>8, <1>9, <1>10, <1>12, <1>13 DEF FileIInv

(* No day but those the new salary covers is paid otherwise than before.   *)
LEMMA AssignPays ==
  ASSUME FileIInv, NEW e \in Employee, NEW from \in Day, NEW lines \in SUBSET Component,
         NEW q \in Policy \cup {None}, AssignEmployeeSalaryStructure(e, from, lines, q),
         NEW x \in Employee, structure'[x] # structure[x], NEW day \in Day,
         SalaryOn(x, day)' # SalaryOn(x, day)
  PROVE  \E s \in structure'[x] :
           /\ \A t \in structure[x] : t.from # s.from
           /\ Covers(s, day) /\ Cardinality(SalaryOn(x, day)') = 1
<1> DEFINE Q == structure[e]
           n == [from |-> from, to |-> Until(Later(structure[e], from)), policy |-> q, lines |-> lines]
           cut(s) == Cut(s, Q, from)
           P == {cut(s) : s \in Q} \cup {n}
           Pays(s) == [from |-> s.from, policy |-> s.policy, lines |-> s.lines]
<1>1. FileTypeOK /\ Q \in SUBSET Salary /\ Timed(Q) /\ History(Q)
  BY FileFields DEF FileIInv
<1>2. /\ \A s \in Q : s.from # from
      /\ n \in Salary /\ n.from = from /\ n.to = Until(Later(Q, from))
      /\ structure' = [structure EXCEPT ![e] = P]
  BY AssignIs
<1>3. x = e /\ structure'[e] = P
  BY <1>1, <1>2 DEF FileTypeOK
<1> HIDE DEF n, Q
<1>4. \A s \in Q : /\ cut(s).from = s.from /\ cut(s).policy = s.policy /\ cut(s).lines = s.lines
                   /\ Covers(cut(s), day) <=> Covers(s, day) /\ ~Covers(n, day)
  BY <1>1, <1>2, CutIs
<1> HIDE DEF cut
<1>5. SalaryOn(x, day) = {Pays(s) : s \in {s \in Q : Covers(s, day)}}
  BY <1>3 DEF SalaryOn, Q
<1>6. SalaryOn(x, day)' = {Pays(s) : s \in {s \in P : Covers(s, day)}}
  BY <1>3 DEF SalaryOn, Covers
<1>7. \A s \in Q : Pays(cut(s)) = Pays(s)
  BY <1>4
<1> HIDE DEF Pays
<1>8. Covers(n, day)
  <2> SUFFICES ASSUME ~Covers(n, day) PROVE FALSE
    OBVIOUS
  <2>1. \A s \in {s \in P : Covers(s, day)} : \E t \in {t \in Q : Covers(t, day)} : Pays(s) = Pays(t)
    BY <1>4, <1>7
  <2>2. \A t \in {t \in Q : Covers(t, day)} : cut(t) \in {s \in P : Covers(s, day)} /\ Pays(cut(t)) = Pays(t)
    BY <1>4, <1>7
  <2>3. \A t \in {t \in Q : Covers(t, day)} : \E s \in {s \in P : Covers(s, day)} : Pays(s) = Pays(t)
    BY <2>2
  <2> DEFINE A == {s \in P : Covers(s, day)}
             B == {t \in Q : Covers(t, day)}
  <2>4. /\ \A s \in A : \E t \in B : Pays(s) = Pays(t)
        /\ \A t \in B : \E s \in A : Pays(s) = Pays(t)
    BY <2>1, <2>3
  <2>5. SalaryOn(x, day)' = {Pays(s) : s \in A} /\ SalaryOn(x, day) = {Pays(t) : t \in B}
    BY <1>5, <1>6
  <2> HIDE DEF A, B
  <2>6. {Pays(s) : s \in A} = {Pays(t) : t \in B}
    BY <2>4
  <2> QED
    BY <2>5, <2>6
<1>9. {s \in P : Covers(s, day)} = {n}
  BY <1>4, <1>8
<1>10. SalaryOn(x, day)' = {Pays(n)}
  BY <1>6, <1>9
<1>11. Cardinality(SalaryOn(x, day)') = 1
  BY <1>10, FS_Singleton
<1>12. n \in structure'[x] /\ \A t \in structure[x] : t.from # n.from
  BY <1>2, <1>3 DEF Q
<1> QED
  BY <1>8, <1>11, <1>12

-----------------------------------------------------------------------------
(* The theorems *)

LEMMA FileStarts == FileInit => FileIInv
<1> SUFFICES ASSUME FileInit PROVE FileIInv
  OBVIOUS
<1>1. FileTypeOK
  BY DEF FileInit, FileTypeOK
<1>2. PoliciesUsable /\ FoundRecorded
  BY DEF FileInit, PoliciesUsable, FoundRecorded
<1>3. \A e \in Employee : employee[e] = None /\ posting[e] = {} /\ structure[e] = {}
  BY DEF FileInit
<1>4. History({})
  BY DEF History, InOrder, NoGap
<1> QED
  BY <1>1, <1>2, <1>3, <1>4 DEF FileIInv

LEMMA DayKeeps == ASSUME FileIInv, TimePasses PROVE FileIInv'
<1>1. /\ UNCHANGED <<employee, posting, office, clearing, structure, component, policy>>
      /\ today < MaxDay /\ today' = today + 1
  BY DEF TimePasses, Organization, Salaries
<1>2. today \in 1..MaxDay /\ MaxDay \in Nat
  BY FileAssumption DEF FileIInv, FileTypeOK, Day
<1>3. today' \in Day
  BY <1>1, <1>2 DEF Day
<1>4. /\ employee' \in [Employee -> Person \cup {None}] /\ office' \in [Office -> Master \cup {None}]
      /\ clearing' \in [Office -> (SUBSET Employee) \cup {None}]
  BY <1>1 DEF FileIInv, FileTypeOK
<1>5. \A o \in Office : clearing'[o] # None => office'[o] # None /\ \A e \in clearing'[o] : employee[e] # None
  BY <1>1 DEF FileIInv, FoundRecorded
<1> QED
  BY <1>1, <1>3, <1>4, <1>5, MastersKeep

LEMMA OfficesKeep ==
  ASSUME FileIInv, NEW o \in Office,
         \/ \E active \in BOOLEAN :
              \/ CreateBranch(o, active) \/ UpdateBranch(o, active)
              \/ CreateDepartment(o, active) \/ UpdateDepartment(o, active)
         \/ ArchiveBranch(o) \/ RestoreBranchArchive(o)
         \/ DeleteBranch(o) \/ RestoreBranchTrash(o)
         \/ ArchiveDepartment(o) \/ RestoreDepartmentArchive(o)
         \/ DeleteDepartment(o) \/ RestoreDepartmentTrash(o)
  PROVE  FileIInv'
<1>1. \/ \E active \in BOOLEAN : Founded(o, active) \/ Toggled(o, active)
      \/ \E archived \in BOOLEAN : Shelved(o, archived)
      \/ Sought(o) \/ Cleared(o) \/ Returned(o)
  BY DEF CreateBranch, UpdateBranch, CreateDepartment, UpdateDepartment,
         ArchiveBranch, RestoreBranchArchive, DeleteBranch, RestoreBranchTrash,
         ArchiveDepartment, RestoreDepartmentArchive, DeleteDepartment, RestoreDepartmentTrash
<1> QED
  BY <1>1, OfficeSteps, SoughtKeeps, TogetherKeeps

(* Every step of the services keeps the employee file sound.               *)
LEMMA FileSteps == ASSUME FileIInv, EmployeeNext PROVE FileIInv'
<1>1. CASE TimePasses
  BY <1>1, DayKeeps
<1>2. ASSUME NEW e \in Employee, NEW status \in {"active", "on_leave", "inactive", "terminated"},
             NEW joined \in Day, NEW ends \in Day \cup {None},
             \/ UpdateEmployee(e, joined, ends, status)
             \/ \E at \in Place : CreateEmployee(e, joined, ends, status, at)
      PROVE  FileIInv'
  <2>1. CASE UpdateEmployee(e, joined, ends, status)
    BY <2>1, EmployeeSteps
  <2>2. CASE \E at \in Place : CreateEmployee(e, joined, ends, status, at)
    BY <2>2, CreateKeeps
  <2> QED
    BY <1>2, <2>1, <2>2
<1>3. ASSUME NEW e \in Employee, NEW day \in Day,
             \/ Terminate(e, day)
             \/ \E at \in Place : ChangeEmployeeOrganization(e, at, day)
             \/ \E lines \in SUBSET Component, q \in Policy \cup {None} :
                  AssignEmployeeSalaryStructure(e, day, lines, q)
      PROVE  FileIInv'
  BY <1>3, TerminateKeeps, MoveKeeps, AssignKeeps
<1>4. ASSUME NEW e \in Employee,
             \/ ReturnActive(e) \/ PutOnLeave(e) \/ StopActivity(e)
             \/ ArchiveEmployee(e) \/ RestoreEmployeeArchive(e)
             \/ DeleteEmployee(e) \/ RestoreEmployeeTrash(e)
      PROVE  FileIInv'
  BY <1>4, EmployeeSteps
<1>5. ASSUME NEW o \in Office,
             \/ \E active \in BOOLEAN :
                  \/ CreateBranch(o, active) \/ UpdateBranch(o, active)
                  \/ CreateDepartment(o, active) \/ UpdateDepartment(o, active)
             \/ ArchiveBranch(o) \/ RestoreBranchArchive(o)
             \/ DeleteBranch(o) \/ RestoreBranchTrash(o)
             \/ ArchiveDepartment(o) \/ RestoreDepartmentArchive(o)
             \/ DeleteDepartment(o) \/ RestoreDepartmentTrash(o)
      PROVE  FileIInv'
  BY <1>5, OfficesKeep
<1>6. ASSUME NEW c \in Component,
             \/ \E sort \in Sorts, state \in Setup :
                  CreateSalaryComponent(c, sort, state) \/ UpdateSalaryComponent(c, sort, state)
             \/ ArchiveSalaryComponent(c) \/ RestoreSalaryComponentArchive(c)
             \/ DeleteSalaryComponent(c)
      PROVE  FileIInv'
  BY <1>6, ComponentSteps, DeleteComponentKeeps
<1>7. ASSUME NEW q \in Policy,
             \/ \E c \in Component, state \in Setup :
                  CreateOvertimePolicy(q, c, state) \/ UpdateOvertimePolicy(q, c, state)
             \/ ArchiveOvertimePolicy(q) \/ RestoreOvertimePolicyArchive(q)
             \/ DeleteOvertimePolicy(q)
      PROVE  FileIInv'
  BY <1>7, PolicySteps, DeletePolicyKeeps
<1> QED
  BY <1>1, <1>2, <1>3, <1>4, <1>5, <1>6, <1>7 DEF EmployeeNext

LEMMA FileStutters == ASSUME FileIInv, UNCHANGED fileVars PROVE FileIInv'
<1>1. FileTypeOK'
  BY DEF FileIInv, FileTypeOK
<1>2. PoliciesUsable' /\ FoundRecorded'
  BY DEF FileIInv, PoliciesUsable, ActiveBase, FoundRecorded
<1>3. \A x \in Employee : History(posting[x])' /\ History(structure[x])'
  BY DEF FileIInv, History, InOrder, NoGap, Covers
<1> QED
  BY <1>1, <1>2, <1>3 DEF FileIInv

(* The inductive invariant of the employee file: whatever the forms set,   *)
(* each employee's assignments and salaries stay a history in order and    *)
(* without a gap, salaries stay open-ended, and setups keep what they name.*)
THEOREM FileInductive == EmployeeSpec => []FileIInv
<1>1. FileIInv /\ [EmployeeNext]_fileVars => FileIInv'
  <2> SUFFICES ASSUME FileIInv, EmployeeNext \/ UNCHANGED fileVars PROVE FileIInv'
    OBVIOUS
  <2> QED
    BY FileSteps, FileStutters
<1> QED
  BY <1>1, FileStarts, PTL DEF EmployeeSpec

(* Payroll finds one place and one salary for every day since the first,   *)
(* salaries never end, and active policies have a component that is paid.  *)
THEOREM FilesAlwaysSound == EmployeeSpec => []FilesSound
<1>1. FileIInv => FilesSound
  <2> SUFFICES ASSUME FileIInv PROVE FilesSound
    OBVIOUS
  <2>1. ASSUME NEW e \in Employee PROVE Seamless(posting[e]) /\ Seamless(structure[e])
    <3>1. Timed(posting[e]) /\ Timed(structure[e]) /\ History(posting[e]) /\ History(structure[e])
      BY FileFields DEF FileIInv
    <3> QED
      BY <3>1, HistorySeamless
  <2>2. HistoriesSeamless
    BY <2>1 DEF HistoriesSeamless, FileIInv
  <2> QED
    BY <2>2 DEF FilesSound, FileIInv
<1> QED
  BY <1>1, FileInductive, PTL

(* Only assign_employee_salary_structure writes salaries.                  *)
LEMMA SalariesChange ==
  ASSUME EmployeeNext
  PROVE  \/ structure' = structure
         \/ \E e \in Employee, day \in Day, lines \in SUBSET Component, q \in Policy \cup {None} :
              AssignEmployeeSalaryStructure(e, day, lines, q)
<1>1. TimePasses => structure' = structure
  BY DEF TimePasses, Salaries
<1>2. ASSUME NEW e \in Employee,
             \/ \E status \in {"active", "on_leave", "inactive", "terminated"},
                   joined \in Day, ends \in Day \cup {None} :
                  \/ UpdateEmployee(e, joined, ends, status)
                  \/ \E at \in Place : CreateEmployee(e, joined, ends, status, at)
             \/ \E day \in Day :
                  \/ Terminate(e, day)
                  \/ \E at \in Place : ChangeEmployeeOrganization(e, at, day)
             \/ ReturnActive(e) \/ PutOnLeave(e) \/ StopActivity(e)
             \/ ArchiveEmployee(e) \/ RestoreEmployeeArchive(e)
             \/ DeleteEmployee(e) \/ RestoreEmployeeTrash(e)
      PROVE  structure' = structure
  BY <1>2 DEF UpdateEmployee, CreateEmployee, Terminate, ChangeEmployeeOrganization,
       ReturnActive, PutOnLeave, StopActivity, Lifecycle, ArchiveEmployee, RestoreEmployeeArchive,
       DeleteEmployee, RestoreEmployeeTrash, Recorded, Salaries
<1>3. ASSUME NEW o \in Office,
             \/ \E active \in BOOLEAN :
                  \/ CreateBranch(o, active) \/ UpdateBranch(o, active)
                  \/ CreateDepartment(o, active) \/ UpdateDepartment(o, active)
             \/ ArchiveBranch(o) \/ RestoreBranchArchive(o)
             \/ DeleteBranch(o) \/ RestoreBranchTrash(o)
             \/ ArchiveDepartment(o) \/ RestoreDepartmentArchive(o)
             \/ DeleteDepartment(o) \/ RestoreDepartmentTrash(o)
      PROVE  structure' = structure
  <2>1. \/ \E active \in BOOLEAN : Founded(o, active) \/ Toggled(o, active)
        \/ \E archived \in BOOLEAN : Shelved(o, archived)
        \/ Sought(o) \/ Cleared(o) \/ Returned(o)
    BY <1>3 DEF CreateBranch, UpdateBranch, CreateDepartment, UpdateDepartment,
         ArchiveBranch, RestoreBranchArchive, DeleteBranch, RestoreBranchTrash,
         ArchiveDepartment, RestoreDepartmentArchive, DeleteDepartment, RestoreDepartmentTrash
  <2> QED
    BY <2>1 DEF Founded, Toggled, Shelved, Housed, Sought, Cleared, Returned, Salaries
<1>4. ASSUME NEW c \in Component,
             \/ \E sort \in Sorts, state \in Setup :
                  CreateSalaryComponent(c, sort, state) \/ UpdateSalaryComponent(c, sort, state)
             \/ ArchiveSalaryComponent(c) \/ RestoreSalaryComponentArchive(c)
             \/ DeleteSalaryComponent(c)
      PROVE  structure' = structure
  BY <1>4 DEF CreateSalaryComponent, UpdateSalaryComponent, ArchiveSalaryComponent,
       RestoreSalaryComponentArchive, DeleteSalaryComponent, Mapped
<1>5. ASSUME NEW q \in Policy,
             \/ \E c \in Component, state \in Setup :
                  CreateOvertimePolicy(q, c, state) \/ UpdateOvertimePolicy(q, c, state)
             \/ ArchiveOvertimePolicy(q) \/ RestoreOvertimePolicyArchive(q)
             \/ DeleteOvertimePolicy(q)
      PROVE  structure' = structure
  BY <1>5 DEF CreateOvertimePolicy, UpdateOvertimePolicy, ArchiveOvertimePolicy,
       RestoreOvertimePolicyArchive, DeleteOvertimePolicy, Ruled
<1> QED
  BY <1>1, <1>2, <1>3, <1>4, <1>5 DEF EmployeeNext

(* A new salary replaces an old one only from its own first day on, and    *)
(* never beyond the next; no day that had a salary is left without.        *)
THEOREM PastPayKept == EmployeeSpec => PastSalaryKept
<1> DEFINE Paid == \A e \in Employee : structure'[e] # structure[e] => \A day \in Day :
                     SalaryOn(e, day)' # SalaryOn(e, day) =>
                       \E s \in structure'[e] :
                         /\ \A t \in structure[e] : t.from # s.from
                         /\ Covers(s, day) /\ Cardinality(SalaryOn(e, day)') = 1
<1>1. FileIInv /\ [EmployeeNext]_fileVars => [Paid]_structure
  <2> SUFFICES ASSUME FileIInv, EmployeeNext, structure' # structure PROVE Paid
    BY DEF fileVars
  <2>1. PICK e \in Employee, from \in Day, lines \in SUBSET Component, q \in Policy \cup {None} :
          AssignEmployeeSalaryStructure(e, from, lines, q)
    BY SalariesChange
  <2> QED
    BY <2>1, AssignPays
<1> QED
  BY <1>1, FileInductive, PTL DEF EmployeeSpec, PastSalaryKept

HIDE DEF fileVars

------------------------------------------------------------------------------
(***************************************************************************)
(* The days and the lines of a payroll month (PayrollMonth)                *)
(***************************************************************************)

(* A run is calculated of a month that stays closed, and its lines say     *)
(* what its fingerprint covers.                                            *)
RunIs ==
  run # None => run \in [status : {"DRAFT", "CALCULATED", "REVIEW", "APPROVED"},
                         source : {run.source}, lines : {run.lines}]
LinesPrinted ==
  run # None /\ run.status # "DRAFT" =>
    /\ sheet \in {"APPROVED", "LOCKED"}
    /\ \A e \in DOMAIN run.lines :
         /\ e \in Employee /\ run.lines[e].days = entry[e]
         /\ run.lines[e].shares = run.source.rows[e].shares
         /\ run.lines[e].days = run.source.rows[e].days
         /\ run.lines[e].overtime = run.source.rows[e].overtime
         /\ run.lines[e].recovered = run.source.rows[e].recovered

MonthIInv == FileIInv /\ MonthTypeOK /\ RunIs /\ LinesPrinted

-----------------------------------------------------------------------------
USE DEF fileVars, monthVars

LEMMA Months ==
  /\ MonthFirst \in Nat /\ MonthLast \in Nat /\ MonthFirst \in Day /\ MonthLast \in Day
  /\ MonthFirst <= MonthLast /\ Month \subseteq Day
  /\ \A d \in Nat : d \in Month <=> MonthFirst <= d /\ d <= MonthLast
<1>1. /\ MonthFirst \in 1..MaxDay /\ MonthLast \in 1..MaxDay /\ MaxDay \in Nat
      /\ MonthFirst <= MonthLast
  BY MonthAssumption, FileAssumption DEF Day
<1> QED
  BY <1>1 DEF Month, Day

(* The part of the month in which somebody is employed.                    *)
LEMMA EmployedIs ==
  ASSUME FileTypeOK, NEW e \in OnPayroll
  PROVE  /\ e \in Employee /\ employee[e] \in Person
         /\ EmployedFrom(e) \in Day /\ EmployedTo(e) \in Day
         /\ EmployedFrom(e) \in Nat /\ EmployedTo(e) \in Nat
         /\ \A day \in Day : day \in RequiredDays(e) <=> EmployedFrom(e) <= day /\ day <= EmployedTo(e)
<1>1. e \in Employee /\ employee[e] # None /\ employee[e] \in Person
  <2>1. e \in Employee /\ employee[e] # None
    BY DEF OnPayroll, Operational
  <2> QED
    BY <2>1, FileFields
<1>2. /\ employee[e].joined \in Day /\ employee[e].joined \in Nat
      /\ employee[e].ends # None => employee[e].ends \in Day /\ employee[e].ends \in Nat
  BY <1>1, Days DEF Person
<1>3. EmployedFrom(e) \in Day /\ EmployedTo(e) \in Day
  BY <1>2, Months DEF EmployedFrom, EmployedTo
<1>4. EmployedFrom(e) \in Nat /\ EmployedTo(e) \in Nat
  BY <1>3, Days
<1>5. ASSUME NEW day \in Day
      PROVE  day \in RequiredDays(e) <=> EmployedFrom(e) <= day /\ day <= EmployedTo(e)
  <2>1. day \in Nat
    BY Days
  <2>2. day \in RequiredDays(e) <=> /\ MonthFirst <= day /\ day <= MonthLast
                                    /\ employee[e].joined <= day
                                    /\ employee[e].ends # None => day <= employee[e].ends
    BY <2>1, Months DEF RequiredDays, WithinEmployment
  <2>3. EmployedFrom(e) <= day <=> MonthFirst <= day /\ employee[e].joined <= day
    BY <1>2, <2>1, Months DEF EmployedFrom
  <2>4. day <= EmployedTo(e) <=> /\ day <= MonthLast
                                 /\ employee[e].ends # None => day <= employee[e].ends
    BY <1>2, <2>1, Months DEF EmployedTo
  <2> QED
    BY <2>2, <2>3, <2>4
<1> QED
  BY <1>1, <1>3, <1>4, <1>5

(* A salary's share is what it covers of the employment.                   *)
LEMMA ClippedIs ==
  ASSUME FileTypeOK, NEW e \in OnPayroll, NEW s \in structure[e], s \in Overlapping(e)
  PROVE  /\ Clipped(e, s) \in Share /\ Clipped(e, s).of = s.from
         /\ \A day \in Day : EmployedFrom(e) <= day /\ day <= EmployedTo(e) =>
              (day \in DaysOf(Clipped(e, s)) <=> Covers(s, day))
         /\ \A day \in DaysOf(Clipped(e, s)) : day \in RequiredDays(e)
<1>1. /\ e \in Employee /\ EmployedFrom(e) \in Day /\ EmployedTo(e) \in Day
      /\ EmployedFrom(e) \in Nat /\ EmployedTo(e) \in Nat
      /\ \A day \in Day : day \in RequiredDays(e) <=> EmployedFrom(e) <= day /\ day <= EmployedTo(e)
  BY EmployedIs
<1>2. /\ s.from \in Day /\ s.from \in Nat /\ s.to \in Day \cup {None}
      /\ s.to # None => s.to \in Nat /\ s.to \in Day
  <2>1. Timed(structure[e])
    BY <1>1, FileFields
  <2> QED
    BY <2>1, Days DEF Timed
<1> DEFINE F == EmployedFrom(e)
           T == EmployedTo(e)
           f == IF s.from > F THEN s.from ELSE F
           t == IF s.to # None /\ s.to < T THEN s.to ELSE T
           c == Clipped(e, s)
<1>3. c = [of |-> s.from, from |-> f, to |-> t]
  BY DEF Clipped
<1> HIDE DEF F, T
<1>4. F \in Day /\ T \in Day /\ F \in Nat /\ T \in Nat
  BY <1>1 DEF F, T
<1>5. f \in Day /\ t \in Day
  BY <1>2, <1>4
<1>6. f \in Nat /\ t \in Nat
  BY <1>5, Days
<1>7. \A d \in Nat : /\ f <= d <=> F <= d /\ s.from <= d
                     /\ d <= t <=> d <= T /\ (s.to # None => d <= s.to)
  BY <1>2, <1>4
<1> HIDE DEF f, t, c
<1>8. c \in Share /\ c.of = s.from /\ c.from = f /\ c.to = t
  BY <1>2, <1>3, <1>5 DEF Share
<1>9. DaysOf(c) = f..t
  BY <1>8 DEF DaysOf
<1>10. ASSUME NEW day \in Day, F <= day, day <= T
       PROVE  day \in DaysOf(c) <=> Covers(s, day)
  <2>1. day \in Nat
    BY Days
  <2>2. day \in f..t <=> f <= day /\ day <= t
    BY <1>6, <2>1
  <2> QED
    BY <1>7, <1>9, <1>10, <2>1, <2>2 DEF Covers
<1>11. ASSUME NEW day \in DaysOf(c) PROVE day \in RequiredDays(e)
  <2>1. day \in Nat /\ f <= day /\ day <= t
    BY <1>6, <1>9
  <2>2. F <= day /\ day <= T
    BY <1>7, <2>1
  <2>3. 1 <= F /\ T <= MaxDay /\ MaxDay \in Nat
    BY <1>4, InDay, FileAssumption
  <2>4. 1 <= day /\ day <= MaxDay
    BY <1>4, <2>1, <2>2, <2>3
  <2>5. day \in Day
    BY <2>1, <2>4, InDay
  <2> QED
    BY <1>1, <2>2, <2>5 DEF F, T
<1> QED
  BY <1>8, <1>10, <1>11 DEF c, F, T


(* Two salaries never cover the same day.                                  *)
LEMMA OneCovers ==
  ASSUME NEW P, Timed(P), InOrder(P), NEW day \in Day,
         NEW s \in P, NEW t \in P, Covers(s, day), Covers(t, day)
  PROVE  s = t
<1>1. /\ s.from \in Nat /\ t.from \in Nat /\ day \in Nat
      /\ s.to # None => s.to \in Nat
      /\ t.to # None => t.to \in Nat
  BY Days DEF Timed
<1>2. CASE s.from < t.from
  BY <1>1, <1>2 DEF InOrder, Covers
<1>3. CASE t.from < s.from
  BY <1>1, <1>3 DEF InOrder, Covers
<1>4. CASE s.from = t.from
  BY <1>4 DEF InOrder
<1> QED
  BY <1>1, <1>2, <1>3, <1>4

(* What the shares of a line pay, if nothing blocks the calculation.       *)
LEMMA SharesPay ==
  ASSUME FileIInv, proration \in Prorating, NEW e \in OnPayroll, ~Blocked(e)
  PROVE  /\ Shares(e) \in SUBSET Share
         /\ \A share \in Shares(e) : DaysOf(share) \subseteq RequiredDays(e)
         /\ \A day \in RequiredDays(e) : \E share \in Shares(e) :
              /\ \A other \in Shares(e) : day \in DaysOf(other) <=> other = share
              /\ \E s \in structure[e] :
                   /\ s.from = share.of
                   /\ Covers(s, IF proration = "calendar_days" THEN day ELSE EmployedTo(e))
<1>1. /\ e \in Employee /\ EmployedFrom(e) \in Day /\ EmployedTo(e) \in Day
      /\ EmployedFrom(e) \in Nat /\ EmployedTo(e) \in Nat
      /\ \A day \in Day : day \in RequiredDays(e) <=> EmployedFrom(e) <= day /\ day <= EmployedTo(e)
      /\ FileTypeOK
  BY EmployedIs DEF FileIInv
<1>2. Timed(structure[e]) /\ InOrder(structure[e])
  BY <1>1, FileFields DEF FileIInv, History
<1>3. RequiredDays(e) \subseteq Day
  BY Months DEF RequiredDays
<1>4. Overlapping(e) \subseteq structure[e]
  BY DEF Overlapping
<1>5. CASE proration = "calendar_days"
  <2>1. Shares(e) = {Clipped(e, s) : s \in Overlapping(e)}
    BY <1>5 DEF Shares
  <2>2. \A s \in Overlapping(e) :
          /\ Clipped(e, s) \in Share /\ Clipped(e, s).of = s.from
          /\ \A day \in RequiredDays(e) : day \in DaysOf(Clipped(e, s)) <=> Covers(s, day)
          /\ DaysOf(Clipped(e, s)) \subseteq RequiredDays(e)
    BY <1>1, <1>3, <1>4, ClippedIs
  <2>3. ASSUME NEW day \in RequiredDays(e)
        PROVE  \E share \in Shares(e) :
                 /\ \A other \in Shares(e) : day \in DaysOf(other) <=> other = share
                 /\ \E s \in structure[e] : s.from = share.of /\ Covers(s, day)
    <3>1. PICK s \in Overlapping(e) : Covers(s, day)
      BY <1>5 DEF Blocked
    <3>2. \A t \in Overlapping(e) : Covers(t, day) => t = s
      BY <1>2, <1>3, <1>4, <3>1, OneCovers
    <3>3. ASSUME NEW other \in Shares(e)
          PROVE  day \in DaysOf(other) <=> other = Clipped(e, s)
      <4>1. PICK t \in Overlapping(e) : other = Clipped(e, t)
        BY <2>1
      <4>2. day \in DaysOf(other) <=> Covers(t, day)
        BY <2>2, <4>1
      <4>3. day \in DaysOf(Clipped(e, s))
        BY <2>2, <3>1
      <4> QED
        BY <3>2, <4>1, <4>2, <4>3
    <3>4. Clipped(e, s) \in Shares(e) /\ Clipped(e, s).of = s.from /\ s \in structure[e]
      BY <1>4, <2>1, <2>2
    <3> QED
      BY <3>1, <3>3, <3>4
  <2>4. \A day \in RequiredDays(e) : \E share \in Shares(e) :
          /\ \A other \in Shares(e) : day \in DaysOf(other) <=> other = share
          /\ \E s \in structure[e] :
               /\ s.from = share.of
               /\ Covers(s, IF proration = "calendar_days" THEN day ELSE EmployedTo(e))
    BY <1>5, <2>3
  <2> QED
    BY <2>1, <2>2, <2>4
<1>6. CASE proration # "calendar_days"
  <2> DEFINE last == {s \in Overlapping(e) : Covers(s, EmployedTo(e))}
             whole(s) == [of |-> s.from, from |-> EmployedFrom(e), to |-> EmployedTo(e)]
  <2>1. Shares(e) = {whole(s) : s \in last}
    BY <1>6 DEF Shares
  <2>2. PICK s \in last : TRUE
    <3>1. Shares(e) # {}
      BY DEF Blocked
    <3> QED
      BY <2>1, <3>1
  <2>3. s \in structure[e] /\ Covers(s, EmployedTo(e))
    BY <1>4
  <2>4. \A t \in last : t = s
    BY <1>1, <1>2, <1>4, <2>3, OneCovers
  <2>5. Shares(e) = {whole(s)}
    BY <2>1, <2>2, <2>4
  <2>6. /\ whole(s) \in Share /\ whole(s).of = s.from
        /\ whole(s).from = EmployedFrom(e) /\ whole(s).to = EmployedTo(e)
    BY <1>1, <1>2, <2>3 DEF Share, Timed
  <2> HIDE DEF whole, last
  <2>7. DaysOf(whole(s)) = EmployedFrom(e)..EmployedTo(e)
    BY <2>6 DEF DaysOf
  <2>8. DaysOf(whole(s)) = RequiredDays(e)
    <3>1. \A day \in RequiredDays(e) : day \in Nat
      BY <1>3, Days
    <3>2. \A day \in RequiredDays(e) : day \in DaysOf(whole(s))
      BY <1>1, <1>3, <2>7, <3>1
    <3>3. \A day \in DaysOf(whole(s)) : day \in Nat /\ EmployedFrom(e) <= day /\ day <= EmployedTo(e)
      BY <1>1, <2>7
    <3>4. \A day \in DaysOf(whole(s)) : day \in Day
      <4>1. 1 <= EmployedFrom(e) /\ EmployedTo(e) <= MaxDay /\ MaxDay \in Nat
        BY <1>1, InDay, FileAssumption
      <4>2. \A day \in DaysOf(whole(s)) : 1 <= day /\ day <= MaxDay
        BY <1>1, <3>3, <4>1
      <4> QED
        BY <3>3, <4>2, InDay
    <3> QED
      BY <1>1, <3>2, <3>3, <3>4
  <2> QED
    BY <1>6, <2>3, <2>5, <2>6, <2>8
<1> QED
  BY <1>1, <1>3, <1>5, <1>6

(* The lines of a calculation and the prints of its fingerprint are typed. *)
LEMMA LinesTyped ==
  ASSUME FileIInv, MonthTypeOK, NEW e \in OnPayroll, ~Blocked(e)
  PROVE  LineOf(e) \in Line /\ PrintOf(e) \in Imprint
<1>1. /\ e \in Employee /\ employee[e] \in Person /\ FileTypeOK /\ EmployedTo(e) \in Day
  BY EmployedIs DEF FileIInv
<1>2. Shares(e) \in SUBSET Share
  BY SharesPay DEF MonthTypeOK
<1>3. Latest(PostedAt(e)) \in posting[e]
  <2>1. PostedAt(e) # {} /\ PostedAt(e) \subseteq posting[e]
    BY DEF Blocked, PostedAt
  <2>2. Timed(PostedAt(e))
    BY <1>1, <2>1, FileFields DEF Timed
  <2>3. \E s \in PostedAt(e) : \A t \in PostedAt(e) : s.from >= t.from
    BY <2>1, <2>2, LatestIs
  <2>4. Latest(PostedAt(e)) \in PostedAt(e)
    BY <2>3 DEF Latest
  <2> QED
    BY <2>1, <2>4
<1>4. Latest(PostedAt(e)).at \in Place /\ Latest(PostedAt(e)).from \in Day
  <2>1. posting[e] \in SUBSET Posting
    BY <1>1, FileFields
  <2> QED
    BY <1>3, <2>1 DEF Posting
<1>5. /\ entry[e] \in [Month -> Mark \cup {None}] /\ extra[e] \in Day \cup {None}
      /\ ("recovery" \in granted[e]) \in BOOLEAN
  BY <1>1 DEF MonthTypeOK
<1>6. employee[e].joined \in Day /\ employee[e].ends \in Day \cup {None}
  BY <1>1 DEF Person
<1>7. LineOf(e) \in Line
  BY <1>2, <1>4, <1>5 DEF LineOf, Line
<1>8. PrintOf(e) \in Imprint
  BY <1>2, <1>4, <1>5, <1>6 DEF PrintOf, Imprint
<1> QED
  BY <1>7, <1>8

(* Lines that pay the same differ in the place at most.                    *)
LEMMA PayingIs ==
  ASSUME NEW l \in Line, NEW k \in Line, l.shares = k.shares, l.days = k.days,
         l.overtime = k.overtime, l.recovered = k.recovered
  PROVE  Paying(l) = Paying(k)
<1> DEFINE R == [at : {None}, shares : {l.shares}, days : {l.days}, overtime : {l.overtime},
                 recovered : {l.recovered}]
<1>1. [l EXCEPT !.at = None] \in R /\ [k EXCEPT !.at = None] \in R
  BY DEF Line
<1>2. \A x \in R, y \in R : x = y
  OBVIOUS
<1> QED
  BY <1>1, <1>2 DEF Paying

-----------------------------------------------------------------------------
(* The steps of the month *)

(* Whatever else changes, a run that is kept goes on telling the month.    *)
LEMMA RunKept ==
  ASSUME MonthIInv, FileIInv', run' = run,
         sheet' \in {"DRAFT", "SUBMITTED", "APPROVED", "LOCKED"},
         entry' \in [Employee -> [Month -> Mark \cup {None}]],
         extra' \in [Employee -> Day \cup {None}],
         granted' \in [Employee -> SUBSET {"advance", "recovery"}],
         proration' \in Prorating,
         run # None /\ run.status # "DRAFT" => sheet' \in {"APPROVED", "LOCKED"} /\ entry' = entry
  PROVE  MonthIInv'
<1>1. MonthTypeOK'
  BY DEF MonthIInv, MonthTypeOK
<1>2. RunIs' /\ LinesPrinted'
  BY DEF MonthIInv, RunIs, LinesPrinted
<1> QED
  BY <1>1, <1>2 DEF MonthIInv

LEMMA FileKept == ASSUME MonthIInv, UNCHANGED fileVars PROVE FileIInv'
BY FileStutters DEF MonthIInv

LEMMA AttendanceKeeps ==
  ASSUME MonthIInv, NEW e \in Employee,
         \/ \E day \in Month, mark \in Mark \cup {None} : SaveAttendanceEntry(e, day, mark)
         \/ SaveOvertimeEntry(e) \/ ClearOvertimeEntry(e)
         \/ \E kind \in {"advance", "recovery"} : ApproveGrant(e, kind)
  PROVE  MonthIInv'
<1>1. MonthTypeOK /\ FileTypeOK /\ LinesPrinted
  BY DEF MonthIInv, FileIInv
<1>2. CASE \E day \in Month, mark \in Mark \cup {None} : SaveAttendanceEntry(e, day, mark)
  <2>1. PICK day \in Month, mark \in Mark \cup {None} : SaveAttendanceEntry(e, day, mark)
    BY <1>2
  <2>2. /\ sheet = "DRAFT" /\ entry' = [entry EXCEPT ![e][day] = mark]
        /\ UNCHANGED <<sheet, extra, granted, proration, run>> /\ UNCHANGED fileVars
    BY <2>1 DEF SaveAttendanceEntry, RestOfMonth
  <2>3. entry' \in [Employee -> [Month -> Mark \cup {None}]]
    BY <1>1, <2>2 DEF MonthTypeOK
  <2>4. ~(run # None /\ run.status # "DRAFT")
    BY <1>1, <2>2 DEF LinesPrinted
  <2> QED
    BY <1>1, <2>2, <2>3, <2>4, FileKept, RunKept DEF MonthTypeOK
<1>3. CASE SaveOvertimeEntry(e) \/ ClearOvertimeEntry(e)
  <2>1. /\ UNCHANGED <<sheet, entry, granted, proration, run>> /\ UNCHANGED fileVars
    BY <1>3 DEF SaveOvertimeEntry, ClearOvertimeEntry, RestOfMonth
  <2>2. Timed(structure[e])
    BY <1>1, FileFields
  <2>3. \A s \in Computed(e) : s.from \in Day
    BY <2>2 DEF Computed, ClosingSalary, Timed
  <2>4. extra' \in [Employee -> Day \cup {None}]
    BY <1>1, <1>3, <2>3 DEF SaveOvertimeEntry, ClearOvertimeEntry, MonthTypeOK
  <2> QED
    BY <1>1, <2>1, <2>4, FileKept, RunKept DEF MonthTypeOK, LinesPrinted
<1>4. CASE \E kind \in {"advance", "recovery"} : ApproveGrant(e, kind)
  <2>1. PICK kind \in {"advance", "recovery"} : ApproveGrant(e, kind)
    BY <1>4
  <2>2. /\ UNCHANGED <<sheet, entry, extra, proration, run>> /\ UNCHANGED fileVars
        /\ granted' = [granted EXCEPT ![e] = @ \cup {kind}]
    BY <2>1 DEF ApproveGrant, RestOfMonth
  <2>3. granted' \in [Employee -> SUBSET {"advance", "recovery"}]
    BY <1>1, <2>2 DEF MonthTypeOK
  <2> QED
    BY <1>1, <2>2, <2>3, FileKept, RunKept DEF MonthTypeOK, LinesPrinted
<1> QED
  BY <1>2, <1>3, <1>4

(* A closed month opens again only under a run that was reset.             *)
LEMMA SheetKeeps ==
  ASSUME MonthIInv, \/ AdvanceMonth \/ ReturnMonth
                    \/ \E method \in Prorating : UpdateProration(method)
  PROVE  MonthIInv'
<1>1. MonthTypeOK /\ LinesPrinted
  BY DEF MonthIInv
<1>2. CASE AdvanceMonth
  <2>1. /\ sheet \in {"DRAFT", "SUBMITTED", "APPROVED"} /\ sheet' = Onward[sheet]
        /\ UNCHANGED <<entry, extra, granted, proration, run>> /\ UNCHANGED fileVars
    BY <1>2 DEF AdvanceMonth, RestOfMonth, Onward
  <2>2. /\ sheet' \in {"SUBMITTED", "APPROVED", "LOCKED"}
        /\ sheet = "APPROVED" => sheet' = "LOCKED"
    BY <2>1 DEF Onward
  <2> QED
    BY <1>1, <2>1, <2>2, FileKept, RunKept DEF MonthTypeOK, LinesPrinted
<1>3. CASE ReturnMonth
  <2>1. /\ sheet' = "DRAFT" /\ (run # None => run.status = "DRAFT")
        /\ UNCHANGED <<entry, extra, granted, proration, run>> /\ UNCHANGED fileVars
    BY <1>3 DEF ReturnMonth, RestOfMonth
  <2> QED
    BY <1>1, <2>1, FileKept, RunKept DEF MonthTypeOK
<1>4. CASE \E method \in Prorating : UpdateProration(method)
  <2>1. /\ proration' \in Prorating
        /\ UNCHANGED <<sheet, entry, extra, granted, run>> /\ UNCHANGED fileVars
    BY <1>4 DEF UpdateProration, RestOfMonth
  <2> QED
    BY <1>1, <2>1, FileKept, RunKept DEF MonthTypeOK, LinesPrinted
<1> QED
  BY <1>2, <1>3, <1>4

(* A calculation writes the lines and, of the same rows, the fingerprint.  *)
LEMMA CalculateKeeps ==
  ASSUME MonthIInv, CalculateRun
  PROVE  MonthIInv'
<1> DEFINE lines == [e \in OnPayroll |-> LineOf(e)]
           copy  == [e \in OnPayroll |-> PrintOf(e)]
           source == [proration |-> proration, rows |-> copy]
<1>1. /\ MonthTypeOK /\ FileIInv /\ sheet \in {"APPROVED", "LOCKED"} /\ \A e \in OnPayroll : ~Blocked(e)
      /\ run' = [status |-> "CALCULATED", source |-> source, lines |-> lines]
      /\ UNCHANGED <<sheet, entry, extra, granted, proration>> /\ UNCHANGED fileVars
  BY DEF MonthIInv, CalculateRun, Calculable, RestOfMonth, Fingerprint
<1>2. \A e \in OnPayroll : /\ lines[e] = LineOf(e) /\ copy[e] = PrintOf(e) /\ e \in Employee
                           /\ lines[e] \in Line /\ copy[e] \in Imprint
  BY <1>1, LinesTyped DEF OnPayroll
<1>3. \A e \in OnPayroll :
        /\ lines[e].days = entry[e] /\ lines[e].shares = copy[e].shares /\ lines[e].days = copy[e].days
        /\ lines[e].overtime = copy[e].overtime /\ lines[e].recovered = copy[e].recovered
  BY <1>2 DEF LineOf, PrintOf
<1>4. DOMAIN lines = OnPayroll /\ DOMAIN copy = OnPayroll
  OBVIOUS
<1> HIDE DEF lines, copy
<1>5. source.proration = proration /\ source.rows = copy
  OBVIOUS
<1> HIDE DEF source
<1>6. run'.status = "CALCULATED" /\ run'.source = source /\ run'.lines = lines
  BY <1>1
<1>7. MonthTypeOK'
  BY <1>1, <1>2, <1>4, <1>5, <1>6 DEF MonthTypeOK
<1>8. RunIs'
  BY <1>1, <1>6 DEF RunIs
<1>9. LinesPrinted'
  BY <1>1, <1>2, <1>3, <1>4, <1>5, <1>6 DEF LinesPrinted
<1> QED
  BY <1>1, <1>7, <1>8, <1>9, FileKept DEF MonthIInv

(* The workflow of the run writes nothing but its status.                  *)
LEMMA WorkflowKeeps ==
  ASSUME MonthIInv, SubmitRun \/ ReturnRun \/ ApproveRun \/ ResetRun
  PROVE  MonthIInv'
<1>1. MonthTypeOK /\ RunIs /\ LinesPrinted /\ FileIInv /\ run # None
      /\ UNCHANGED <<sheet, entry, extra, granted, proration>> /\ UNCHANGED fileVars
  BY DEF MonthIInv, SubmitRun, ReturnRun, ApproveRun, ResetRun, RunBecomes, RestOfMonth
<1>2. CASE ResetRun
  <2>1. run' = [status |-> "DRAFT", source |-> None, lines |-> None]
    BY <1>2 DEF ResetRun
  <2>2. run'.status = "DRAFT" /\ run'.source = None /\ run'.lines = None
    BY <2>1
  <2>3. RunIs'
    BY <2>1, <2>2 DEF RunIs
  <2>4. MonthTypeOK' /\ LinesPrinted'
    BY <1>1, <2>2 DEF MonthTypeOK, LinesPrinted
  <2> QED
    BY <1>1, <2>3, <2>4, FileKept DEF MonthIInv
<1>3. CASE SubmitRun \/ ReturnRun \/ ApproveRun
  <2>1. PICK status \in {"CALCULATED", "REVIEW", "APPROVED"} : run' = [run EXCEPT !.status = status]
    BY <1>3 DEF SubmitRun, ReturnRun, ApproveRun, RunBecomes
  <2>2. run.status # "DRAFT"
    BY <1>3 DEF SubmitRun, ReturnRun, ApproveRun
  <2>3. run \in [status : {"DRAFT", "CALCULATED", "REVIEW", "APPROVED"},
                 source : {run.source}, lines : {run.lines}]
    BY <1>1 DEF RunIs
  <2>4. run' \in [status : {status}, source : {run.source}, lines : {run.lines}]
    BY <2>1, <2>3
  <2>5. run'.status = status /\ run'.source = run.source /\ run'.lines = run.lines
    BY <2>4
  <2>6. RunIs'
    BY <2>4, <2>5 DEF RunIs
  <2>7. MonthTypeOK'
    BY <1>1, <2>2, <2>5 DEF MonthTypeOK
  <2>8. LinesPrinted'
    BY <1>1, <2>2, <2>5 DEF LinesPrinted
  <2> QED
    BY <1>1, <2>6, <2>7, <2>8, FileKept DEF MonthIInv
<1> QED
  BY <1>2, <1>3

LEMMA MonthSteps ==
  ASSUME MonthIInv, MonthNext
  PROVE  MonthIInv'
<1>1. CASE EmployeeNext /\ UNCHANGED monthVars
  <2>1. FileIInv'
    BY <1>1, FileSteps DEF MonthIInv
  <2> QED
    BY <1>1, <2>1, RunKept DEF MonthIInv, MonthTypeOK, LinesPrinted
<1>2. CASE \E e \in Employee :
             \/ \E day \in Month, mark \in Mark \cup {None} : SaveAttendanceEntry(e, day, mark)
             \/ SaveOvertimeEntry(e) \/ ClearOvertimeEntry(e)
             \/ \E kind \in {"advance", "recovery"} : ApproveGrant(e, kind)
  BY <1>2, AttendanceKeeps
<1> QED
  BY <1>1, <1>2, SheetKeeps, CalculateKeeps, WorkflowKeeps DEF MonthNext

LEMMA MonthStarts == ASSUME FileInit, MonthInit PROVE MonthIInv
<1>1. MonthTypeOK
  BY DEF MonthInit, MonthTypeOK, Prorating
<1>2. RunIs /\ LinesPrinted
  BY DEF MonthInit, RunIs, LinesPrinted
<1> QED
  BY <1>1, <1>2, FileStarts DEF MonthIInv

(* The inductive invariant of the month, over that of the employee file:   *)
(* attendance under a calculated run stays closed, and lines and           *)
(* fingerprint of a run come from one calculation.                         *)
THEOREM MonthInductive == MonthSpec => []MonthIInv
<1>1. MonthIInv /\ [MonthNext]_<<fileVars, monthVars>> => MonthIInv'
  <2> SUFFICES ASSUME MonthIInv, MonthNext \/ UNCHANGED <<fileVars, monthVars>> PROVE MonthIInv'
    OBVIOUS
  <2>1. CASE UNCHANGED <<fileVars, monthVars>>
    BY <2>1, FileKept, RunKept DEF MonthIInv, MonthTypeOK, LinesPrinted
  <2> QED
    BY <2>1, MonthSteps
<1> QED
  BY <1>1, MonthStarts, PTL DEF MonthSpec

(* Whenever the fingerprint lets a run pass, its lines pay everybody on    *)
(* the payroll for every day of the employment in the month exactly once,  *)
(* at the salary of that day, although the file went on changing.          *)
THEOREM RunsTellTheMonth == MonthSpec => []RunTellsTheMonth
<1>1. MonthIInv => RunTellsTheMonth
  <2> SUFFICES ASSUME MonthIInv, run # None, run.status # "DRAFT"
               PROVE  /\ \A e \in DOMAIN run.lines : run.lines[e].days = entry[e]
                      /\ Verifies => RunTellsTheMonth
    BY DEF RunTellsTheMonth
  <2>1. \A e \in DOMAIN run.lines : run.lines[e].days = entry[e]
    BY DEF MonthIInv, LinesPrinted
  <2> SUFFICES ASSUME Verifies PROVE RunTellsTheMonth
    BY <2>1
  <2>2. /\ run.source = Fingerprint /\ Complete /\ \A e \in OnPayroll : ~Blocked(e)
        /\ MonthTypeOK /\ FileIInv
    BY DEF Verifies, Calculable, MonthIInv
  <2>3. run.source.rows = [e \in OnPayroll |-> PrintOf(e)]
    BY <2>2 DEF Fingerprint
  <2>4. DOMAIN run.lines = OnPayroll
    BY <2>2, <2>3 DEF MonthTypeOK
  <2>5. ASSUME NEW e \in OnPayroll
        PROVE  /\ run.lines[e] \in Line /\ run.lines[e].shares = Shares(e)
               /\ Paying(run.lines[e]) = Paying(LineOf(e))
    <3>1. /\ run.lines[e] \in Line /\ run.source.rows[e] = PrintOf(e)
          /\ run.lines[e].shares = run.source.rows[e].shares
          /\ run.lines[e].days = run.source.rows[e].days
          /\ run.lines[e].overtime = run.source.rows[e].overtime
          /\ run.lines[e].recovered = run.source.rows[e].recovered
      BY <2>2, <2>3, <2>4 DEF MonthTypeOK, MonthIInv, LinesPrinted
    <3>2. LineOf(e) \in Line
      BY <2>2, LinesTyped
    <3>3. /\ PrintOf(e).shares = Shares(e) /\ PrintOf(e).shares = LineOf(e).shares
          /\ PrintOf(e).days = LineOf(e).days /\ PrintOf(e).overtime = LineOf(e).overtime
          /\ PrintOf(e).recovered = LineOf(e).recovered
      BY DEF PrintOf, LineOf
    <3> QED
      BY <3>1, <3>2, <3>3, PayingIs
  <2>6. ASSUME NEW e \in OnPayroll
        PROVE  /\ \A day \in RequiredDays(e) :
                    /\ entry[e][day] # None
                    /\ \E share \in run.lines[e].shares :
                         /\ \A other \in run.lines[e].shares :
                              day \in DaysOf(other) <=> other = share
                         /\ \E s \in structure[e] :
                              /\ s.from = share.of
                              /\ Covers(s, IF proration = "calendar_days" THEN day
                                           ELSE EmployedTo(e))
               /\ \A share \in run.lines[e].shares : DaysOf(share) \subseteq RequiredDays(e)
    <3>1. proration \in Prorating /\ ~Blocked(e) /\ run.lines[e].shares = Shares(e)
      BY <2>2, <2>5 DEF MonthTypeOK
    <3>2. \A day \in RequiredDays(e) : entry[e][day] # None
      BY <2>2 DEF Complete
    <3> QED
      BY <2>2, <3>1, <3>2, SharesPay
  <2> QED
    BY <2>1, <2>4, <2>5, <2>6 DEF RunTellsTheMonth
<1> QED
  BY <1>1, MonthInductive, PTL

HIDE DEF fileVars, monthVars

------------------------------------------------------------------------------
(***************************************************************************)
(* The migrations of accounts and profiles (AccessUpgrade)                 *)
(***************************************************************************)

(* Migrations run in their order.                                          *)
Ordered ==
  /\ "5" \in applied => "4" \in applied
  /\ "6" \in applied => "5" \in applied
  /\ "8" \in applied => "6" \in applied
  /\ "9" \in applied => "8" \in applied
  /\ "10" \in applied => "9" \in applied
  /\ "12" \in applied => "10" \in applied
  /\ "13" \in applied \/ "14" \in applied => "12" \in applied

Since(done, m, rights)  == IF m \in done THEN rights ELSE {}
NotYet(done, m, rights) == IF m \in done THEN {} ELSE rights

(* What a built-in profile grants after the migrations that are done.      *)
Given(r, done) ==
  CASE r = "owner" ->
         (Right \ {"runs.review", "sourcing", "subcontractors"}) \cup Since(done, "10", {"runs.review"})
           \cup Since(done, "12", {"sourcing"}) \cup Since(done, "13", {"subcontractors"})
    [] r = "finance" ->
         (FirstGrants("finance") \ Since(done, "10", {"payroll.enter", "runs.review"}))
           \cup Since(done, "10", {"runs.approve", "payout.prepare", "payout.pay"})
    [] r = "reviewer" ->
         (FirstGrants("reviewer") \ Since(done, "10", {"runs.approve"}))
           \cup Since(done, "10", {"runs.review"})
    [] r = "inventory-manager" ->
         FirstGrants("inventory-manager") \cup Since(done, "14", {"stock.import"})
    [] r = "rental-supervisor" -> {"crew.view", "crew.enter"}
    [] r \in ClassifiedRole \ {"owner", "finance", "reviewer", "inventory-manager", "rental-supervisor"} ->
         FirstGrants(r)

Existing(done) == IF "8" \in done THEN ClassifiedRole
                  ELSE IF "5" \in done THEN ClassifiedRole \ {"rental-supervisor"} ELSE {}

GrantsMoved == builtin = [r \in Existing(applied) |-> Given(r, applied)]

Admitted(done) ==
  IF "5" \in done
  THEN Right \ (NotYet(done, "10", {"runs.review"}) \cup NotYet(done, "12", {"sourcing"})
                  \cup NotYet(done, "13", {"subcontractors"}))
  ELSE Right

(* From the first migration on everybody is a member, and somebody owns    *)
(* the company.                                                            *)
AccountsMoved ==
  /\ "4" \in applied =>
       /\ tenant # None /\ \A u \in Login : seat[u] # None /\ seat[u].active = login[u].active
       /\ (\E u \in Login : login[u].active) => \E u \in Login : login[u].active /\ seat[u].role = "owner"
       /\ \A u, v \in Login : u # v /\ seat[u].role = "owner" /\ seat[v].role = "owner" =>
            login[u].super \/ login[v].super
  /\ "4" \notin applied => \A u \in Login : seat[u] = None
  /\ "4" \in applied /\ "5" \notin applied => \A u \in Login : seat[u].profile = None
  /\ "5" \in applied => \A u \in Login : seat[u].profile = seat[u].role
  /\ "6" \in applied => \A u \in Login : login[u].staff = login[u].super

UpgradeIInv == UpgradeTypeOK /\ Ordered /\ GrantsMoved /\ allowed = Admitted(applied)
               /\ AccountsMoved

-----------------------------------------------------------------------------
USE DEF upgradeVars

(* The pages that each action needs.                                       *)
Opens(S) ==
  /\ "users.manage" \in S => "users.view" \in S
  /\ "settings.manage" \in S => "audit" \in S
  /\ "shared.export" \in S => "shared.view" \in S
  /\ ("stock.edit" \in S \/ "stock.manage" \in S) => "stock.view" \in S
  /\ ("payroll.enter" \in S \/ "payroll.check" \in S \/ "runs.review" \in S \/ "runs.approve" \in S
        \/ "payout.prepare" \in S \/ "payout.pay" \in S) => "payroll.view" \in S
  /\ "crew.enter" \in S => "crew.view" \in S
  /\ ("rental.manage" \in S \/ "rental.approve" \in S) => "crew.view" \in S /\ "rental.view" \in S
  /\ "rental.pay" \in S => "rental.view" \in S

LEMMA OpensIs ==
  ASSUME NEW S \in SUBSET Right, Opens(S), NEW p \in S
  PROVE  PagesOf(p) \subseteq S
<1>1. p \in Right
  OBVIOUS
<1>2. CASE p \in {"users.manage", "settings.manage", "shared.export", "stock.edit", "stock.manage"}
  BY <1>2 DEF Opens, PagesOf
<1>3. CASE p \in {"payroll.enter", "payroll.check", "runs.review", "runs.approve",
                  "payout.prepare", "payout.pay"}
  BY <1>3 DEF Opens, PagesOf
<1>4. CASE p \in {"crew.enter", "rental.manage", "rental.approve", "rental.pay"}
  BY <1>4 DEF Opens, PagesOf
<1>5. CASE p \notin {"users.manage", "settings.manage", "shared.export", "stock.edit", "stock.manage",
                     "payroll.enter", "payroll.check", "runs.review", "runs.approve",
                     "payout.prepare", "payout.pay",
                     "crew.enter", "rental.manage", "rental.approve", "rental.pay"}
  <2>1. PagesOf(p) = {}
    BY <1>5 DEF PagesOf
  <2> QED
    BY <2>1
<1> QED
  BY <1>2, <1>3, <1>4, <1>5

(* What each profile grants is at all times a set of known rights that     *)
(* opens the pages of its actions.                                         *)
LEMMA MovedOpens ==
  ASSUME NEW r \in ClassifiedRole, NEW done
  PROVE  Given(r, done) \in SUBSET Right /\ Opens(Given(r, done))
<1>1. CASE r = "owner"
  BY <1>1 DEF Given, Since, Right, Opens
<1>2. CASE r = "finance"
  BY <1>2 DEF Given, Since, Right, Opens, FirstGrants
<1>3. CASE r = "reviewer"
  BY <1>3 DEF Given, Since, Right, Opens, FirstGrants
<1>4. CASE r = "inventory-manager"
  BY <1>4 DEF Given, Since, Right, Opens, FirstGrants
<1>5. CASE r = "rental-supervisor"
  BY <1>5 DEF Given, Since, Right, Opens
<1>6. CASE r \in {"operations-admin", "access-admin", "storekeeper", "internal-officer",
                  "rental-officer", "auditor"}
  <2>1. Given(r, done) = FirstGrants(r)
    BY <1>6 DEF Given, ClassifiedRole
  <2>2. FirstGrants(r) \in SUBSET Right /\ Opens(FirstGrants(r))
    BY <1>6 DEF FirstGrants, Right, Opens
  <2> QED
    BY <2>1, <2>2
<1> QED
  BY <1>1, <1>2, <1>3, <1>4, <1>5, <1>6 DEF ClassifiedRole

(* In the end it is what the catalog grants.                               *)
LEMMA MovedInTheEnd ==
  ASSUME Upgraded, Ordered, NEW r \in ClassifiedRole
  PROVE  Given(r, applied) = Template(r)
<1>1. "10" \in applied /\ "12" \in applied /\ "13" \in applied /\ "14" \in applied
  BY DEF Upgraded, Ordered
<1>2. CASE r = "owner"
  BY <1>1, <1>2 DEF Given, Since, Right, Template
<1>3. CASE r = "finance"
  BY <1>1, <1>3 DEF Given, Since, FirstGrants, Template, Spelled, Payroll, Rental
<1>4. CASE r = "reviewer"
  BY <1>1, <1>4 DEF Given, Since, FirstGrants, Template, Spelled, Payroll, Rental
<1>5. CASE r = "inventory-manager"
  BY <1>1, <1>5 DEF Given, Since, FirstGrants, Template, Derived, Capabilities, Workspaces, Stock
<1>6. CASE r = "rental-supervisor"
  BY <1>6 DEF Given, Template, Spelled
<1>7. CASE r = "internal-officer"
  BY <1>7 DEF Given, FirstGrants, Template, Spelled, Payroll, ClassifiedRole
<1>8. CASE r = "storekeeper"
  BY <1>8 DEF Given, FirstGrants, Template, Spelled, ClassifiedRole
<1>9. CASE r = "operations-admin"
  BY <1>9 DEF Given, FirstGrants, Template, Derived, Capabilities, Workspaces, Stock, ClassifiedRole
<1>10. CASE r = "access-admin" \/ r = "auditor"
  BY <1>10 DEF Given, FirstGrants, Template, Derived, Capabilities, Workspaces, ClassifiedRole
<1>11. CASE r = "rental-officer"
  BY <1>11 DEF Given, FirstGrants, Template, Derived, Capabilities, Workspaces, Rental, ClassifiedRole
<1> QED
  BY <1>2, <1>3, <1>4, <1>5, <1>6, <1>7, <1>8, <1>9, <1>10, <1>11 DEF ClassifiedRole


(* Among the accounts there is a first one.                                *)
LEMMA LowestIs ==
  ASSUME NEW S \in SUBSET Login, S # {}
  PROVE  Lowest(S) \in S
<1>1. S \subseteq Nat
  BY LoginAssumption
<1>2. PICK x \in S : TRUE
  OBVIOUS
<1> DEFINE Upto(d) == 0..d
           T == {Upto(d) : d \in {d \in S : d <= x}}
<1>3. IsFiniteSet(0..x) /\ x \in Nat
  BY <1>1, FS_Interval
<1>4. T \subseteq SUBSET (0..x) /\ T # {}
  <2>1. \A d \in S : d <= x => Upto(d) \subseteq 0..x
    BY <1>1, <1>3
  <2>2. Upto(x) \in T
    BY <1>3
  <2> HIDE DEF Upto
  <2> QED
    BY <2>1, <2>2
<1>5. PICK m \in T : \A y \in T : y \subseteq m => y = m
  <2> DEFINE W == 0..x
  <2>1. IsFiniteSet(W) /\ T \subseteq SUBSET W /\ T # {}
    BY <1>3, <1>4
  <2> HIDE DEF W, T, Upto
  <2> QED
    BY <2>1, SmallestSubset
<1>6. PICK l \in S : l <= x /\ m = Upto(l)
  BY <1>5
<1>7. \A d \in S : l <= d
  <2> SUFFICES ASSUME NEW d \in S, d < l PROVE FALSE
    BY <1>1
  <2>1. /\ d <= x /\ Upto(d) \subseteq Upto(l) /\ l \in Upto(l) /\ l \notin Upto(d)
    BY <1>1, <1>3, <1>6
  <2>2. Upto(d) \in T
    BY <2>1
  <2> HIDE DEF Upto, T
  <2> QED
    BY <1>5, <1>6, <2>1, <2>2
<1> QED
  BY <1>7 DEF Lowest

(* What is granted is admitted.                                            *)
LEMMA MovedAdmitted ==
  ASSUME Ordered, NEW r \in Existing(applied)
  PROVE  Given(r, applied) \subseteq Admitted(applied)
<1>1. "5" \in applied /\ r \in ClassifiedRole /\ Given(r, applied) \in SUBSET Right
  BY MovedOpens DEF Existing, Ordered
<1>2. /\ "12" \in applied => "10" \in applied
      /\ "13" \in applied => "12" \in applied
  BY DEF Ordered
<1>3. /\ "runs.review" \in Given(r, applied) => "10" \in applied
      /\ "sourcing" \in Given(r, applied) => "12" \in applied
      /\ "subcontractors" \in Given(r, applied) => "13" \in applied
  <2>1. CASE r \in {"owner", "finance", "reviewer", "inventory-manager", "rental-supervisor"}
    BY <2>1 DEF Given, Since, FirstGrants
  <2>2. CASE r \in {"operations-admin", "access-admin", "storekeeper", "internal-officer",
                    "rental-officer", "auditor"}
    <3>1. Given(r, applied) = FirstGrants(r)
      BY <2>2 DEF Given, ClassifiedRole
    <3>2. \A p \in {"runs.review", "sourcing", "subcontractors"} : p \notin FirstGrants(r)
      BY <2>2 DEF FirstGrants
    <3> QED
      BY <3>1, <3>2
  <2> QED
    BY <1>1, <2>1, <2>2 DEF ClassifiedRole
<1> QED
  BY <1>1, <1>3 DEF Admitted, NotYet

(* Where only grants change.                                               *)
LEMMA GrantsKeep ==
  ASSUME UpgradeIInv, NEW m \in {"8", "9", "10", "12", "13", "14"}, Runs(m),
         UNCHANGED <<tenant, login, seat>>, Ordered', GrantsMoved', allowed' = Admitted(applied')
  PROVE  UpgradeIInv'
<1>1. UpgradeTypeOK /\ AccountsMoved /\ applied' = applied \cup {m}
  BY DEF UpgradeIInv, Runs
<1>2. AccountsMoved'
  BY <1>1 DEF AccountsMoved
<1>3. DOMAIN builtin' \subseteq ClassifiedRole /\ builtin' \in [DOMAIN builtin' -> SUBSET Right]
  <2>1. DOMAIN builtin' = Existing(applied') /\ Existing(applied') \subseteq ClassifiedRole
    BY DEF GrantsMoved, Existing
  <2>2. \A r \in ClassifiedRole : Given(r, applied') \in SUBSET Right
    BY MovedOpens
  <2> QED
    BY <2>1, <2>2 DEF GrantsMoved
<1>4. Admitted(applied') \subseteq Right
  BY DEF Admitted
<1>5. UpgradeTypeOK'
  BY <1>1, <1>3, <1>4 DEF UpgradeTypeOK
<1> QED
  BY <1>2, <1>5 DEF UpgradeIInv

(* Each of them runs after those before it.                                *)
LEMMA RunsInOrder ==
  ASSUME Ordered, NEW m \in {"4", "5", "6", "8", "9", "10", "12", "13", "14"}, Runs(m)
  PROVE  Ordered' /\ m \notin applied /\ applied' = applied \cup {m} /\ Before(m) \subseteq applied
<1>1. m \notin applied /\ applied' = applied \cup {m} /\ Before(m) \subseteq applied
  BY DEF Runs
<1>2. Ordered'
  BY <1>1 DEF Ordered, Before
<1> QED
  BY <1>1, <1>2

(* A profile is regranted as the migration says.                           *)
LEMMA Regranted ==
  ASSUME UpgradeIInv, NEW m \in {"9", "10", "12", "13", "14"}, Runs(m), NEW grants, Regrants(grants),
         \A r \in ClassifiedRole : grants[r] = Given(r, applied'), allowed' = Admitted(applied')
  PROVE  UpgradeIInv'
<1>1. /\ Ordered /\ Ordered' /\ applied' = applied \cup {m} /\ Before(m) \subseteq applied
  BY RunsInOrder DEF UpgradeIInv
<1>2. "8" \in applied
  BY <1>1 DEF Ordered, Before
<1>3. DOMAIN builtin = ClassifiedRole /\ Existing(applied') = ClassifiedRole
  BY <1>1, <1>2 DEF UpgradeIInv, GrantsMoved, Existing
<1>4. GrantsMoved'
  BY <1>3 DEF Regrants, GrantsMoved
<1> QED
  BY <1>1, <1>4, GrantsKeep DEF Regrants

LEMMA RegrantsKeep ==
  ASSUME UpgradeIInv,
         \/ ReconcileStorekeeperProfiles \/ ReconcileInternalFinanceProfiles \/ GrantOwnerSourcing
         \/ GrantOwnerSubcontractors \/ ReconcileInventoryManagerImport
  PROVE  UpgradeIInv'
<1>1. Ordered /\ GrantsMoved /\ allowed = Admitted(applied)
  BY DEF UpgradeIInv
<1>2. ASSUME NEW m \in {"9", "10", "12", "13", "14"}, Runs(m)
      PROVE  /\ applied' = applied \cup {m} /\ m \notin applied /\ "5" \in applied /\ "8" \in applied
             /\ m = "9" => "10" \notin applied
             /\ m = "10" => "12" \notin applied
             /\ m = "12" => "13" \notin applied /\ "10" \in applied
             /\ m = "13" => "12" \in applied /\ "10" \in applied
             /\ DOMAIN builtin = ClassifiedRole
             /\ \A r \in ClassifiedRole : builtin[r] = Given(r, applied)
  <2>1. applied' = applied \cup {m} /\ m \notin applied /\ Before(m) \subseteq applied
    BY <1>1, <1>2, RunsInOrder
  <2>2. "5" \in applied /\ "8" \in applied
    BY <1>1, <2>1 DEF Before, Ordered
  <2>3. /\ m = "9" => "10" \notin applied
        /\ m = "10" => "12" \notin applied
        /\ m = "12" => "13" \notin applied /\ "10" \in applied
        /\ m = "13" => "12" \in applied /\ "10" \in applied
    BY <1>1, <2>1 DEF Before, Ordered
  <2>4. Existing(applied) = ClassifiedRole
    BY <2>2 DEF Existing
  <2> QED
    BY <1>1, <2>1, <2>2, <2>3, <2>4 DEF GrantsMoved
<1>3. CASE ReconcileStorekeeperProfiles
  <2> DEFINE grants == [builtin EXCEPT !["storekeeper"] = {"stock.view", "stock.edit", "search"}]
  <2>1. Runs("9") /\ Regrants(grants) /\ UNCHANGED allowed
    BY <1>3 DEF ReconcileStorekeeperProfiles
  <2>2. applied' = applied \cup {"9"}
    BY <1>2, <2>1
  <2>3. ASSUME NEW r \in ClassifiedRole PROVE grants[r] = Given(r, applied')
    <3>1. Given(r, applied') = Given(r, applied)
      BY <2>2 DEF Given, Since
    <3>2. Given("storekeeper", applied) = {"stock.view", "stock.edit", "search"}
      BY DEF Given, FirstGrants, ClassifiedRole
    <3> QED
      BY <1>2, <2>1, <3>1, <3>2
  <2>4. allowed' = Admitted(applied')
    BY <1>1, <2>1, <2>2 DEF Admitted, NotYet
  <2> HIDE DEF grants
  <2> QED
    BY <2>1, <2>3, <2>4, Regranted
<1>4. CASE ReconcileInternalFinanceProfiles
  <2> DEFINE grants ==
        [builtin EXCEPT
           !["owner"] = @ \cup {"runs.review"},
           !["reviewer"] = (@ \ {"runs.approve"}) \cup {"runs.review"},
           !["finance"] = (@ \ {"payroll.enter", "runs.review"})
                            \cup {"runs.approve", "payout.prepare", "payout.pay"}]
  <2>1. Runs("10") /\ Regrants(grants) /\ allowed' = Right \ {"sourcing", "subcontractors"}
    BY <1>4 DEF ReconcileInternalFinanceProfiles
  <2>2. /\ applied' = applied \cup {"10"} /\ "10" \notin applied /\ "12" \notin applied
        /\ "13" \notin applied /\ "5" \in applied
        /\ DOMAIN builtin = ClassifiedRole
        /\ \A r \in ClassifiedRole : builtin[r] = Given(r, applied)
    BY <1>1, <1>2, <2>1 DEF Ordered
  <2>3. ASSUME NEW r \in ClassifiedRole PROVE grants[r] = Given(r, applied')
    <3>1. CASE r \notin {"owner", "reviewer", "finance"}
      <4>1. Given(r, applied') = Given(r, applied)
        BY <2>2, <3>1 DEF Given, Since
      <4> QED
        BY <2>2, <3>1, <4>1
    <3>2. CASE r = "owner"
      <4>1. grants[r] = Given(r, applied) \cup {"runs.review"}
        BY <2>2, <3>2
      <4> QED
        BY <2>2, <3>2, <4>1 DEF Given, Since
    <3>3. CASE r = "reviewer"
      <4>1. grants[r] = (Given(r, applied) \ {"runs.approve"}) \cup {"runs.review"}
        BY <2>2, <3>3
      <4> QED
        BY <2>2, <3>3, <4>1 DEF Given, Since
    <3>4. CASE r = "finance"
      <4>1. grants[r] = (Given(r, applied) \ {"payroll.enter", "runs.review"})
                          \cup {"runs.approve", "payout.prepare", "payout.pay"}
        BY <2>2, <3>4
      <4> QED
        BY <2>2, <3>4, <4>1 DEF Given, Since
    <3> QED
      BY <3>1, <3>2, <3>3, <3>4
  <2>4. allowed' = Admitted(applied')
    BY <2>1, <2>2 DEF Admitted, NotYet
  <2> HIDE DEF grants
  <2> QED
    BY <2>1, <2>3, <2>4, Regranted
<1>5. CASE GrantOwnerSourcing
  <2> DEFINE grants == [builtin EXCEPT !["owner"] = @ \cup {"sourcing"}]
  <2>1. Runs("12") /\ Regrants(grants) /\ allowed' = Right \ {"subcontractors"}
    BY <1>5 DEF GrantOwnerSourcing
  <2>2. /\ applied' = applied \cup {"12"} /\ "12" \notin applied /\ "10" \in applied
        /\ "13" \notin applied /\ "5" \in applied
        /\ DOMAIN builtin = ClassifiedRole
        /\ \A r \in ClassifiedRole : builtin[r] = Given(r, applied)
    BY <1>1, <1>2, <2>1 DEF Ordered
  <2>3. ASSUME NEW r \in ClassifiedRole PROVE grants[r] = Given(r, applied')
    <3>1. CASE r # "owner"
      <4>1. Given(r, applied') = Given(r, applied)
        BY <2>2, <3>1 DEF Given, Since
      <4> QED
        BY <2>2, <3>1, <4>1
    <3>2. CASE r = "owner"
      <4>1. grants[r] = Given(r, applied) \cup {"sourcing"}
        BY <2>2, <3>2
      <4> QED
        BY <2>2, <3>2, <4>1 DEF Given, Since
    <3> QED
      BY <3>1, <3>2
  <2>4. allowed' = Admitted(applied')
    BY <2>1, <2>2 DEF Admitted, NotYet
  <2> HIDE DEF grants
  <2> QED
    BY <2>1, <2>3, <2>4, Regranted
<1>6. CASE GrantOwnerSubcontractors
  <2> DEFINE grants == [builtin EXCEPT !["owner"] = @ \cup {"subcontractors"}]
  <2>1. Runs("13") /\ Regrants(grants) /\ allowed' = Right
    BY <1>6 DEF GrantOwnerSubcontractors
  <2>2. /\ applied' = applied \cup {"13"} /\ "12" \in applied /\ "10" \in applied
        /\ "13" \notin applied /\ "5" \in applied
        /\ DOMAIN builtin = ClassifiedRole
        /\ \A r \in ClassifiedRole : builtin[r] = Given(r, applied)
    BY <1>2, <2>1
  <2>3. ASSUME NEW r \in ClassifiedRole PROVE grants[r] = Given(r, applied')
    <3>1. CASE r # "owner"
      <4>1. Given(r, applied') = Given(r, applied)
        BY <2>2, <3>1 DEF Given, Since
      <4> QED
        BY <2>2, <3>1, <4>1
    <3>2. CASE r = "owner"
      <4>1. grants[r] = Given(r, applied) \cup {"subcontractors"}
        BY <2>2, <3>2
      <4> QED
        BY <2>2, <3>2, <4>1 DEF Given, Since
    <3> QED
      BY <3>1, <3>2
  <2>4. allowed' = Admitted(applied')
    BY <2>1, <2>2 DEF Admitted, NotYet
  <2> HIDE DEF grants
  <2> QED
    BY <2>1, <2>3, <2>4, Regranted
<1>7. CASE ReconcileInventoryManagerImport
  <2> DEFINE grants == [builtin EXCEPT !["inventory-manager"] = @ \cup {"stock.import"}]
  <2>1. Runs("14") /\ Regrants(grants) /\ UNCHANGED allowed
    BY <1>7 DEF ReconcileInventoryManagerImport
  <2>2. /\ applied' = applied \cup {"14"} /\ "14" \notin applied
        /\ DOMAIN builtin = ClassifiedRole
        /\ \A r \in ClassifiedRole : builtin[r] = Given(r, applied)
    BY <1>2, <2>1
  <2>3. ASSUME NEW r \in ClassifiedRole PROVE grants[r] = Given(r, applied')
    <3>1. CASE r # "inventory-manager"
      <4>1. Given(r, applied') = Given(r, applied)
        BY <2>2, <3>1 DEF Given, Since
      <4> QED
        BY <2>2, <3>1, <4>1
    <3>2. CASE r = "inventory-manager"
      <4>1. grants[r] = Given(r, applied) \cup {"stock.import"}
        BY <2>2, <3>2
      <4> QED
        BY <2>2, <3>2, <4>1 DEF Given, Since
    <3> QED
      BY <3>1, <3>2
  <2>4. allowed' = Admitted(applied')
    BY <1>1, <2>1, <2>2 DEF Admitted, NotYet
  <2> HIDE DEF grants
  <2> QED
    BY <2>1, <2>3, <2>4, Regranted
<1> QED
  BY <1>3, <1>4, <1>5, <1>6, <1>7

(* The migration that makes the company and its members.                   *)
LEMMA BackfillKeeps ==
  ASSUME UpgradeIInv, BackfillInitialCompanyAccess
  PROVE  UpgradeIInv'
<1> DEFINE open   == {u \in Login : login[u].active}
           admins == {u \in open : login[u].admin}
           first  == IF admins # {} THEN Lowest(admins) ELSE Lowest(open)
           none   == \A u \in open : ClassifiedAs(u) # "owner"
           role(u) == IF none /\ open # {} /\ u = first THEN "owner" ELSE ClassifiedAs(u)
<1>1. /\ Runs("4") /\ tenant' = IF tenant = None THEN [active |-> TRUE] ELSE tenant
      /\ seat' = [u \in Login |-> [role |-> role(u), active |-> login[u].active, profile |-> None]]
      /\ UNCHANGED <<login, builtin, allowed>>
      /\ UpgradeTypeOK /\ Ordered /\ GrantsMoved /\ allowed = Admitted(applied)
  BY DEF BackfillInitialCompanyAccess, UpgradeIInv
<1>2. /\ Ordered' /\ applied' = applied \cup {"4"} /\ "4" \notin applied /\ "5" \notin applied
      /\ "8" \notin applied /\ "6" \notin applied
  BY <1>1, RunsInOrder DEF Ordered
<1>3. open # {} => first \in open
  <2>1. admins \subseteq open /\ open \subseteq Login
    OBVIOUS
  <2>2. (admins # {} => Lowest(admins) \in admins) /\ (open # {} => Lowest(open) \in open)
    <3> HIDE DEF admins, open
    <3>1. admins \in SUBSET Login /\ open \in SUBSET Login
      BY <2>1
    <3> QED
      BY <3>1, LowestIs
  <2> QED
    BY <2>1, <2>2
<1>4. \A u \in Login : ClassifiedAs(u) \in ClassifiedRole /\ (ClassifiedAs(u) = "owner" => login[u].super)
  BY DEF ClassifiedAs, ClassifiedRole
<1>5. \A u \in Login : role(u) \in ClassifiedRole
  BY <1>4 DEF ClassifiedRole
<1>6. \A u \in Login : login[u].active \in BOOLEAN
  BY <1>1 DEF UpgradeTypeOK, Flags
<1>7. \A u, v \in Login : u # v /\ role(u) = "owner" /\ role(v) = "owner" =>
        login[u].super \/ login[v].super
  BY <1>4
<1>8. (\E u \in Login : login[u].active) => \E u \in Login : login[u].active /\ role(u) = "owner"
  BY <1>3
<1> HIDE DEF role
<1>9. \A u \in Login : /\ seat'[u] \in Seat /\ seat'[u].role = role(u)
                       /\ seat'[u].active = login[u].active /\ seat'[u].profile = None
  BY <1>1, <1>5, <1>6 DEF Seat
<1>10. \A u \in Login : seat'[u] # None
  BY <1>9, LoginAssumption
<1>11. tenant' # None /\ tenant' \in Tenant
  <2>1. [active |-> TRUE] \in Tenant
    BY DEF Tenant
  <2>2. tenant' \in Tenant
    BY <1>1, <2>1 DEF UpgradeTypeOK
  <2> QED
    BY <2>2, LoginAssumption
<1>12. UpgradeTypeOK'
  <2>1. seat' \in [Login -> {None} \cup Seat]
    BY <1>1, <1>9
  <2> QED
    BY <1>1, <1>2, <1>11, <2>1 DEF UpgradeTypeOK
<1>13. AccountsMoved'
  BY <1>1, <1>2, <1>7, <1>8, <1>9, <1>10, <1>11 DEF AccountsMoved
<1>14. GrantsMoved' /\ allowed' = Admitted(applied')
  <2>1. Existing(applied') = {} /\ Existing(applied) = {}
    BY <1>2 DEF Existing
  <2>2. GrantsMoved'
    BY <1>1, <2>1 DEF GrantsMoved
  <2>3. Admitted(applied') = Admitted(applied)
    BY <1>2 DEF Admitted
  <2> QED
    BY <1>1, <2>2, <2>3
<1> QED
  BY <1>2, <1>12, <1>13, <1>14 DEF UpgradeIInv

(* Profiles are given to members that have none.                           *)
LEMMA ProfiledIs ==
  ASSUME UpgradeTypeOK, NEW u \in Login, seat[u] # None,
         NEW s, s = IF seat[u] # None /\ seat[u].profile = None
                    THEN [seat[u] EXCEPT !.profile = seat[u].role] ELSE seat[u]
  PROVE  /\ s \in Seat /\ s.role = seat[u].role /\ s.active = seat[u].active
         /\ s.profile = IF seat[u].profile = None THEN seat[u].role ELSE seat[u].profile
<1>1. seat[u] \in Seat
  BY DEF UpgradeTypeOK
<1> QED
  BY <1>1 DEF Seat

LEMMA BuiltinsKeep ==
  ASSUME UpgradeIInv, BackfillAccessProfiles
  PROVE  UpgradeIInv'
<1>1. /\ Runs("5") /\ UNCHANGED <<tenant, login>>
      /\ seat' = [u \in Login |-> IF seat[u] # None /\ seat[u].profile = None
                                  THEN [seat[u] EXCEPT !.profile = seat[u].role] ELSE seat[u]]
      /\ builtin' = [r \in ClassifiedRole \ {"rental-supervisor"} |-> FirstGrants(r)]
      /\ allowed' = Right \ {"runs.review", "sourcing", "subcontractors"}
      /\ UpgradeTypeOK /\ Ordered /\ AccountsMoved
  BY DEF BackfillAccessProfiles, UpgradeIInv
<1>2. /\ Ordered' /\ applied' = applied \cup {"5"} /\ "4" \in applied
      /\ "5" \notin applied
      /\ "6" \notin applied /\ "8" \notin applied /\ "10" \notin applied /\ "12" \notin applied
      /\ "13" \notin applied /\ "14" \notin applied
  BY <1>1, RunsInOrder DEF Ordered, Before
<1>3. Existing(applied') = ClassifiedRole \ {"rental-supervisor"} /\ allowed' = Admitted(applied')
  BY <1>1, <1>2 DEF Existing, Admitted, NotYet
<1>4. \A r \in ClassifiedRole \ {"rental-supervisor"} : Given(r, applied') = FirstGrants(r)
  <2> SUFFICES ASSUME NEW r \in ClassifiedRole \ {"rental-supervisor"}
               PROVE  Given(r, applied') = FirstGrants(r)
    OBVIOUS
  <2>1. CASE r = "owner"
    BY <1>2, <2>1 DEF Given, Since, FirstGrants
  <2>2. CASE r # "owner"
    BY <1>2, <2>2 DEF Given, Since
  <2> QED
    BY <2>1, <2>2
<1>5. GrantsMoved'
  BY <1>1, <1>3, <1>4 DEF GrantsMoved
<1>6. \A u \in Login : /\ seat[u] # None /\ seat'[u] \in Seat /\ seat'[u] # None
                       /\ seat'[u].role = seat[u].role /\ seat'[u].active = seat[u].active
                       /\ seat'[u].profile = IF seat[u].profile = None THEN seat[u].role ELSE seat[u].profile
  BY <1>1, <1>2, ProfiledIs, LoginAssumption DEF AccountsMoved
<1>7. \A u \in Login : seat'[u].profile = seat[u].role
  BY <1>1, <1>2, <1>6 DEF AccountsMoved
<1>8. UpgradeTypeOK'
  <2>1. seat' \in [Login -> {None} \cup Seat]
    BY <1>1, <1>6
  <2>2. \A r \in ClassifiedRole \ {"rental-supervisor"} : FirstGrants(r) \in SUBSET Right
    BY <1>4, MovedOpens
  <2> QED
    BY <1>1, <1>2, <2>1, <2>2 DEF UpgradeTypeOK
<1>9. AccountsMoved'
  BY <1>1, <1>2, <1>6, <1>7 DEF AccountsMoved
<1> QED
  BY <1>2, <1>3, <1>5, <1>8, <1>9 DEF UpgradeIInv

LEMMA AuthorityKeeps ==
  ASSUME UpgradeIInv, EnforceProfileAuthority
  PROVE  UpgradeIInv'
<1>1. /\ Runs("6") /\ UNCHANGED <<tenant, builtin, allowed>>
      /\ login' = [u \in Login |-> [login[u] EXCEPT !.staff = login[u].super]]
      /\ seat' = [u \in Login |-> IF seat[u] # None /\ seat[u].profile = None
                                  THEN [seat[u] EXCEPT !.profile = seat[u].role] ELSE seat[u]]
      /\ UpgradeTypeOK /\ Ordered /\ AccountsMoved /\ GrantsMoved /\ allowed = Admitted(applied)
  BY DEF EnforceProfileAuthority, UpgradeIInv
<1>2. /\ Ordered' /\ applied' = applied \cup {"6"} /\ "5" \in applied /\ "4" \in applied
      /\ "8" \notin applied
  BY <1>1, RunsInOrder DEF Ordered, Before
<1>3. \A u \in Login : /\ login'[u] \in Flags /\ login'[u].super = login[u].super
                       /\ login'[u].active = login[u].active /\ login'[u].staff = login[u].super
  <2>1. \A u \in Login : login[u] \in Flags
    BY <1>1 DEF UpgradeTypeOK
  <2> QED
    BY <1>1, <2>1 DEF Flags
<1>4. \A u \in Login : /\ seat[u] # None /\ seat'[u] \in Seat /\ seat'[u] # None
                       /\ seat'[u].role = seat[u].role /\ seat'[u].active = seat[u].active
                       /\ seat'[u].profile = IF seat[u].profile = None THEN seat[u].role ELSE seat[u].profile
  BY <1>1, <1>2, ProfiledIs, LoginAssumption DEF AccountsMoved
<1>5. \A u \in Login : seat'[u].profile = seat[u].role
  BY <1>1, <1>2, <1>4 DEF AccountsMoved
<1>6. UpgradeTypeOK'
  <2>1. seat' \in [Login -> {None} \cup Seat] /\ login' \in [Login -> Flags]
    BY <1>1, <1>3, <1>4
  <2> QED
    BY <1>1, <1>2, <2>1 DEF UpgradeTypeOK
<1>7. AccountsMoved'
  <2>1. /\ tenant # None /\ \A u \in Login : seat[u] # None /\ seat[u].active = login[u].active
        /\ (\E u \in Login : login[u].active) =>
             \E u \in Login : login[u].active /\ seat[u].role = "owner"
        /\ \A u, v \in Login : u # v /\ seat[u].role = "owner" /\ seat[v].role = "owner" =>
             login[u].super \/ login[v].super
    BY <1>1, <1>2 DEF AccountsMoved
  <2>2. tenant' # None /\ \A u \in Login : seat'[u] # None /\ seat'[u].active = login'[u].active
    BY <1>1, <1>3, <1>4, <2>1
  <2>3. (\E u \in Login : login'[u].active) =>
          \E u \in Login : login'[u].active /\ seat'[u].role = "owner"
    BY <1>3, <1>4, <2>1
  <2>4. \A u, v \in Login : u # v /\ seat'[u].role = "owner" /\ seat'[v].role = "owner" =>
          login'[u].super \/ login'[v].super
    BY <1>3, <1>4, <2>1
  <2>5. \A u \in Login : /\ seat'[u].profile = seat'[u].role
                         /\ login'[u].staff = login'[u].super
    BY <1>3, <1>4, <1>5
  <2>6. "4" \in applied' /\ "5" \in applied'
    BY <1>2
  <2> QED
    BY <2>2, <2>3, <2>4, <2>5, <2>6 DEF AccountsMoved
<1>8. GrantsMoved' /\ allowed' = Admitted(applied')
  <2>1. Existing(applied') = Existing(applied) /\ Admitted(applied') = Admitted(applied)
    BY <1>2 DEF Existing, Admitted, NotYet
  <2>2. \A r \in Existing(applied) : Given(r, applied') = Given(r, applied)
    BY <1>2 DEF Given, Since
  <2> QED
    BY <1>1, <2>1, <2>2 DEF GrantsMoved
<1> QED
  BY <1>2, <1>6, <1>7, <1>8 DEF UpgradeIInv

LEMMA ForemenKeep ==
  ASSUME UpgradeIInv, CreateForemanProfiles
  PROVE  UpgradeIInv'
<1>1. /\ Runs("8") /\ UNCHANGED <<tenant, login, seat, allowed>>
      /\ builtin' = [r \in DOMAIN builtin \cup {"rental-supervisor"} |->
                       IF r = "rental-supervisor" THEN {"crew.view", "crew.enter"} ELSE builtin[r]]
      /\ Ordered /\ GrantsMoved /\ allowed = Admitted(applied)
  BY DEF CreateForemanProfiles, UpgradeIInv
<1>2. /\ Ordered' /\ applied' = applied \cup {"8"} /\ "5" \in applied /\ "8" \notin applied
  BY <1>1, RunsInOrder DEF Ordered, Before
<1>3. /\ Existing(applied) = ClassifiedRole \ {"rental-supervisor"}
      /\ Existing(applied') = ClassifiedRole
      /\ Admitted(applied') = Admitted(applied)
  BY <1>2 DEF Existing, Admitted, NotYet
<1>4. DOMAIN builtin \cup {"rental-supervisor"} = ClassifiedRole
  BY <1>1, <1>3 DEF GrantsMoved, ClassifiedRole
<1>5. \A r \in ClassifiedRole :
        Given(r, applied') = IF r = "rental-supervisor" THEN {"crew.view", "crew.enter"}
                             ELSE Given(r, applied)
  BY <1>2 DEF Given, Since
<1>6. \A r \in ClassifiedRole \ {"rental-supervisor"} : builtin[r] = Given(r, applied)
  BY <1>1, <1>3 DEF GrantsMoved
<1>7. GrantsMoved'
  BY <1>1, <1>3, <1>4, <1>5, <1>6 DEF GrantsMoved
<1> QED
  BY <1>1, <1>2, <1>3, <1>7, GrantsKeep

(* The inductive invariant of the upgrade: what each profile grants after  *)
(* the migrations that have run, in whichever order, written out.          *)
THEOREM UpgradeInductive == UpgradeSpec => []UpgradeIInv
<1>1. UpgradeInit => UpgradeIInv
  <2> SUFFICES ASSUME UpgradeInit PROVE UpgradeIInv
    OBVIOUS
  <2>1. applied = {} /\ builtin = [r \in {} |-> {}] /\ allowed = Right /\ \A u \in Login : seat[u] = None
    BY DEF UpgradeInit
  <2>2. Existing(applied) = {} /\ Admitted(applied) = Right
    BY <2>1 DEF Existing, Admitted
  <2>3. GrantsMoved
    BY <2>1, <2>2 DEF GrantsMoved
  <2>4. UpgradeTypeOK
    BY DEF UpgradeInit, UpgradeTypeOK
  <2>5. Ordered /\ AccountsMoved
    BY <2>1 DEF Ordered, AccountsMoved
  <2> QED
    BY <2>1, <2>2, <2>3, <2>4, <2>5 DEF UpgradeIInv
<1>2. UpgradeIInv /\ [UpgradeNext]_upgradeVars => UpgradeIInv'
  <2> SUFFICES ASSUME UpgradeIInv, UpgradeNext \/ UNCHANGED upgradeVars PROVE UpgradeIInv'
    OBVIOUS
  <2>1. CASE UpgradeNext
    BY <2>1, BackfillKeeps, BuiltinsKeep, AuthorityKeeps, ForemenKeep, RegrantsKeep DEF UpgradeNext
  <2>2. CASE UNCHANGED upgradeVars
    <3>1. UpgradeTypeOK' /\ Ordered' /\ AccountsMoved'
      BY <2>2 DEF UpgradeIInv, UpgradeTypeOK, Ordered, AccountsMoved
    <3>2. GrantsMoved' /\ allowed' = Admitted(applied')
      BY <2>2 DEF UpgradeIInv, GrantsMoved
    <3> QED
      BY <3>1, <3>2 DEF UpgradeIInv
  <2> QED
    BY <2>1, <2>2
<1> QED
  BY <1>1, <1>2, PTL DEF UpgradeSpec

(* Whatever accounts the old system had, the upgrade ends with the members *)
(* and the grants that the code of today expects, and on the way grants    *)
(* nothing its constraint refuses and no action without its page.          *)
THEOREM UpgradeEndsRight == UpgradeSpec => []UpgradeTrue
<1>1. UpgradeIInv => UpgradeTrue
  <2> SUFFICES ASSUME UpgradeIInv PROVE UpgradeTrue
    OBVIOUS
  <2>1. /\ UpgradeTypeOK /\ Ordered /\ GrantsMoved /\ allowed = Admitted(applied) /\ AccountsMoved
    BY DEF UpgradeIInv
  <2>2. DOMAIN builtin = Existing(applied) /\ \A r \in Existing(applied) : builtin[r] = Given(r, applied)
    BY <2>1 DEF GrantsMoved
  <2>3. ASSUME NEW r \in DOMAIN builtin
        PROVE  builtin[r] \subseteq allowed /\ \A p \in builtin[r] : PagesOf(p) \subseteq builtin[r]
    <3>1. builtin[r] = Given(r, applied) /\ r \in Existing(applied) /\ r \in ClassifiedRole
      BY <2>2 DEF Existing
    <3>2. builtin[r] \in SUBSET Right /\ Opens(builtin[r])
      BY <3>1, MovedOpens
    <3>3. builtin[r] \subseteq allowed
      BY <2>1, <3>1, MovedAdmitted
    <3> QED
      BY <3>2, <3>3, OpensIs
  <2>4. ASSUME NEW u \in Login, NEW v \in Login, u # v, seat[u] # None, seat[v] # None,
               seat[u].role = "owner", seat[v].role = "owner"
        PROVE  login[u].super \/ login[v].super
    BY <2>1, <2>4 DEF AccountsMoved
  <2>5. ASSUME Upgraded, tenant.active, NEW x \in Login, login[x].active
        PROVE  ReportErrors = {}
    <3>1. /\ "4" \in applied /\ "5" \in applied /\ "6" \in applied /\ "8" \in applied
      BY <2>1, <2>5 DEF Upgraded, Ordered
    <3>2. /\ tenant # None
          /\ \A u \in Login : /\ seat[u] # None /\ seat[u].active = login[u].active
                              /\ seat[u].profile = seat[u].role /\ login[u].staff = login[u].super
      BY <2>1, <3>1 DEF AccountsMoved
    <3>3. PICK o \in Login : login[o].active /\ seat[o].role = "owner"
      BY <2>1, <2>5, <3>1 DEF AccountsMoved
    <3>4. \A u \in Login : seat[u].profile # None
      <4>1. \A u \in Login : seat[u] \in Seat
        BY <2>1, <3>2 DEF UpgradeTypeOK
      <4>2. \A u \in Login : seat[u].role \in ClassifiedRole
        BY <4>1 DEF Seat
      <4> QED
        BY <3>2, <4>2, LoginAssumption
    <3>5. \A r \in ClassifiedRole : r \in DOMAIN builtin /\ builtin[r] = Template(r)
      <4>1. Existing(applied) = ClassifiedRole
        BY <3>1 DEF Existing
      <4> QED
        BY <2>1, <2>2, <2>5, <4>1, MovedInTheEnd
    <3>6. {u \in Login : login[u].active /\ ~(seat[u] # None /\ seat[u].active /\ login[u].active
                                               /\ tenant # None /\ tenant.active)} = {}
      BY <2>5, <3>2
    <3>7. ~(\A u \in Login : ~(seat[u] # None /\ seat[u].active /\ login[u].active
                                /\ seat[u].profile = "owner"))
      BY <3>2, <3>3
    <3>8. {u \in Login : login[u].staff /\ ~login[u].super} = {}
      BY <3>2
    <3>9. {u \in Login : seat[u] # None /\ seat[u].profile = None} = {}
      BY <3>4
    <3>10. {r \in ClassifiedRole : r \notin DOMAIN builtin \/ builtin[r] # Template(r)} = {}
      BY <3>5
    <3> QED
      BY <3>6, <3>7, <3>8, <3>9, <3>10 DEF ReportErrors
  <2> QED
    BY <2>3, <2>4, <2>5 DEF UpgradeTrue
<1> QED
  BY <1>1, UpgradeInductive, PTL

HIDE DEF upgradeVars

(***************************************************************************)
(* The parts together                                                      *)
(***************************************************************************)

(* Every part keeps the type of its state, whichever of them move, one     *)
(* after the other or at once: each has an inductive invariant of its own. *)
THEOREM BackOfficeAlwaysTyped == BackOfficeSpec => []BackOfficeTypeOK
<1>1. /\ AccessIInv => AccessTypeOK
      /\ ClientIInv => ClientTypeOK
      /\ LibraryIInv => LibraryTypeOK
      /\ DeliveryIInv => DeliveryTypeOK
      /\ ImportIInv => ImportTypeOK
      /\ UpgradeIInv => UpgradeTypeOK
  BY DEF AccessIInv, ClientIInv, LibraryIInv, DeliveryIInv, ImportIInv, UpgradeIInv
<1>2. MonthIInv => FileTypeOK /\ MonthTypeOK
  BY DEF MonthIInv, FileIInv
<1> QED
  BY <1>1, <1>2, AccessInductive, ClientInductive, LibraryInductive, DeliveryInductive,
     ImportInductive, MonthInductive, UpgradeInductive, PTL DEF BackOfficeSpec, BackOfficeTypeOK
=============================================================================
