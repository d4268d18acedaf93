------------------------------ MODULE MCDesks ------------------------------
(* The two request layers, side by side: the payroll month, or one kind of *)
(* provider of the directory.  They share no variable, and one of them     *)
(* moves in a behaviour.                                                   *)
EXTENDS PayrollDesk, SourcingDesk, TLC

CONSTANT bonus

VARIABLE part  \* the one that moves

PlainKind == (bonus :> "OTHER")
PlainDate == (bonus :> 1)

(* The built-in Payroll Officer and Finance Reviewer, and the owner, who   *)
(* has to stand in for a Finance Manager.                                  *)
Profiles ==
  ("officer" :> {"edit", "submit", "prepare", "manage"})
  @@ ("reviewer" :> {"approve_attendance", "approve_adjustments", "review"})
  @@ ("owner" :> Permission)

(* One provider and one master of each kind, and two access profiles.      *)
Kinds   == {"vendor", "manpower", "subcontractor"}
Same(x) == x
DirectoryRights == {Kinds, Kinds \cup {"masters"}}

(* Bounds of the search.  A provider has contacts, has had a catalog or    *)
(* has files; with the last two it keeps its first profile, and a          *)
(* subcontractor is not confirmed, and with two contacts it keeps its      *)
(* first profile and stays in use.                                         *)
SmallDirectory ==
  LET entries == {provider[p] : p \in {p \in Kinds : provider[p] # None}}
      people  == {c \in {"c", "d"} : contact[c] # None}
      masters == {x \in Kinds : master[x] # None}
      catalog == masters # {} \/ shown["o"] # None
      files   == stored # {}
  IN /\ people = {} \/ ~(catalog \/ files)
     /\ ~catalog \/ ~files
     /\ catalog \/ files => /\ \A p \in Kinds : confirmed[p] = None
                            /\ \A e \in entries : e.profile = 1 /\ e.named = None
     /\ Cardinality(people) > 1 => \A e \in entries :
          e.profile = 1 /\ e.active /\ ~e.archived /\ e.trash = "no"
     /\ \A p \in Kinds : provider[p] # None => p = part
     /\ \A x \in masters : x = part

DesksOffer == PagesOffer /\ DirectoryOffers

DesksInit ==
  /\ Init /\ DirectoryInit /\ part \in {"payroll"} \cup Kinds
  /\ part \in Kinds => attendance.sheet = 1 /\ terms = 1 /\ policy = 1

DesksNext ==
  /\ UNCHANGED part
  /\ \/ part = "payroll" /\ DeskNext /\ UNCHANGED directoryVars
     \/ part \in Kinds /\ DirectoryNext /\ SmallDirectory' /\ UNCHANGED vars

DesksSpec == DesksInit /\ [][DesksNext]_<<vars, directoryVars, part>>
=============================================================================
