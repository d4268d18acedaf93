---------------------------- MODULE TrashCascade ----------------------------
(***************************************************************************)
(* Trash: the 30-day recoverable delete of master records, and the cascade *)
(* from a parent (project, branch, department, manpower supplier) to its   *)
(* children.  apps/core/trash.py, trash_purge.py and their callers.        *)
(*                                                                         *)
(* A recovery window is named by the delete that opened it: `now` counts   *)
(* deletes, a record deleted by delete e has at = e (deleted_at), and its  *)
(* window (purge_after) is over once horizon >= e.                         *)
(*                                                                         *)
(* Services lock the rows they change and are one step each.  Two views    *)
(* are not in a transaction: the restore button of the Trash page          *)
(* (OpenPage to CrashPage) and the project forms, which read a project and *)
(* later write every column of it back (OpenSave, WriteSave).              *)
(***************************************************************************)
EXTENDS Naturals

CONSTANTS Root,       \* parents
          Child,      \* their children
          Owns,       \* current assignment of children to parents
          PageChild,  \* children restored from the Trash page (stock, locations)
          Project,    \* parents that are edited by a form that saves every column
          Tab,        \* concurrent restore requests of the Trash page
          MaxEvents,  \* bound on the number of deletes
          Self, None

ASSUME TrashAssumption ==
  /\ Owns \subseteq Root \X Child
  /\ PageChild \subseteq Child /\ Project \subseteq Root
  /\ \A l \in Owns : l[1] \in Project <=> l[2] \in PageChild
  /\ Root \cap Child = {} /\ Self # None /\ {Self, None} \cap Root = {}
  /\ MaxEvents \in Nat

VARIABLES rec,      \* [Record -> its Trash columns]
          links,    \* TrashCascadeLink rows that are not restored
          now,      \* deletes so far
          horizon,  \* windows up to this one are over
          page,     \* [Tab -> restore request of the Trash page]
          saving    \* projects that a form has read and not yet saved

vars == <<rec, links, now, horizon, page, saving>>

Record == Root \cup Child

Columns == [at     : 0..MaxEvents,           \* deleted_at
            window : 0..MaxEvents,           \* purge_after; 0 when there is none
            by     : Root \cup {Self, None}, \* deletion_reason: own or cascade
            gone   : BOOLEAN]                \* physically removed

Kept == [at |-> 0, window |-> 0, by |-> None, gone |-> FALSE]

NoRequest == [step |-> "idle", child |-> None, window |-> 0]

TypeOK ==
  /\ rec \in [Record -> Columns]
  /\ links \in SUBSET (Root \X Child)
  /\ now \in 0..MaxEvents /\ horizon \in 0..now
  /\ page \in [Tab -> [step : {"idle", "read", "saved"}, child : PageChild \cup {None},
                       window : 0..MaxEvents]]
  /\ saving \in SUBSET Project

Init ==
  /\ rec = [x \in Record |-> Kept]
  /\ links = {}
  /\ now = 0 /\ horizon = 0
  /\ page = [t \in Tab |-> NoRequest]
  /\ saving = {}

----------------------------------------------------------------------------
Active(x) == rec[x].at = 0 /\ ~rec[x].gone

InTrash(x) == rec[x].at # 0 /\ ~rec[x].gone


(* restore_from_trash: there is a window and it is not over. *)
Recoverable(x) == InTrash(x) /\ rec[x].window > horizon


(* move_to_trash *)
Trashed(e, by) == [at |-> e, window |-> e, by |-> by, gone |-> FALSE]

(* release_cascade_child_ownership *)
Released(children) == {l \in links : l[2] \notin children}

(* Mutant of Taken: children that are already in Trash are claimed too. *)
TakenAll(r) == {c \in Child : <<r, c>> \in Owns /\ ~rec[c].gone /\ <<r, c>> \notin links}

(* cascade_to_trash skips what is in Trash or already linked. *)
Taken(r) == {c \in Child : <<r, c>> \in Owns /\ Active(c) /\ <<r, c>> \notin links}

(* trash_unused_project, delete_unused_branch, _department and _supplier *)
TrashRoot(r) ==
  /\ Active(r) /\ now < MaxEvents
  /\ now' = now + 1
  /\ rec' = [x \in Record |-> IF x = r THEN Trashed(now', Self)
                              ELSE IF x \in Taken(r) THEN Trashed(now', r)
                              ELSE rec[x]]
  /\ links' = links \cup {<<r, c>> : c \in Taken(r)}
  /\ UNCHANGED <<horizon, page, saving>>

(* delete_unused_employee and _worker, trash_unused_stock_item and _location *)
TrashChild(c) ==
  /\ Active(c) /\ now < MaxEvents
  /\ now' = now + 1
  /\ rec' = [rec EXCEPT ![c] = Trashed(now', Self)]
  /\ UNCHANGED <<links, horizon, page, saving>>

Owned(r) == {c \in Child : <<r, c>> \in links}

(* Mutant of ToRestore: the window of the child is not compared. *)
ToRestoreAny(r) == {c \in Owned(r) : InTrash(c)}


ToRestore(r) == {c \in Owned(r) : /\ InTrash(c)
                                  /\ rec[c].at = rec[r].at
                                  /\ rec[c].window = rec[r].window}

(* restore_project_trash and its like, with restore_trash_cascade.  A child *)
(* that is gone makes the whole restore fail.                               *)
RestoreRoot(r) ==
  /\ Recoverable(r)
  /\ \A c \in Owned(r) : ~rec[c].gone
  /\ rec' = [x \in Record |-> IF x = r \/ x \in ToRestore(r) THEN Kept ELSE rec[x]]
  /\ links' = {l \in Released(ToRestore(r)) : l[1] # r}
  /\ UNCHANGED <<now, horizon, page, saving>>

(* restore_employee_trash and restore_worker_trash lock the row. *)
RestoreChild(c) ==
  /\ c \notin PageChild
  /\ Recoverable(c)
  /\ rec' = [rec EXCEPT ![c] = Kept]
  /\ links' = Released({c})
  /\ UNCHANGED <<now, horizon, page, saving>>

----------------------------------------------------------------------------
(* TrashRestoreView: read and check, save, release, each on its own. *)

CascadeOwned(c) == \E r \in Root : <<r, c>> \in links

OpenPage(t, c) ==
  /\ page[t].step = "idle"
  /\ InTrash(c) /\ ~CascadeOwned(c)
  /\ page' = [page EXCEPT ![t] = [step |-> "read", child |-> c, window |-> rec[c].window]]
  /\ UNCHANGED <<rec, links, now, horizon, saving>>

(* The window is the one that was read; a row that is gone fails the save. *)
Saves(t) == page[t].window > horizon /\ ~rec[page[t].child].gone

SavePage(t) ==
  /\ page[t].step = "read" /\ Saves(t)
  /\ rec' = [rec EXCEPT ![page[t].child] = Kept]
  /\ page' = [page EXCEPT ![t].step = "saved"]
  /\ UNCHANGED <<links, now, horizon, saving>>

RefusePage(t) ==
  /\ page[t].step = "read" /\ ~Saves(t)
  /\ page' = [page EXCEPT ![t] = NoRequest]
  /\ UNCHANGED <<rec, links, now, horizon, saving>>

ReleasePage(t) ==
  /\ page[t].step = "saved"
  /\ links' = Released({page[t].child})
  /\ page' = [page EXCEPT ![t] = NoRequest]
  /\ UNCHANGED <<rec, now, horizon, saving>>

(* The worker dies before it releases the links. *)
CrashPage(t) ==
  /\ page[t].step = "saved"
  /\ page' = [page EXCEPT ![t] = NoRequest]
  /\ UNCHANGED <<rec, links, now, horizon, saving>>

----------------------------------------------------------------------------
(* ProjectUpdateView and ProjectStatusView: a project that is not in Trash  *)
(* is read, and project.save() writes back every column that was read.      *)
OpenSave(p) ==
  /\ Active(p) /\ p \notin saving
  /\ saving' = saving \cup {p}
  /\ UNCHANGED <<rec, links, now, horizon, page>>

WriteSave(p) ==
  /\ p \in saving
  /\ saving' = saving \ {p}
  /\ rec' = [rec EXCEPT ![p] = Kept]
  /\ UNCHANGED <<links, now, horizon, page>>

----------------------------------------------------------------------------
(* Retention *)

(* Thirty days pass: no request is that long. *)
PassTime ==
  /\ horizon < now
  /\ saving = {} /\ \A t \in Tab : page[t].step = "idle"
  /\ horizon' = horizon + 1
  /\ UNCHANGED <<rec, links, now, page, saving>>

(* Only a record that nothing refers to may be removed. *)
Removable(x) == \A c \in Child : <<x, c>> \in Owns => rec[c].gone

(* The purge_trash command, one record: the links go, and the record is    *)
(* removed, or kept as a hidden tombstone when it has history.  (Removal    *)
(* by hand, TrashDismissView, fails with a NameError before it changes      *)
(* anything.)                                                               *)
Purge(x) ==
  /\ InTrash(x) /\ rec[x].window \in 1..horizon
  /\ links' = Released({x})
  /\ \E gone \in BOOLEAN :
       /\ gone => Removable(x)
       /\ rec' = [rec EXCEPT ![x].window = 0, ![x].gone = gone]
  /\ UNCHANGED <<now, horizon, page, saving>>

Next ==
  \/ \E r \in Root : TrashRoot(r) \/ RestoreRoot(r)
  \/ \E c \in Child : TrashChild(c) \/ RestoreChild(c)
  \/ \E t \in Tab : \/ \E c \in PageChild : OpenPage(t, c)
                    \/ SavePage(t) \/ RefusePage(t) \/ ReleasePage(t) \/ CrashPage(t)
  \/ \E p \in Project : OpenSave(p) \/ WriteSave(p)
  \/ PassTime
  \/ \E x \in Record : Purge(x)

Spec == Init /\ [][Next]_vars

----------------------------------------------------------------------------
(* Properties *)

(* A child that a parent's delete sent to Trash is recoverable only while   *)
(* the parent is in Trash by that same delete, so restoring the parent      *)
(* restores the full scope (restore_trash_cascade).                         *)
Whole(r) ==
  \A c \in Child : rec[c].by = r /\ Recoverable(c) => rec[r].at = rec[c].at

(* So it is for branches, departments and suppliers, whose services lock.   *)
CascadeWhole == \A r \in Root \ Project : Whole(r)

(* LIFECYCLE_RETENTION.md says it of projects as well: children are in "the *)
(* exact same 30-day recovery window" and the cascade is "reversible".      *)
ProjectsWhole == \A r \in Project : Whole(r)

(* A cascade link describes one exact delete: its child is in Trash by the  *)
(* parent's present delete, and so belongs to one parent only.  (Of parents *)
(* and children that only locking services write.)                          *)
LinksCurrent ==
  \A l \in links : l[1] \notin Project /\ l[2] \notin PageChild =>
                     /\ rec[l[2]].by = l[1]
                     /\ rec[l[2]].at # 0
                     /\ rec[l[2]].at = rec[l[1]].at

(* The Trash pages list no child that has a link (active_cascade_child_ids).*)
(* A child that was deleted on its own has none, so its delete is never     *)
(* hidden by an older one of a parent.  (Of children that only locking      *)
(* services write.)                                                         *)
NeverHidden ==
  \A c \in Child \ PageChild : rec[c].by = Self /\ Recoverable(c) => ~CascadeOwned(c)

(* The typed state and all of the above: one deletion is one unit, seen     *)
(* from the parent, from the links and from the page.                       *)
TrashInv == TypeOK /\ CascadeWhole /\ LinksCurrent /\ NeverHidden

(* LIFECYCLE_RETENTION.md: "A later independent child delete is therefore   *)
(* never resurrected [...] by an older parent action", whoever writes.      *)
NeverResurrected ==
  [][\A r \in Root : RestoreRoot(r) =>
       \A c \in Child : rec[c].by = Self => rec'[c] = rec[c]]_vars

(* Once the window of a record is over the record stays out of use.         *)
ExpiredStay ==
  [][\A x \in Record : InTrash(x) /\ rec[x].window <= horizon => rec'[x].at # 0]_vars

(* A restore brings back what it should and nothing that is out of reach.   *)
RestoresRight == NeverResurrected /\ ExpiredStay
=============================================================================
