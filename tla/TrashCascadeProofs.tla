------------------------- MODULE TrashCascadeProofs -------------------------
(***************************************************************************)
(* One deletion is one unit, for any number of parents, children, pages    *)
(* and deletes.  TrashInv alone is not inductive: a restore of the parent  *)
(* brings back the children that have a link and its own dates, so every   *)
(* child it has taken and that is recoverable must have that link, and no  *)
(* two deletes may share a date.                                           *)
(***************************************************************************)
EXTENDS TrashCascade, TLAPS

(* A date is that of a delete so far, and a window is the date's or none.  *)
Dated == \A x \in Record : rec[x].at <= now /\ rec[x].window \in {0, rec[x].at}

(* A parent takes what it owns, and what shares its date it has taken.     *)
OneDelete ==
  /\ links \subseteq Owns
  /\ \A c \in Child : rec[c].by \in Root => <<rec[c].by, c>> \in Owns
  /\ \A r \in Root, c \in Child : rec[r].at # 0 /\ rec[c].at = rec[r].at => rec[c].by = r

(* CascadeWhole, with the link that lets the parent bring the child back.  *)
LinkedWhole ==
  \A r \in Root \ Project, c \in Child :
    rec[c].by = r /\ Recoverable(c) => rec[r].at = rec[c].at /\ <<r, c>> \in links

(* Time stands still for an open request: what it may write over is not    *)
(* expired.                                                                *)
InHand ==
  /\ \A t \in Tab : page[t].step # "idle" => page[t].child \in PageChild
  /\ \A t \in Tab : page[t].step = "read" /\ page[t].window > horizon /\ InTrash(page[t].child)
                      => rec[page[t].child].window > horizon
  /\ \A p \in saving : InTrash(p) => rec[p].window > horizon

IInv == TypeOK /\ Dated /\ OneDelete /\ LinkedWhole /\ LinksCurrent /\ InHand

USE TrashAssumption DEF vars

-----------------------------------------------------------------------------
(* The invariant says all that TrashInv says.                              *)
LEMMA InvariantSays == IInv => TrashInv
<1> SUFFICES ASSUME IInv PROVE TrashInv
  OBVIOUS
<1>1. CascadeWhole
  BY DEF IInv, LinkedWhole, CascadeWhole, Whole
<1>2. NeverHidden
  <2> SUFFICES ASSUME NEW c \in Child \ PageChild, rec[c].by = Self, NEW r \in Root,
                      <<r, c>> \in links
               PROVE  FALSE
    BY DEF NeverHidden, CascadeOwned
  <2>1. <<r, c>> \in Owns
    BY DEF IInv, OneDelete
  <2>2. r \notin Project
    BY <2>1
  <2>3. rec[c].by = r
    BY <2>2 DEF IInv, LinksCurrent
  <2> QED
    BY <2>3
<1> QED
  BY <1>1, <1>2 DEF IInv, TrashInv

LEMMA InitHolds == Init => IInv
<1> SUFFICES ASSUME Init PROVE IInv
  OBVIOUS
<1>1. \A x \in Record : rec[x] = Kept /\ Kept.at = 0 /\ Kept.window = 0 /\ Kept.by = None
  BY DEF Init, Kept
<1>2. TypeOK
  <2>1. Kept \in Columns
    BY DEF Kept, Columns
  <2> HIDE DEF Kept
  <2> QED
    BY <2>1 DEF Init, TypeOK, NoRequest
<1>3. \A x \in Record : ~InTrash(x) /\ ~Recoverable(x)
  BY <1>1 DEF InTrash, Recoverable
<1>4. Dated /\ OneDelete /\ LinkedWhole /\ LinksCurrent
  BY <1>1, <1>3 DEF Init, Dated, OneDelete, LinkedWhole, LinksCurrent, Record
<1>5. InHand
  BY DEF Init, InHand, NoRequest
<1> QED
  BY <1>2, <1>4, <1>5 DEF IInv

(* The rows of the records.                                                *)
LEMMA Rows ==
  ASSUME IInv
  PROVE  /\ \A x \in Record : /\ rec[x] \in Columns /\ rec[x].at \in Nat /\ rec[x].window \in Nat
                              /\ rec[x].at <= now
         /\ Root \subseteq Record /\ Child \subseteq Record
         /\ now \in Nat /\ horizon \in Nat /\ horizon <= now
         /\ Kept \in Columns /\ Kept.at = 0 /\ Kept.window = 0 /\ Kept.by = None /\ ~Kept.gone
BY DEF IInv, TypeOK, Dated, Columns, Record, Kept

-----------------------------------------------------------------------------
(* A delete, of a parent with what it takes or of a child alone: its date  *)
(* is new, and whatever it takes was out of Trash.                         *)
LEMMA DeleteKeeps ==
  ASSUME IInv, NEW x \in Record, NEW S \in SUBSET Child, Active(x), now < MaxEvents,
         \A c \in S : <<x, c>> \in Owns /\ Active(c),
         now' = now + 1, links' = links \cup {<<x, c>> : c \in S},
         rec' = [y \in Record |-> IF y = x THEN Trashed(now', Self)
                                  ELSE IF y \in S THEN Trashed(now', x) ELSE rec[y]],
         UNCHANGED <<horizon, page, saving>>
  PROVE  IInv'
<1>1. /\ \A y \in Record : rec[y] \in Columns /\ rec[y].at \in Nat /\ rec[y].at <= now
      /\ Root \subseteq Record /\ Child \subseteq Record
      /\ now \in Nat /\ horizon \in Nat /\ horizon <= now
  BY Rows
<1>2. \A by \in Root \cup {Self} :
        LET row == Trashed(now', by) IN
        /\ row \in Columns /\ row.at = now' /\ row.window = now' /\ row.by = by /\ ~row.gone
  BY <1>1 DEF Trashed, Columns
<1>3. \A y \in Record :
        /\ y = x => rec'[y] = Trashed(now', Self)
        /\ y # x /\ y \in S => x \in Root /\ rec'[y] = Trashed(now', x)
        /\ y # x /\ y \notin S => rec'[y] = rec[y]
  OBVIOUS
<1>4. \A y \in Record :
        \/ (y = x \/ y \in S) /\ rec'[y].at = now' /\ rec'[y].window = now' /\ ~rec'[y].gone
        \/ y # x /\ y \notin S /\ rec'[y] = rec[y]
  BY <1>2, <1>3
<1>5. TypeOK'
  <2>1. \A y \in Record : rec'[y] \in Columns
    BY <1>1, <1>2, <1>3
  <2>2. rec' \in [Record -> Columns]
    BY <2>1
  <2>3. links' \in SUBSET (Root \X Child)
    BY DEF IInv, TypeOK
  <2> QED
    BY <1>1, <2>2, <2>3 DEF IInv, TypeOK
<1>6. Dated'
  BY <1>1, <1>4 DEF IInv, Dated
<1>7. x \in Root => \A c \in Child : rec[c].by = x /\ Recoverable(c) => x \in Project
  BY <1>1 DEF IInv, LinkedWhole, Active, Recoverable, InTrash
<1>8. \A c \in Child : rec'[c].by \in Root =>
        \/ c \in S /\ c # x /\ rec'[c].by = x
        \/ c \notin S /\ c # x /\ rec'[c] = rec[c]
  BY <1>1, <1>2, <1>3
<1>9. OneDelete'
  <2>1. links' \subseteq Owns
    BY DEF IInv, OneDelete
  <2>2. \A c \in Child : rec'[c].by \in Root => <<rec'[c].by, c>> \in Owns
    BY <1>8 DEF IInv, OneDelete
  <2>3. ASSUME NEW r \in Root, NEW c \in Child, rec'[r].at # 0, rec'[c].at = rec'[r].at
        PROVE  rec'[c].by = r
    <3>1. CASE r = x
      <4>1. rec'[c].at = now' /\ c # x
        BY <1>1, <1>4, <2>3, <3>1
      <4>2. c \in S
        BY <1>1, <1>4, <4>1
      <4> QED
        BY <1>1, <1>2, <1>3, <3>1, <4>1, <4>2
    <3>2. CASE r # x
      <4>1. rec'[r] = rec[r] /\ rec[r].at < now'
        BY <1>1, <1>4, <3>2
      <4>2. rec'[c] = rec[c]
        BY <1>1, <1>4, <2>3, <4>1
      <4> QED
        BY <2>3, <4>1, <4>2 DEF IInv, OneDelete
    <3> QED
      BY <3>1, <3>2
  <2> QED
    BY <2>1, <2>2, <2>3 DEF OneDelete
<1>10. LinkedWhole'
  <2> SUFFICES ASSUME NEW r \in Root \ Project, NEW c \in Child,
                      rec'[c].by = r, Recoverable(c)'
               PROVE  rec'[r].at = rec'[c].at /\ <<r, c>> \in links'
    BY DEF LinkedWhole
  <2>1. CASE c \in S
    BY <1>1, <1>4, <1>8, <2>1
  <2>2. CASE c \notin S
    <3>1. rec'[c] = rec[c] /\ Recoverable(c)
      BY <1>8, <2>2 DEF Recoverable, InTrash
    <3>2. r # x
      BY <1>7, <3>1
    <3> QED
      BY <1>1, <1>4, <3>1, <3>2 DEF IInv, LinkedWhole
  <2> QED
    BY <2>1, <2>2
<1>11. LinksCurrent'
  <2> SUFFICES ASSUME NEW l \in links', l[1] \notin Project, l[2] \notin PageChild
               PROVE  rec'[l[2]].by = l[1] /\ rec'[l[2]].at # 0 /\ rec'[l[2]].at = rec'[l[1]].at
    BY DEF LinksCurrent
  <2>1. CASE l \in links
    <3>1. /\ rec[l[2]].by = l[1] /\ rec[l[2]].at # 0 /\ rec[l[2]].at = rec[l[1]].at
          /\ l[1] \in Root /\ l[2] \in Child
      BY <2>1 DEF IInv, LinksCurrent, TypeOK
    <3>2. l[1] # x /\ l[2] # x /\ l[1] \notin S /\ l[2] \notin S
      BY <3>1 DEF Active
    <3> QED
      BY <1>1, <1>4, <3>1, <3>2
  <2>2. CASE l \notin links
    <3>1. PICK c \in S : l = <<x, c>>
      BY <2>2
    <3>2. l[1] = x /\ l[2] = c /\ x \in Root /\ c # x
      BY <3>1
    <3> QED
      BY <1>1, <1>2, <1>3, <3>2
  <2> QED
    BY <2>1, <2>2
<1>12. InHand'
  BY <1>1, <1>4 DEF IInv, InHand, InTrash, TypeOK
<1> QED
  BY <1>5, <1>6, <1>9, <1>10, <1>11, <1>12 DEF IInv

(* Records come back and links go: those of what came back, and those of a *)
(* parent that came back with all it had taken.                            *)
LEMMA ReturnKeeps ==
  ASSUME IInv, NEW S \in SUBSET Record,
         rec' = [x \in Record |-> IF x \in S THEN Kept ELSE rec[x]],
         links' \subseteq links, UNCHANGED <<now, horizon>>,
         \A l \in links' : /\ l[1] \in S => l[1] \in Project
                           /\ l[2] \in S => l[2] \in PageChild,
         \A r \in Root \ Project, c \in Child \ S :
           rec[c].by = r /\ Recoverable(c) => r \notin S /\ <<r, c>> \in links',
         page' \in [Tab -> [step : {"idle", "read", "saved"}, child : PageChild \cup {None},
                            window : 0..MaxEvents]],
         \A t \in Tab : /\ page'[t].step # "idle" => page'[t].child \in PageChild
                        /\ page'[t].step = "read" => page'[t] = page[t],
         saving' \subseteq saving
  PROVE  IInv'
<1>1. /\ \A x \in Record : rec[x] \in Columns /\ rec[x].at \in Nat /\ rec[x].at <= now
      /\ Root \subseteq Record /\ Child \subseteq Record
      /\ now \in Nat /\ horizon \in Nat /\ horizon <= now
      /\ Kept \in Columns /\ Kept.at = 0 /\ Kept.window = 0 /\ Kept.by = None /\ ~Kept.gone
  BY Rows
<1>2. \A x \in Record : /\ x \in S => rec'[x] = Kept
                        /\ x \notin S => rec'[x] = rec[x]
  OBVIOUS
<1>3. TypeOK'
  <2>1. \A x \in Record : rec'[x] \in Columns
    BY <1>1, <1>2
  <2>2. rec' \in [Record -> Columns]
    BY <2>1
  <2> QED
    BY <2>2 DEF IInv, TypeOK
<1>4. Dated'
  BY <1>1, <1>2 DEF IInv, Dated
<1>5. OneDelete'
  <2>1. \A c \in Child : rec'[c].by \in Root => <<rec'[c].by, c>> \in Owns
    BY <1>1, <1>2 DEF IInv, OneDelete
  <2>2. \A r \in Root, c \in Child :
          rec'[r].at # 0 /\ rec'[c].at = rec'[r].at => rec'[c].by = r
    BY <1>1, <1>2 DEF IInv, OneDelete
  <2> QED
    BY <2>1, <2>2 DEF IInv, OneDelete
<1>6. LinkedWhole'
  <2> SUFFICES ASSUME NEW r \in Root \ Project, NEW c \in Child,
                      rec'[c].by = r, Recoverable(c)'
               PROVE  rec'[r].at = rec'[c].at /\ <<r, c>> \in links'
    BY DEF LinkedWhole
  <2>1. c \notin S /\ rec'[c] = rec[c] /\ Recoverable(c)
    BY <1>1, <1>2 DEF Recoverable, InTrash
  <2>2. r \notin S /\ <<r, c>> \in links'
    BY <2>1
  <2> QED
    BY <1>1, <1>2, <2>1, <2>2 DEF IInv, LinkedWhole
<1>7. LinksCurrent'
  <2> SUFFICES ASSUME NEW l \in links', l[1] \notin Project, l[2] \notin PageChild
               PROVE  rec'[l[2]].by = l[1] /\ rec'[l[2]].at # 0 /\ rec'[l[2]].at = rec'[l[1]].at
    BY DEF LinksCurrent
  <2>1. l \in links /\ l[1] \in Record \ S /\ l[2] \in Record \ S
    BY <1>1 DEF IInv, TypeOK
  <2> QED
    BY <1>2, <2>1 DEF IInv, LinksCurrent
<1>8. InHand'
  BY <1>1, <1>2 DEF IInv, InHand, InTrash, TypeOK, Record
<1> QED
  BY <1>3, <1>4, <1>5, <1>6, <1>7, <1>8 DEF IInv

(* What a parent restores: all that it has taken and that is recoverable.  *)
LEMMA RestoresAll ==
  ASSUME IInv, NEW r \in Root \ Project, NEW c \in Child, Recoverable(r),
         rec[c].by = r, Recoverable(c)
  PROVE  c \in ToRestore(r)
<1>1. rec[r].at = rec[c].at /\ <<r, c>> \in links
  BY DEF IInv, LinkedWhole
<1>2. rec[r].window = rec[r].at /\ rec[c].window = rec[c].at
  <2>1. \A x \in Record : Recoverable(x) => rec[x].window = rec[x].at
    <3> TAKE x \in Record
    <3>1. rec[x].window \in Nat /\ horizon \in Nat /\ rec[x].window \in {0, rec[x].at}
      BY Rows DEF IInv, Dated
    <3> QED
      BY <3>1 DEF Recoverable
  <2> QED
    BY <2>1 DEF Record
<1> QED
  BY <1>1, <1>2 DEF ToRestore, Owned, Recoverable

LEMMA RestoreRootKeeps ==
  ASSUME IInv, NEW r \in Root, RestoreRoot(r)
  PROVE  IInv'
<1> DEFINE S == ToRestore(r) \cup {r}
<1>1. S \in SUBSET Record
  BY DEF ToRestore, Owned, Record
<1>2. rec' = [x \in Record |-> IF x \in S THEN Kept ELSE rec[x]]
  BY DEF RestoreRoot
<1>3. links' \subseteq links /\ \A l \in links' : l[1] # r /\ l[2] \notin ToRestore(r)
  BY DEF RestoreRoot, Released
<1>4. UNCHANGED <<now, horizon, page, saving>>
  BY DEF RestoreRoot
<1>5. \A l \in links' : l[1] \notin S /\ l[2] \notin S
  BY <1>3 DEF IInv, TypeOK, ToRestore, Owned
<1>6. ASSUME NEW q \in Root \ Project, NEW c \in Child \ S, rec[c].by = q, Recoverable(c)
      PROVE  q \notin S /\ <<q, c>> \in links'
  <2>1. q # r
    BY <1>6, RestoresAll DEF RestoreRoot
  <2>2. q \notin S
    BY <2>1 DEF ToRestore, Owned
  <2>3. <<q, c>> \in links
    BY <1>6 DEF IInv, LinkedWhole
  <2> QED
    BY <2>1, <2>2, <2>3 DEF RestoreRoot, Released
<1>7. /\ page' \in [Tab -> [step : {"idle", "read", "saved"}, child : PageChild \cup {None},
                            window : 0..MaxEvents]]
      /\ \A t \in Tab : page'[t].step # "idle" => page'[t].child \in PageChild
  BY <1>4 DEF IInv, TypeOK, InHand
<1> HIDE DEF S
<1> QED
  BY <1>1, <1>2, <1>3, <1>4, <1>5, <1>6, <1>7, ReturnKeeps

LEMMA RestoreChildKeeps ==
  ASSUME IInv, NEW c \in Child, RestoreChild(c)
  PROVE  IInv'
<1> DEFINE S == {c}
<1>1. S \in SUBSET Record
  BY DEF Record
<1>2. rec' = [x \in Record |-> IF x \in S THEN Kept ELSE rec[x]]
  BY DEF RestoreChild, IInv, TypeOK
<1>3. links' = {l \in links : l[2] # c}
  BY DEF RestoreChild, Released
<1>4. UNCHANGED <<now, horizon, page, saving>>
  BY DEF RestoreChild
<1>5. \A l \in links' : l[1] \notin S /\ l[2] \notin S
  BY <1>3 DEF IInv, TypeOK
<1>6. ASSUME NEW q \in Root \ Project, NEW d \in Child \ S, rec[d].by = q, Recoverable(d)
      PROVE  q \notin S /\ <<q, d>> \in links'
  BY <1>3, <1>6 DEF IInv, LinkedWhole
<1>7. /\ page' \in [Tab -> [step : {"idle", "read", "saved"}, child : PageChild \cup {None},
                            window : 0..MaxEvents]]
      /\ \A t \in Tab : page'[t].step # "idle" => page'[t].child \in PageChild
  BY <1>4 DEF IInv, TypeOK, InHand
<1>8. links' \subseteq links
  BY <1>3
<1> HIDE DEF S
<1> QED
  BY <1>1, <1>2, <1>4, <1>5, <1>6, <1>7, <1>8, ReturnKeeps

(* No parent that services lock has a child that the Trash page restores.  *)
LEMMA PageApart ==
  ASSUME IInv, NEW r \in Root \ Project, NEW c \in Child, rec[c].by = r
  PROVE  c \notin PageChild
BY DEF IInv, OneDelete

(* The steps of the Trash page and the late save of a project.             *)
LEMMA PageKeeps ==
  ASSUME IInv, NEW t \in Tab,
         SavePage(t) \/ RefusePage(t) \/ ReleasePage(t) \/ CrashPage(t)
  PROVE  IInv'
<1> DEFINE S == IF SavePage(t) THEN {page[t].child} ELSE {}
<1>1. page[t].step # "idle" /\ page[t].child \in PageChild
  BY DEF SavePage, RefusePage, ReleasePage, CrashPage, IInv, InHand
<1>2. S \in SUBSET Record /\ \A x \in S : x \in PageChild /\ x \in Child
  BY <1>1 DEF Record
<1>3. rec' = [x \in Record |-> IF x \in S THEN Kept ELSE rec[x]]
  BY <1>1 DEF SavePage, RefusePage, ReleasePage, CrashPage, IInv, TypeOK
<1>4. UNCHANGED <<now, horizon, saving>>
  BY DEF SavePage, RefusePage, ReleasePage, CrashPage
<1>5. links' \subseteq links /\ \A l \in links : l[2] \notin PageChild => l \in links'
  BY <1>1 DEF SavePage, RefusePage, ReleasePage, CrashPage, Released
<1>6. \A l \in links' : l[1] \notin S
  BY <1>2, <1>5 DEF IInv, TypeOK
<1>7. ASSUME NEW q \in Root \ Project, NEW d \in Child \ S, rec[d].by = q, Recoverable(d)
      PROVE  q \notin S /\ <<q, d>> \in links'
  <2>1. d \notin PageChild
    BY <1>7, PageApart
  <2> QED
    BY <1>2, <1>5, <1>7, <2>1 DEF IInv, LinkedWhole
<1>8. \/ page' = [page EXCEPT ![t] = NoRequest]
      \/ page' = [page EXCEPT ![t].step = "saved"]
  BY DEF SavePage, RefusePage, ReleasePage, CrashPage
<1>9. /\ page' \in [Tab -> [step : {"idle", "read", "saved"}, child : PageChild \cup {None},
                            window : 0..MaxEvents]]
      /\ \A u \in Tab : /\ page'[u].step # "idle" => page'[u].child \in PageChild
                        /\ page'[u].step = "read" => page'[u] = page[u]
  BY <1>1, <1>8 DEF IInv, TypeOK, InHand, NoRequest
<1> HIDE DEF S
<1> QED
  BY <1>2, <1>3, <1>4, <1>5, <1>6, <1>7, <1>9, ReturnKeeps

LEMMA WriteSaveKeeps ==
  ASSUME IInv, NEW p \in Project, WriteSave(p)
  PROVE  IInv'
<1> DEFINE S == {p}
<1>1. S \in SUBSET Record /\ p \notin Child
  BY DEF Record
<1>2. rec' = [x \in Record |-> IF x \in S THEN Kept ELSE rec[x]]
  BY DEF WriteSave, IInv, TypeOK
<1>3. UNCHANGED <<links, now, horizon, page>> /\ saving' \subseteq saving
  BY DEF WriteSave
<1>4. \A l \in links' : (l[1] \in S => l[1] \in Project) /\ l[2] \notin S
  BY <1>1, <1>3 DEF IInv, TypeOK
<1>5. ASSUME NEW q \in Root \ Project, NEW d \in Child \ S, rec[d].by = q, Recoverable(d)
      PROVE  q \notin S /\ <<q, d>> \in links'
  BY <1>3, <1>5 DEF IInv, LinkedWhole
<1>6. /\ page' \in [Tab -> [step : {"idle", "read", "saved"}, child : PageChild \cup {None},
                            window : 0..MaxEvents]]
      /\ \A t \in Tab : page'[t].step # "idle" => page'[t].child \in PageChild
  BY <1>3 DEF IInv, TypeOK, InHand
<1> HIDE DEF S
<1> QED
  BY <1>1, <1>2, <1>3, <1>4, <1>5, <1>6, ReturnKeeps

-----------------------------------------------------------------------------
(* Opening a page or a form reads what is there, and time passes only when *)
(* none is open.                                                           *)
LEMMA OpenKeeps ==
  ASSUME IInv,
         \/ \E t \in Tab, c \in PageChild : OpenPage(t, c)
         \/ \E p \in Project : OpenSave(p)
         \/ PassTime
  PROVE  IInv'
<1>1. UNCHANGED <<rec, links, now>> /\ horizon' \in {horizon, horizon + 1} /\ horizon' <= now
  BY Rows DEF OpenPage, OpenSave, PassTime
<1>2. now \in Nat /\ horizon \in Nat
  BY Rows
<1>3. \A x \in Record : rec[x].window \in Nat /\ (Recoverable(x)' => Recoverable(x))
  BY <1>1, <1>2, Rows DEF Recoverable, InTrash
<1>4. Dated' /\ OneDelete' /\ LinksCurrent'
  BY <1>1 DEF IInv, Dated, OneDelete, LinksCurrent
<1>5. LinkedWhole'
  BY <1>1, <1>3 DEF IInv, LinkedWhole, Record
<1>6. CASE \E t \in Tab, c \in PageChild : OpenPage(t, c)
  <2>1. PICK t \in Tab : \E c \in PageChild : OpenPage(t, c)
    BY <1>6
  <2>2. PICK c \in PageChild : OpenPage(t, c)
    BY <2>1
  <2> DEFINE new == [step |-> "read", child |-> c, window |-> rec[c].window]
  <2>3. page' = [page EXCEPT ![t] = new] /\ horizon' = horizon /\ saving' = saving
    BY <2>2 DEF OpenPage
  <2>4. rec[c].window \in 0..MaxEvents
    BY Rows DEF Columns
  <2>5. /\ new \in [step : {"idle", "read", "saved"}, child : PageChild \cup {None},
                    window : 0..MaxEvents]
        /\ new.step = "read" /\ new.child = c /\ new.window = rec[c].window
    BY <2>4
  <2> HIDE DEF new
  <2>6. TypeOK'
    BY <1>1, <2>3, <2>5 DEF IInv, TypeOK
  <2>7. \A u \in Tab : page'[u] = IF u = t THEN new ELSE page[u]
    BY <2>3 DEF IInv, TypeOK
  <2>8. InHand'
    BY <1>1, <2>3, <2>5, <2>7 DEF IInv, InHand, InTrash
  <2> QED
    BY <1>4, <1>5, <2>6, <2>8 DEF IInv
<1>7. CASE \E p \in Project : OpenSave(p)
  <2>1. PICK p \in Project : OpenSave(p)
    BY <1>7
  <2>2. /\ saving' = saving \cup {p} /\ UNCHANGED <<horizon, page>> /\ ~InTrash(p)
    BY <2>1 DEF OpenSave, Active, InTrash
  <2>3. TypeOK' /\ InHand'
    BY <1>1, <2>2 DEF IInv, TypeOK, InHand, InTrash
  <2> QED
    BY <1>4, <1>5, <2>3 DEF IInv
<1>8. CASE PassTime
  <2>1. saving = {} /\ saving' = saving /\ page' = page /\ \A t \in Tab : page[t].step = "idle"
    BY <1>8 DEF PassTime
  <2>2. TypeOK' /\ InHand'
    BY <1>1, <1>2, <2>1 DEF IInv, TypeOK, InHand
  <2> QED
    BY <1>4, <1>5, <2>2 DEF IInv
<1> QED
  BY <1>6, <1>7, <1>8

(* The purge ends the window of an entry that is over; the date stays.     *)
LEMMA PurgeKeeps ==
  ASSUME IInv, NEW x \in Record, Purge(x)
  PROVE  IInv'
<1>1. PICK gone \in BOOLEAN : rec' = [rec EXCEPT ![x].window = 0, ![x].gone = gone]
  BY DEF Purge
<1>2. /\ UNCHANGED <<now, horizon, page, saving>> /\ links' = {l \in links : l[2] # x}
      /\ rec[x].window \in 1..horizon
  BY DEF Purge, Released
<1>3. /\ \A y \in Record : rec[y] \in Columns /\ rec[y].at \in Nat /\ rec[y].window \in Nat
      /\ Root \subseteq Record /\ Child \subseteq Record
      /\ now \in Nat /\ horizon \in Nat /\ horizon <= now
  BY Rows
<1>4. /\ rec'[x] \in Columns /\ rec'[x].at = rec[x].at /\ rec'[x].by = rec[x].by
      /\ rec'[x].window = 0
      /\ \A y \in Record : y # x => rec'[y] = rec[y]
      /\ rec' \in [Record -> Columns]
  <2>1. rec \in [Record -> Columns] /\ rec[x] \in Columns /\ 0 \in 0..MaxEvents
    BY <1>3 DEF IInv, TypeOK
  <2> QED
    BY <1>1, <2>1 DEF Columns
<1>5. \A y \in Record : rec'[y].at = rec[y].at /\ rec'[y].by = rec[y].by
  BY <1>4
<1>6. ~Recoverable(x)'
  BY <1>2, <1>3, <1>4 DEF Recoverable
<1>7. \A y \in Record : Recoverable(y)' => y # x /\ Recoverable(y)
  BY <1>2, <1>4, <1>6 DEF Recoverable, InTrash
<1>8. TypeOK'
  BY <1>2, <1>4 DEF IInv, TypeOK
<1>9. Dated'
  BY <1>2, <1>4 DEF IInv, Dated
<1>10. OneDelete'
  BY <1>2, <1>3, <1>5 DEF IInv, OneDelete
<1>11. LinkedWhole'
  <2> SUFFICES ASSUME NEW r \in Root \ Project, NEW c \in Child,
                      rec'[c].by = r, Recoverable(c)'
               PROVE  rec'[r].at = rec'[c].at /\ <<r, c>> \in links'
    BY DEF LinkedWhole
  <2>1. c # x /\ Recoverable(c) /\ rec[c].by = r
    BY <1>3, <1>5, <1>7
  <2>2. rec[r].at = rec[c].at /\ <<r, c>> \in links
    BY <2>1 DEF IInv, LinkedWhole
  <2> QED
    BY <1>2, <1>3, <1>5, <2>1, <2>2
<1>12. LinksCurrent'
  <2> SUFFICES ASSUME NEW l \in links', l[1] \notin Project, l[2] \notin PageChild
               PROVE  rec'[l[2]].by = l[1] /\ rec'[l[2]].at # 0 /\ rec'[l[2]].at = rec'[l[1]].at
    BY DEF LinksCurrent
  <2>1. l \in links /\ l[1] \in Record /\ l[2] \in Record
    BY <1>2, <1>3 DEF IInv, TypeOK
  <2> QED
    BY <1>5, <2>1 DEF IInv, LinksCurrent
<1>13. InHand'
  <2>1. \A y \in Record : InTrash(y)' => InTrash(y)
    BY <1>4, <1>5 DEF InTrash, Purge
  <2>2. \A y \in Record : InTrash(y) /\ rec[y].window > horizon => rec'[y] = rec[y]
    BY <1>2, <1>3, <1>4
  <2> QED
    BY <1>2, <1>3, <2>1, <2>2 DEF IInv, InHand, TypeOK
<1> QED
  BY <1>8, <1>9, <1>10, <1>11, <1>12, <1>13 DEF IInv

-----------------------------------------------------------------------------
LEMMA NextKeeps ==
  ASSUME IInv, [Next]_vars
  PROVE  IInv'
<1>1. ASSUME NEW r \in Root, TrashRoot(r)
      PROVE  IInv'
  <2> DEFINE S == Taken(r)
  <2>1. S \in SUBSET Child /\ \A c \in S : <<r, c>> \in Owns /\ Active(c)
    BY DEF Taken
  <2>2. /\ Active(r) /\ now < MaxEvents /\ now' = now + 1
        /\ links' = links \cup {<<r, c>> : c \in S}
        /\ rec' = [y \in Record |-> IF y = r THEN Trashed(now', Self)
                                    ELSE IF y \in S THEN Trashed(now', r) ELSE rec[y]]
        /\ UNCHANGED <<horizon, page, saving>>
    BY <1>1 DEF TrashRoot
  <2>3. r \in Record
    BY DEF Record
  <2> HIDE DEF S
  <2> QED
    BY <2>1, <2>2, <2>3, DeleteKeeps
<1>2. ASSUME NEW c \in Child, TrashChild(c)
      PROVE  IInv'
  <2> DEFINE S == {}
  <2>1. /\ Active(c) /\ now < MaxEvents /\ now' = now + 1
        /\ links' = links \cup {<<c, d>> : d \in S}
        /\ UNCHANGED <<horizon, page, saving>>
    BY <1>2 DEF TrashChild
  <2>2. rec' = [y \in Record |-> IF y = c THEN Trashed(now', Self)
                                 ELSE IF y \in S THEN Trashed(now', c) ELSE rec[y]]
    BY <1>2 DEF TrashChild, IInv, TypeOK
  <2>3. c \in Record /\ S \in SUBSET Child
    BY DEF Record
  <2> HIDE DEF S
  <2>4. \A d \in S : <<c, d>> \in Owns /\ Active(d)
    BY DEF S
  <2> QED
    BY <2>1, <2>2, <2>3, <2>4, DeleteKeeps
<1>3. CASE UNCHANGED vars
  BY <1>3 DEF IInv, TypeOK, Dated, OneDelete, LinkedWhole, LinksCurrent, InHand, InTrash,
              Recoverable
<1> QED
  BY <1>1, <1>2, <1>3, RestoreRootKeeps, RestoreChildKeeps, PageKeeps, WriteSaveKeeps,
     OpenKeeps, PurgeKeeps
     DEF Next

THEOREM TrashInductive == Spec => []IInv
<1>1. Init => IInv
  BY InitHolds
<1>2. IInv /\ [Next]_vars => IInv'
  BY NextKeeps
<1> QED
  BY <1>1, <1>2, PTL DEF Spec

(* One deletion is one unit in every reachable state, seen from the parent *)
(* (restore_trash_cascade), from the links and from the Trash page, for    *)
(* any number of parents, children, open pages, project forms and deletes. *)
THEOREM DeletionAlwaysWhole == Spec => []TrashInv
<1> QED
  BY InvariantSays, TrashInductive, PTL

(* What comes back and when: a parent brings back nothing that was deleted *)
(* on its own, and no record whose window is over returns.                 *)
LEMMA StepRestoresRight ==
  ASSUME IInv, [Next]_vars
  PROVE  /\ \A r \in Root : RestoreRoot(r) =>
              \A c \in Child : rec[c].by = Self => rec'[c] = rec[c]
         /\ \A x \in Record : InTrash(x) /\ rec[x].window <= horizon => rec'[x].at # 0
<1>1. ASSUME NEW r \in Root, RestoreRoot(r), NEW c \in Child, rec[c].by = Self
      PROVE  rec'[c] = rec[c]
  <2>1. rec[r].at # 0
    BY <1>1 DEF RestoreRoot, Recoverable, InTrash
  <2>2. rec[c].at # rec[r].at
    BY <1>1, <2>1 DEF IInv, OneDelete
  <2>3. c \notin ToRestore(r) /\ c # r
    BY <2>2 DEF ToRestore
  <2>4. c \in Record
    BY DEF Record
  <2> QED
    BY <1>1, <2>3, <2>4 DEF RestoreRoot
<1>2. ASSUME NEW x \in Record, InTrash(x), rec[x].window <= horizon
      PROVE  rec'[x].at # 0
  <2>1. /\ rec[x].at \in Nat /\ rec[x].at # 0 /\ horizon \in Nat /\ rec[x].window \in Nat
        /\ now \in Nat /\ ~Recoverable(x) /\ rec \in [Record -> Columns]
    BY <1>2, Rows DEF InTrash, Recoverable, IInv, TypeOK
  <2>2. ASSUME NEW r \in Root, TrashRoot(r) PROVE rec'[x].at # 0
    <3>1. /\ Trashed(now', Self).at = now' /\ Trashed(now', r).at = now' /\ now' # 0
      BY <2>1, <2>2 DEF Trashed, TrashRoot
    <3> QED
      BY <2>1, <2>2, <3>1 DEF TrashRoot
  <2>3. ASSUME NEW c \in Child, TrashChild(c) PROVE rec'[x].at # 0
    <3>1. Trashed(now', Self).at = now' /\ now' # 0
      BY <2>1, <2>3 DEF Trashed, TrashChild
    <3> QED
      BY <2>1, <2>3, <3>1 DEF TrashChild
  <2>4. ASSUME NEW r \in Root, RestoreRoot(r) PROVE rec'[x].at # 0
    <3>1. x # r /\ x \notin ToRestore(r)
      BY <2>1, <2>4 DEF RestoreRoot, ToRestore, Recoverable
    <3> QED
      BY <2>1, <2>4, <3>1 DEF RestoreRoot
  <2>5. ASSUME NEW c \in Child, RestoreChild(c) PROVE rec'[x].at # 0
    BY <2>1, <2>5 DEF RestoreChild
  <2>6. ASSUME NEW t \in Tab, SavePage(t) PROVE rec'[x].at # 0
    <3>1. /\ page[t].window > horizon /\ page[t].step = "read"
      BY <2>6 DEF SavePage, Saves
    <3>2. x # page[t].child
      BY <1>2, <2>1, <3>1 DEF IInv, InHand
    <3> QED
      BY <2>1, <2>6, <3>2 DEF SavePage
  <2>7. ASSUME NEW p \in Project, WriteSave(p) PROVE rec'[x].at # 0
    <3>1. x # p
      BY <1>2, <2>1, <2>7 DEF IInv, InHand, WriteSave
    <3> QED
      BY <2>1, <2>7, <3>1 DEF WriteSave
  <2>8. ASSUME NEW y \in Record, Purge(y) PROVE rec'[x].at # 0
    <3>1. PICK gone \in BOOLEAN : rec' = [rec EXCEPT ![y].window = 0, ![y].gone = gone]
      BY <2>8 DEF Purge
    <3> QED
      BY <2>1, <3>1 DEF Columns
  <2>9. CASE UNCHANGED rec
    BY <2>1, <2>9
  <2> QED
    BY <2>2, <2>3, <2>4, <2>5, <2>6, <2>7, <2>8, <2>9
       DEF Next, OpenPage, RefusePage, ReleasePage, CrashPage, OpenSave, PassTime
<1> QED
  BY <1>1, <1>2

(* A restore brings back what it should and nothing that is out of reach,  *)
(* whatever pages and forms are open: the exact dates that                 *)
(* restore_trash_cascade compares, and the window restore_from_trash asks. *)
THEOREM RestoresAlwaysRight == Spec => RestoresRight
<1>1. IInv /\ [Next]_vars => [\A r \in Root : RestoreRoot(r) =>
                               \A c \in Child : rec[c].by = Self => rec'[c] = rec[c]]_vars
  BY StepRestoresRight
<1>2. IInv /\ [Next]_vars => [\A x \in Record : InTrash(x) /\ rec[x].window <= horizon =>
                                rec'[x].at # 0]_vars
  BY StepRestoresRight
<1> QED
  BY <1>1, <1>2, TrashInductive, PTL DEF Spec, RestoresRight, NeverResurrected, ExpiredStay
=============================================================================
