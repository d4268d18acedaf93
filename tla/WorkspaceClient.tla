-------------------------- MODULE WorkspaceClient --------------------------
(***************************************************************************)
(* One surface of the payroll workspace in the browser                     *)
(* (static/payroll/js/app.js) and the server's answers to its calls.  A    *)
(* surface shows one page of rows at a time; the read of a page and the    *)
(* calls that change rows are answered in any order, or fail.  There are   *)
(* three kinds:                                                            *)
(*   "sheet"     the attendance and the rental timesheet.  One read at a   *)
(*               time; an answered change supersedes the read that is      *)
(*               under way and is merged into the rows;                    *)
(*   "run"       the payroll run.  One read at a time; the answer of a     *)
(*               change is a page of its own;                              *)
(*   "payments"  the salary payments of a month.  A read that is under     *)
(*               way is never repeated; a change is followed by a read.    *)
(* The rows of a page are a counter: how often they were changed.          *)
(***************************************************************************)
EXTENDS Naturals, Absence

CONSTANTS
  Sheet,       \* the pages of a surface
  Slot,        \* how many changes may be under way
  MaxRows      \* bound: how often the rows of a page change

ASSUME ClientAssumption == MaxRows \in Nat /\ Sheet # {} /\ None \notin Sheet \cup Nat

VARIABLES
  surface,  \* its kind
  server,   \* per page, the rows in the database
  page,     \* the page the reader is on
  key,      \* the page the surface believes it shows
  pending,  \* the page it waits for
  drawn,     \* the page its rows belong to
  value,    \* the rows it shows
  reads,    \* the reads under way that were not aborted
  saves     \* the changes under way

clientVars == <<surface, server, page, key, pending, drawn, value, reads, saves>>
screen == <<page, key, pending, drawn, value>>

Value == 0 .. MaxRows
Reading == [page : Sheet, value : Value \cup {None}, current : BOOLEAN]
Saving  == [page : Sheet, done : BOOLEAN, value : Value \cup {None}]

ClientTypeOK ==
  /\ surface \in {"sheet", "run", "payments"}
  /\ server \in [Sheet -> Value]
  /\ page \in Sheet
  /\ {key, pending, drawn} \subseteq Sheet \cup {None}
  /\ value \in Value \cup {None} /\ (value = None <=> drawn = None)
  /\ reads \subseteq Reading
  /\ saves \in [Slot -> Saving \cup {None}]

ClientInit ==
  /\ surface \in {"sheet", "run", "payments"}
  /\ server = [p \in Sheet |-> 0]
  /\ page \in Sheet
  /\ key = None /\ pending = None /\ drawn = None /\ value = None
  /\ reads = {} /\ saves = [s \in Slot |-> None]

-----------------------------------------------------------------------------
(* Reads *)

(* A new read aborts the one under way and takes a ticket: it is current   *)
(* until an answered change supersedes it.                                 *)
Send ==
  /\ reads' = {[page |-> page, value |-> None, current |-> TRUE]}
  /\ pending' = page

(* Mutant of Cancel: what is awaited is not forgotten. *)
CancelAwaiting == reads' = {} /\ UNCHANGED pending
Cancel == reads' = {} /\ pending' = None

(* The page is drawn: what is neither shown nor awaited is read.  Of the   *)
(* payments, nothing is read while a read is under way.                    *)
Draw ==
  /\ key # page /\ pending # page
  /\ surface = "payments" => pending = None
  /\ Send
  /\ UNCHANGED <<surface, server, page, key, drawn, value, saves>>

(* A forced read: the draft is synchronised, a template or the proration   *)
(* policy is changed.                                                      *)
Forced ==
  IF surface = "payments" /\ pending # None THEN UNCHANGED <<reads, pending>> ELSE Send
Refresh ==
  /\ Forced
  /\ UNCHANGED <<surface, server, page, key, drawn, value, saves>>

(* The reader turns the page, searches or filters.                         *)
Turn(p) ==
  /\ surface # "payments" /\ p # page
  /\ page' = p
  /\ Cancel
  /\ UNCHANGED <<surface, server, key, drawn, value, saves>>

ReadServed(r) ==
  /\ r.value = None
  /\ reads' = (reads \ {r}) \cup {[r EXCEPT !.value = server[r.page]]}
  /\ UNCHANGED <<surface, server, screen, saves>>

Shows(p, v) == drawn' = p /\ value' = v

(* Mutant of Stale: the ticket of a read is not compared.                  *)
StaleNever(r) == FALSE
(* Only sheets compare: the run takes no ticket, and nothing supersedes    *)
(* the payments.                                                           *)
Stale(r) == surface = "sheet" /\ ~r.current

(* A stale answer is dropped, and its page stays awaited.                  *)
ReadAnswered(r) ==
  /\ r.value # None
  /\ reads' = reads \ {r}
  /\ IF Stale(r) THEN UNCHANGED <<key, pending, drawn, value>>
     ELSE Shows(r.page, r.value) /\ key' = r.page /\ pending' = None
  /\ UNCHANGED <<surface, server, page, saves>>

ReadFailed(r) ==
  /\ reads' = reads \ {r}
  /\ pending' = None
  /\ UNCHANGED <<surface, server, page, key, drawn, value, saves>>

-----------------------------------------------------------------------------
(* Changes *)

(* A cell, a bulk edit, a workflow step.  Of the run, the read under way   *)
(* is aborted first.                                                       *)
Save(s) ==
  /\ saves[s] = None
  /\ saves' = [saves EXCEPT ![s] = [page |-> page, done |-> FALSE, value |-> None]]
  /\ IF surface = "run" THEN Cancel ELSE UNCHANGED <<reads, pending>>
  /\ UNCHANGED <<surface, server, page, key, drawn, value>>

(* The change is committed, and its answer is read from the database after *)
(* the transaction.                                                        *)
SaveCommitted(s) ==
  /\ saves[s] # None /\ ~saves[s].done
  /\ server[saves[s].page] < MaxRows
  /\ server' = [server EXCEPT ![saves[s].page] = @ + 1]
  /\ saves' = [saves EXCEPT ![s].done = TRUE]
  /\ UNCHANGED <<surface, screen, reads>>
SaveServed(s) ==
  /\ saves[s] # None /\ saves[s].done /\ saves[s].value = None
  /\ saves' = [saves EXCEPT ![s].value = server[saves[s].page]]
  /\ UNCHANGED <<surface, server, screen, reads>>

Superseded == reads' = {[r EXCEPT !.current = FALSE] : r \in reads}

SheetSaved(w) ==
  /\ Superseded
  /\ Shows(drawn, IF drawn = w.page THEN w.value ELSE value)
  /\ UNCHANGED <<key, pending>>
(* After an import the sheet is read anew.                                 *)
SheetImported == Send /\ key' = None /\ UNCHANGED <<drawn, value>>
(* The rows are those of the page the change was sent from, and are filed  *)
(* under the page the reader is on.                                        *)
RunSaved(w) ==
  /\ Superseded
  /\ Shows(w.page, w.value)
  /\ key' = page
  /\ UNCHANGED pending
PaymentSaved == Forced /\ UNCHANGED <<key, drawn, value>>

SaveAnswered(s) ==
  /\ saves[s] # None /\ saves[s].value # None
  /\ saves' = [saves EXCEPT ![s] = None]
  /\ \/ surface = "sheet" /\ (SheetSaved(saves[s]) \/ SheetImported)
     \/ surface = "run" /\ RunSaved(saves[s])
     \/ surface = "payments" /\ PaymentSaved
  /\ UNCHANGED <<surface, server, page>>

(* The change is refused, or its answer is lost.  A cell of the attendance *)
(* is read back.                                                           *)
SaveFailed(s) ==
  /\ saves[s] # None
  /\ saves' = [saves EXCEPT ![s] = None]
  /\ \/ surface = "sheet" /\ Send
     \/ UNCHANGED <<reads, pending>>
  /\ UNCHANGED <<surface, server, page, key, drawn, value>>

(* An adjustment is saved: the run is to be read again.                    *)
Evict ==
  /\ surface = "run"
  /\ Cancel /\ key' = None /\ drawn' = None /\ value' = None
  /\ UNCHANGED <<surface, server, page, saves>>

(* The payments of the month are shown: its run is forgotten, and still    *)
(* believed to be shown.                                                   *)
Forget ==
  /\ surface = "run"
  /\ drawn' = None /\ value' = None
  /\ UNCHANGED <<surface, server, page, key, pending, reads, saves>>

(* Somebody else changes the rows of a page.                               *)
Elsewhere(p) ==
  /\ server[p] < MaxRows
  /\ server' = [server EXCEPT ![p] = @ + 1]
  /\ UNCHANGED <<surface, screen, reads, saves>>

-----------------------------------------------------------------------------
ClientNext ==
  \/ Draw \/ Refresh \/ Evict \/ Forget
  \/ \E p \in Sheet : Turn(p) \/ Elsewhere(p)
  \/ \E r \in reads : ReadServed(r) \/ ReadAnswered(r) \/ ReadFailed(r)
  \/ \E s \in Slot :
       Save(s) \/ SaveCommitted(s) \/ SaveServed(s) \/ SaveAnswered(s) \/ SaveFailed(s)

ClientSpec == ClientInit /\ [][ClientNext]_clientVars

-----------------------------------------------------------------------------
(* A change whose answer arrives in this step.                             *)
Answered == \E s \in Slot : saves[s] # None /\ saves[s].value # None /\ saves'[s] = None

(* A slow read never overwrites a change that was answered before it, and  *)
(* never brings back the rows of a page the reader has left: of a sheet    *)
(* and of the payments, what is shown goes back only in the answer of a    *)
(* change, and rows of another page appear only for the page the reader is *)
(* on.                                                                     *)
SlowReadsLose ==
  [][surface # "run" =>
       /\ drawn' = drawn /\ drawn # None => value' >= value \/ Answered
       /\ drawn' # drawn => drawn' = page]_clientVars

(* What is awaited is on its way: of the run and of the payments, a page   *)
(* that is awaited is being read, so that a page which is not on its way   *)
(* is read when it is drawn next.                                          *)
AwaitedIsComing ==
  surface # "sheet" /\ pending # None => \E r \in reads : r.page = pending

(* Not so in general.  A sheet whose read was superseded waits for ever;   *)
SheetsArrive == pending # None => \E r \in reads : r.page = pending
(* a slow read of the run does overwrite an answered change;               *)
RunReadsLose ==
  [][surface = "run" /\ drawn' = drawn /\ drawn # None => value' >= value \/ Answered]_clientVars
(* and the run shows the rows of one page as those of another, or none at  *)
(* all, as those of a draft.                                               *)
RowsAsKeyed == key # None => drawn = key
=============================================================================
