-------------------------- MODULE DocumentLibrary --------------------------
(***************************************************************************)
(* Final business documents (documents/services/documents.py, the creating *)
(* handlers of documents/api.py) and the number sequences they draw from   *)
(* (core/services/numbering.py).                                           *)
(*                                                                         *)
(* A document is an immutable snapshot of one final source record, at most *)
(* one per source.  Nothing is locked until its number is taken: the       *)
(* candidates of a batch, the source and an existing document are read     *)
(* before, so two calls may be about to create the same document.  The     *)
(* sequence row is then held until the transaction ends, and the unique    *)
(* constraints decide at the insertion; whatever fails takes the whole     *)
(* batch and its numbers back.  The content of a snapshot, branding and    *)
(* integrity hashes are left out.                                          *)
(***************************************************************************)
EXTENDS Naturals, Sequences, FiniteSets, Absence

CONSTANTS Origin,        \* what a document is made of: type, model and id
          SeriesOf(_),   \* the number sequence of the type of a document
          Reference(_),  \* supplier and number of an invoice, else None
          Reversible,    \* origins that can be reversed: payments
          Caller,        \* concurrent requests
          Orders,        \* what a request may select, in the client's order
          MaxReports     \* bound on the reports of generation batches

ASSUME LibraryAssumption ==
  None \notin Nat \cup Caller /\ \A o \in Origin : SeriesOf(o) # "batch"

Series == {SeriesOf(o) : o \in Origin} \cup {"batch"}

VARIABLES origin,    \* [Origin -> progress of the source record]
          document,  \* [Origin -> number of its final document, or None]
          upcoming,  \* [Series -> next_value of the sequence]
          holder,    \* [Series -> the call that holds the row, or None]
          creating   \* [Caller -> its transaction, or None]

libraryVars == <<origin, document, upcoming, holder, creating>>

LibraryTypeOK ==
  /\ origin \in [Origin -> {"open", "final", "reversed"}]
  /\ document \in [Origin -> Nat \cup {None}]
  /\ upcoming \in [Series -> Nat \ {0}]
  /\ holder \in [Series -> Caller \cup {None}]

LibraryInit ==
  /\ origin = [o \in Origin |-> "open"] /\ document = [o \in Origin |-> None]
  /\ upcoming = [x \in Series |-> 1] /\ holder = [x \in Series |-> None]
  /\ creating = [c \in Caller |-> None]

(* Locking a timesheet, approving a settlement, paying (other modules).     *)
FinishOrigin(o) ==
  /\ origin[o] = "open" /\ origin' = [origin EXCEPT ![o] = "final"]
  /\ UNCHANGED <<document, upcoming, holder, creating>>

ReverseOrigin(o) ==
  /\ o \in Reversible /\ origin[o] = "final" /\ origin' = [origin EXCEPT ![o] = "reversed"]
  /\ UNCHANGED <<document, upcoming, holder, creating>>

(* The reviewed candidates: final sources; those that have a document are   *)
(* counted as existing and left out.                                        *)
BeginCreation(c, order, report) ==
  /\ creating[c] = None
  /\ \A i \in DOMAIN order : origin[order[i]] = "final"
  /\ report => upcoming["batch"] <= MaxReports
  /\ LET Missing(o) == document[o] = None IN
       creating' = [creating EXCEPT ![c] =
         [todo |-> SelectSeq(order, Missing), loaded |-> FALSE, made |-> {}, report |-> report]]
  /\ UNCHANGED <<origin, document, upcoming, holder>>

Current(c, o) == creating[c] # None /\ creating[c].todo # <<>> /\ o = Head(creating[c].todo)
Popped(call) == [call EXCEPT !.todo = Tail(@), !.loaded = FALSE]

(* _load_source refuses a source that is not final; a document another call *)
(* has made meanwhile is returned.                                          *)
LoadSource(c, o) ==
  /\ Current(c, o) /\ ~creating[c].loaded /\ origin[o] = "final"
  /\ creating' = [creating EXCEPT ![c] =
       IF document[o] # None THEN Popped(@) ELSE [@ EXCEPT !.loaded = TRUE]]
  /\ UNCHANGED <<origin, document, upcoming, holder>>

(* The two unique constraints of BusinessDocument beside its number's.      *)
Clashes(o, p) == o = p \/ (Reference(o) # None /\ Reference(o) = Reference(p))

(* Mutant of Held: the sequence row is read without a lock.                 *)
HeldByAll(c, x) == TRUE
(* allocate_number: select_for_update on the row of the sequence.           *)
Held(c, x) == holder[x] \in {None, c}

Drawn(c, x) == Cardinality({d \in creating[c].made : SeriesOf(d[1]) = x})

Filled(c, o) ==
  [creating[c] EXCEPT !.made = @ \cup {<<o, upcoming[SeriesOf(o)] + Drawn(c, SeriesOf(o))>>}]

InsertDocument(c, o) ==
  /\ Current(c, o) /\ creating[c].loaded /\ Held(c, SeriesOf(o))
  /\ \A p \in Origin : document[p] # None => ~Clashes(o, p)
  /\ \A d \in creating[c].made : ~Clashes(o, d[1])
  /\ holder' = [holder EXCEPT ![SeriesOf(o)] = c]
  /\ creating' = [creating EXCEPT ![c] = Popped(Filled(c, o))]
  /\ UNCHANGED <<origin, document, upcoming>>

Released(c) == [x \in Series |-> IF holder[x] = c THEN None ELSE holder[x]]

(* A generation batch takes a number for its report, then all is committed. *)
CommitCreation(c) ==
  LET made == creating[c].made IN
  /\ creating[c] # None /\ creating[c].todo = <<>>
  /\ creating[c].report => Held(c, "batch")
  /\ document' = [o \in Origin |-> IF \E d \in made : d[1] = o
                    THEN (CHOOSE d \in made : d[1] = o)[2] ELSE document[o]]
  /\ upcoming' = [x \in Series |-> upcoming[x] +
       IF x = "batch" THEN (IF creating[c].report THEN 1 ELSE 0) ELSE Drawn(c, x)]
  /\ holder' = Released(c)
  /\ creating' = [creating EXCEPT ![c] = None]
  /\ UNCHANGED origin

(* A source that is no longer final, a broken constraint, the victim of a   *)
(* deadlock over two sequences, a crash: nothing of the call remains.       *)
FailCreation(c) ==
  /\ creating[c] # None
  /\ creating' = [creating EXCEPT ![c] = None]
  /\ holder' = Released(c)
  /\ UNCHANGED <<origin, document, upcoming>>

LibraryNext ==
  \/ \E o \in Origin : FinishOrigin(o) \/ ReverseOrigin(o)
  \/ \E c \in Caller :
       \/ \E order \in Orders, report \in BOOLEAN : BeginCreation(c, order, report)
       \/ \E o \in Origin : LoadSource(c, o) \/ InsertDocument(c, o)
       \/ CommitCreation(c) \/ FailCreation(c)

LibrarySpec == LibraryInit /\ [][LibraryNext]_libraryVars

----------------------------------------------------------------------------
(* Properties *)

(* The documents of a series are numbered 1, 2, ... without a gap or a      *)
(* repetition, whatever batches overlap, fail half way or meet a document   *)
(* another call has made.                                                   *)
NumbersWhole ==
  \A x \in Series \ {"batch"} :
    LET of == {o \in Origin : document[o] # None /\ SeriesOf(o) = x} IN
    /\ {document[o] : o \in of} = 1..(upcoming[x] - 1)
    /\ Cardinality(of) = upcoming[x] - 1
=============================================================================
