---------------------------- MODULE MCBackOffice ----------------------------
(* The parts of the back office, one of which moves in a behaviour: since  *)
(* no step of one can touch another, that is enough.  A payroll month      *)
(* moves together with the employee file it extends.                       *)
EXTENDS BackOffice

CONSTANTS m1, m2, m3, owner, custom

VARIABLE part  \* the one that moves; of the employee file, the postings or
               \* the salaries

(* StockImport: an opening workbook that names an identity twice, and one  *)
(* that updates and creates; two identities differ only in their phone.    *)
Items    == {<<1, 1>>, <<1, 2>>, <<2, 1>>}
Stuff(k) == k[1]
Books(j) ==
  IF j = 1 THEN [opening |-> TRUE, updates |-> FALSE, rows |-> <<<<1, 1>>, <<2, 1>>, <<1, 1>>>>]
  ELSE [opening |-> FALSE, updates |-> TRUE, rows |-> <<<<1, 2>>, <<2, 1>>>>]

(* DocumentLibrary: two invoices with the same reference, two advices.     *)
Origins    == {"i1", "i2", "a", "b"}
Numbers(o) == IF o \in {"i1", "i2"} THEN "invoice" ELSE "advice"
Printed(o) == IF o \in {"i1", "i2"} THEN "reference" ELSE None
Selections == {<<"i1">>, <<"i1", "a">>, <<"a", "i2">>, <<"b", "a", "i1">>}

(* DocumentDelivery: a pack that is mailed, and a batch of two by hand.    *)
By(p)    == IF p = "e" THEN "email" ELSE "hand"
Packs    == {<<"e">>, <<"h">>, <<"h", "k">>}

(* EmployeeFile: one employee, two branches and a department; the sort     *)
(* that the components mostly have.                                        *)
Preferred(c) == IF c = "s" THEN "basic" ELSE "earning"
Plain        == [active |-> TRUE, archived |-> FALSE, trash |-> FALSE]

(* PayrollMonth: the file of an employee who is posted and paid.           *)
MonthFile ==
  [employee  |-> [e \in Employee |-> [joined |-> 1, ends |-> None, status |-> "active",
                                     archived |-> FALSE, trash |-> "no"]],
   posting   |-> [e \in Employee |-> {[from |-> 1, to |-> None, at |-> <<"b", "d">>]}],
   structure |-> [e \in Employee |->
                   {[from |-> 1, to |-> None, policy |-> "q", lines |-> {"s"}]}],
   component |-> [c \in Component |->
                   IF c = "s" THEN [sort |-> "basic", state |-> "active"] ELSE None],
   policy    |-> [q \in Policy |-> [base |-> "s", state |-> "active"]]]

(* Bounds of the search.  m1 is the first owner.  The mailed pack and the  *)
(* batch by hand are not issued together, and the second of the batch      *)
(* keeps its first link.  Two changes are committed to the pages of a      *)
(* surface.  While an employee is posted, one office at a time is not in   *)
(* its first state, and then, or when the employee is archived or deleted, *)
(* the employment is unbounded and has begun on the first day; while they  *)
(* are paid, the file is plain, with a second salary all components are    *)
(* active earnings, and with a policy the employment is unbounded as well. *)
(* Around a payroll month, two things at a time are not as they were at    *)
(* first.                                                                  *)
SmallDelivery ==
  /\ Issued("e") => ~Issued("h")
  /\ Issued("k") => /\ pack["h"].generation = 1 /\ pack["k"].generation = 1
                    /\ pack["k"].revoked = {} /\ ~pack["k"].expired
SmallClient == server[1] + server[2] <= 2
SmallPeople ==
  LET odd == {o \in Office : office[o] \notin {None, Plain} \/ clearing[o] # None}
  IN /\ Cardinality(odd) <= 1 /\ (office["x"] # None => office["b"] # None)
     /\ component = [c \in Component |-> None]
     /\ \A e \in Employee : employee[e] # None =>
          LET p == employee[e]
              whole == p.joined = 1 /\ p.ends = None /\ today = MaxDay
          IN /\ odd # {} \/ p.archived \/ p.trash # "no" => whole
             /\ p.joined > 1 => p.status \in {"active", "terminated"}
SmallPay ==
  LET odd   == {c \in Component : component[c] # None
                  /\ component[c] # [sort |-> Preferred(c), state |-> "active"]}
      ruled == \E q \in Policy : policy[q] # None
  IN /\ office["x"] = None /\ \A o \in Office : office[o] \in {None, Plain} /\ clearing[o] = None
     /\ \A e \in Employee : employee[e] # None =>
          LET p == employee[e]
          IN /\ p.status = "active" /\ ~p.archived /\ p.trash = "no" /\ today = MaxDay
             /\ Cardinality(posting[e]) = 1 /\ First(e).from = p.joined
             /\ odd # {} \/ ruled => p.joined = 1 /\ p.ends = None
             /\ odd # {} => Cardinality(structure[e]) < 2
SmallMonth ==
  /\ component = MonthFile.component /\ policy = MonthFile.policy /\ today = 2
  /\ office["x"] = Plain
  /\ \A o \in Office : clearing[o] = None /\ office[o].active /\ ~office[o].trash
  /\ \A e \in Employee :
       LET p == employee[e]
           odd == <<p.joined # 1, p.ends # None, p.status # "active", p.archived,
                    p.trash # "no", Cardinality(posting[e]) > 1, posting[e] # MonthFile.posting[e],
                    Cardinality(structure[e]) > 1, \E s \in structure[e] : s.policy = None,
                    \E o \in Office : office[o] # Plain, extra[e] # None, granted[e] # {},
                    proration = "no_proration">>
       IN Cardinality({i \in DOMAIN odd : odd[i]}) <= 2
SmallFile == (part = "people" => SmallPeople) /\ (part = "pay" => SmallPay)

\* An old system with one plain account, when another part moves.
OldSystem == tenant = None /\ login = [u \in Login |->
  [super |-> FALSE, staff |-> FALSE, admin |-> TRUE, active |-> TRUE]]

PostedAndPaid ==
  /\ employee = MonthFile.employee /\ posting = MonthFile.posting
  /\ structure = MonthFile.structure /\ component = MonthFile.component
  /\ policy = MonthFile.policy
  /\ office = [o \in Office |-> Plain] /\ clearing = [o \in Office |-> None]

PartsInit ==
  /\ part \in {"access", "import", "library", "delivery", "client", "people", "pay", "month",
                "upgrade"}
  /\ AccessInit /\ There(m1)
  /\ ImportInit /\ LibraryInit /\ DeliveryInit
  /\ ClientInit /\ page = 1 /\ (part = "client" \/ surface = "sheet")
  /\ MonthInit /\ (IF part = "month" THEN PostedAndPaid ELSE FileInit) /\ today = 2
  /\ UpgradeInit /\ (part = "upgrade" \/ OldSystem)

\* Only the variables of the moving part change.
Rest(moving) ==
  /\ "access" \notin moving => UNCHANGED accessVars
  /\ "import" \notin moving => UNCHANGED importVars
  /\ "library" \notin moving => UNCHANGED libraryVars
  /\ "delivery" \notin moving => UNCHANGED deliveryVars
  /\ "client" \notin moving => UNCHANGED clientVars
  /\ "people" \notin moving => UNCHANGED fileVars
  /\ "month" \notin moving => UNCHANGED monthVars
  /\ "upgrade" \notin moving => UNCHANGED upgradeVars

PartsNext ==
  /\ UNCHANGED part
  /\ \/ part = "access" /\ AccessNext /\ Rest({"access"})
     \/ part = "import" /\ ImportNext /\ Rest({"import"})
     \/ part = "library" /\ LibraryNext /\ Rest({"library"})
     \/ part = "delivery" /\ DeliveryNext /\ SmallDelivery' /\ Rest({"delivery"})
     \/ part = "client" /\ ClientNext /\ SmallClient' /\ Rest({"client"})
     \/ part \in {"people", "pay"} /\ EmployeeNext /\ SmallFile' /\ Rest({"people", "pay"})
     \/ part = "month" /\ MonthNext /\ SmallMonth' /\ Rest({"month", "people"})
     \/ part = "upgrade" /\ UpgradeNext /\ Rest({"upgrade"})

PartsSpec ==
  PartsInit
  /\ [][PartsNext]_<<part, accessVars, importVars, libraryVars, deliveryVars,
                         clientVars, fileVars, monthVars, upgradeVars>>
=============================================================================
