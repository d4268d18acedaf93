--------------------------- MODULE RentalProofs ---------------------------
(***************************************************************************)
(* The rental workspace: a month of supplier settlements (SupplierDesk),   *)
(* whatever the suppliers, adjustments and amounts, and the assignments    *)
(* and timesheets that the settlements are calculated from (RentalMonth),  *)
(* whatever the workers, projects, days and months.                        *)
(***************************************************************************)
EXTENDS SupplierPayout, RentalMonth, SumTheorems

(***************************************************************************)
(* A month of supplier settlements: however calculations, approvals,       *)
(* payments, reversals and retries interleave, nobody is overpaid, what is *)
(* approved is current and a closed settlement stays closed until a        *)
(* payment is reversed.                                                    *)
(***************************************************************************)
(* What StatusAgrees says of one settlement. *)
Agrees(s) ==
  LET moving == Total(s, payment, "PROCESSING") IN
  /\ Status(s) \in {"PAID", "CLOSED"} <=> Paid(s) = Payable(s)
  /\ Status(s) = "PARTIALLY_PAID"     <=> Paid(s) \in 1..(Payable(s) - 1)
  /\ Status(s) = "PAYMENT_PROCESSING" <=> Paid(s) = 0 /\ moving > 0
  /\ Status(s) = "APPROVED"           <=> Paid(s) = 0 /\ moving = 0

PaymentsOf(s) == {n \in DOMAIN payment : payment[n].to = s}

(* A settlement of nothing is approved as paid; its status says something   *)
(* of its payments once there are some (to an invoice of VAT alone).        *)
StatusTold ==
  \A s \in Supplier :
    Status(s) \in PayableStatuses /\ (Net(s) > 0 \/ PaymentsOf(s) # {}) => Agrees(s)

(* A statement holds approved adjustments only, and those that its source   *)
(* names are among them: they are read before.                              *)
LinesApproved ==
  \A s \in Supplier :
    settlement[s].source \subseteq settlement[s].lines /\ settlement[s].lines \subseteq ApprovedOf(s)

(* A calculation is under way in an open month, and what it has read is     *)
(* still approved.                                                          *)
CalculatesOpen ==
  calculating # None =>
    \A s \in Supplier : /\ calculating[s] \subseteq ApprovedOf(s)
                        /\ Status(s) \in {"NONE", "CALCULATED"}

(* Payments are of invoices, which cover the settlement.                    *)
PaymentsInvoiced ==
  /\ \A s \in Supplier : invoice[s] # None => invoice[s] >= Net(s)
  /\ \A n \in DOMAIN payment : invoice[payment[n].to] \notin {None, 0}

(* The inductive invariant: SupplierInv and NeverOverpaid need each other,  *)
(* and both the order in which a statement comes to be.                     *)
IInv ==
  /\ TypeOK
  /\ MonthTogether
  /\ \A a \in approving : adj[a].status = "REVIEW"
  /\ LinesApproved
  /\ CalculatesOpen
  /\ PaymentsInvoiced
  /\ StatusTold
  /\ \A s \in Supplier : Available(s) >= 0

Payment == [to : Supplier, amount : Amounts, status : PaymentStatus]

(* The payments that an allocation total is over, and their amounts.        *)
Counted(s, payments, status) ==
  {n \in DOMAIN payments : payments[n].to = s /\ payments[n].status = status}

AmountsOf(payments) == [n \in DOMAIN payments |-> payments[n].amount]

----------------------------------------------------------------------------
(* Totals *)

LEMMA PaymentFields ==
  ASSUME NEW payments \in Seq(Payment)
  PROVE  /\ DOMAIN payments = 1..Len(payments) /\ Len(payments) \in Nat
         /\ \A n \in DOMAIN payments : /\ payments[n] \in Payment
                                       /\ AmountsOf(payments)[n] = payments[n].amount
                                       /\ payments[n].amount \in Nat \ {0}
                                       /\ AmountsOf(payments)[n] \in Nat
<1> SUFFICES ASSUME NEW n \in DOMAIN payments
             PROVE  /\ payments[n] \in Payment
                    /\ AmountsOf(payments)[n] = payments[n].amount
                    /\ payments[n].amount \in Nat \ {0}
  OBVIOUS
<1>1. payments[n] \in Payment
  OBVIOUS
<1> QED
  BY <1>1, SettlementAssumption DEF Payment, AmountsOf

LEMMA TotalIs ==
  ASSUME NEW s, NEW payments \in Seq(Payment), NEW status
  PROVE  /\ Total(s, payments, status) = SumFunctionOnSet(AmountsOf(payments), Counted(s, payments, status))
         /\ IsFiniteSet(Counted(s, payments, status))
         /\ Counted(s, payments, status) \subseteq DOMAIN payments
         /\ Total(s, payments, status) \in Nat
<1> DEFINE counted == Counted(s, payments, status)
<1>1. Total(s, payments, status) = SumFunctionOnSet(AmountsOf(payments), counted)
  BY DEF Total, AmountsOf, Counted
<1>2. counted \subseteq DOMAIN payments
  BY DEF Counted
<1>3. IsFiniteSet(counted)
  <2>1. Len(payments) \in Int /\ DOMAIN payments = 1..Len(payments)
    OBVIOUS
  <2>2. IsFiniteSet(1..Len(payments))
    BY <2>1, FS_Interval
  <2> QED
    BY <2>1, <2>2, <1>2, FS_Subset
<1>4. Total(s, payments, status) \in Nat
  <2> HIDE DEF counted
  <2>1. \A n \in counted : AmountsOf(payments)[n] \in Int /\ AmountsOf(payments)[n] >= 0
    <3> TAKE n \in counted
    <3>1. AmountsOf(payments)[n] \in Nat
      BY <1>2, PaymentFields
    <3> QED
      BY <3>1
  <2>2. /\ SumFunctionOnSet(AmountsOf(payments), counted) \in Int
        /\ SumFunctionOnSet(AmountsOf(payments), counted) >= 0
    BY <2>1, <1>3, SumType
  <2> QED
    BY <2>2, <1>1
<1> QED
  BY <1>1, <1>2, <1>3, <1>4

(* Payments that are counted alike have one total.                          *)
LEMMA TotalSame ==
  ASSUME NEW s, NEW old \in Seq(Payment), NEW new \in Seq(Payment), NEW status,
         Counted(s, new, status) = Counted(s, old, status),
         \A n \in Counted(s, old, status) : new[n].amount = old[n].amount
  PROVE  Total(s, new, status) = Total(s, old, status)
<1>1. /\ Total(s, old, status) = SumFunctionOnSet(AmountsOf(old), Counted(s, old, status))
      /\ Total(s, new, status) = SumFunctionOnSet(AmountsOf(new), Counted(s, new, status))
      /\ IsFiniteSet(Counted(s, old, status))
      /\ Counted(s, old, status) \subseteq DOMAIN old /\ Counted(s, new, status) \subseteq DOMAIN new
  BY TotalIs
<1>2. \A n \in Counted(s, old, status) :
        AmountsOf(new)[n] = AmountsOf(old)[n] /\ AmountsOf(new)[n] \in Int
  BY <1>1, PaymentFields
<1> DEFINE counted == Counted(s, old, status)
<1> HIDE DEF counted
<1>3. SumFunctionOnSet(AmountsOf(new), counted) = SumFunctionOnSet(AmountsOf(old), counted)
  BY <1>1, <1>2, SumSame DEF counted
<1> QED
  BY <1>1, <1>3 DEF counted

(* One payment more is counted.                                             *)
LEMMA TotalMore ==
  ASSUME NEW s, NEW old \in Seq(Payment), NEW new \in Seq(Payment), NEW status,
         NEW n \in DOMAIN new, n \notin Counted(s, old, status),
         Counted(s, new, status) = Counted(s, old, status) \cup {n},
         \A m \in Counted(s, old, status) : new[m].amount = old[m].amount
  PROVE  Total(s, new, status) = Total(s, old, status) + new[n].amount
<1> DEFINE before == Counted(s, old, status)
           after  == Counted(s, new, status)
           fun    == AmountsOf(new)
<1>1. /\ Total(s, old, status) = SumFunctionOnSet(AmountsOf(old), before)
      /\ Total(s, new, status) = SumFunctionOnSet(fun, after)
      /\ IsFiniteSet(before) /\ IsFiniteSet(after)
      /\ before \subseteq DOMAIN old /\ after \subseteq DOMAIN new
      /\ Total(s, old, status) \in Nat
  BY TotalIs
<1>2. n \in after /\ after \ {n} = before
  OBVIOUS
<1>3. \A m \in before : new[m].amount = old[m].amount
  OBVIOUS
<1> HIDE DEF before, after
<1>4. /\ \A m \in after : fun[m] = new[m].amount /\ fun[m] \in Int
      /\ \A m \in before : fun[m] = AmountsOf(old)[m]
  BY <1>1, <1>2, <1>3, PaymentFields
<1> HIDE DEF fun
<1>5. SumFunctionOnSet(fun, after) = fun[n] + SumFunctionOnSet(fun, after \ {n})
  BY <1>1, <1>2, <1>4, SumStep
<1>6. SumFunctionOnSet(fun, before) = SumFunctionOnSet(AmountsOf(old), before)
  <2>1. \A m \in before : fun[m] = AmountsOf(old)[m] /\ fun[m] \in Int
    BY <1>2, <1>4
  <2> QED
    BY <2>1, <1>1, SumSame
<1>7. fun[n] = new[n].amount /\ fun[n] \in Int
  BY <1>2, <1>4
<1>8. Total(s, new, status) = fun[n] + Total(s, old, status)
  BY <1>1, <1>2, <1>5, <1>6
<1> DEFINE x == Total(s, old, status)
           y == Total(s, new, status)
           z == fun[n]
<1>9. y = z + x /\ x \in Int /\ z \in Int
  BY <1>1, <1>7, <1>8
<1> HIDE DEF x, y, z
<1>10. y = x + z
  BY <1>9
<1> QED
  BY <1>7, <1>10 DEF x, y, z
(* A payment that is recorded.                                              *)
LEMMA AppendIs ==
  ASSUME NEW old \in Seq(Payment), NEW r \in Payment
  PROVE  /\ Append(old, r) \in Seq(Payment)
         /\ DOMAIN Append(old, r) = DOMAIN old \cup {Len(old) + 1}
         /\ Len(old) + 1 \notin DOMAIN old /\ Append(old, r)[Len(old) + 1] = r
         /\ \A m \in DOMAIN old : Append(old, r)[m] = old[m]
<1>1. DOMAIN old = 1..Len(old) /\ Len(old) \in Nat
  BY PaymentFields
<1>2. /\ Append(old, r) \in Seq(Payment) /\ DOMAIN Append(old, r) = 1..(Len(old) + 1)
      /\ Append(old, r)[Len(old) + 1] = r
      /\ \A m \in 1..Len(old) : Append(old, r)[m] = old[m]
  BY <1>1
<1>3. /\ 1..(Len(old) + 1) = 1..Len(old) \cup {Len(old) + 1}
      /\ Len(old) + 1 \notin 1..Len(old)
  BY <1>1
<1> QED
  BY <1>1, <1>2, <1>3

LEMMA TotalsAppended ==
  ASSUME NEW old \in Seq(Payment), NEW new \in Seq(Payment), NEW n \in DOMAIN new,
         DOMAIN new = DOMAIN old \cup {n}, n \notin DOMAIN old,
         \A m \in DOMAIN old : new[m] = old[m],
         NEW s, NEW status
  PROVE  Total(s, new, status)
           = Total(s, old, status) + IF new[n].to = s /\ new[n].status = status
                                     THEN new[n].amount ELSE 0
<1>1. \A m \in Counted(s, old, status) : new[m].amount = old[m].amount
  BY DEF Counted
<1>2. CASE ~(new[n].to = s /\ new[n].status = status)
  <2>1. Counted(s, new, status) = Counted(s, old, status)
    BY <1>2 DEF Counted
  <2>2. Total(s, new, status) = Total(s, old, status)
    BY <2>1, <1>1, TotalSame
  <2>3. Total(s, old, status) + 0 = Total(s, old, status)
    BY TotalIs
  <2> QED
    BY <2>2, <2>3, <1>2
<1>3. CASE new[n].to = s /\ new[n].status = status
  <2>1. /\ n \notin Counted(s, old, status)
        /\ Counted(s, new, status) = Counted(s, old, status) \cup {n}
    BY <1>3 DEF Counted
  <2> QED
    BY <2>1, <1>1, <1>3, TotalMore
<1> QED
  BY <1>2, <1>3

(* A payment that gets another status.                                      *)
LEMMA ChangeIs ==
  ASSUME NEW old \in Seq(Payment), NEW n \in DOMAIN old, NEW to \in PaymentStatus
  PROVE  /\ [old EXCEPT ![n].status = to] \in Seq(Payment)
         /\ DOMAIN [old EXCEPT ![n].status = to] = DOMAIN old
         /\ [old EXCEPT ![n].status = to][n] = [old[n] EXCEPT !.status = to]
         /\ [old EXCEPT ![n].status = to][n].to = old[n].to
         /\ [old EXCEPT ![n].status = to][n].amount = old[n].amount
         /\ [old EXCEPT ![n].status = to][n].status = to
         /\ \A m \in DOMAIN old \ {n} : [old EXCEPT ![n].status = to][m] = old[m]
<1> DEFINE new == [old EXCEPT ![n].status = to]
<1>1. old[n] \in Payment
  BY PaymentFields
<1>2. /\ DOMAIN new = DOMAIN old /\ new[n] = [old[n] EXCEPT !.status = to]
      /\ \A m \in DOMAIN old \ {n} : new[m] = old[m]
  OBVIOUS
<1>3. new[n] \in Payment /\ new[n].to = old[n].to /\ new[n].amount = old[n].amount /\ new[n].status = to
  BY <1>1, <1>2 DEF Payment
<1>4. new \in Seq(Payment)
  <2>1. \A m \in DOMAIN old : new[m] \in Payment
    BY <1>2, <1>3, PaymentFields
  <2> QED
    BY <2>1, <1>2
<1> QED
  BY <1>2, <1>3, <1>4

LEMMA TotalsChanged ==
  ASSUME NEW old \in Seq(Payment), NEW new \in Seq(Payment), NEW n \in DOMAIN old,
         DOMAIN new = DOMAIN old, \A m \in DOMAIN old \ {n} : new[m] = old[m],
         new[n].to = old[n].to, new[n].amount = old[n].amount, new[n].status # old[n].status,
         NEW s, NEW status
  PROVE  IF s = old[n].to /\ status = old[n].status
         THEN Total(s, old, status) = Total(s, new, status) + old[n].amount
         ELSE Total(s, new, status)
                = Total(s, old, status) + IF s = old[n].to /\ status = new[n].status
                                          THEN old[n].amount ELSE 0
<1>0. Total(s, old, status) + 0 = Total(s, old, status)
  <2> DEFINE total == Total(s, old, status)
  <2>1. total \in Nat
    BY TotalIs
  <2> HIDE DEF total
  <2>2. total + 0 = total
    BY <2>1
  <2> QED
    BY <2>2 DEF total
<1>1. \A m \in DOMAIN old : new[m].amount = old[m].amount
  OBVIOUS
<1>2. CASE s = old[n].to /\ status = old[n].status
  <2>1. /\ n \notin Counted(s, new, status)
        /\ Counted(s, old, status) = Counted(s, new, status) \cup {n}
        /\ \A m \in Counted(s, new, status) : old[m].amount = new[m].amount
    BY <1>1, <1>2 DEF Counted
  <2>2. Total(s, old, status) = Total(s, new, status) + old[n].amount
    BY <2>1, TotalMore
  <2> QED
    BY <2>2, <1>2
<1>3. CASE s = old[n].to /\ status = new[n].status
  <2>1. /\ n \notin Counted(s, old, status)
        /\ Counted(s, new, status) = Counted(s, old, status) \cup {n}
        /\ \A m \in Counted(s, old, status) : new[m].amount = old[m].amount
    BY <1>1, <1>3 DEF Counted
  <2>2. Total(s, new, status) = Total(s, old, status) + new[n].amount
    BY <2>1, TotalMore
  <2> QED
    BY <2>2, <1>3
<1>4. CASE s # old[n].to \/ status \notin {old[n].status, new[n].status}
  <2>1. Counted(s, new, status) = Counted(s, old, status)
    BY <1>4 DEF Counted
  <2>2. \A m \in Counted(s, old, status) : new[m].amount = old[m].amount
    BY <1>1 DEF Counted
  <2>3. Total(s, new, status) = Total(s, old, status)
    BY <2>1, <2>2, TotalSame
  <2> QED
    BY <2>3, <1>0, <1>4
<1> QED
  BY <1>2, <1>3, <1>4

----------------------------------------------------------------------------
(* What a settlement is of *)

LEMMA NetStill ==
  ASSUME TypeOK, LinesApproved, NEW s \in Supplier, settlement'[s].lines = settlement[s].lines,
         \A a \in Adj : adj[a].status = "APPROVED" => adj'[a].effect = adj[a].effect
  PROVE  Net(s)' = Net(s)
<1> DEFINE lines == settlement[s].lines
           old   == [a \in Adj |-> adj[a].effect]
           new   == [a \in Adj |-> adj'[a].effect]
<1>1. lines \subseteq Adj /\ \A a \in lines : adj[a].status = "APPROVED"
  BY DEF LinesApproved, ApprovedOf
<1>2. IsFiniteSet(lines)
  BY <1>1, SettlementAssumption, FS_Subset
<1>3. \A a \in lines : new[a] = old[a] /\ new[a] \in Int
  <2>1. \A a \in Adj : adj[a].effect \in Effect \cup {0}
    BY DEF TypeOK
  <2>2. Effect \subseteq Int
    BY SettlementAssumption
  <2>3. \A a \in lines : a \in Adj /\ adj'[a].effect = adj[a].effect
    BY <1>1
  <2>4. \A a \in Adj : old[a] = adj[a].effect /\ new[a] = adj'[a].effect
    OBVIOUS
  <2>5. \A a \in Adj : adj[a].effect \in Int
    <3> TAKE a \in Adj
    <3>1. CASE adj[a].effect \in Effect
      BY <3>1, <2>2, Zenon
    <3>2. CASE adj[a].effect = 0
      BY <3>2
    <3> QED
      BY <3>1, <3>2, <2>1
  <2> HIDE DEF lines, old, new
  <2> QED
    BY <2>3, <2>4, <2>5
<1>4. /\ Net(s) = Gross[s] + SumFunctionOnSet(old, lines)
      /\ Net(s)' = Gross[s] + SumFunctionOnSet(new, lines)
  BY DEF Net, EffectOf
<1> HIDE DEF lines, old, new
<1>5. SumFunctionOnSet(new, lines) = SumFunctionOnSet(old, lines)
  BY <1>2, <1>3, SumSame
<1> QED
  BY <1>4, <1>5

(* Steps that leave the settlements, invoices and payments alone.           *)
LEMMA StatementsStill ==
  ASSUME IInv, UNCHANGED <<settlement, invoice, payment>>,
         adj' \in [Adj -> [status : {"NONE", "DRAFT", "REVIEW", "APPROVED"}, effect : Effect \cup {0}]],
         approving' \subseteq Adj, \A a \in approving' : adj'[a].status = "REVIEW",
         calculating' \in [Supplier -> SUBSET Adj] \cup {None},
         \A a \in Adj : adj[a].status = "APPROVED" => adj'[a] = adj[a],
         CalculatesOpen'
  PROVE  IInv'
<1>1. \A s \in Supplier : Net(s)' = Net(s) /\ Net(s) \in Nat
  BY NetStill DEF IInv, TypeOK
<1>2. TypeOK'
  BY <1>1 DEF IInv, TypeOK
<1>3. MonthTogether'
  BY DEF IInv, MonthTogether, Status
<1>4. LinesApproved'
  <2>1. \A s \in Supplier : ApprovedOf(s) \subseteq ApprovedOf(s)'
    BY DEF ApprovedOf
  <2> QED
    BY <2>1 DEF IInv, LinesApproved
<1>5. PaymentsInvoiced'
  BY <1>1 DEF IInv, PaymentsInvoiced
<1>6. \A s \in Supplier : Payable(s)' = Payable(s) /\ Available(s)' = Available(s)
  BY <1>1 DEF Payable, Available
<1>7. StatusTold'
  BY <1>1, <1>6 DEF IInv, StatusTold, Agrees, Paid, Status, PaymentsOf
<1> QED
  BY <1>2, <1>3, <1>4, <1>5, <1>6, <1>7 DEF IInv
LEMMA AdjustmentsMoved ==
  ASSUME IInv, NEW a \in Adj,
         WriteAdjustment(a) \/ SubmitAdjustment(a) \/ ReturnAdjustment(a)
           \/ CheckAdjustment(a) \/ ApproveAdjustment(a)
  PROVE  IInv'
<1> DEFINE Row == [status : {"NONE", "DRAFT", "REVIEW", "APPROVED"}, effect : Effect \cup {0}]
<1>1. /\ UNCHANGED <<settlement, invoice, payment, calculating>>
      /\ approving' = approving \/ (approving' = approving \cup {a} /\ adj' = adj /\ adj[a].status = "REVIEW")
           \/ (approving' = approving \ {a} /\ adj' = [adj EXCEPT ![a].status = "APPROVED"])
  BY DEF WriteAdjustment, SubmitAdjustment, ReturnAdjustment, CheckAdjustment, ApproveAdjustment
<1>2. /\ adj \in [Adj -> Row] /\ approving \subseteq Adj
      /\ calculating \in [Supplier -> SUBSET Adj] \cup {None}
      /\ \A b \in approving : adj[b].status = "REVIEW"
      /\ CalculatesOpen
  BY DEF IInv, TypeOK
<1>3. adj[a] \in Row
  BY <1>2
<1>4. \/ adj' = adj /\ approving' \subseteq approving \cup {a} /\ adj[a].status = "REVIEW"
      \/ /\ adj[a].status # "APPROVED" /\ a \notin approving'
         /\ approving' \subseteq approving
         /\ \E r \in Row : adj' = [adj EXCEPT ![a] = r]
  <2>1. CASE WriteAdjustment(a)
    <3>1. PICK e \in Effect : adj' = [adj EXCEPT ![a] = [status |-> "DRAFT", effect |-> e]]
      BY <2>1 DEF WriteAdjustment
    <3>2. [status |-> "DRAFT", effect |-> e] \in Row
      OBVIOUS
    <3>3. adj[a].status \in {"NONE", "DRAFT"} /\ approving' = approving
      BY <2>1 DEF WriteAdjustment
    <3>4. a \notin approving
      BY <3>3, <1>2
    <3> QED
      BY <3>1, <3>2, <3>3, <3>4
  <2>2. CASE SubmitAdjustment(a)
    <3>1. adj' = [adj EXCEPT ![a] = [adj[a] EXCEPT !.status = "REVIEW"]]
      BY <2>2, <1>2 DEF SubmitAdjustment
    <3>2. [adj[a] EXCEPT !.status = "REVIEW"] \in Row
      BY <1>3
    <3>3. adj[a].status = "DRAFT" /\ approving' = approving
      BY <2>2 DEF SubmitAdjustment
    <3>4. a \notin approving
      BY <3>3, <1>2
    <3> QED
      BY <3>1, <3>2, <3>3, <3>4
  <2>3. CASE ReturnAdjustment(a)
    <3>1. adj' = [adj EXCEPT ![a] = [adj[a] EXCEPT !.status = "DRAFT"]]
      BY <2>3, <1>2 DEF ReturnAdjustment
    <3>2. [adj[a] EXCEPT !.status = "DRAFT"] \in Row
      BY <1>3
    <3>3. adj[a].status = "REVIEW" /\ approving' = approving /\ a \notin approving
      BY <2>3 DEF ReturnAdjustment
    <3> QED
      BY <3>1, <3>2, <3>3
  <2>4. CASE CheckAdjustment(a)
    BY <2>4 DEF CheckAdjustment
  <2>5. CASE ApproveAdjustment(a)
    <3>1. adj' = [adj EXCEPT ![a] = [adj[a] EXCEPT !.status = "APPROVED"]]
      BY <2>5, <1>2 DEF ApproveAdjustment
    <3>2. [adj[a] EXCEPT !.status = "APPROVED"] \in Row
      BY <1>3
    <3>3. a \in approving /\ approving' = approving \ {a}
      BY <2>5 DEF ApproveAdjustment
    <3>4. adj[a].status = "REVIEW"
      BY <3>3, <1>2
    <3> QED
      BY <3>1, <3>2, <3>3, <3>4
  <2> QED
    BY <2>1, <2>2, <2>3, <2>4, <2>5
<1>5. /\ adj' \in [Adj -> Row] /\ approving' \subseteq Adj
      /\ \A b \in approving' : adj'[b].status = "REVIEW"
      /\ \A b \in Adj : adj[b].status = "APPROVED" => adj'[b] = adj[b]
  <2> HIDE DEF Row
  <2> QED
    BY <1>2, <1>4
<1>6. CalculatesOpen'
  <2>1. \A s \in Supplier : ApprovedOf(s) \subseteq ApprovedOf(s)'
    BY <1>5 DEF ApprovedOf
  <2> QED
    BY <2>1, <1>1, <1>2 DEF CalculatesOpen, Status
<1> QED
  BY <1>1, <1>2, <1>5, <1>6, StatementsStill

LEMMA SourceRead == ASSUME IInv, ReadSource PROVE IInv'
<1>1. /\ UNCHANGED <<adj, approving, settlement, invoice, payment>>
      /\ calculating' = [s \in Supplier |-> ApprovedOf(s)]
      /\ \A s \in Rows : Status(s) = "CALCULATED"
  BY DEF ReadSource
<1>2. \A s \in Supplier : ApprovedOf(s) \subseteq Adj /\ ApprovedOf(s)' = ApprovedOf(s)
  BY <1>1 DEF ApprovedOf
<1>3. calculating' \in [Supplier -> SUBSET Adj]
  BY <1>1, <1>2
<1>4. CalculatesOpen'
  BY <1>1, <1>2 DEF CalculatesOpen, Rows, Status
<1> QED
  BY <1>1, <1>3, <1>4, StatementsStill DEF IInv, TypeOK
----------------------------------------------------------------------------
(* The month *)

LEMMA NothingPaid ==
  ASSUME NEW s, NEW payments \in Seq(Payment), \A n \in DOMAIN payments : payments[n].to # s,
         NEW status
  PROVE  Total(s, payments, status) = 0
<1>1. Counted(s, payments, status) = {}
  BY DEF Counted
<1> QED
  BY <1>1, TotalIs, SumEmpty

(* What an open month leaves to pay: nothing is invoiced or paid.           *)
LEMMA OpenMonth ==
  ASSUME IInv, NEW u \in Supplier, Status(u) \notin PayableStatuses
  PROVE  /\ \A s \in Supplier : Status(s) = Status(u) /\ invoice[s] = None
         /\ payment = <<>>
         /\ \A s \in Supplier : \A status : Total(s, payment, status) = 0
<1>1. /\ \A s \in Supplier : Status(s) = Status(u) /\ invoice[s] = None
      /\ payment = <<>>
  BY DEF IInv, MonthTogether
<1>2. payment \in Seq(Payment) /\ \A n \in DOMAIN payment : FALSE
  BY <1>1 DEF IInv, TypeOK, Payment
<1>3. ASSUME NEW s \in Supplier, NEW status PROVE Total(s, payment, status) = 0
  BY <1>2, NothingPaid
<1> QED
  BY <1>1, <1>3

(* Once one supplier is payable all are.                                    *)
LEMMA PayableTogether ==
  ASSUME IInv, NEW u \in Supplier, Status(u) \in PayableStatuses, NEW s \in Supplier
  PROVE  Status(s) \in PayableStatuses
BY OpenMonth

LEMMA EffectIs ==
  ASSUME TypeOK, NEW set, set \subseteq Adj PROVE EffectOf(set) \in Int
<1> DEFINE fun == [a \in Adj |-> adj[a].effect]
<1>1. IsFiniteSet(set)
  BY SettlementAssumption, FS_Subset
<1>2. ASSUME NEW a \in set PROVE fun[a] \in Int
  <2>1. adj[a].effect \in Effect \cup {0} /\ fun[a] = adj[a].effect
    BY DEF TypeOK
  <2>2. Effect \subseteq Int
    BY SettlementAssumption
  <2>3. CASE adj[a].effect \in Effect
    BY <2>1, <2>2, <2>3, Zenon
  <2>4. CASE adj[a].effect = 0
    BY <2>1, <2>4
  <2> QED
    BY <2>1, <2>3, <2>4
<1> HIDE DEF fun
<1>3. SumFunctionOnSet(fun, set) \in Int
  BY <1>1, <1>2, SumType
<1> QED
  BY <1>3 DEF EffectOf, fun

LEMMA Calculated == ASSUME IInv, Calculate PROVE IInv'
<1> DEFINE Row == [status : SettlementStatus, source : SUBSET Adj, lines : SUBSET Adj]
<1>0. /\ TypeOK /\ settlement \in [Supplier -> Row] /\ LinesApproved
      /\ calculating \in [Supplier -> SUBSET Adj]
      /\ \A s \in Supplier : calculating[s] \subseteq ApprovedOf(s) /\ Status(s) \in {"NONE", "CALCULATED"}
      /\ UNCHANGED <<adj, approving, invoice, payment>> /\ calculating' = None
  BY DEF IInv, TypeOK, Calculate, CalculatesOpen
<1>1. \A s \in Supplier : /\ ApprovedOf(s)' = ApprovedOf(s) /\ ApprovedOf(s) \subseteq Adj
                          /\ Status(s) \notin PayableStatuses
  BY <1>0 DEF ApprovedOf, PayableStatuses
<1>2. \A s \in Supplier : invoice[s] = None /\ \A status : Total(s, payment, status) = 0
  BY <1>1, OpenMonth
<1>3. \A set : EffectOf(set)' = EffectOf(set)
  BY <1>0 DEF EffectOf
<1>4. \/ settlement' = settlement
      \/ /\ \A s \in Supplier : Covered(s)
         /\ settlement' = [s \in Supplier |->
              [status |-> "CALCULATED", source |-> calculating[s], lines |-> ApprovedOf(s)]]
  <2>1. CASE \A s \in Supplier : Covered(s)
    BY <2>1 DEF Calculate, Calculates
  <2>2. CASE ~\A s \in Supplier : Covered(s)
    <3>1. settlement' = [s \in Supplier |-> settlement[s]]
      BY <2>2 DEF Calculate, Calculates
    <3> QED
      BY <3>1, <1>0
  <2> QED
    BY <2>1, <2>2
<1>5. /\ settlement' \in [Supplier -> Row]
      /\ \A s \in Supplier : /\ settlement'[s].source \subseteq settlement'[s].lines
                             /\ settlement'[s].lines \subseteq ApprovedOf(s)
                             /\ settlement'[s].status \in {"NONE", "CALCULATED"}
      /\ \A s, t \in Supplier : settlement'[s].status = settlement'[t].status
  <2>1. CASE settlement' = settlement
    <3>1. \A s, t \in Supplier : Status(s) = Status(t)
      BY <1>1, OpenMonth
    <3> QED
      BY <2>1, <3>1, <1>0 DEF LinesApproved, Status
  <2>2. CASE settlement' # settlement
    <3>1. settlement' = [s \in Supplier |->
              [status |-> "CALCULATED", source |-> calculating[s], lines |-> ApprovedOf(s)]]
      BY <2>2, <1>4
    <3>2. \A s \in Supplier : calculating[s] \in SUBSET Adj /\ ApprovedOf(s) \in SUBSET Adj
      BY <1>0, <1>1
    <3>3. "CALCULATED" \in SettlementStatus
      BY DEF SettlementStatus
    <3> QED
      BY <3>1, <3>2, <3>3, <1>0
  <2> QED
    BY <2>1, <2>2
<1>6. ASSUME NEW s \in Supplier PROVE Net(s)' \in Nat
  <2>1. Net(s)' = Gross[s] + EffectOf(settlement'[s].lines)
    BY <1>3 DEF Net
  <2>2. CASE settlement' = settlement
    BY <2>1, <2>2, <1>0 DEF TypeOK, Net
  <2>3. CASE settlement' # settlement
    <3>1. settlement'[s].lines = ApprovedOf(s) /\ Covered(s)
      BY <2>3, <1>4
    <3>2. EffectOf(ApprovedOf(s)) \in Int /\ Gross[s] \in Nat
      BY <1>0, <1>1, EffectIs, SettlementAssumption
    <3>3. Gross[s] + EffectOf(ApprovedOf(s)) \in Nat
      BY <3>1, <3>2 DEF Covered
    <3> QED
      BY <3>1, <3>3, <2>1
  <2> QED
    BY <2>2, <2>3
<1>7. TypeOK'
  BY <1>0, <1>5, <1>6 DEF TypeOK
<1>8. MonthTogether'
  BY <1>0, <1>2, <1>5, <1>1, OpenMonth DEF MonthTogether, Status
<1>9. LinesApproved' /\ CalculatesOpen'
  BY <1>0, <1>1, <1>5 DEF LinesApproved, CalculatesOpen
<1>10. PaymentsInvoiced'
  BY <1>0, <1>2 DEF IInv, PaymentsInvoiced
<1>11. StatusTold'
  BY <1>5 DEF StatusTold, Status, PayableStatuses
<1>12. ASSUME NEW s \in Supplier PROVE Available(s)' >= 0
  <2>1. Available(s)' = Net(s)' - 0 - 0
    BY <1>0, <1>2 DEF Available, Payable
  <2>2. Net(s)' \in Nat
    BY <1>6
  <2> DEFINE net == Net(s)'
  <2> HIDE DEF net
  <2>3. net - 0 - 0 >= 0
    BY <2>2 DEF net
  <2> QED
    BY <2>1, <2>3 DEF net
<1> QED
  BY <1>0, <1>7, <1>8, <1>9, <1>10, <1>11, <1>12 DEF IInv
(* A step of the whole month to another status.                             *)
LEMMA MonthMoved ==
  ASSUME IInv, UNCHANGED <<adj, approving, calculating, invoice, payment>>, calculating = None,
         NEW to \in [Rows -> SettlementStatus], Move(to),
         MonthTogether', StatusTold'
  PROVE  IInv'
<1> DEFINE Row == [status : SettlementStatus, source : SUBSET Adj, lines : SUBSET Adj]
<1>0. TypeOK /\ LinesApproved /\ settlement \in [Supplier -> Row]
  BY DEF IInv, TypeOK
<1>1. ASSUME NEW s \in Supplier
      PROVE  /\ settlement'[s] \in Row
             /\ settlement'[s].lines = settlement[s].lines
             /\ settlement'[s].source = settlement[s].source
  <2>1. settlement[s] \in Row
    BY <1>0
  <2>2. CASE s \in Rows
    <3>1. settlement'[s] = [settlement[s] EXCEPT !.status = to[s]] /\ to[s] \in SettlementStatus
      BY <2>2 DEF Move
    <3> QED
      BY <2>1, <3>1
  <2>3. CASE s \notin Rows
    BY <2>1, <2>3 DEF Move
  <2> QED
    BY <2>2, <2>3
<1>2. settlement' \in [Supplier -> Row]
  <2>1. settlement' = [s \in Supplier |-> settlement'[s]]
    BY DEF Move
  <2> HIDE DEF Row
  <2> QED
    BY <1>1, <2>1
<1>3. \A s \in Supplier : Net(s)' = Net(s) /\ Net(s) \in Nat
  BY <1>0, <1>1, NetStill DEF TypeOK
<1>4. TypeOK'
  BY <1>0, <1>2, <1>3 DEF TypeOK
<1>5. \A s \in Supplier : ApprovedOf(s)' = ApprovedOf(s)
  BY DEF ApprovedOf
<1>6. LinesApproved' /\ CalculatesOpen'
  BY <1>0, <1>1, <1>5 DEF LinesApproved, CalculatesOpen
<1>7. PaymentsInvoiced'
  BY <1>3 DEF IInv, PaymentsInvoiced
<1>8. \A s \in Supplier : Available(s)' = Available(s)
  BY <1>3 DEF Available, Payable
<1> QED
  BY <1>4, <1>6, <1>7, <1>8 DEF IInv

(* In an open month with rows every supplier has one.                       *)
LEMMA EveryRow ==
  ASSUME IInv, NEW status \in SettlementStatus \ {"NONE"}, AllIn(status)
  PROVE  Rows = Supplier /\ \A s \in Supplier : Status(s) = status
<1>1. PICK t \in Supplier : Status(t) = status /\ t \in Rows
  BY DEF AllIn, Rows
<1>2. ASSUME NEW s \in Supplier PROVE Status(s) # "NONE"
  <2> SUFFICES ASSUME Status(s) = "NONE" PROVE FALSE
    OBVIOUS
  <2>1. Status(s) \notin PayableStatuses
    BY DEF PayableStatuses
  <2>2. Status(t) = Status(s)
    BY <2>1, OpenMonth
  <2> QED
    BY <1>1, <2>2
<1> QED
  BY <1>2 DEF Rows, AllIn

LEMMA StatusMoved ==
  ASSUME NEW to, Rows = Supplier, TypeOK, Move(to), NEW s \in Supplier
  PROVE  Status(s)' = to[s] /\ settlement'[s].lines = settlement[s].lines
<1>1. settlement'[s] = [settlement[s] EXCEPT !.status = to[s]]
  BY DEF Move
<1>2. settlement[s] \in [status : SettlementStatus, source : SUBSET Adj, lines : SUBSET Adj]
  BY DEF TypeOK
<1> QED
  BY <1>1, <1>2 DEF Status

LEMMA MonthReviewed == ASSUME IInv, SubmitMonth \/ ReturnMonth PROVE IInv'
<1>0. TypeOK /\ UNCHANGED <<adj, approving, calculating, invoice, payment>> /\ calculating = None
  BY DEF SubmitMonth, ReturnMonth, Unlocked, IInv
<1>1. PICK from \in {"CALCULATED", "REVIEW"} : AllIn(from)
  BY DEF SubmitMonth, ReturnMonth
<1>2. Rows = Supplier /\ \A s \in Supplier : Status(s) = from
  BY <1>1, EveryRow DEF SettlementStatus
<1>3. \E word \in {"CALCULATED", "REVIEW"} : Move([s \in Rows |-> word])
  BY DEF SubmitMonth, ReturnMonth
<1>4. PICK word \in {"CALCULATED", "REVIEW"} : Move([s \in Rows |-> word])
  BY <1>3
<1> DEFINE to == [s \in Rows |-> word]
<1>5. \A s \in Supplier : Status(s)' = word
  BY <1>0, <1>2, <1>4, StatusMoved
<1>6. \A s \in Supplier : invoice[s] = None /\ payment = <<>>
  BY <1>2, OpenMonth DEF PayableStatuses
<1>7. MonthTogether'
  BY <1>0, <1>5, <1>6 DEF MonthTogether
<1>8. StatusTold'
  BY <1>5 DEF StatusTold, PayableStatuses
<1>9. to \in [Rows -> SettlementStatus]
  BY DEF SettlementStatus
<1> QED
  BY <1>0, <1>4, <1>7, <1>8, <1>9, MonthMoved

LEMMA MonthApproved == ASSUME IInv, ApproveMonth PROVE IInv'
<1> DEFINE to == [s \in Rows |-> IF Net(s) = 0 THEN "PAID" ELSE "APPROVED"]
<1>0. /\ TypeOK /\ LinesApproved
      /\ UNCHANGED <<adj, approving, calculating, invoice, payment>> /\ calculating = None
      /\ AllIn("REVIEW") /\ Move(to)
  BY DEF ApproveMonth, Unlocked, IInv
<1>1. Rows = Supplier /\ \A s \in Supplier : Status(s) = "REVIEW"
  BY <1>0, EveryRow DEF SettlementStatus
<1>2. \A s \in Supplier : Status(s)' = IF Net(s) = 0 THEN "PAID" ELSE "APPROVED"
  <2>1. \A s \in Supplier : Status(s)' = to[s]
    <3> HIDE DEF to
    <3> QED
      BY <1>0, <1>1, StatusMoved
  <2> QED
    BY <2>1, <1>1
<1>3. \A s \in Supplier : /\ invoice[s] = None /\ payment = <<>>
                          /\ \A status : Total(s, payment, status) = 0
  BY <1>1, OpenMonth DEF PayableStatuses
<1>9. \A s \in Supplier : Status(s)' \in PayableStatuses
  BY <1>2 DEF PayableStatuses
<1>4. MonthTogether'
  BY <1>9 DEF MonthTogether
<1>5. \A s \in Supplier : settlement'[s].lines = settlement[s].lines
  <2> HIDE DEF to
  <2> QED
    BY <1>0, <1>1, StatusMoved
<1>6. \A s \in Supplier : Net(s)' = Net(s) /\ Net(s) \in Nat
  BY <1>0, <1>5, NetStill DEF TypeOK
<1>7. StatusTold'
  <2> SUFFICES ASSUME NEW s \in Supplier, Net(s)' > 0 \/ PaymentsOf(s)' # {} PROVE Agrees(s)'
    BY DEF StatusTold
  <2>1. PaymentsOf(s)' = {}
    BY <1>0, <1>3 DEF PaymentsOf
  <2>2. Net(s) > 0 /\ Net(s) \in Nat
    BY <2>1, <1>6
  <2>3. Status(s)' = "APPROVED"
    BY <2>2, <1>2
  <2>4. Paid(s)' = 0 /\ Total(s, payment, "PROCESSING")' = 0 /\ Payable(s)' = Net(s)
    BY <1>0, <1>3, <1>6 DEF Paid, Payable
  <2> QED
    BY <2>2, <2>3, <2>4 DEF Agrees
<1>8. to \in [Rows -> SettlementStatus]
  BY DEF SettlementStatus, PayableStatuses
<1> HIDE DEF to
<1> QED
  BY <1>0, <1>4, <1>7, <1>8, MonthMoved

LEMMA MonthClosed == ASSUME IInv, CloseMonth PROVE IInv'
<1> DEFINE to == [s \in Rows |-> "CLOSED"]
<1>0. /\ TypeOK /\ LinesApproved
      /\ UNCHANGED <<adj, approving, calculating, invoice, payment>> /\ calculating = None
      /\ AllIn("PAID") /\ Move(to)
  BY DEF CloseMonth, Closable, Unlocked, IInv
<1>1. Rows = Supplier /\ \A s \in Supplier : Status(s) = "PAID"
  BY <1>0, EveryRow DEF SettlementStatus, PayableStatuses
<1>2. \A s \in Supplier : Status(s)' = "CLOSED"
  BY <1>0, <1>1, StatusMoved
<1>9. \A s \in Supplier : Status(s)' \in PayableStatuses
  BY <1>2 DEF PayableStatuses
<1>4. MonthTogether'
  BY <1>9 DEF MonthTogether
<1>5. \A s \in Supplier : settlement'[s].lines = settlement[s].lines
  <2> HIDE DEF to
  <2> QED
    BY <1>0, <1>1, StatusMoved
<1>6. \A s \in Supplier : Net(s)' = Net(s)
  BY <1>0, <1>5, NetStill
<1>7. StatusTold'
  <2> SUFFICES ASSUME NEW s \in Supplier, Net(s)' > 0 \/ PaymentsOf(s)' # {} PROVE Agrees(s)'
    BY DEF StatusTold
  <2>1. PaymentsOf(s)' = PaymentsOf(s)
    BY <1>0 DEF PaymentsOf
  <2>2. Agrees(s)
    BY <2>1, <1>6, <1>1 DEF IInv, StatusTold, PayableStatuses
  <2>3. Paid(s)' = Paid(s) /\ Payable(s)' = Payable(s)
        /\ Total(s, payment, "PROCESSING")' = Total(s, payment, "PROCESSING")
    BY <1>0, <1>6 DEF Paid, Payable
  <2>4. Status(s) = "PAID" /\ Status(s)' = "CLOSED"
    BY <1>1, <1>2
  <2> QED
    BY <2>2, <2>3, <2>4 DEF Agrees
<1>8. to \in [Rows -> SettlementStatus]
  BY DEF SettlementStatus, PayableStatuses
<1> HIDE DEF to
<1> QED
  BY <1>0, <1>4, <1>7, <1>8, MonthMoved
----------------------------------------------------------------------------
(* Invoices and payments *)

(* Steps of a payable month: only invoices, payments and statuses change.   *)
LEMMA PayableMonth ==
  ASSUME IInv, UNCHANGED <<adj, approving, calculating>>,
         \A s \in Supplier : /\ Status(s) \in PayableStatuses /\ Status(s)' \in PayableStatuses
                             /\ settlement'[s].lines = settlement[s].lines
                             /\ settlement'[s].source = settlement[s].source,
         settlement' \in [Supplier -> [status : SettlementStatus, source : SUBSET Adj, lines : SUBSET Adj]],
         invoice' \in [Supplier -> Nat \cup {None}], payment' \in Seq(Payment),
         PaymentsInvoiced', StatusTold', \A s \in Supplier : Available(s)' >= 0
  PROVE  IInv'
<1>1. TypeOK /\ LinesApproved /\ \A a \in approving : adj[a].status = "REVIEW"
  BY DEF IInv
<1>2. \A s \in Supplier : Net(s)' = Net(s) /\ Net(s) \in Nat
  BY <1>1, NetStill DEF TypeOK
<1>3. TypeOK'
  BY <1>1, <1>2 DEF TypeOK, Payment
<1>4. MonthTogether'
  BY DEF MonthTogether
<1>5. \A s \in Supplier : ApprovedOf(s)' = ApprovedOf(s)
  BY DEF ApprovedOf
<1>6. LinesApproved'
  BY <1>1, <1>5 DEF LinesApproved
<1>7. CalculatesOpen'
  <2> SUFFICES ASSUME calculating # None, NEW s \in Supplier PROVE FALSE
    BY DEF CalculatesOpen
  <2>1. Status(s) \in {"NONE", "CALCULATED"} /\ Status(s) \in PayableStatuses
    BY DEF IInv, CalculatesOpen
  <2> QED
    BY <2>1 DEF PayableStatuses
<1> QED
  BY <1>1, <1>3, <1>4, <1>6, <1>7 DEF IInv

LEMMA InvoiceRecorded ==
  ASSUME IInv, NEW s \in Supplier, NEW vat \in Vat, RecordInvoice(s, vat) PROVE IInv'
<1>0. /\ TypeOK /\ LinesApproved /\ PaymentsInvoiced /\ StatusTold /\ \A t \in Supplier : Available(t) >= 0
      /\ UNCHANGED <<adj, approving, calculating, settlement, payment>>
      /\ Status(s) \in PayableStatuses /\ invoice[s] = None
      /\ invoice' = [invoice EXCEPT ![s] = Net(s) + vat]
      /\ invoice \in [Supplier -> Nat \cup {None}] /\ payment \in Seq(Payment)
  BY DEF IInv, TypeOK, RecordInvoice, Payment
<1>1. \A t \in Supplier : Net(t) \in Nat /\ Net(t)' = Net(t)
  BY <1>0, NetStill DEF TypeOK
<1>2. vat \in Nat
  BY SettlementAssumption
<1> DEFINE net == Net(s)
<1>3. net \in Nat /\ Net(s)' = net
  BY <1>1
<1> HIDE DEF net
<1>4. net + vat \in Nat /\ net + vat >= net
  BY <1>2, <1>3
<1>5. /\ invoice' \in [Supplier -> Nat \cup {None}] /\ invoice'[s] = net + vat
      /\ \A t \in Supplier \ {s} : invoice'[t] = invoice[t]
  BY <1>0, <1>4 DEF net
<1>6. \A n \in DOMAIN payment : payment[n].to # s /\ payment[n].to \in Supplier
  BY <1>0, PaymentFields DEF PaymentsInvoiced, Payment
<1>7. \A status : Total(s, payment, status) = 0
  BY <1>0, <1>6, NothingPaid
<1>8. \A t \in Supplier : Status(t) \in PayableStatuses
  BY <1>0, PayableTogether
<1>9. \A t \in Supplier : Status(t)' = Status(t)
  BY <1>0 DEF Status
<1>10. None \notin Nat
  BY SettlementAssumption
<1>11. Payable(s)' = net + vat /\ Payable(s) = net
  BY <1>0, <1>4, <1>5, <1>10 DEF Payable, net
<1>12. \A t \in Supplier \ {s} : Payable(t)' = Payable(t)
  BY <1>1, <1>5 DEF Payable
<1>13. \A t : \A status : Total(t, payment, status)' = Total(t, payment, status)
  BY <1>0 DEF Total
<1>14. PaymentsInvoiced'
  <2>1. ASSUME NEW t \in Supplier, invoice'[t] # None PROVE invoice'[t] >= Net(t)'
    BY <2>1, <1>0, <1>1, <1>3, <1>4, <1>5 DEF PaymentsInvoiced, net
  <2>2. \A n \in DOMAIN payment : invoice'[payment[n].to] \notin {None, 0}
    BY <1>0, <1>5, <1>6 DEF PaymentsInvoiced
  <2> QED
    BY <2>1, <2>2, <1>0 DEF PaymentsInvoiced
<1>15. StatusTold'
  <2> SUFFICES ASSUME NEW t \in Supplier, Net(t)' > 0 \/ PaymentsOf(t)' # {} PROVE Agrees(t)'
    BY DEF StatusTold
  <2>1. PaymentsOf(t)' = PaymentsOf(t)
    BY <1>0 DEF PaymentsOf
  <2>2. Agrees(t)
    BY <2>1, <1>0, <1>1, <1>8 DEF StatusTold
  <2>3. Paid(t)' = Paid(t) /\ Total(t, payment, "PROCESSING")' = Total(t, payment, "PROCESSING")
    BY <1>13 DEF Paid
  <2>4. CASE t # s
    <3>1. Payable(t)' = Payable(t)
      BY <2>4, <1>12
    <3> QED
      BY <2>2, <2>3, <3>1, <1>9 DEF Agrees
  <2>5. CASE t = s
    <3>1. PaymentsOf(s) = {}
      BY <1>6 DEF PaymentsOf
    <3>2. net > 0
      BY <3>1, <2>1, <2>5, <1>3
    <3>3. Paid(s) = 0 /\ Total(s, payment, "PROCESSING") = 0
      BY <1>7 DEF Paid
    <3>4. Status(s) = "APPROVED"
      BY <2>2, <2>5, <3>3 DEF Agrees
    <3>5. Payable(s)' # 0 /\ Payable(s)' \in Nat
      BY <3>2, <1>2, <1>3, <1>11
    <3>6. Paid(s)' = 0 /\ Total(s, payment, "PROCESSING")' = 0 /\ Status(s)' = "APPROVED"
      BY <3>3, <3>4, <2>3, <2>5, <1>9
    <3> QED
      BY <3>5, <3>6, <2>5 DEF Agrees
  <2> QED
    BY <2>4, <2>5
<1>16. ASSUME NEW t \in Supplier PROVE Available(t)' >= 0
  <2>1. CASE t # s
    <3>1. Available(t)' = Available(t)
      BY <2>1, <1>12, <1>13 DEF Available
    <3> QED
      BY <3>1, <1>0
  <2>2. CASE t = s
    <3>1. Available(s)' = (net + vat) - 0 - 0
      BY <1>7, <1>11, <1>13 DEF Available
    <3> QED
      BY <3>1, <2>2, <1>2, <1>3
  <2> QED
    BY <2>1, <2>2
<1>17. /\ settlement' = settlement
       /\ settlement \in [Supplier -> [status : SettlementStatus, source : SUBSET Adj, lines : SUBSET Adj]]
  BY <1>0 DEF TypeOK
<1> QED
  BY <1>0, <1>5, <1>8, <1>9, <1>14, <1>15, <1>16, <1>17, PayableMonth
(* The status that is derived from the payments is the one they imply.      *)
LEMMA TargetAgrees ==
  ASSUME NEW paid \in Nat, NEW moving \in Nat, NEW payable \in Nat \ {0}, paid <= payable,
         NEW status, NEW target,
         target = IF paid >= payable THEN "PAID"
                  ELSE IF paid > 0 THEN "PARTIALLY_PAID"
                  ELSE IF moving > 0 THEN "PAYMENT_PROCESSING" ELSE "APPROVED",
         status = target \/ (status = "CLOSED" /\ target = "PAID")
  PROVE  /\ status \in {"PAID", "CLOSED"} <=> paid = payable
         /\ status = "PARTIALLY_PAID"     <=> paid \in 1..(payable - 1)
         /\ status = "PAYMENT_PROCESSING" <=> paid = 0 /\ moving > 0
         /\ status = "APPROVED"           <=> paid = 0 /\ moving = 0
<1>1. CASE paid = payable
  BY <1>1
<1>2. CASE paid < payable /\ paid > 0
  BY <1>2
<1>3. CASE paid = 0 /\ moving > 0
  BY <1>3
<1>4. CASE paid = 0 /\ moving = 0
  BY <1>4
<1> QED
  BY <1>1, <1>2, <1>3, <1>4

(* A change of one supplier's payments of an invoice, within its payable.   *)
LEMMA Synced ==
  ASSUME IInv, NEW s \in Supplier, NEW new \in Seq(Payment), Sync(s, new),
         Status(s) \in PayableStatuses, invoice[s] \notin {None, 0},
         \A t \in Supplier \ {s} : \A status : Total(t, new, status) = Total(t, payment, status),
         \A n \in DOMAIN new : new[n].to = s \/ \E m \in DOMAIN payment : payment[m].to = new[n].to,
         Total(s, new, "PAID") + Total(s, new, "PROCESSING") <= Payable(s)
  PROVE  IInv'
<1>0. /\ TypeOK /\ LinesApproved /\ PaymentsInvoiced /\ StatusTold /\ \A t \in Supplier : Available(t) >= 0
      /\ UNCHANGED <<adj, approving, calculating, invoice>> /\ payment' = new
      /\ settlement \in [Supplier -> [status : SettlementStatus, source : SUBSET Adj, lines : SUBSET Adj]]
      /\ invoice \in [Supplier -> Nat \cup {None}] /\ payment \in Seq(Payment)
  BY DEF IInv, TypeOK, Sync, Payment
<1> DEFINE Row    == [status : SettlementStatus, source : SUBSET Adj, lines : SUBSET Adj]
           target == Target(s, new)
           word   == IF Status(s) = "CLOSED" /\ target = "PAID" THEN "CLOSED" ELSE target
<1>1. \A t \in Supplier : Status(t) \in PayableStatuses
  BY PayableTogether
<1>2. word \in PayableStatuses /\ word \in SettlementStatus
  BY DEF Target, PayableStatuses, SettlementStatus
<1>3. settlement' = [settlement EXCEPT ![s].status = word]
  BY DEF Sync, Status
<1> HIDE DEF word
<1>4. /\ settlement' \in [Supplier -> Row]
      /\ \A t \in Supplier : /\ settlement'[t].lines = settlement[t].lines
                             /\ settlement'[t].source = settlement[t].source
      /\ settlement'[s].status = word
      /\ \A t \in Supplier \ {s} : settlement'[t] = settlement[t]
  <2>1. settlement[s] \in Row /\ settlement' = [settlement EXCEPT ![s] = [settlement[s] EXCEPT !.status = word]]
    BY <1>0, <1>3
  <2>2. /\ [settlement[s] EXCEPT !.status = word] \in Row
        /\ [settlement[s] EXCEPT !.status = word].lines = settlement[s].lines
        /\ [settlement[s] EXCEPT !.status = word].source = settlement[s].source
        /\ [settlement[s] EXCEPT !.status = word].status = word
    BY <2>1, <1>2
  <2> DEFINE r == [settlement[s] EXCEPT !.status = word]
  <2>3. settlement' = [settlement EXCEPT ![s] = r]
    BY <2>1
  <2> HIDE DEF r, Row
  <2>4. /\ settlement' \in [Supplier -> Row] /\ settlement'[s] = r
        /\ \A t \in Supplier \ {s} : settlement'[t] = settlement[t]
    BY <2>2, <2>3, <1>0 DEF r, Row
  <2> QED
    BY <2>2, <2>4 DEF r
<1>5. \A t \in Supplier : Status(t)' \in PayableStatuses
  BY <1>1, <1>2, <1>4 DEF Status
<1>6. \A t \in Supplier : Net(t)' = Net(t) /\ Net(t) \in Nat
  BY <1>0, <1>4, NetStill DEF TypeOK
<1>7. \A t \in Supplier : Payable(t)' = Payable(t)
  BY <1>0, <1>6 DEF Payable
<1>8. \A t : \A status : Total(t, payment, status)' = Total(t, new, status)
  BY <1>0 DEF Total
<1>9. PaymentsInvoiced'
  <2>1. \A n \in DOMAIN new : invoice[new[n].to] \notin {None, 0}
    BY <1>0 DEF PaymentsInvoiced
  <2> QED
    BY <2>1, <1>0, <1>6 DEF PaymentsInvoiced
<1> DEFINE paid    == Total(s, new, "PAID")
           moving  == Total(s, new, "PROCESSING")
           payable == Payable(s)
<1>10. paid \in Nat /\ moving \in Nat /\ payable \in Nat \ {0} /\ paid + moving <= payable
  <2>1. paid \in Nat /\ moving \in Nat /\ paid + moving <= payable
    BY TotalIs
  <2>2. payable \in Nat \ {0}
    BY <1>0 DEF Payable
  <2> QED
    BY <2>1, <2>2
<1>11. target = IF paid >= payable THEN "PAID"
                ELSE IF paid > 0 THEN "PARTIALLY_PAID"
                ELSE IF moving > 0 THEN "PAYMENT_PROCESSING" ELSE "APPROVED"
  BY DEF Target
<1>12. word = target \/ (word = "CLOSED" /\ target = "PAID")
  BY DEF word
<1>13. Paid(s)' = paid /\ Total(s, payment, "PROCESSING")' = moving /\ Payable(s)' = payable /\ Status(s)' = word
  BY <1>4, <1>7, <1>8 DEF Paid, Status
<1> HIDE DEF paid, moving, payable, target
<1>14. Agrees(s)'
  <2>1. paid <= payable
    BY <1>10
  <2>2. /\ word \in {"PAID", "CLOSED"} <=> paid = payable
        /\ word = "PARTIALLY_PAID"     <=> paid \in 1..(payable - 1)
        /\ word = "PAYMENT_PROCESSING" <=> paid = 0 /\ moving > 0
        /\ word = "APPROVED"           <=> paid = 0 /\ moving = 0
    BY <2>1, <1>10, <1>11, <1>12, TargetAgrees
  <2> QED
    BY <2>2, <1>13 DEF Agrees
<1>15. StatusTold'
  <2> SUFFICES ASSUME NEW t \in Supplier, t # s, Net(t)' > 0 \/ PaymentsOf(t)' # {} PROVE Agrees(t)'
    BY <1>14 DEF StatusTold
  <2>1. PaymentsOf(t)' # {} => PaymentsOf(t) # {}
    <3> SUFFICES ASSUME NEW n \in DOMAIN new, new[n].to = t PROVE PaymentsOf(t) # {}
      BY <1>0 DEF PaymentsOf
    <3> QED
      BY DEF PaymentsOf
  <2>2. Agrees(t)
    BY <2>1, <1>0, <1>1, <1>6 DEF StatusTold
  <2>3. /\ Paid(t)' = Paid(t) /\ Total(t, payment, "PROCESSING")' = Total(t, payment, "PROCESSING")
        /\ Payable(t)' = Payable(t) /\ Status(t)' = Status(t)
    BY <1>4, <1>7, <1>8 DEF Paid, Status
  <2> QED
    BY <2>2, <2>3 DEF Agrees
<1>16. ASSUME NEW t \in Supplier PROVE Available(t)' >= 0
  <2>1. CASE t # s
    <3>1. Available(t)' = Available(t)
      BY <2>1, <1>7, <1>8 DEF Available
    <3> QED
      BY <3>1, <1>0
  <2>2. CASE t = s
    <3>1. Available(s)' = payable - paid - moving
      BY <1>7, <1>8 DEF Available, payable, paid, moving
    <3> QED
      BY <3>1, <2>2, <1>10
  <2> QED
    BY <2>1, <2>2
<1> QED
  BY <1>0, <1>1, <1>4, <1>5, <1>9, <1>15, <1>16, PayableMonth
(* What is available is what the payable leaves.                            *)
LEMMA AvailableIs ==
  ASSUME IInv, NEW s \in Supplier, invoice[s] # None
  PROVE  /\ Payable(s) \in Nat /\ Total(s, payment, "PAID") \in Nat /\ Total(s, payment, "PROCESSING") \in Nat
         /\ Available(s) = Payable(s) - (Total(s, payment, "PAID") + Total(s, payment, "PROCESSING"))
         /\ Total(s, payment, "PAID") + Total(s, payment, "PROCESSING") <= Payable(s)
<1>1. payment \in Seq(Payment) /\ invoice[s] \in Nat /\ Available(s) >= 0
  BY DEF IInv, TypeOK, Payment
<1> DEFINE paid    == Total(s, payment, "PAID")
           moving  == Total(s, payment, "PROCESSING")
           payable == Payable(s)
<1>2. paid \in Nat /\ moving \in Nat
  BY <1>1, TotalIs
<1>3. payable \in Nat
  BY <1>1 DEF Payable
<1>4. Available(s) = payable - paid - moving
  BY DEF Available
<1> HIDE DEF paid, moving, payable
<1>5. Available(s) = payable - (paid + moving) /\ paid + moving <= payable
  BY <1>1, <1>2, <1>3, <1>4
<1> QED
  BY <1>2, <1>3, <1>5 DEF paid, moving, payable

(* What an added or a settled payment makes of the totals.                  *)
LEMMA TotalsWith ==
  ASSUME IInv, NEW s \in Supplier, NEW amount \in Amounts, NEW status \in {"PROCESSING", "PAID"}
  PROVE  \A t, word : Total(t, WithPayment(s, amount, status), word)
                        = Total(t, payment, word) + IF s = t /\ status = word THEN amount ELSE 0
<1> DEFINE r   == [to |-> s, amount |-> amount, status |-> status]
           new == Append(payment, r)
           n   == Len(payment) + 1
<1>1. payment \in Seq(Payment) /\ r \in Payment
  BY DEF IInv, TypeOK, Payment, PaymentStatus
<1>2. r.to = s /\ r.amount = amount /\ r.status = status /\ new = WithPayment(s, amount, status)
  BY DEF WithPayment
<1> HIDE DEF r
<1>3. /\ new \in Seq(Payment) /\ DOMAIN new = DOMAIN payment \cup {n}
      /\ n \notin DOMAIN payment /\ new[n] = r
      /\ \A m \in DOMAIN payment : new[m] = payment[m]
  BY <1>1, AppendIs
<1> HIDE DEF new, n
<1>4. n \in DOMAIN new
  BY <1>3
<1> TAKE t, word
<1>5. Total(t, new, word)
        = Total(t, payment, word) + IF new[n].to = t /\ new[n].status = word THEN new[n].amount ELSE 0
  BY <1>1, <1>3, <1>4, TotalsAppended
<1> QED
  BY <1>2, <1>3, <1>5

LEMMA TotalsSettled ==
  ASSUME TypeOK, NEW n \in DOMAIN payment, NEW status \in PaymentStatus, payment[n].status # status
  PROVE  \A t, word :
           IF t = payment[n].to /\ word = payment[n].status
           THEN Total(t, payment, word)
                  = Total(t, [payment EXCEPT ![n].status = status], word) + payment[n].amount
           ELSE Total(t, [payment EXCEPT ![n].status = status], word)
                  = Total(t, payment, word) + IF t = payment[n].to /\ word = status
                                              THEN payment[n].amount ELSE 0
<1> DEFINE new == [payment EXCEPT ![n].status = status]
<1>1. payment \in Seq(Payment)
  BY DEF TypeOK, Payment
<1>2. /\ new \in Seq(Payment) /\ DOMAIN new = DOMAIN payment
      /\ new[n].to = payment[n].to /\ new[n].amount = payment[n].amount /\ new[n].status = status
      /\ \A m \in DOMAIN payment \ {n} : new[m] = payment[m]
  BY <1>1, ChangeIs
<1> HIDE DEF new
<1> TAKE t, word
<1>3. IF t = payment[n].to /\ word = payment[n].status
      THEN Total(t, payment, word) = Total(t, new, word) + payment[n].amount
      ELSE Total(t, new, word)
             = Total(t, payment, word) + IF t = payment[n].to /\ word = new[n].status
                                         THEN payment[n].amount ELSE 0
  BY <1>1, <1>2, TotalsChanged
<1> QED
  BY <1>2, <1>3 DEF new

LEMMA PaymentAdded ==
  ASSUME IInv, NEW s \in Supplier, NEW amount \in Amounts, NEW status \in {"PROCESSING", "PAID"},
         Status(s) \in PayableStatuses, invoice[s] \notin {None, 0},
         amount <= Available(s), Sync(s, WithPayment(s, amount, status))
  PROVE  IInv'
<1> DEFINE r   == [to |-> s, amount |-> amount, status |-> status]
           new == Append(payment, r)
           n   == Len(payment) + 1
<1>1. payment \in Seq(Payment) /\ r \in Payment /\ amount \in Nat
  BY SettlementAssumption DEF IInv, TypeOK, Payment, PaymentStatus
<1>2. r.to = s /\ r.amount = amount /\ r.status = status
  OBVIOUS
<1>3. Sync(s, new)
  BY DEF WithPayment
<1> HIDE DEF r
<1>4. /\ new \in Seq(Payment) /\ DOMAIN new = DOMAIN payment \cup {n}
      /\ n \notin DOMAIN payment /\ new[n] = r
      /\ \A m \in DOMAIN payment : new[m] = payment[m]
  BY <1>1, AppendIs
<1> HIDE DEF new, n
<1>5. n \in DOMAIN new
  BY <1>4
<1>6. \A t, word : Total(t, new, word) = Total(t, payment, word) + IF s = t /\ status = word THEN amount ELSE 0
  BY TotalsWith DEF WithPayment, new, r
<1>7. ASSUME NEW t \in Supplier \ {s}, NEW word PROVE Total(t, new, word) = Total(t, payment, word)
  <2> DEFINE old == Total(t, payment, word)
  <2>1. old \in Nat
    BY <1>1, TotalIs
  <2>2. Total(t, new, word) = old + 0
    BY <1>6
  <2> HIDE DEF old
  <2>3. old + 0 = old
    BY <2>1
  <2> QED
    BY <2>2, <2>3 DEF old
<1>8. \A m \in DOMAIN new : new[m].to = s \/ \E k \in DOMAIN payment : payment[k].to = new[m].to
  BY <1>2, <1>4
<1>9. Total(s, new, "PAID") + Total(s, new, "PROCESSING") <= Payable(s)
  <2> DEFINE paid    == Total(s, payment, "PAID")
             moving  == Total(s, payment, "PROCESSING")
             payable == Payable(s)
             left    == Available(s)
  <2>1. paid \in Nat /\ moving \in Nat /\ payable \in Nat /\ left = payable - (paid + moving)
    BY AvailableIs
  <2>2. /\ Total(s, new, "PAID") = paid + IF status = "PAID" THEN amount ELSE 0
        /\ Total(s, new, "PROCESSING") = moving + IF status = "PROCESSING" THEN amount ELSE 0
    BY <1>6
  <2>3. amount <= left
    OBVIOUS
  <2> HIDE DEF paid, moving, payable, left
  <2>4. CASE status = "PAID"
    <3>1. Total(s, new, "PAID") = paid + amount /\ Total(s, new, "PROCESSING") = moving + 0
      BY <2>2, <2>4
    <3>2. (paid + amount) + (moving + 0) <= payable
      BY <2>1, <2>3, <1>1
    <3> QED
      BY <3>1, <3>2 DEF payable
  <2>5. CASE status = "PROCESSING"
    <3>1. Total(s, new, "PAID") = paid + 0 /\ Total(s, new, "PROCESSING") = moving + amount
      BY <2>2, <2>5
    <3>2. (paid + 0) + (moving + amount) <= payable
      BY <2>1, <2>3, <1>1
    <3> QED
      BY <3>1, <3>2 DEF payable
  <2> QED
    BY <2>4, <2>5
<1> QED
  BY <1>3, <1>4, <1>7, <1>8, <1>9, Synced

LEMMA PaymentRecorded ==
  ASSUME IInv, NEW s \in Supplier, NEW amount \in Amounts, NEW status \in {"PROCESSING", "PAID"},
         RecordPayment(s, amount, status)
  PROVE  IInv'
<1>1. invoice[s] \notin {None, 0}
  BY DEF RecordPayment, IInv, PaymentsInvoiced
<1> QED
  BY <1>1, PaymentAdded DEF RecordPayment

(* There are payments of a payable month only.                              *)
LEMMA PaymentStands ==
  ASSUME IInv, NEW n \in DOMAIN payment
  PROVE  /\ payment[n] \in Payment /\ payment[n].to \in Supplier
         /\ Status(payment[n].to) \in PayableStatuses /\ invoice[payment[n].to] \notin {None, 0}
<1>1. payment \in Seq(Payment) /\ payment # <<>>
  BY DEF IInv, TypeOK, Payment
<1>2. payment[n] \in Payment /\ payment[n].to \in Supplier
  BY <1>1, PaymentFields DEF Payment
<1> QED
  BY <1>1, <1>2, OpenMonth DEF IInv, PaymentsInvoiced

LEMMA PaymentRetried == ASSUME IInv, NEW n \in DOMAIN payment, RetryPayment(n) PROVE IInv'
<1> DEFINE p == payment[n]
<1>1. /\ p \in Payment /\ p.to \in Supplier
      /\ Status(p.to) \in PayableStatuses /\ invoice[p.to] \notin {None, 0}
  BY PaymentStands
<1>2. p.amount <= Available(p.to) /\ Sync(p.to, WithPayment(p.to, p.amount, "PROCESSING"))
  BY DEF RetryPayment
<1>3. p.amount \in Amounts
  BY <1>1 DEF Payment
<1> HIDE DEF p
<1> QED
  BY <1>1, <1>2, <1>3, PaymentAdded

LEMMA PaymentSettled ==
  ASSUME IInv, NEW n \in DOMAIN payment, NEW status \in PaymentStatus, SettlePayment(n, status)
  PROVE  IInv'
<1> DEFINE new == [payment EXCEPT ![n].status = status]
           s   == payment[n].to
           was == payment[n].status
           amount == payment[n].amount
<1>1. /\ payment \in Seq(Payment) /\ s \in Supplier /\ was \in PaymentStatus /\ amount \in Nat
      /\ Status(s) \in PayableStatuses /\ invoice[s] \notin {None, 0}
  BY PaymentStands, PaymentFields DEF IInv, TypeOK, Payment
<1>2. Sync(s, new) /\ status \in Outcomes[was]
  BY DEF SettlePayment
<1>3. \/ was = "PROCESSING" /\ status \in {"PAID", "FAILED", "CANCELLED"}
      \/ was = "PAID" /\ status = "REVERSED"
  <2> HIDE DEF was
  <2> QED
    BY <1>1, <1>2 DEF Outcomes, PaymentStatus
<1>4. /\ new \in Seq(Payment) /\ DOMAIN new = DOMAIN payment
      /\ new[n].to = s /\ new[n].amount = amount /\ new[n].status = status
      /\ \A m \in DOMAIN payment \ {n} : new[m] = payment[m]
  BY <1>1, ChangeIs
<1> HIDE DEF new
<1>5. was # status
  BY <1>3
<1>6. \A t, word : IF t = s /\ word = was
                   THEN Total(t, payment, word) = Total(t, new, word) + amount
                   ELSE Total(t, new, word)
                          = Total(t, payment, word) + IF t = s /\ word = status THEN amount ELSE 0
  <2>1. TypeOK /\ was # status
    BY <1>5 DEF IInv
  <2> QED
    BY <2>1, TotalsSettled DEF new
<1> HIDE DEF was, amount, s
<1>7. ASSUME NEW t \in Supplier \ {s}, NEW word PROVE Total(t, new, word) = Total(t, payment, word)
  <2> DEFINE old == Total(t, payment, word)
  <2>1. old \in Nat
    BY <1>1, TotalIs
  <2>2. Total(t, new, word) = old + 0
    BY <1>6
  <2> HIDE DEF old
  <2>3. old + 0 = old
    BY <2>1
  <2> QED
    BY <2>2, <2>3 DEF old
<1>8. \A m \in DOMAIN new : new[m].to = s \/ \E k \in DOMAIN payment : payment[k].to = new[m].to
  BY <1>4 DEF s
<1>9. Total(s, new, "PAID") + Total(s, new, "PROCESSING") <= Payable(s)
  <2> DEFINE paid    == Total(s, payment, "PAID")
             moving  == Total(s, payment, "PROCESSING")
             payable == Payable(s)
             paid1   == Total(s, new, "PAID")
             moving1 == Total(s, new, "PROCESSING")
  <2>1. /\ paid \in Nat /\ moving \in Nat /\ payable \in Nat /\ paid + moving <= payable
        /\ paid1 \in Nat /\ moving1 \in Nat
    BY <1>1, <1>4, AvailableIs, TotalIs
  <2>2. \/ moving = moving1 + amount /\ paid1 = paid + amount
        \/ moving = moving1 + amount /\ paid1 = paid + 0
        \/ paid = paid1 + amount /\ moving1 = moving + 0
    BY <1>3, <1>6
  <2> HIDE DEF paid, moving, payable, paid1, moving1
  <2>3. paid1 + moving1 <= payable
    BY <2>1, <2>2, <1>1
  <2> QED
    BY <2>3 DEF payable, paid1, moving1
<1> QED
  BY <1>1, <1>2, <1>4, <1>7, <1>8, <1>9, Synced
----------------------------------------------------------------------------
(* The invariant is inductive *)

LEMMA MonthStarts == Init => IInv
<1> SUFFICES ASSUME Init PROVE IInv
  OBVIOUS
<1> USE DEF Init
<1>1. \A s \in Supplier : settlement[s].lines = {} /\ settlement[s].source = {} /\ Status(s) = "NONE"
  BY DEF Status
<1>2. \A s \in Supplier : Net(s) = Gross[s] + 0 /\ Gross[s] \in Nat
  BY <1>1, SumEmpty, SettlementAssumption DEF Net, EffectOf
<1>3. \A s \in Supplier : Net(s) = Gross[s] /\ Net(s) \in Nat
  <2> TAKE s \in Supplier
  <2> DEFINE g == Gross[s]
  <2>1. Net(s) = g + 0 /\ g \in Nat
    BY <1>2
  <2> HIDE DEF g
  <2>2. g + 0 = g
    BY <2>1
  <2> QED
    BY <2>1, <2>2 DEF g
<1>4. settlement \in [Supplier -> [status : SettlementStatus, source : SUBSET Adj, lines : SUBSET Adj]]
  BY DEF SettlementStatus
<1>5. payment \in Seq(Payment) /\ DOMAIN payment = {}
  OBVIOUS
<1>6. TypeOK
  BY <1>3, <1>4, <1>5 DEF TypeOK, Payment
<1>7. MonthTogether
  BY <1>1 DEF MonthTogether
<1>8. LinesApproved /\ CalculatesOpen
  BY <1>1 DEF LinesApproved, CalculatesOpen
<1>9. PaymentsInvoiced
  BY <1>5 DEF PaymentsInvoiced
<1>10. StatusTold
  BY <1>1 DEF StatusTold, PayableStatuses
<1>11. ASSUME NEW s \in Supplier PROVE Available(s) >= 0
  <2>1. \A status : Total(s, payment, status) = 0
    BY <1>5, NothingPaid
  <2> DEFINE net == Net(s)
  <2>2. Available(s) = net - 0 - 0
    BY <2>1 DEF Available, Payable
  <2>3. net \in Nat
    BY <1>3
  <2> HIDE DEF net
  <2>4. net - 0 - 0 >= 0
    BY <2>3
  <2> QED
    BY <2>2, <2>4
<1> QED
  BY <1>6, <1>7, <1>8, <1>9, <1>10, <1>11 DEF IInv

LEMMA MonthGoesOn == IInv /\ [Next]_vars => IInv'
<1> SUFFICES ASSUME IInv, [Next]_vars PROVE IInv'
  OBVIOUS
<1>1. CASE UNCHANGED vars
  <2>1. UNCHANGED <<settlement, invoice, payment, adj, approving, calculating>>
    BY <1>1 DEF vars
  <2>2. \A s : ApprovedOf(s)' = ApprovedOf(s)
    BY <2>1 DEF ApprovedOf
  <2>3. CalculatesOpen'
    BY <2>1, <2>2 DEF IInv, CalculatesOpen, Status
  <2> QED
    BY <2>1, <2>3, StatementsStill DEF IInv, TypeOK
<1>2. ASSUME NEW a \in Adj,
             WriteAdjustment(a) \/ SubmitAdjustment(a) \/ ReturnAdjustment(a)
               \/ CheckAdjustment(a) \/ ApproveAdjustment(a)
      PROVE  IInv'
  BY <1>2, AdjustmentsMoved
<1>3. CASE ReadSource \/ Calculate \/ SubmitMonth \/ ApproveMonth \/ ReturnMonth \/ CloseMonth
  BY <1>3, SourceRead, Calculated, MonthReviewed, MonthApproved, MonthClosed
<1>4. ASSUME NEW s \in Supplier, NEW vat \in Vat, RecordInvoice(s, vat) PROVE IInv'
  BY <1>4, InvoiceRecorded
<1>5. ASSUME NEW s \in Supplier, NEW amount \in Amounts, NEW status \in {"PROCESSING", "PAID"},
             RecordPayment(s, amount, status)
      PROVE  IInv'
  BY <1>5, PaymentRecorded
<1>6. ASSUME NEW n \in DOMAIN payment, NEW status \in PaymentStatus, SettlePayment(n, status) PROVE IInv'
  BY <1>6, PaymentSettled
<1>7. ASSUME NEW n \in DOMAIN payment, RetryPayment(n) PROVE IInv'
  BY <1>7, PaymentRetried
<1> QED
  BY <1>1, <1>2, <1>3, <1>4, <1>5, <1>6, <1>7 DEF Next

(* A request does what one of the services does, or nothing.                *)
LEMMA RequestsAreSteps == [DeskNext]_vars => [Next]_vars
<1> SUFFICES ASSUME DeskNext PROVE Next
  OBVIOUS
<1>1. ASSUME NEW u \in User, NEW a \in Adj,
             \/ rental_adjustments_api(u, a) \/ rental_adjustment_detail_api(u, a)
             \/ \E action \in {"submit", "approve", "return", "reject"} :
                  rental_adjustment_workflow_api(u, a, action)
      PROVE  Next
  BY <1>1 DEF Next, rental_adjustments_api, rental_adjustment_detail_api, rental_adjustment_workflow_api
<1>2. ASSUME NEW u \in User,
             \/ rental_settlements_calculate_api(u)
             \/ \E action \in {"submit", "approve", "return", "close"} :
                  rental_settlements_workflow_api(u, action)
      PROVE  Next
  BY <1>2 DEF Next, rental_settlements_calculate_api, rental_settlements_workflow_api
<1>3. ASSUME NEW u \in User, NEW s \in Supplier,
             \/ \E vat \in Vat : document_generator_create_api(u, s, vat)
             \/ \E amount \in Amounts, status \in {"PROCESSING", "PAID"} :
                  supplier_payments_api(u, s, amount, status)
      PROVE  Next
  BY <1>3 DEF Next, document_generator_create_api, supplier_payments_api
<1>4. ASSUME NEW u \in User, NEW n \in DOMAIN payment,
             \/ \E status \in PaymentStatus : supplier_payment_result_api(u, n, status)
             \/ supplier_payment_retry_api(u, n)
      PROVE  Next
  BY <1>4 DEF Next, supplier_payment_result_api, supplier_payment_retry_api
<1>5. CASE Calculate \/ \E a \in Adj : ApproveAdjustment(a)
  BY <1>5 DEF Next
<1> QED
  BY <1>1, <1>2, <1>3, <1>4, <1>5 DEF DeskNext

(* Whatever users with whatever permissions request, the month takes the    *)
(* steps that its services allow and no other.                              *)
THEOREM RequestsKeepTheMonth == DeskSpec => Spec
BY RequestsAreSteps, PTL DEF DeskSpec, Spec

LEMMA IInvHolds == Spec => []IInv
<1>1. IInv /\ [Next]_vars => IInv'
  BY MonthGoesOn
<1>2. Init => IInv
  BY MonthStarts
<1> QED
  BY <1>1, <1>2, PTL DEF Spec
----------------------------------------------------------------------------
(* What follows *)

LEMMA SupplierInvFollows == IInv => SupplierInv
<1> SUFFICES ASSUME IInv PROVE SupplierInv
  OBVIOUS
<1>1. StatusAgrees
  <2>1. \A s \in Supplier : Status(s) \in PayableStatuses /\ Net(s) > 0 => Agrees(s)
    BY DEF IInv, StatusTold
  <2> QED
    BY <2>1 DEF StatusAgrees, Agrees
<1> QED
  BY <1>1 DEF IInv, SupplierInv

LEMMA NeverOverpaidFollows == IInv => NeverOverpaid
<1> SUFFICES ASSUME IInv, NEW s \in Supplier, invoice[s] = None
             PROVE  Paid(s) + Total(s, payment, "PROCESSING") = 0
  BY DEF IInv, NeverOverpaid
<1>1. payment \in Seq(Payment) /\ \A n \in DOMAIN payment : payment[n].to # s
  BY DEF IInv, TypeOK, Payment, PaymentsInvoiced
<1> QED
  BY <1>1, NothingPaid DEF Paid

(* No supplier is ever sent more than its invoice, whatever transfers fail, *)
(* are reversed and are retried, and nothing is sent before the invoice.    *)
THEOREM NobodyOverpaid == DeskSpec => []NeverOverpaid
BY RequestsKeepTheMonth, IInvHolds, NeverOverpaidFollows, PTL

(* The page of the month and the lookup of the payment form offer the same  *)
(* settlements for payment.                                                 *)
LEMMA ListsAgreeFollows == IInv => ListsAgree
<1> SUFFICES ASSUME IInv, NEW u \in User, CanPay(u)
             PROVE  \A s \in Supplier : MayBePaid(u, s) <=> LookedUp(s)
  BY DEF ListsAgree, rental_settlement_context
<1> TAKE s \in Supplier
<1>1. CASE invoice[s] = None
  <2>1. payment \in Seq(Payment) /\ \A n \in DOMAIN payment : payment[n].to # s
    BY <1>1 DEF IInv, TypeOK, Payment, PaymentsInvoiced
  <2>2. Total(s, payment, "PAID") = 0 /\ Total(s, payment, "PROCESSING") = 0
    BY <2>1, NothingPaid
  <2> QED
    BY <1>1, <2>2 DEF MayBePaid, LookedUp, Invoiced
<1>2. CASE invoice[s] # None
  <2> DEFINE payable == Payable(s)
             sent    == Total(s, payment, "PAID") + Total(s, payment, "PROCESSING")
             left    == Available(s)
  <2>1. payable \in Nat /\ sent \in Nat /\ left = payable - sent
    BY <1>2, AvailableIs
  <2> HIDE DEF payable, sent, left
  <2>2. left > 0 <=> payable > sent
    BY <2>1
  <2> QED
    BY <1>2, <2>2 DEF MayBePaid, LookedUp, Invoiced, payable, sent, left
<1> QED
  BY <1>1, <1>2

(* Every settlement of the month has the status its invoice and payments    *)
(* imply, until the month is approved its settlements move together and     *)
(* nothing is invoiced or paid, and the page of a month and the lookup of   *)
(* the payment drawer agree on which settlements can be paid, whoever asks. *)
THEOREM MonthAlwaysSound == DeskSpec => []SupplierDeskInv
<1>1. IInv => SupplierDeskInv
  BY SupplierInvFollows, ListsAgreeFollows DEF SupplierDeskInv
<1> QED
  BY <1>1, RequestsKeepTheMonth, IInvHolds, PTL

(* The services after which a settlement may have another status.           *)
LEMMA StatusMoves ==
  ASSUME IInv, [Next]_vars, NEW s \in Supplier, settlement'[s].status # Status(s)
  PROVE  \/ Status(s) \in {"NONE", "CALCULATED"} /\ Calculate
         \/ Status(s) = "CALCULATED" /\ SubmitMonth
         \/ Status(s) = "REVIEW" /\ (ApproveMonth \/ ReturnMonth)
         \/ Status(s) = "PAID" /\ CloseMonth
         \/ /\ Status(s) \in PayableStatuses
            /\ \/ \E amount \in Amounts, status \in {"PROCESSING", "PAID"} : RecordPayment(s, amount, status)
               \/ \E n \in DOMAIN payment :
                    /\ payment[n].to = s
                    /\ RetryPayment(n) \/ \E status \in PaymentStatus : SettlePayment(n, status)
<1>0. TypeOK /\ settlement \in [Supplier -> [status : SettlementStatus, source : SUBSET Adj, lines : SUBSET Adj]]
  BY DEF IInv, TypeOK
<1>1. settlement' # settlement
  BY DEF Status
<1>2. CASE Calculate
  BY <1>2 DEF Calculate, IInv, CalculatesOpen
<1>3. ASSUME NEW from \in SettlementStatus \ {"NONE"}, AllIn(from) PROVE Status(s) = from
  BY <1>3, EveryRow
<1>4. /\ SubmitMonth => Status(s) = "CALCULATED"
      /\ ApproveMonth \/ ReturnMonth => Status(s) = "REVIEW"
      /\ CloseMonth => Status(s) = "PAID"
  BY <1>3 DEF SubmitMonth, ApproveMonth, ReturnMonth, CloseMonth, Closable, SettlementStatus, PayableStatuses
<1>5. ASSUME NEW t \in Supplier, NEW new, Sync(t, new) PROVE t = s
  <2>1. settlement' = [settlement EXCEPT ![t].status =
          IF @ = "CLOSED" /\ Target(t, new) = "PAID" THEN @ ELSE Target(t, new)]
    BY <1>5 DEF Sync
  <2>2. t # s => settlement'[s] = settlement[s]
    BY <2>1, <1>0
  <2> QED
    BY <2>2 DEF Status
<1>6. ASSUME NEW t \in Supplier, NEW amount \in Amounts, NEW status \in {"PROCESSING", "PAID"},
             RecordPayment(t, amount, status)
      PROVE  t = s /\ Status(s) \in PayableStatuses
  BY <1>6, <1>5 DEF RecordPayment
<1>7. ASSUME NEW n \in DOMAIN payment, RetryPayment(n) \/ \E status \in PaymentStatus : SettlePayment(n, status)
      PROVE  payment[n].to = s /\ Status(s) \in PayableStatuses
  <2>1. payment[n].to \in Supplier /\ Status(payment[n].to) \in PayableStatuses
    BY PaymentStands
  <2>2. \E new : Sync(payment[n].to, new)
    BY <1>7 DEF RetryPayment, SettlePayment
  <2> QED
    BY <2>1, <2>2, <1>5
<1>8. ~ UNCHANGED vars /\ ~ ReadSource
  BY <1>1 DEF vars, ReadSource
<1>9. ASSUME NEW a \in Adj
      PROVE  ~ (WriteAdjustment(a) \/ SubmitAdjustment(a) \/ ReturnAdjustment(a)
                  \/ CheckAdjustment(a) \/ ApproveAdjustment(a))
  BY <1>1 DEF WriteAdjustment, SubmitAdjustment, ReturnAdjustment, CheckAdjustment, ApproveAdjustment
<1>10. ASSUME NEW t \in Supplier, NEW vat \in Vat PROVE ~ RecordInvoice(t, vat)
  BY <1>1 DEF RecordInvoice
<1> QED
  BY <1>2, <1>4, <1>6, <1>7, <1>8, <1>9, <1>10 DEF Next
LEMMA ApprovedTrueStep ==
  ASSUME IInv, [Next]_vars, NEW s \in Supplier, Status(s) = "REVIEW",
         settlement'[s].status \in PayableStatuses
  PROVE  settlement[s].lines = ApprovedOf(s)
<1>1. settlement'[s].status # Status(s)
  BY DEF PayableStatuses
<1>2. ApproveMonth \/ ReturnMonth
  BY <1>1, StatusMoves DEF PayableStatuses
<1>3. TypeOK /\ Rows = Supplier
  BY <1>2, EveryRow DEF IInv, ApproveMonth, ReturnMonth, SettlementStatus
<1>4. ~ ReturnMonth
  <2> SUFFICES ASSUME Move([t \in Rows |-> "CALCULATED"]) PROVE FALSE
    BY DEF ReturnMonth
  <2>1. Status(s)' = "CALCULATED"
    BY <1>3, StatusMoved
  <2> QED
    BY <2>1 DEF Status, PayableStatuses
<1>5. Fresh(s)
  BY <1>2, <1>3, <1>4 DEF ApproveMonth
<1> QED
  BY <1>5 DEF Fresh, IInv, LinesApproved

(* What is approved holds every adjustment that is approved at that moment  *)
(* and no other: the source is read before the lines and compared again, so *)
(* an adjustment between the two readings is noticed.                       *)
THEOREM ApprovalsCurrent == DeskSpec => ApprovedTrue
<1>1. IInv /\ [Next]_vars =>
        [\A s \in Supplier :
           Status(s) = "REVIEW" /\ settlement'[s].status \in PayableStatuses
             => settlement[s].lines = ApprovedOf(s)]_vars
  BY ApprovedTrueStep
<1> QED
  BY <1>1, RequestsKeepTheMonth, IInvHolds, PTL DEF ApprovedTrue, Spec

(* A closed settlement with payments is paid in full and nothing of it is   *)
(* under way.                                                               *)
LEMMA ClosedIsSettled ==
  ASSUME IInv, NEW n \in DOMAIN payment, Status(payment[n].to) = "CLOSED"
  PROVE  Total(payment[n].to, payment, "PROCESSING") = 0 /\ Available(payment[n].to) = 0
<1> DEFINE s       == payment[n].to
           paid    == Total(s, payment, "PAID")
           moving  == Total(s, payment, "PROCESSING")
           payable == Payable(s)
           left    == Available(s)
<1>1. s \in Supplier /\ Status(s) \in PayableStatuses /\ invoice[s] # None /\ PaymentsOf(s) # {}
  BY PaymentStands DEF PaymentsOf
<1>2. paid = payable
  BY <1>1 DEF IInv, StatusTold, Agrees, Paid
<1> HIDE DEF s
<1>3. /\ payable \in Nat /\ paid \in Nat /\ moving \in Nat
      /\ left = payable - (paid + moving) /\ paid + moving <= payable
  BY <1>1, AvailableIs
<1> HIDE DEF paid, moving, payable, left
<1>4. moving = 0 /\ left = 0
  BY <1>2, <1>3
<1> QED
  BY <1>4 DEF s, moving, left

LEMMA ClosedStep ==
  ASSUME IInv, [Next]_vars, NEW s \in Supplier, Status(s) = "CLOSED", settlement'[s].status # "CLOSED"
  PROVE  \E n \in DOMAIN payment :
           /\ payment[n].to = s /\ payment[n].status = "PAID" /\ payment'[n].status = "REVERSED"
<1>1. PICK n \in DOMAIN payment :
        /\ payment[n].to = s
        /\ RetryPayment(n) \/ \E status \in PaymentStatus : SettlePayment(n, status)
  BY StatusMoves DEF RecordPayment
<1> DEFINE amount == payment[n].amount
           was    == payment[n].status
<1>2. /\ payment \in Seq(Payment) /\ was \in PaymentStatus /\ amount \in Nat \ {0}
  BY PaymentStands, PaymentFields DEF IInv, TypeOK, Payment
<1>3. Total(s, payment, "PROCESSING") = 0 /\ Available(s) = 0
  BY <1>1, ClosedIsSettled
<1>4. ~ RetryPayment(n)
  BY <1>1, <1>2, <1>3 DEF RetryPayment
<1>5. PICK status \in PaymentStatus : SettlePayment(n, status)
  BY <1>1, <1>4
<1> DEFINE new == [payment EXCEPT ![n].status = status]
<1>6. payment' = new /\ status \in Outcomes[was]
  BY <1>5 DEF SettlePayment, Sync
<1>7. /\ new \in Seq(Payment) /\ DOMAIN new = DOMAIN payment
      /\ new[n].to = payment[n].to /\ new[n].amount = amount /\ new[n].status = status
      /\ \A m \in DOMAIN payment \ {n} : new[m] = payment[m]
  BY <1>2, ChangeIs
<1> HIDE DEF new
<1>8. CASE was = "PROCESSING"
  <2>1. status \in {"PAID", "FAILED", "CANCELLED"}
    BY <1>6, <1>8 DEF Outcomes
  <2>2. Total(s, payment, "PROCESSING") = Total(s, new, "PROCESSING") + amount
    BY <2>1, <1>1, <1>2, <1>7, <1>8, TotalsChanged
  <2> DEFINE rest == Total(s, new, "PROCESSING")
  <2>3. rest \in Nat /\ rest + amount = 0
    BY <2>2, <1>3, <1>7, TotalIs
  <2> HIDE DEF rest, amount
  <2> QED
    BY <2>3, <1>2
<1>9. CASE was # "PROCESSING"
  <2>1. was = "PAID" /\ status = "REVERSED"
    <3> HIDE DEF was
    <3> QED
      BY <1>2, <1>6, <1>9 DEF Outcomes, PaymentStatus
  <2> QED
    BY <2>1, <1>1, <1>6, <1>7
<1> QED
  BY <1>8, <1>9

(* A closed settlement is left through a reversal only: there is nothing    *)
(* left that a retry could send, and nothing under way that could fail.     *)
THEOREM ClosedStaysPaid == DeskSpec => ClosedUntilReversed
<1>1. IInv /\ [Next]_vars =>
        [\A s \in Supplier : Status(s) = "CLOSED" /\ settlement'[s].status # "CLOSED" =>
           \E n \in DOMAIN payment : /\ payment[n].to = s
                                     /\ payment[n].status = "PAID"
                                     /\ payment'[n].status = "REVERSED"]_vars
  BY ClosedStep
<1> QED
  BY <1>1, RequestsKeepTheMonth, IInvHolds, PTL DEF ClosedUntilReversed, Spec

-----------------------------------------------------------------------------
(* Settlements implement SupplierPromise                                    *)

promiseVars == <<EarnedBy, invoice, SentTo, PaidTo>>

(* In an approved month what is earned is a number for everybody; before    *)
(* it is nothing.                                                           *)
LEMMA EarnedIs ==
  ASSUME IInv
  PROVE  /\ Approved => /\ EarnedBy = [s \in Supplier |-> Net(s)]
                        /\ EarnedBy \in [Supplier -> Nat] /\ EarnedBy # None
         /\ ~Approved => EarnedBy = None
BY NoStatementAssumption DEF EarnedBy, IInv, TypeOK

LEMMA EarnedSame ==
  ASSUME IInv, Approved' <=> Approved, \A s \in Supplier : settlement'[s].lines = settlement[s].lines,
         \A a \in Adj : adj[a].status = "APPROVED" => adj'[a].effect = adj[a].effect
  PROVE  EarnedBy' = EarnedBy
<1>1. \A s \in Supplier : Net(s)' = Net(s)
  BY NetStill DEF IInv
<1> QED
  BY <1>1 DEF EarnedBy

LEMMA MoneySame == ASSUME payment' = payment PROVE SentTo' = SentTo /\ PaidTo' = PaidTo
BY DEF SentTo, PaidTo, Paid

LEMMA NothingPromised ==
  ASSUME IInv, UNCHANGED <<invoice, payment>>,
         \/ /\ UNCHANGED settlement
            /\ \A a \in Adj : adj[a].status = "APPROVED" => adj'[a].effect = adj[a].effect
         \/ ~Approved /\ ~Approved'
  PROVE  UNCHANGED promiseVars
<1>1. EarnedBy' = EarnedBy
  <2>1. CASE ~Approved /\ ~Approved'
    BY <2>1 DEF EarnedBy
  <2>2. ASSUME UNCHANGED settlement,
               \A a \in Adj : adj[a].status = "APPROVED" => adj'[a].effect = adj[a].effect
        PROVE  EarnedBy' = EarnedBy
    <3>1. Approved' <=> Approved
      BY <2>2 DEF Approved, Status
    <3> QED
      BY <2>2, <3>1, EarnedSame
  <2> QED
    BY <2>1, <2>2
<1> QED
  BY <1>1, MoneySame DEF promiseVars

LEMMA AdjustmentsUnseen ==
  ASSUME IInv, NEW a \in Adj,
         WriteAdjustment(a) \/ SubmitAdjustment(a) \/ ReturnAdjustment(a)
           \/ CheckAdjustment(a) \/ ApproveAdjustment(a)
  PROVE  UNCHANGED promiseVars
<1>1. UNCHANGED <<settlement, invoice, payment>>
  BY DEF WriteAdjustment, SubmitAdjustment, ReturnAdjustment, CheckAdjustment, ApproveAdjustment
<1>2. \A b \in Adj : adj[b].status = "APPROVED" => adj'[b].effect = adj[b].effect
  <2>1. adj \in [Adj -> [status : {"NONE", "DRAFT", "REVIEW", "APPROVED"}, effect : Effect \cup {0}]]
    BY DEF IInv, TypeOK
  <2>2. CASE WriteAdjustment(a)
    BY <2>1, <2>2 DEF WriteAdjustment
  <2>3. CASE SubmitAdjustment(a) \/ ReturnAdjustment(a)
    BY <2>1, <2>3 DEF SubmitAdjustment, ReturnAdjustment
  <2>4. CASE CheckAdjustment(a) \/ ApproveAdjustment(a)
    BY <2>1, <2>4 DEF CheckAdjustment, ApproveAdjustment
  <2> QED
    BY <2>2, <2>3, <2>4
<1> QED
  BY <1>1, <1>2, NothingPromised

(* Until the approval nothing is promised.                                  *)
LEMMA OpenUnseen ==
  ASSUME IInv, ReadSource \/ Calculate \/ SubmitMonth \/ ReturnMonth
  PROVE  UNCHANGED promiseVars
<1>1. CASE ReadSource
  BY <1>1, NothingPromised DEF ReadSource
<1>2. CASE Calculate
  <2>1. \A s \in Supplier : Status(s) \in {"NONE", "CALCULATED"}
    BY <1>2 DEF Calculate, IInv, CalculatesOpen
  <2>2. \A s \in Supplier : settlement'[s].status \in {settlement[s].status, "CALCULATED"}
    BY <1>2 DEF Calculate
  <2>3. ~Approved /\ ~Approved'
    BY <2>1, <2>2 DEF Approved, Status, PayableStatuses
  <2> QED
    BY <1>2, <2>3, NothingPromised DEF Calculate
<1>3. ASSUME NEW from \in {"CALCULATED", "REVIEW"}, NEW word \in {"CALCULATED", "REVIEW"},
             AllIn(from), Move([s \in Rows |-> word])
      PROVE  ~Approved /\ ~Approved'
  <2>1. Rows = Supplier /\ \A s \in Supplier : Status(s) = from
    BY <1>3, EveryRow DEF SettlementStatus
  <2>2. \A s \in Supplier : Status(s)' = word
    BY <1>3, <2>1, StatusMoved DEF IInv
  <2> QED
    BY <2>1, <2>2 DEF Approved, PayableStatuses
<1>4. CASE SubmitMonth \/ ReturnMonth
  <2>1. ~Approved /\ ~Approved'
    BY <1>3, <1>4 DEF SubmitMonth, ReturnMonth
  <2> QED
    BY <1>4, <2>1, NothingPromised DEF SubmitMonth, ReturnMonth
<1> QED
  BY <1>1, <1>2, <1>4

LEMMA ClosingUnseen == ASSUME IInv, CloseMonth PROVE UNCHANGED promiseVars
<1>1. /\ TypeOK /\ AllIn("PAID") /\ Move([s \in Rows |-> "CLOSED"])
      /\ UNCHANGED <<adj, invoice, payment>>
  BY DEF IInv, CloseMonth, Closable
<1>2. Rows = Supplier /\ \A s \in Supplier : Status(s) = "PAID"
  BY <1>1, EveryRow DEF SettlementStatus, PayableStatuses
<1>3. \A s \in Supplier : Status(s)' = "CLOSED" /\ settlement'[s].lines = settlement[s].lines
  BY <1>1, <1>2, StatusMoved
<1>4. Approved' <=> Approved
  BY <1>2, <1>3 DEF Approved, PayableStatuses
<1> QED
  BY <1>1, <1>3, <1>4, EarnedSame, MoneySame DEF promiseVars

LEMMA ApprovalPromises == ASSUME IInv, ApproveMonth, IInv' PROVE Promise!Approve
<1> DEFINE to == [s \in Rows |-> IF Net(s) = 0 THEN "PAID" ELSE "APPROVED"]
<1>1. TypeOK /\ AllIn("REVIEW") /\ Move(to) /\ UNCHANGED <<invoice, payment>>
  BY DEF IInv, ApproveMonth
<1>2. Rows = Supplier /\ Rows # {} /\ \A s \in Supplier : Status(s) = "REVIEW"
  BY <1>1, EveryRow DEF SettlementStatus, AllIn
<1>3. \A s \in Supplier : Status(s)' \in {"PAID", "APPROVED"}
  <2> TAKE s \in Supplier
  <2>1. Status(s)' = to[s]
    BY <1>1, <1>2, StatusMoved
  <2> QED
    BY <1>2, <2>1
<1>4. ~Approved /\ Approved'
  BY <1>2, <1>3 DEF Approved, PayableStatuses
<1>5. EarnedBy = None
  BY <1>4 DEF EarnedBy
<1>6. EarnedBy' \in [Supplier -> Nat]
  BY <1>4 DEF EarnedBy, IInv, TypeOK
<1> QED
  BY <1>1, <1>5, <1>6, MoneySame DEF Promise!Approve

LEMMA InvoicePromises ==
  ASSUME IInv, NEW s \in Supplier, NEW vat \in Vat, RecordInvoice(s, vat)
  PROVE  Promise!Invoice(s, vat)
<1>1. /\ Status(s) \in PayableStatuses /\ invoice[s] = None
      /\ invoice' = [invoice EXCEPT ![s] = Net(s) + vat]
      /\ UNCHANGED <<adj, settlement, payment>>
  BY DEF RecordInvoice
<1>2. Approved /\ Approved'
  BY <1>1 DEF Approved, Status
<1>3. EarnedBy # None /\ EarnedBy[s] = Net(s)
  BY <1>2, EarnedIs
<1>4. EarnedBy' = EarnedBy
  BY <1>1, <1>2, EarnedSame
<1> QED
  BY <1>1, <1>3, <1>4, MoneySame DEF Promise!Invoice

(* The payments of a supplier change: an approved month stays one.          *)
LEMMA SyncedEarned ==
  ASSUME IInv, NEW s \in Supplier, NEW new, Sync(s, new), Status(s) \in PayableStatuses
  PROVE  EarnedBy' = EarnedBy /\ invoice' = invoice /\ payment' = new
<1>1. /\ UNCHANGED <<adj, invoice>> /\ payment' = new
      /\ settlement \in [Supplier -> [status : SettlementStatus, source : SUBSET Adj, lines : SUBSET Adj]]
      /\ settlement' = [settlement EXCEPT ![s].status =
           IF @ = "CLOSED" /\ Target(s, new) = "PAID" THEN @ ELSE Target(s, new)]
  BY DEF Sync, IInv, TypeOK
<1>2. Target(s, new) \in PayableStatuses
  BY DEF Target, PayableStatuses
<1>3. /\ settlement'[s].status \in PayableStatuses
      /\ \A t \in Supplier : settlement'[t].lines = settlement[t].lines
  BY <1>1, <1>2 DEF PayableStatuses
<1>4. Approved /\ Approved'
  BY <1>3 DEF Approved, Status
<1> QED
  BY <1>1, <1>3, <1>4, EarnedSame

LEMMA MoneyTyped ==
  ASSUME IInv
  PROVE  SentTo \in [Supplier -> Nat] /\ PaidTo \in [Supplier -> Nat]
<1>1. payment \in Seq(Payment)
  BY DEF IInv, TypeOK, Payment
<1>2. \A s \in Supplier : Total(s, payment, "PROCESSING") \in Nat /\ Paid(s) \in Nat
  BY <1>1, TotalIs DEF Paid
<1> QED
  BY <1>2 DEF SentTo, PaidTo

(* Money moves where the payments of one supplier move.                     *)
LEMMA MoneyMoved ==
  ASSUME IInv, NEW s \in Supplier,
         \A t \in Supplier \ {s} : \A word : Total(t, payment, word)' = Total(t, payment, word)
  PROVE  /\ SentTo' = [SentTo EXCEPT ![s] = Total(s, payment, "PROCESSING")']
         /\ PaidTo' = [PaidTo EXCEPT ![s] = Total(s, payment, "PAID")']
BY MoneyTyped DEF SentTo, PaidTo, Paid

(* A payment on an invoice that covers it sends the money, or hands it over. *)
LEMMA PaymentPromises ==
  ASSUME IInv, NEW s \in Supplier, NEW amount \in Amounts, NEW status \in {"PROCESSING", "PAID"},
         Status(s) \in PayableStatuses, invoice[s] \notin {None, 0},
         amount <= Available(s), Sync(s, WithPayment(s, amount, status))
  PROVE  Promise!Move(s)
<1>1. EarnedBy' = EarnedBy /\ invoice' = invoice /\ payment' = WithPayment(s, amount, status)
  BY SyncedEarned
<1>2. \A t, word : Total(t, payment, word)'
                     = Total(t, payment, word) + IF s = t /\ status = word THEN amount ELSE 0
  BY <1>1, TotalsWith
<1>3. /\ SentTo \in [Supplier -> Nat] /\ PaidTo \in [Supplier -> Nat] /\ amount \in Nat
      /\ SentTo[s] = Total(s, payment, "PROCESSING") /\ PaidTo[s] = Total(s, payment, "PAID")
      /\ \A t \in Supplier : \A word : Total(t, payment, word) \in Nat
  <2>1. payment \in Seq(Payment)
    BY DEF IInv, TypeOK, Payment
  <2> QED
    BY <2>1, MoneyTyped, TotalIs, SettlementAssumption DEF SentTo, PaidTo, Paid
<1> DEFINE moving == SentTo[s]
           paid   == PaidTo[s]
<1>4. \A t \in Supplier \ {s} : \A word : Total(t, payment, word)' = Total(t, payment, word)
  <2> TAKE t \in Supplier \ {s}
  <2> TAKE word
  <2> DEFINE old == Total(t, payment, word)
             new == Total(t, payment, word)'
  <2>1. old \in Nat /\ new = old + 0
    BY <1>2, <1>3
  <2> HIDE DEF old, new
  <2>2. new = old
    BY <2>1
  <2> QED
    BY <2>2 DEF old, new
<1>5. /\ SentTo' = [SentTo EXCEPT ![s] = Total(s, payment, "PROCESSING")']
      /\ PaidTo' = [PaidTo EXCEPT ![s] = Total(s, payment, "PAID")']
  BY <1>4, MoneyMoved
<1>6. Promise!Covers(s, amount)
  <2>1. Available(s) = invoice[s] - (paid + moving) /\ invoice[s] \in Nat
    BY <1>3, AvailableIs DEF Payable
  <2>2. paid \in Nat /\ moving \in Nat
    BY <1>3
  <2> HIDE DEF paid, moving
  <2>3. paid + moving + amount <= invoice[s]
    BY <1>3, <2>1, <2>2
  <2> QED
    BY <2>3 DEF Promise!Covers, paid, moving
<1>7. CASE status = "PROCESSING"
  <2>1. /\ Total(s, payment, "PROCESSING")' = moving + amount
        /\ Total(s, payment, "PAID")' = paid + 0
    BY <1>2, <1>3, <1>7
  <2>2. paid + 0 = paid
    BY <1>3
  <2>3. SentTo' = [SentTo EXCEPT ![s] = @ + amount] /\ PaidTo' = PaidTo
    BY <1>3, <1>5, <2>1, <2>2
  <2>4. Promise!Send(s, amount)
    BY <1>6, <2>3 DEF Promise!Send
  <2> QED
    BY <1>1, <2>4 DEF Promise!Move
<1>8. CASE status = "PAID"
  <2>1. /\ Total(s, payment, "PROCESSING")' = moving + 0
        /\ Total(s, payment, "PAID")' = paid + amount
    BY <1>2, <1>3, <1>8
  <2>2. moving + 0 = moving
    BY <1>3
  <2>3. PaidTo' = [PaidTo EXCEPT ![s] = @ + amount] /\ SentTo' = SentTo
    BY <1>3, <1>5, <2>1, <2>2
  <2>4. Promise!HandOver(s, amount)
    BY <1>6, <2>3 DEF Promise!HandOver
  <2> QED
    BY <1>1, <2>4 DEF Promise!Move
<1> QED
  BY <1>7, <1>8

(* A result: money on its way arrives or comes back, or is taken back.      *)
LEMMA ResultPromises ==
  ASSUME IInv, NEW n \in DOMAIN payment, NEW status \in PaymentStatus, SettlePayment(n, status),
         NEW s, s = payment[n].to
  PROVE  Promise!Move(s)
<1>0. PICK was, amount : was = payment[n].status /\ amount = payment[n].amount
  OBVIOUS
<1>1. /\ payment \in Seq(Payment) /\ s \in Supplier /\ was \in PaymentStatus
      /\ amount \in Nat /\ amount \in Amounts
      /\ Status(s) \in PayableStatuses /\ invoice[s] # None
  BY <1>0, PaymentStands, PaymentFields DEF IInv, TypeOK, Payment
<1>2. Sync(s, [payment EXCEPT ![n].status = status]) /\ status \in Outcomes[was]
  BY <1>0 DEF SettlePayment
<1>3. EarnedBy' = EarnedBy /\ invoice' = invoice /\ payment' = [payment EXCEPT ![n].status = status]
  BY <1>1, <1>2, SyncedEarned
<1>4. \/ was = "PROCESSING" /\ status \in {"PAID", "FAILED", "CANCELLED"}
      \/ was = "PAID" /\ status = "REVERSED"
  BY <1>1, <1>2 DEF Outcomes, PaymentStatus
<1>5. \A t, word : IF t = s /\ word = was
                   THEN Total(t, payment, word) = Total(t, payment, word)' + amount
                   ELSE Total(t, payment, word)'
                          = Total(t, payment, word) + IF t = s /\ word = status THEN amount ELSE 0
  <2>1. TypeOK /\ was # status
    BY <1>4 DEF IInv
  <2>2. \A t, word :
          IF t = s /\ word = was
          THEN Total(t, payment, word) = Total(t, [payment EXCEPT ![n].status = status], word) + amount
          ELSE Total(t, [payment EXCEPT ![n].status = status], word)
                 = Total(t, payment, word) + IF t = s /\ word = status THEN amount ELSE 0
    BY <1>0, <2>1, TotalsSettled
  <2> QED
    BY <1>3, <2>2
<1>6. /\ SentTo \in [Supplier -> Nat] /\ PaidTo \in [Supplier -> Nat]
      /\ SentTo[s] = Total(s, payment, "PROCESSING") /\ PaidTo[s] = Total(s, payment, "PAID")
      /\ \A t \in Supplier : \A word : Total(t, payment, word) \in Nat
      /\ \A word : Total(s, payment, word)' \in Nat
  <2>1. payment' \in Seq(Payment)
    BY <1>1, <1>3, ChangeIs
  <2> QED
    BY <1>1, <2>1, MoneyTyped, TotalIs DEF SentTo, PaidTo, Paid
<1> DEFINE moving == SentTo[s]
           paid   == PaidTo[s]
           moving1 == Total(s, payment, "PROCESSING")'
           paid1   == Total(s, payment, "PAID")'
<1>7. SentTo' = [SentTo EXCEPT ![s] = moving1] /\ PaidTo' = [PaidTo EXCEPT ![s] = paid1]
  <2>1. ASSUME NEW t \in Supplier \ {s}, NEW word
        PROVE  Total(t, payment, word)' = Total(t, payment, word)
    <3> DEFINE old == Total(t, payment, word)
               new == Total(t, payment, word)'
    <3>1. old \in Nat /\ new = old + 0
      BY <1>5, <1>6
    <3> HIDE DEF old, new
    <3>2. new = old
      BY <3>1
    <3> QED
      BY <3>2 DEF old, new
  <2> QED
    BY <1>1, <2>1, MoneyMoved
<1>8. moving \in Nat /\ paid \in Nat /\ moving1 \in Nat /\ paid1 \in Nat
  BY <1>1, <1>6
<1>9. /\ was = "PROCESSING" /\ status = "PAID" => moving = moving1 + amount /\ paid1 = paid + amount
      /\ was = "PROCESSING" /\ status \in {"FAILED", "CANCELLED"} => moving = moving1 + amount /\ paid1 = paid + 0
      /\ was = "PAID" => paid = paid1 + amount /\ moving1 = moving + 0
  <2>1. \A word : IF word = was THEN Total(s, payment, word) = Total(s, payment, word)' + amount
                 ELSE Total(s, payment, word)'
                        = Total(s, payment, word) + IF word = status THEN amount ELSE 0
    BY <1>5
  <2>2. moving = Total(s, payment, "PROCESSING") /\ paid = Total(s, payment, "PAID")
    BY <1>6
  <2>3. CASE was = "PROCESSING"
    BY <1>4, <2>1, <2>2, <2>3
  <2>4. CASE was = "PAID"
    BY <1>4, <2>1, <2>2, <2>4
  <2> QED
    BY <1>4, <2>3, <2>4
<1>10. CASE was = "PROCESSING" /\ status = "PAID"
  <2>1. moving = moving1 + amount /\ paid1 = paid + amount
    BY <1>9, <1>10
  <2> HIDE DEF moving, paid, moving1, paid1
  <2>2. amount <= moving /\ moving1 = moving - amount
    BY <1>1, <1>8, <2>1
  <2>3. Promise!Arrive(s, amount)
    BY <1>7, <2>1, <2>2 DEF Promise!Arrive, moving, paid
  <2> QED
    BY <1>1, <1>3, <2>3 DEF Promise!Move
<1>11. CASE was = "PROCESSING" /\ status \in {"FAILED", "CANCELLED"}
  <2>1. moving = moving1 + amount /\ paid1 = paid + 0
    BY <1>9, <1>11
  <2> HIDE DEF moving, paid, moving1, paid1
  <2>2. amount <= moving /\ moving1 = moving - amount /\ paid1 = paid
    BY <1>1, <1>8, <2>1
  <2>3. Promise!ComeBack(s, amount)
    BY <1>6, <1>7, <2>2 DEF Promise!ComeBack, moving, paid
  <2> QED
    BY <1>1, <1>3, <2>3 DEF Promise!Move
<1>12. CASE was = "PAID"
  <2>1. paid = paid1 + amount /\ moving1 = moving + 0
    BY <1>9, <1>12
  <2> HIDE DEF moving, paid, moving1, paid1
  <2>2. amount <= paid /\ paid1 = paid - amount /\ moving1 = moving
    BY <1>1, <1>8, <2>1
  <2>3. Promise!TakeBack(s, amount)
    BY <1>6, <1>7, <2>2 DEF Promise!TakeBack, moving, paid
  <2> QED
    BY <1>1, <1>3, <2>3 DEF Promise!Move
<1> QED
  BY <1>4, <1>10, <1>11, <1>12

-----------------------------------------------------------------------------
LEMMA PromiseStarts == Init => Promise!Init
<1> SUFFICES ASSUME Init PROVE Promise!Init
  OBVIOUS
<1>1. \A s \in Supplier : Status(s) = "NONE"
  BY DEF Init, Status
<1>2. EarnedBy = None
  BY <1>1 DEF EarnedBy, Approved, PayableStatuses
<1>3. \A s \in Supplier : \A status : Total(s, payment, status) = 0
  <2>1. payment \in Seq(Payment) /\ DOMAIN payment = {}
    BY DEF Init
  <2> QED
    BY <2>1, NothingPaid
<1> QED
  BY <1>2, <1>3 DEF Init, Promise!Init, SentTo, PaidTo, Paid

LEMMA PromiseKept ==
  ASSUME IInv, IInv', [Next]_vars
  PROVE  Promise!Next \/ UNCHANGED promiseVars
<1>1. ASSUME NEW a \in Adj, WriteAdjustment(a) \/ SubmitAdjustment(a) \/ ReturnAdjustment(a)
                              \/ CheckAdjustment(a) \/ ApproveAdjustment(a)
      PROVE  UNCHANGED promiseVars
  BY <1>1, AdjustmentsUnseen
<1>2. CASE ReadSource \/ Calculate \/ SubmitMonth \/ ReturnMonth
  BY <1>2, OpenUnseen
<1>3. CASE ApproveMonth
  BY <1>3, ApprovalPromises DEF Promise!Next
<1>4. CASE CloseMonth
  BY <1>4, ClosingUnseen
<1>5. ASSUME NEW s \in Supplier, NEW vat \in Vat, RecordInvoice(s, vat) PROVE Promise!Next
  BY <1>5, InvoicePromises DEF Promise!Next
<1>6. ASSUME NEW s \in Supplier, NEW amount \in Amounts, NEW status \in {"PROCESSING", "PAID"},
             RecordPayment(s, amount, status)
      PROVE  Promise!Next
  <2>1. invoice[s] \notin {None, 0}
    BY <1>6 DEF RecordPayment, IInv, PaymentsInvoiced
  <2>2. Promise!Move(s)
    BY <1>6, <2>1, PaymentPromises DEF RecordPayment
  <2> QED
    BY <2>2 DEF Promise!Next
<1>7. ASSUME NEW n \in DOMAIN payment, NEW status \in PaymentStatus, SettlePayment(n, status)
      PROVE  Promise!Next
  <2>1. payment[n].to \in Supplier /\ Promise!Move(payment[n].to)
    BY <1>7, ResultPromises, PaymentStands
  <2> QED
    BY <2>1 DEF Promise!Next
<1>8. ASSUME NEW n \in DOMAIN payment, RetryPayment(n) PROVE Promise!Next
  <2> DEFINE p == payment[n]
  <2>1. /\ p \in Payment /\ p.to \in Supplier
        /\ Status(p.to) \in PayableStatuses /\ invoice[p.to] \notin {None, 0}
    BY PaymentStands
  <2>2. p.amount <= Available(p.to) /\ Sync(p.to, WithPayment(p.to, p.amount, "PROCESSING"))
    BY <1>8 DEF RetryPayment
  <2>3. p.amount \in Amounts
    BY <2>1 DEF Payment
  <2> HIDE DEF p
  <2>4. Promise!Move(p.to)
    BY <2>1, <2>2, <2>3, PaymentPromises
  <2> QED
    BY <2>1, <2>4 DEF Promise!Next
<1>9. CASE UNCHANGED vars
  BY <1>9, NothingPromised DEF vars
<1> QED
  BY <1>1, <1>2, <1>3, <1>4, <1>5, <1>6, <1>7, <1>8, <1>9 DEF Next

(* Whatever is adjusted, failed, reversed and retried, every supplier is    *)
(* paid what was approved, with the VAT of one invoice, and no more than    *)
(* that is ever under way or paid: the services of a month implement the    *)
(* promise made at its approval.                                            *)
THEOREM AlwaysSettlesAsPromised == DeskSpec => SettlesAsPromised
<1>1. IInv /\ IInv' /\ [Next]_vars => [Promise!Next]_promiseVars
  BY PromiseKept
<1> QED
  BY <1>1, RequestsKeepTheMonth, IInvHolds, PromiseStarts, PTL
     DEF Spec, SettlesAsPromised, Promise!Spec, promiseVars

-----------------------------------------------------------------------------
(***************************************************************************)
(* Assignments and timesheets: however assignments, terminations and       *)
(* masters are backdated, scheduled and cancelled, a worker's history is   *)
(* one line of days, and what the timesheets say of it stays true.         *)
(***************************************************************************)

(* The line of a history: segments in force share no day, and a revision   *)
(* in force continues one that is.                                         *)
LiveIn(h) == {n \in DOMAIN h : ~h[n].cancelled}

Apart(s, z) == s.to < z.from \/ z.to < s.from

Line(h) ==
  /\ h \in Seq(Segment) /\ Len(h) <= MaxSegments
  /\ \A n, b \in LiveIn(h) : n # b => Apart(h[n], h[b])
  /\ \A n \in LiveIn(h) :
       h[n].kind = "REVISION" => \E b \in LiveIn(h) : h[b].to = h[n].from - 1

Lines == \A w \in Worker : Line(segs[w])

(* RowsInForce and ReviewedComplete need no more than the types.           *)
RentalIInv == RentalTypeOK /\ Lines /\ RowsInForce /\ ReviewedComplete

-----------------------------------------------------------------------------
USE RentalAssumption DEF rentalVars

(* Days, months and the last day of a month.                               *)
LEMMA DayFacts ==
  /\ Day \subseteq Nat \ {0} /\ Open \in Nat /\ Open \notin Day
  /\ \A d \in Day : d >= 1 /\ d <= MaxDay /\ d < Open /\ MonthOf[d] \in Month
  /\ \A d \in Nat : d \in Day <=> 1 <= d /\ d <= MaxDay
BY DEF Day, Open, Month

(* The last day of a month is one of its days, and no day of it is later.  *)
LEMMA LastIsLast ==
  ASSUME NEW m \in Month
  PROVE  LastDay(m) \in Day /\ \A e \in DaysOf(m) : e <= LastDay(m)
<1> DEFINE S == 1..MaxDay
           After(d) == (d + 1)..MaxDay
           T == {After(d) : d \in DaysOf(m)}
<1>1. IsFiniteSet(S)
  BY FS_Interval
<1>2. DaysOf(m) # {} /\ DaysOf(m) \subseteq S
  BY DEF Month, DaysOf, Day
<1>3. T \subseteq SUBSET S /\ T # {}
  BY <1>2
<1> HIDE DEF T, S
<1>4. PICK x \in T : \A y \in T : y \subseteq x => y = x
  BY <1>1, <1>3, SmallestSubset
<1>5. PICK d \in DaysOf(m) : x = After(d)
  BY <1>4 DEF T
<1>6. \A e \in DaysOf(m) : e <= d
  <2> SUFFICES ASSUME NEW e \in DaysOf(m), e > d PROVE FALSE
    BY <1>2 DEF S
  <2>1. e \in 1..MaxDay /\ d \in 1..MaxDay
    BY <1>2 DEF S
  <2>2. After(e) \subseteq After(d) /\ e \in After(d) /\ e \notin After(e)
    BY <2>1
  <2>3. After(e) \in T
    BY DEF T
  <2> QED
    BY <1>4, <1>5, <2>2, <2>3
<1>7. \E l \in DaysOf(m) : \A e \in DaysOf(m) : e <= l
  BY <1>6
<1>8. LastDay(m) \in DaysOf(m) /\ \A e \in DaysOf(m) : e <= LastDay(m)
  BY <1>7 DEF LastDay
<1> QED
  BY <1>8 DEF DaysOf

(* What the types say of a segment.                                        *)
LEMMA SegmentFacts ==
  ASSUME NEW s \in Segment
  PROVE  /\ s.site \in Site /\ s.from \in Day /\ s.to \in Day \cup {Open}
         /\ s.kind \in {"ASSIGNMENT", "REVISION"}
         /\ s.released \in BOOLEAN /\ s.cancelled \in BOOLEAN
         /\ s.from \in Nat /\ s.to \in Nat /\ 1 <= s.from /\ s.from <= MaxDay
         /\ s.from <= s.to /\ s.to <= MaxDay + 1
         /\ ~(s.cancelled /\ s.to # Open) /\ ~(s.released /\ s.to = Open)
BY DEF Segment, Day, Open

(* What the types say of a history.                                        *)
LEMMA HistoryFacts ==
  ASSUME NEW h \in Seq(Segment)
  PROVE  /\ Len(h) \in Nat /\ DOMAIN h = 1..Len(h)
         /\ \A n \in DOMAIN h : h[n] \in Segment
         /\ \A n \in LiveIn(h) : n \in DOMAIN h /\ h[n] \in Segment /\ ~h[n].cancelled
BY DEF LiveIn

(* The count: two open segments would share the last day.                  *)
LEMMA HistoryHolds == RentalIInv => HistoryContiguous
<1> SUFFICES ASSUME RentalIInv, NEW w \in Worker
             PROVE  /\ \A n, b \in Live(w) : n # b =>
                         ~\E d \in Day : Covers(segs[w][n], d) /\ Covers(segs[w][b], d)
                    /\ Cardinality(OpenOf(w)) <= 1
                    /\ \A n \in Live(w) : segs[w][n].kind = "REVISION" => Predecessor(w, n) # {}
  BY DEF HistoryContiguous
<1> DEFINE h == segs[w]
<1>1. /\ h \in Seq(Segment) /\ Live(w) = LiveIn(h) /\ OpenOf(w) \subseteq Live(w)
      /\ \A n, b \in LiveIn(h) : n # b => Apart(h[n], h[b])
  BY DEF RentalIInv, Lines, Line, Live, LiveIn, OpenOf
<1>2. ASSUME NEW n \in Live(w), NEW b \in Live(w), n # b, NEW d \in Day
      PROVE  ~(Covers(h[n], d) /\ Covers(h[b], d))
  <2>1. Apart(h[n], h[b]) /\ h[n] \in Segment /\ h[b] \in Segment
    BY <1>1, <1>2, HistoryFacts
  <2>2. /\ h[n].from \in Nat /\ h[n].to \in Nat /\ h[b].from \in Nat /\ h[b].to \in Nat
        /\ d \in Nat
    BY <2>1, SegmentFacts, DayFacts
  <2> HIDE DEF h
  <2> QED
    BY <2>1, <2>2 DEF Covers, Apart
<1>3. \A n, b \in OpenOf(w) : n = b
  <2> SUFFICES ASSUME NEW n \in OpenOf(w), NEW b \in OpenOf(w), n # b PROVE FALSE
    OBVIOUS
  <2>1. /\ Apart(h[n], h[b]) /\ h[n] \in Segment /\ h[b] \in Segment
        /\ h[n].to = MaxDay + 1 /\ h[b].to = MaxDay + 1
    BY <1>1, HistoryFacts DEF OpenOf, Open
  <2> QED
    BY <2>1, SegmentFacts DEF Apart
<1>4. Cardinality(OpenOf(w)) <= 1
  <2>1. CASE OpenOf(w) = {}
    BY <2>1, FS_EmptySet
  <2>2. CASE OpenOf(w) # {}
    <3>1. PICK n \in OpenOf(w) : OpenOf(w) = {n}
      BY <1>3, <2>2
    <3>2. Cardinality({n}) = 1
      BY FS_Singleton
    <3> QED
      BY <3>1, <3>2
  <2> QED
    BY <2>1, <2>2
<1> QED
  BY <1>1, <1>2, <1>4 DEF RentalIInv, Lines, Line, Predecessor

-----------------------------------------------------------------------------
(* A segment added after all that is in force: _create_segment.            *)
LEMMA AppendedLine ==
  ASSUME NEW h, Line(h), Len(h) < MaxSegments, NEW p \in Site, NEW d \in Day, Free(h, d),
         NEW kind \in {"ASSIGNMENT", "REVISION"},
         kind = "REVISION" => \E b \in LiveIn(h) : h[b].to = d - 1
  PROVE  LET new == [site |-> p, from |-> d, to |-> Open, kind |-> kind,
                     released |-> FALSE, cancelled |-> FALSE]
         IN  Line(Append(h, new))
<1> DEFINE new == [site |-> p, from |-> d, to |-> Open, kind |-> kind,
                   released |-> FALSE, cancelled |-> FALSE]
           g == Append(h, new)
<1>1. /\ new \in Segment /\ new.from = d /\ new.to = MaxDay + 1 /\ new.kind = kind
      /\ ~new.cancelled
  BY DayFacts DEF Segment, Open
<1>2. /\ h \in Seq(Segment) /\ Len(h) \in Nat /\ DOMAIN h = 1..Len(h)
      /\ \A n \in DOMAIN h : h[n] \in Segment
  BY HistoryFacts DEF Line
<1> HIDE DEF new
<1>3. /\ g \in Seq(Segment) /\ Len(g) = Len(h) + 1 /\ DOMAIN g = 1..(Len(h) + 1)
      /\ g[Len(h) + 1] = new /\ \A n \in DOMAIN h : g[n] = h[n]
  BY <1>1, <1>2
<1> HIDE DEF g
<1>4. LiveIn(g) = LiveIn(h) \cup {Len(h) + 1}
  BY <1>1, <1>2, <1>3 DEF LiveIn
<1>5. \A n \in LiveIn(h) : g[n] = h[n] /\ g[n].to < d /\ n # Len(h) + 1
  BY <1>2, <1>3 DEF LiveIn, Free
<1>6. ASSUME NEW n \in LiveIn(g), NEW b \in LiveIn(g), n # b
      PROVE  Apart(g[n], g[b])
  <2>1. CASE n \in LiveIn(h) /\ b \in LiveIn(h)
    BY <1>5, <1>6, <2>1 DEF Line
  <2>2. CASE n = Len(h) + 1
    BY <1>1, <1>3, <1>4, <1>5, <1>6, <2>2 DEF Apart
  <2>3. CASE b = Len(h) + 1
    BY <1>1, <1>3, <1>4, <1>5, <1>6, <2>3 DEF Apart
  <2> QED
    BY <1>4, <2>1, <2>2, <2>3
<1>7. ASSUME NEW n \in LiveIn(g), g[n].kind = "REVISION"
      PROVE  \E b \in LiveIn(g) : g[b].to = g[n].from - 1
  <2>1. CASE n \in LiveIn(h)
    <3>1. h[n].kind = "REVISION" /\ g[n] = h[n]
      BY <1>5, <1>7, <2>1
    <3>2. PICK b \in LiveIn(h) : h[b].to = h[n].from - 1
      BY <2>1, <3>1 DEF Line
    <3> QED
      BY <1>4, <1>5, <3>1, <3>2
  <2>2. CASE n = Len(h) + 1
    BY <1>1, <1>3, <1>4, <1>5, <1>7, <2>2
  <2> QED
    BY <1>4, <2>1, <2>2
<1>8. Len(g) <= MaxSegments
  BY <1>2, <1>3
<1> QED
  BY <1>3, <1>6, <1>7, <1>8 DEF Line, g, new

(* One segment of a history replaced.                                      *)
LEMMA Replaced ==
  ASSUME NEW h \in Seq(Segment), NEW n \in DOMAIN h, NEW s \in Segment
  PROVE  /\ [h EXCEPT ![n] = s] \in Seq(Segment)
         /\ Len([h EXCEPT ![n] = s]) = Len(h)
         /\ DOMAIN [h EXCEPT ![n] = s] = DOMAIN h
         /\ [h EXCEPT ![n] = s][n] = s
         /\ \A b \in DOMAIN h \ {n} : [h EXCEPT ![n] = s][b] = h[b]
OBVIOUS

(* An open segment that ends, for a revision or with a release.            *)
LEMMA CutLine ==
  ASSUME NEW h, Line(h), NEW n \in LiveIn(h), h[n].to = Open, NEW s \in Segment,
         s.site = h[n].site, s.from = h[n].from, s.kind = h[n].kind, ~s.cancelled, s.to \in Day
  PROVE  Line([h EXCEPT ![n] = s])
<1> DEFINE g == [h EXCEPT ![n] = s]
<1>1. /\ h \in Seq(Segment) /\ n \in DOMAIN h /\ \A b \in LiveIn(h) : h[b] \in Segment
  BY HistoryFacts DEF Line
<1>2. /\ g \in Seq(Segment) /\ Len(g) = Len(h) /\ DOMAIN g = DOMAIN h /\ g[n] = s
      /\ \A b \in DOMAIN h \ {n} : g[b] = h[b]
  BY <1>1, Replaced
<1> HIDE DEF g
<1>3. LiveIn(g) = LiveIn(h)
  BY <1>1, <1>2 DEF LiveIn
<1>4. ASSUME NEW a \in LiveIn(h), NEW b \in LiveIn(h), a # b
      PROVE  Apart(g[a], g[b])
  <2>1. Apart(h[a], h[b]) /\ h[a] \in Segment /\ h[b] \in Segment
    BY <1>1, <1>4 DEF Line
  <2>2. s.to \in Nat /\ s.to < Open /\ Open \in Nat
    BY DayFacts
  <2>0. /\ h[a].from \in Nat /\ h[a].to \in Nat /\ h[a].to <= Open
        /\ h[b].from \in Nat /\ h[b].to \in Nat /\ h[b].to <= Open
    BY <2>1, SegmentFacts DEF Open
  <2>3. CASE a = n
    <3>1. g[a] = s /\ g[b] = h[b] /\ s.from = h[a].from /\ h[a].to = Open
      BY <1>1, <1>2, <1>4, <2>3 DEF LiveIn
    <3> QED
      BY <2>0, <2>1, <2>2, <3>1 DEF Apart
  <2>4. CASE b = n
    <3>1. g[b] = s /\ g[a] = h[a] /\ s.from = h[b].from /\ h[b].to = Open
      BY <1>1, <1>2, <1>4, <2>4 DEF LiveIn
    <3> QED
      BY <2>0, <2>1, <2>2, <3>1 DEF Apart
  <2>5. CASE a # n /\ b # n
    BY <1>2, <2>1, <2>5 DEF LiveIn
  <2> QED
    BY <2>3, <2>4, <2>5
<1>5. ASSUME NEW a \in LiveIn(h), g[a].kind = "REVISION"
      PROVE  \E b \in LiveIn(h) : g[b].to = g[a].from - 1
  <2>1. h[a].kind = "REVISION" /\ g[a].from = h[a].from
    BY <1>2, <1>5 DEF LiveIn
  <2>2. PICK b \in LiveIn(h) : h[b].to = h[a].from - 1
    BY <2>1 DEF Line
  <2>3. h[b].to <= MaxDay
    BY <1>1, <2>2, SegmentFacts
  <2>4. b # n
    BY <2>3 DEF Open
  <2> QED
    BY <1>2, <2>1, <2>2, <2>4 DEF LiveIn
<1> QED
  BY <1>2, <1>3, <1>4, <1>5 DEF Line, g

(* A scheduled segment is cancelled; if it is a revision, the one it       *)
(* continued is open again.  With b = n it is a new assignment.            *)
LEMMA CancelledLine ==
  ASSUME NEW h, Line(h), NEW n \in LiveIn(h), h[n].to = Open, NEW b \in LiveIn(h),
         b # n => h[b].to = h[n].from - 1 /\ ~h[b].released,
         NEW x \in Segment, x.from = h[n].from, x.cancelled, x.to = Open,
         NEW s \in Segment, b # n => s.from = h[b].from /\ s.kind = h[b].kind /\ ~s.cancelled,
         b # n => s.to = Open, b = n => s = x
  PROVE  Line([[h EXCEPT ![n] = x] EXCEPT ![b] = s])
<1> DEFINE f == [h EXCEPT ![n] = x]
           g == [f EXCEPT ![b] = s]
<1>1. /\ h \in Seq(Segment) /\ n \in DOMAIN h /\ b \in DOMAIN h
      /\ \A a \in LiveIn(h) : a \in DOMAIN h /\ h[a] \in Segment
  BY HistoryFacts DEF Line
<1>2. /\ f \in Seq(Segment) /\ Len(f) = Len(h) /\ DOMAIN f = DOMAIN h /\ f[n] = x
      /\ \A a \in DOMAIN h \ {n} : f[a] = h[a]
  BY <1>1, Replaced
<1> HIDE DEF f
<1>3. /\ g \in Seq(Segment) /\ Len(g) = Len(h) /\ DOMAIN g = DOMAIN h /\ g[b] = s
      /\ g[n] = x /\ \A a \in DOMAIN h : a # n /\ a # b => g[a] = h[a]
  <2>1. /\ g \in Seq(Segment) /\ Len(g) = Len(f) /\ DOMAIN g = DOMAIN f /\ g[b] = s
        /\ \A a \in DOMAIN f \ {b} : g[a] = f[a]
    BY <1>1, <1>2, Replaced
  <2> QED
    BY <1>1, <1>2, <2>1
<1> HIDE DEF g
<1>4. LiveIn(g) = LiveIn(h) \ {n}
  BY <1>1, <1>3 DEF LiveIn
<1>5. h[n].from \in Nat /\ h[n].to = MaxDay + 1 /\ h[n].from <= MaxDay /\ MaxDay \in Nat
  BY <1>1, SegmentFacts DEF Open
(* What shares no day with the open segment ends before it begins.          *)
<1>6. \A a \in LiveIn(g) : Apart(h[a], h[n]) /\ h[a].to < h[n].from
  <2> TAKE a \in LiveIn(g)
  <2>1. Apart(h[a], h[n]) /\ h[a] \in Segment
    BY <1>1, <1>4 DEF Line
  <2> QED
    BY <1>5, <2>1, SegmentFacts DEF Apart
<1>7. ASSUME NEW a \in LiveIn(g), NEW c \in LiveIn(g), a # c
      PROVE  Apart(g[a], g[c])
  <2>1. /\ Apart(h[a], h[c]) /\ h[a].to < h[n].from /\ h[c].to < h[n].from
        /\ h[a] \in Segment /\ h[c] \in Segment
    BY <1>1, <1>4, <1>6, <1>7 DEF Line
  <2>0. /\ h[a].from \in Nat /\ h[a].to \in Nat /\ h[a].from <= h[a].to
        /\ h[c].from \in Nat /\ h[c].to \in Nat /\ h[c].from <= h[c].to
    BY <2>1, SegmentFacts
  <2>2. CASE a # b /\ c # b
    BY <1>1, <1>3, <1>4, <2>1, <2>2
  <2>3. CASE a = b
    <3>1. h[a].to = h[n].from - 1 /\ g[a].from = h[a].from /\ g[c] = h[c]
      BY <1>1, <1>3, <1>4, <1>7, <2>3
    <3>2. h[c].to < h[a].from
      BY <1>5, <2>0, <2>1, <3>1 DEF Apart
    <3> QED
      BY <3>1, <3>2 DEF Apart
  <2>4. CASE c = b
    <3>1. h[c].to = h[n].from - 1 /\ g[c].from = h[c].from /\ g[a] = h[a]
      BY <1>1, <1>3, <1>4, <1>7, <2>4
    <3>2. h[a].to < h[c].from
      BY <1>5, <2>0, <2>1, <3>1 DEF Apart
    <3> QED
      BY <3>1, <3>2 DEF Apart
  <2> QED
    BY <2>2, <2>3, <2>4
<1>8. ASSUME NEW a \in LiveIn(g), g[a].kind = "REVISION"
      PROVE  \E c \in LiveIn(g) : g[c].to = g[a].from - 1
  <2>1. a \in LiveIn(h) /\ h[a].kind = "REVISION" /\ g[a].from = h[a].from
    BY <1>1, <1>3, <1>4, <1>8
  <2>2. PICK c \in LiveIn(h) : h[c].to = h[a].from - 1
    BY <2>1 DEF Line
  <2>3. /\ h[a] \in Segment /\ h[a].from <= h[a].to /\ h[a].to < h[n].from
        /\ h[a].from \in Nat /\ h[a].to \in Nat
    <3>1. h[a] \in Segment /\ a \in LiveIn(g) /\ h[a].to < h[n].from
      BY <1>1, <1>6, <1>8, <2>1
    <3> QED
      BY <3>1, SegmentFacts
  <2>4. c # n /\ h[c].to # h[n].from - 1
    <3> DEFINE i == h[a].from
               j == h[a].to
               k == h[n].from
               l == h[c].to
    <3>1. i \in Nat /\ j \in Nat /\ k \in Nat /\ i <= j /\ j < k /\ k <= MaxDay /\ l = i - 1
      BY <1>5, <2>2, <2>3
    <3>2. h[n].to = MaxDay + 1
      BY <1>5
    <3> HIDE DEF i, j, k, l
    <3>3. l # k - 1 /\ l # MaxDay + 1
      BY <3>1
    <3> QED
      BY <3>2, <3>3 DEF k, l
  <2>5. c # b
    BY <2>2, <2>4
  <2> QED
    BY <1>1, <1>3, <1>4, <2>1, <2>2, <2>4, <2>5
<1>9. Len(g) <= MaxSegments
  BY <1>3 DEF Line
<1> QED
  BY <1>3, <1>7, <1>8, <1>9 DEF Line, f, g

(* A termination: of the segments in force only an open one is touched,    *)
(* and it is cancelled or ends.                                            *)
LEMMA StoppedLine ==
  ASSUME NEW h, Line(h), NEW g \in Seq(Segment), DOMAIN g = DOMAIN h, Len(g) = Len(h),
         \A n \in DOMAIN h :
           \/ g[n] = h[n]
           \/ /\ n \in LiveIn(h) /\ h[n].to = Open
              /\ \/ g[n].cancelled
                 \/ ~g[n].cancelled /\ g[n].from = h[n].from /\ g[n].kind = h[n].kind
                    /\ g[n].to \in Day
  PROVE  Line(g)
<1>1. \A n \in LiveIn(h) : n \in DOMAIN h /\ h[n] \in Segment
  BY HistoryFacts DEF Line
<1>2. LiveIn(g) \subseteq LiveIn(h)
  BY DEF LiveIn
<1>3. \A n \in LiveIn(g) :
        /\ g[n] \in Segment /\ g[n].from = h[n].from /\ g[n].kind = h[n].kind
        /\ g[n].to <= h[n].to /\ (g[n] = h[n] \/ h[n].to = Open)
  <2> TAKE n \in LiveIn(g)
  <2>1. n \in DOMAIN h /\ g[n] \in Segment /\ h[n] \in Segment /\ ~g[n].cancelled
    BY <1>1, <1>2 DEF LiveIn
  <2>2. CASE g[n] = h[n]
    <3>1. h[n].to \in Nat
      BY <2>1, SegmentFacts
    <3> QED
      BY <2>1, <2>2, <3>1
  <2>3. CASE g[n] # h[n]
    <3>1. /\ h[n].to = Open /\ g[n].from = h[n].from /\ g[n].kind = h[n].kind
          /\ g[n].to \in Day
      BY <2>1, <2>3
    <3>2. g[n].to < Open /\ g[n].to \in Nat /\ Open \in Nat
      BY <3>1, DayFacts
    <3>3. g[n].to <= Open
      BY <3>2
    <3> QED
      BY <2>1, <3>1, <3>3
  <2> QED
    BY <2>2, <2>3
<1>4. ASSUME NEW n \in LiveIn(g), NEW b \in LiveIn(g), n # b
      PROVE  Apart(g[n], g[b])
  <2>1. Apart(h[n], h[b]) /\ h[n] \in Segment /\ h[b] \in Segment
    BY <1>1, <1>2, <1>4 DEF Line
  <2>2. /\ g[n].from = h[n].from /\ g[n].to <= h[n].to /\ g[n] \in Segment
        /\ g[b].from = h[b].from /\ g[b].to <= h[b].to /\ g[b] \in Segment
    BY <1>3
  <2>3. /\ g[n].from \in Nat /\ g[n].to \in Nat /\ h[n].to \in Nat
        /\ g[b].from \in Nat /\ g[b].to \in Nat /\ h[b].to \in Nat
    BY <2>1, <2>2, SegmentFacts
  <2>4. CASE h[n].to < h[b].from
    <3>1. g[n].to < g[b].from
      BY <2>2, <2>3, <2>4
    <3> QED
      BY <3>1 DEF Apart
  <2>5. CASE h[b].to < h[n].from
    <3>1. g[b].to < g[n].from
      BY <2>2, <2>3, <2>5
    <3> QED
      BY <3>1 DEF Apart
  <2> QED
    BY <2>1, <2>4, <2>5 DEF Apart
<1>5. ASSUME NEW n \in LiveIn(g), g[n].kind = "REVISION"
      PROVE  \E b \in LiveIn(g) : g[b].to = g[n].from - 1
  <2>1. n \in LiveIn(h) /\ h[n].kind = "REVISION" /\ g[n].from = h[n].from
    BY <1>2, <1>3, <1>5
  <2>2. PICK b \in LiveIn(h) : h[b].to = h[n].from - 1
    BY <2>1 DEF Line
  <2>3. h[b].to # Open
    BY <1>1, <2>1, <2>2, SegmentFacts DEF Open
  <2>4. g[b] = h[b] /\ b \in LiveIn(g)
    BY <2>2, <2>3 DEF LiveIn
  <2> QED
    BY <2>1, <2>2, <2>4
<1> QED
  BY <1>4, <1>5 DEF Line
-----------------------------------------------------------------------------
Terminated(w) == master[w].status = "TERMINATED"

(* Changes of the masters, of the projects and of overtime: nobody comes   *)
(* back from termination.                                                  *)
Aside ==
  /\ today' \in Day /\ changes' \in 0..MaxChanges
  /\ overtime' \in [Worker -> SUBSET (Site \X Month)]
  /\ master' \in [Party -> Master] /\ ended' \in [Site -> 0..MaxDay]
  /\ \A w \in Worker : Terminated(w) => Terminated(w)'

(* A step that leaves the segments, the rows and the timesheets alone.     *)
LEMMA AsideKeeps ==
  ASSUME RentalIInv, UNCHANGED <<segs, rows, sheet>>, Aside
  PROVE  RentalIInv'
<1>1. RentalTypeOK'
  BY DEF RentalIInv, RentalTypeOK, Aside
<1>2. Lines'
  BY DEF RentalIInv, Lines
<1>3. RowsInForce'
  BY DEF RentalIInv, RowsInForce, Covers, Aside, Terminated
<1>4. ReviewedComplete'
  BY DEF RentalIInv, ReviewedComplete, Missing, At, Live, Covers
<1> QED
  BY <1>1, <1>2, <1>3, <1>4 DEF RentalIInv

(* What a new history has to keep: the saved rows of the worker stay on    *)
(* their segments, and a month under review gets no day it had not.        *)
KeepsRows(w, h) ==
  \A p \in Site, d \in Day : LET n == rows[w][<<p, d>>] IN
    n # 0 => /\ h[n].site = p /\ Covers(h[n], d)
             /\ h[n].cancelled => segs[w][n].cancelled

KeepsDays(w, h) ==
  \A p \in Site, d \in Day, n \in LiveIn(h) :
    /\ sheet[<<p, MonthOf[d]>>] \in Reviewed /\ h[n].site = p /\ Covers(h[n], d)
    => \E b \in LiveIn(segs[w]) : segs[w][b].site = p /\ Covers(segs[w][b], d)

(* A worker's history changes to h: its line is kept, saved rows stay on   *)
(* their days and months under review get no new days.                     *)
LEMMA HistoryStep ==
  ASSUME RentalIInv, Aside, UNCHANGED <<rows, sheet>>, NEW w \in Worker, NEW h, Line(h),
         Len(segs[w]) <= Len(h), segs' = [segs EXCEPT ![w] = h],
         KeepsRows(w, h), KeepsDays(w, h)
  PROVE  RentalIInv'
<1>1. /\ segs \in [Worker -> Seq(Segment)] /\ h \in Seq(Segment) /\ segs'[w] = h
      /\ \A v \in Worker \ {w} : segs'[v] = segs[v]
  BY DEF RentalIInv, RentalTypeOK, Line
<1>2. RentalTypeOK'
  <2>1. segs' \in [Worker -> Seq(Segment)]
    BY <1>1
  <2>2. ASSUME NEW v \in Worker, NEW x \in Site \X Day
        PROVE  rows'[v][x] \in 0..Len(segs'[v])
    <3>1. rows[v][x] \in 0..Len(segs[v]) /\ Len(segs[v]) \in Nat
      BY <1>1 DEF RentalIInv, RentalTypeOK
    <3>2. CASE v = w
      <4>1. Len(h) \in Nat
        BY <1>1
      <4> QED
        BY <1>1, <3>1, <3>2, <4>1
    <3>3. CASE v # w
      BY <1>1, <3>1, <3>3
    <3> QED
      BY <3>2, <3>3
  <2> QED
    BY <2>1, <2>2 DEF RentalIInv, RentalTypeOK, Aside
<1>3. Lines'
  BY <1>1 DEF RentalIInv, Lines, Line
<1>4. RowsInForce'
  <2> SUFFICES ASSUME NEW v \in Worker, NEW p \in Site, NEW d \in Day, rows[v][<<p, d>>] # 0
               PROVE  LET n == rows[v][<<p, d>>] IN
                      /\ segs'[v][n].site = p /\ Covers(segs'[v][n], d)
                      /\ segs'[v][n].cancelled => Terminated(v)'
    BY DEF RowsInForce, Covers, Terminated
  <2>1. LET n == rows[v][<<p, d>>] IN
        /\ segs[v][n].site = p /\ Covers(segs[v][n], d)
        /\ segs[v][n].cancelled => Terminated(v)
    BY DEF RentalIInv, RowsInForce, Terminated
  <2>2. CASE v = w
    BY <1>1, <2>1, <2>2 DEF Aside, KeepsRows
  <2>3. CASE v # w
    BY <1>1, <2>1, <2>3 DEF Aside
  <2> QED
    BY <2>2, <2>3
<1>5. ReviewedComplete'
  <2> SUFFICES ASSUME NEW p \in Site, NEW m \in Month, sheet[<<p, m>>] \in Reviewed,
                      NEW v \in Worker, NEW d \in DaysOf(m), rows[v][<<p, d>>] = 0,
                      NEW n \in LiveIn(segs'[v]), segs'[v][n].site = p, Covers(segs'[v][n], d)
               PROVE  FALSE
    BY DEF ReviewedComplete, Missing, At, Live, LiveIn, Covers
  <2>1. d \in Day /\ MonthOf[d] = m
    BY DEF DaysOf
  <2>2. PICK b \in LiveIn(segs[v]) : segs[v][b].site = p /\ Covers(segs[v][b], d)
    <3>1. CASE v = w
      BY <1>1, <2>1, <3>1 DEF KeepsDays
    <3>2. CASE v # w
      BY <1>1, <3>2
    <3> QED
      BY <3>1, <3>2
  <2>3. <<v, d>> \in Missing(p, m)
    BY <2>2 DEF Missing, At, Live, LiveIn
  <2> QED
    BY <2>3 DEF RentalIInv, ReviewedComplete
<1> QED
  BY <1>2, <1>3, <1>4, <1>5 DEF RentalIInv

(* What SnapshotSafe keeps: no saved row and no month under review.        *)
LEMMA SafeDays ==
  ASSUME NEW w, NEW p \in Site, NEW d \in Nat, SnapshotSafe(w, p, d), NEW e \in Day, e >= d
  PROVE  rows[w][<<p, e>>] = 0 /\ sheet[<<p, MonthOf[e]>>] \notin Reviewed
<1>1. MonthOf[e] \in Month /\ e \in DaysOf(MonthOf[e]) /\ e \in Nat
  BY DayFacts DEF DaysOf
<1>2. LastDay(MonthOf[e]) \in Nat /\ e <= LastDay(MonthOf[e])
  BY <1>1, LastIsLast, DayFacts
<1>3. LastDay(MonthOf[e]) >= d
  BY <1>1, <1>2
<1> QED
  BY <1>1, <1>3 DEF SnapshotSafe

(* Unchanged values are typed. *)
LEMMA AsideUnchanged ==
  ASSUME RentalIInv, UNCHANGED <<today, overtime, master, ended, changes>>
  PROVE  Aside
BY DEF RentalIInv, RentalTypeOK, Aside, Terminated

(* A row points to a segment of its worker.                                *)
LEMMA RowFacts ==
  ASSUME RentalIInv, NEW w \in Worker, NEW p \in Site, NEW d \in Day, rows[w][<<p, d>>] # 0
  PROVE  LET n == rows[w][<<p, d>>] IN
         /\ n \in DOMAIN segs[w] /\ segs[w][n] \in Segment
         /\ segs[w][n].site = p /\ Covers(segs[w][n], d)
         /\ segs[w][n].cancelled => Terminated(w)
<1> DEFINE n == rows[w][<<p, d>>]
<1>1. n \in 0..Len(segs[w]) /\ segs[w] \in Seq(Segment)
  BY DEF RentalIInv, RentalTypeOK
<1>2. n \in DOMAIN segs[w] /\ segs[w][n] \in Segment
  BY <1>1
<1> QED
  BY <1>2 DEF RentalIInv, RowsInForce, Terminated
-----------------------------------------------------------------------------
(* The history of a worker. *)
LEMMA HistoryOf ==
  ASSUME RentalIInv, NEW w \in Worker
  PROVE  /\ Line(segs[w]) /\ segs[w] \in Seq(Segment) /\ Len(segs[w]) \in Nat
         /\ DOMAIN segs[w] = 1..Len(segs[w]) /\ Len(segs[w]) <= MaxSegments
         /\ Live(w) = LiveIn(segs[w])
         /\ \A n \in OpenOf(w) : n \in LiveIn(segs[w]) /\ segs[w][n].to = Open
         /\ \A n \in DOMAIN segs[w] : segs[w][n] \in Segment
         /\ \A n \in Live(w) : n \in DOMAIN segs[w] /\ ~segs[w][n].cancelled
<1>1. Line(segs[w]) /\ segs[w] \in Seq(Segment) /\ Len(segs[w]) <= MaxSegments
  BY DEF RentalIInv, Lines, Line
<1>2. /\ Len(segs[w]) \in Nat /\ DOMAIN segs[w] = 1..Len(segs[w])
      /\ \A n \in DOMAIN segs[w] : segs[w][n] \in Segment
  BY <1>1, HistoryFacts
<1> QED
  BY <1>1, <1>2 DEF Live, LiveIn, OpenOf

(* An open segment that ends on a day: nothing saved or reviewed is later. *)
LEMMA CutKeeps ==
  ASSUME RentalIInv, NEW w \in Worker, NEW n \in OpenOf(w), NEW s \in Segment,
         s.site = segs[w][n].site, s.from = segs[w][n].from, s.kind = segs[w][n].kind,
         ~s.cancelled, s.to \in Day, SnapshotSafe(w, s.site, s.to + 1)
  PROVE  LET h == [segs[w] EXCEPT ![n] = s]
         IN  /\ Line(h) /\ Len(h) = Len(segs[w]) /\ KeepsRows(w, h) /\ KeepsDays(w, h)
             /\ h[n] = s /\ LiveIn(h) = LiveIn(segs[w])
<1> DEFINE h == [segs[w] EXCEPT ![n] = s]
<1>1. /\ Line(segs[w]) /\ n \in LiveIn(segs[w]) /\ segs[w][n].to = Open /\ n \in DOMAIN segs[w]
      /\ segs[w] \in Seq(Segment) /\ segs[w][n] \in Segment
  BY HistoryOf DEF OpenOf
<1>2. Line(h)
  BY <1>1, CutLine
<1>3. /\ h \in Seq(Segment) /\ Len(h) = Len(segs[w]) /\ DOMAIN h = DOMAIN segs[w] /\ h[n] = s
      /\ \A b \in DOMAIN segs[w] \ {n} : h[b] = segs[w][b]
  BY <1>1, Replaced
<1> HIDE DEF h
<1>4. LiveIn(h) = LiveIn(segs[w])
  BY <1>1, <1>3 DEF LiveIn
<1>5. /\ s.to \in Nat /\ s.to < Open /\ s.to + 1 \in Nat /\ s.site \in Site
      /\ s.from \in Nat
  BY DayFacts, SegmentFacts
<1>6. KeepsRows(w, h)
  <2> SUFFICES ASSUME NEW p \in Site, NEW d \in Day, rows[w][<<p, d>>] # 0
               PROVE  LET b == rows[w][<<p, d>>] IN
                      /\ h[b].site = p /\ Covers(h[b], d)
                      /\ h[b].cancelled => segs[w][b].cancelled
    BY DEF KeepsRows
  <2> DEFINE b == rows[w][<<p, d>>]
  <2>1. b \in DOMAIN segs[w] /\ segs[w][b].site = p /\ Covers(segs[w][b], d)
    BY RowFacts
  <2> HIDE DEF b
  <2>2. CASE b # n
    BY <1>3, <2>1, <2>2 DEF b
  <2>3. CASE b = n
    <3>1. d \in Nat
      BY DayFacts
    <3>2. ~(d >= s.to + 1)
      BY <1>5, <2>1, <2>3, <3>1 DEF SnapshotSafe
    <3>3. Covers(s, d)
      BY <1>5, <2>1, <2>3, <3>1, <3>2 DEF Covers
    <3> QED
      BY <1>3, <2>1, <2>3, <3>3 DEF b
  <2> QED
    BY <2>2, <2>3
<1>7. KeepsDays(w, h)
  <2> SUFFICES ASSUME NEW p \in Site, NEW d \in Day, NEW b \in LiveIn(h),
                      h[b].site = p, Covers(h[b], d)
               PROVE  b \in LiveIn(segs[w]) /\ segs[w][b].site = p /\ Covers(segs[w][b], d)
    BY DEF KeepsDays
  <2>1. b \in LiveIn(segs[w]) /\ b \in DOMAIN segs[w]
    BY <1>3, <1>4 DEF LiveIn
  <2>2. CASE b # n
    BY <1>3, <2>1, <2>2
  <2>3. CASE b = n
    <3>1. d \in Nat /\ Open \in Nat /\ s.from <= d /\ d <= s.to
      BY <1>3, <2>3, DayFacts DEF Covers
    <3>2. d <= Open
      BY <1>5, <3>1
    <3> QED
      BY <1>1, <1>3, <2>1, <2>3, <3>1, <3>2 DEF Covers
  <2> QED
    BY <2>2, <2>3
<1> QED
  BY <1>2, <1>3, <1>4, <1>6, <1>7 DEF h

(* _create_segment after a history that keeps rows and months.             *)
LEMMA ExtendKeeps ==
  ASSUME RentalIInv, NEW w \in Worker, NEW h, Line(h), Len(h) = Len(segs[w]),
         KeepsRows(w, h), KeepsDays(w, h), NEW p \in Site, NEW d \in Day,
         SnapshotSafe(w, p, d), NEW kind \in {"ASSIGNMENT", "REVISION"},
         kind = "REVISION" => \E b \in LiveIn(h) : h[b].to = d - 1,
         Extend(w, h, p, d, kind)
  PROVE  RentalIInv'
<1> DEFINE new == [site |-> p, from |-> d, to |-> Open, kind |-> kind,
                   released |-> FALSE, cancelled |-> FALSE]
           g == Append(h, new)
<1>1. /\ Len(h) < MaxSegments /\ Free(h, d) /\ segs' = [segs EXCEPT ![w] = g]
      /\ UNCHANGED <<today, rows, overtime, sheet, master, ended, changes>>
  BY DEF Extend
<1>2. Line(g)
  BY <1>1, AppendedLine
<1>3. new \in Segment /\ new.from = d /\ new.to = MaxDay + 1 /\ new.site = p
  BY DayFacts DEF Segment, Open
<1> HIDE DEF new
<1>4. h \in Seq(Segment) /\ Len(h) \in Nat /\ DOMAIN h = 1..Len(h)
  BY HistoryFacts DEF Line
<1>5. /\ Len(g) = Len(h) + 1 /\ DOMAIN g = 1..(Len(h) + 1)
      /\ g[Len(h) + 1] = new /\ \A n \in DOMAIN h : g[n] = h[n]
  BY <1>3, <1>4
<1> HIDE DEF g
<1>6. KeepsRows(w, g)
  <2> SUFFICES ASSUME NEW q \in Site, NEW e \in Day, rows[w][<<q, e>>] # 0
               PROVE  g[rows[w][<<q, e>>]] = h[rows[w][<<q, e>>]]
    BY DEF KeepsRows
  <2>1. rows[w][<<q, e>>] \in DOMAIN segs[w]
    BY RowFacts
  <2>2. DOMAIN segs[w] = 1..Len(segs[w])
    BY HistoryOf
  <2> QED
    BY <1>4, <1>5, <2>1, <2>2
<1>7. KeepsDays(w, g)
  <2> SUFFICES ASSUME NEW q \in Site, NEW e \in Day, NEW n \in LiveIn(g),
                      sheet[<<q, MonthOf[e]>>] \in Reviewed, g[n].site = q, Covers(g[n], e)
               PROVE  \E b \in LiveIn(segs[w]) : segs[w][b].site = q /\ Covers(segs[w][b], e)
    BY DEF KeepsDays
  <2>1. n \in 1..(Len(h) + 1)
    BY <1>5 DEF LiveIn
  <2>2. CASE n = Len(h) + 1
    <3>1. g[n] = new /\ q = p /\ e >= d /\ d \in Nat
      BY <1>3, <1>5, <2>2, DayFacts DEF Covers
    <3> QED
      BY <3>1, SafeDays
  <2>3. CASE n # Len(h) + 1
    <3>1. n \in DOMAIN h
      BY <1>4, <2>1, <2>3
    <3>2. n \in LiveIn(h) /\ g[n] = h[n]
      BY <1>5, <3>1 DEF LiveIn
    <3> QED
      BY <3>2 DEF KeepsDays
  <2> QED
    BY <2>2, <2>3
<1>8. Aside
  BY <1>1, AsideUnchanged
<1>9. Len(segs[w]) <= Len(g)
  BY <1>4, <1>5
<1> QED
  BY <1>1, <1>2, <1>6, <1>7, <1>8, <1>9, HistoryStep

(* A new assignment begins after all that is in force.                     *)
LEMMA AssignStep ==
  ASSUME RentalIInv, NEW w \in Worker, NEW p \in Site, NEW d \in Day, AssignWorker(w, p, d)
  PROVE  RentalIInv'
<1>1. Line(segs[w]) /\ KeepsRows(w, segs[w]) /\ KeepsDays(w, segs[w])
  BY HistoryOf, RowFacts DEF KeepsRows, KeepsDays
<1>2. SnapshotSafe(w, p, d) /\ Extend(w, segs[w], p, d, "ASSIGNMENT")
  BY DEF AssignWorker
<1> QED
  BY <1>1, <1>2, ExtendKeeps

(* A revision closes the open segment on the day before it begins.         *)
LEMMA ReviseStep ==
  ASSUME RentalIInv, NEW w \in Worker, NEW n \in OpenOf(w), NEW p \in Site, NEW d \in Day,
         SnapshotSafe(w, p, d), Revise(w, n, p, d)
  PROVE  RentalIInv'
<1> DEFINE s == [segs[w][n] EXCEPT !.to = d - 1]
           h == [segs[w] EXCEPT ![n] = s]
<1>1. /\ d > segs[w][n].from /\ SnapshotSafe(w, segs[w][n].site, d)
      /\ Extend(w, Closed(w, n, d), p, d, "REVISION")
  BY DEF Revise
<1>2. /\ n \in DOMAIN segs[w] /\ segs[w][n] \in Segment /\ segs[w][n].to = Open
      /\ ~segs[w][n].cancelled
  BY HistoryOf DEF OpenOf
<1>3. Closed(w, n, d) = h
  BY <1>2 DEF Closed
<1>4. d \in Nat /\ d <= MaxDay /\ d - 1 \in Day /\ segs[w][n].from <= d - 1 /\ (d - 1) + 1 = d
  BY <1>1, <1>2, DayFacts, SegmentFacts
<1>5. /\ s \in Segment /\ s.to = d - 1 /\ s.site = segs[w][n].site /\ s.from = segs[w][n].from
      /\ s.kind = segs[w][n].kind /\ ~s.cancelled
  BY <1>2, <1>4, DayFacts DEF Segment
<1> HIDE DEF s
<1>6. SnapshotSafe(w, s.site, s.to + 1)
  BY <1>1, <1>4, <1>5
<1>7. /\ Line(h) /\ Len(h) = Len(segs[w]) /\ KeepsRows(w, h) /\ KeepsDays(w, h)
      /\ h[n] = s /\ LiveIn(h) = LiveIn(segs[w])
  BY <1>4, <1>5, <1>6, CutKeeps
<1> HIDE DEF h
<1>8. n \in LiveIn(h) /\ h[n].to = d - 1
  BY <1>5, <1>7, HistoryOf
<1> QED
  BY <1>1, <1>3, <1>7, <1>8, ExtendKeeps

(* A release ends the open segment; a worker that stops is not terminated. *)
LEMMA ReleaseStep ==
  ASSUME RentalIInv, NEW w \in Worker, NEW n \in OpenOf(w), NEW d \in Day,
         NEW inactive \in BOOLEAN, ReleaseWorker(w, n, d, inactive)
  PROVE  RentalIInv'
<1> DEFINE s == [[segs[w][n] EXCEPT !.to = d] EXCEPT !.released = TRUE]
           h == [segs[w] EXCEPT ![n] = s]
<1>1. /\ Usable(w) /\ d >= segs[w][n].from /\ SnapshotSafe(w, segs[w][n].site, d + 1)
      /\ segs' = [segs EXCEPT ![w][n].to = d, ![w][n].released = TRUE]
      /\ master' = IF inactive THEN [master EXCEPT ![w].status = "INACTIVE", ![w].stop = d] ELSE master
      /\ UNCHANGED <<today, rows, overtime, sheet, ended, changes>>
  BY DEF ReleaseWorker
<1>2. /\ n \in DOMAIN segs[w] /\ segs[w][n] \in Segment /\ segs[w][n].to = Open
      /\ ~segs[w][n].cancelled /\ segs \in [Worker -> Seq(Segment)] /\ segs[w] \in Seq(Segment)
  BY HistoryOf DEF OpenOf, RentalIInv, RentalTypeOK
<1>3. /\ s \in Segment /\ s.to = d /\ s.site = segs[w][n].site /\ s.from = segs[w][n].from
      /\ s.kind = segs[w][n].kind /\ ~s.cancelled
  BY <1>1, <1>2, DayFacts DEF Segment, Open
<1>4. segs' = [segs EXCEPT ![w] = h]
  BY <1>1, <1>2
<1> HIDE DEF s
<1>5. /\ Line(h) /\ Len(h) = Len(segs[w]) /\ KeepsRows(w, h) /\ KeepsDays(w, h)
  BY <1>1, <1>3, CutKeeps
<1> HIDE DEF h
<1>6. Aside
  <2>1. CASE ~inactive
    BY <1>1, <2>1, AsideUnchanged
  <2>2. CASE inactive
    <3>1. master \in [Party -> Master] /\ w \in Party
      BY DEF RentalIInv, RentalTypeOK, Party
    <3>2. master[w] \in Master /\ d \in 0..MaxDay
      BY <3>1, DayFacts
    <3>3. [[master[w] EXCEPT !.status = "INACTIVE"] EXCEPT !.stop = d] \in Master
      BY <3>2 DEF Master
    <3>4. master' \in [Party -> Master] /\ \A v \in Worker \ {w} : master'[v] = master[v]
      BY <1>1, <2>2, <3>1, <3>3 DEF Party
    <3>5. ~Terminated(w)
      BY <1>1 DEF Usable, Terminated
    <3> QED
      BY <1>1, <3>4, <3>5 DEF RentalIInv, RentalTypeOK, Aside, Terminated
  <2> QED
    BY <2>1, <2>2
<1>7. Len(segs[w]) <= Len(h) /\ UNCHANGED <<rows, sheet>>
  BY <1>1, <1>5, HistoryOf
<1> QED
  BY <1>4, <1>5, <1>6, <1>7, HistoryStep

(* A scheduled segment is cancelled, and what it continued is open again.  *)
LEMMA CancelStep ==
  ASSUME RentalIInv, NEW w \in Worker, NEW n \in OpenOf(w), CancelScheduled(w, n)
  PROVE  RentalIInv'
<1> DEFINE from == segs[w][n].from
           x == [segs[w][n] EXCEPT !.cancelled = TRUE]
<1>1. /\ from > today /\ SnapshotSafe(w, segs[w][n].site, from)
      /\ UNCHANGED <<today, rows, overtime, sheet, master, ended, changes>>
  BY DEF CancelScheduled
<1>2. /\ n \in DOMAIN segs[w] /\ segs[w][n] \in Segment /\ segs[w][n].to = Open
      /\ ~segs[w][n].cancelled /\ segs \in [Worker -> Seq(Segment)] /\ segs[w] \in Seq(Segment)
      /\ n \in LiveIn(segs[w]) /\ Live(w) = LiveIn(segs[w]) /\ Line(segs[w])
  BY HistoryOf DEF OpenOf, RentalIInv, RentalTypeOK
<1>3. from \in Nat /\ segs[w][n].site \in Site /\ 1 <= from /\ from <= MaxDay
  BY <1>2, SegmentFacts
<1>4. /\ x \in Segment /\ x.from = from /\ x.cancelled /\ x.to = Open
  BY <1>2 DEF Segment
(* The segment that is opened again, or n itself. *)
<1>5. \E b \in LiveIn(segs[w]), s \in Segment :
        /\ b # n => /\ segs[w][b].to = from - 1 /\ ~segs[w][b].released
                    /\ s.from = segs[w][b].from /\ s.kind = segs[w][b].kind /\ ~s.cancelled
                    /\ s.to = Open /\ s.site = segs[w][b].site
                    /\ SnapshotSafe(w, segs[w][b].site, from)
        /\ b = n => s = x
        /\ segs' = [segs EXCEPT ![w] = [[segs[w] EXCEPT ![n] = x] EXCEPT ![b] = s]]
  <2>1. CASE segs[w][n].kind = "ASSIGNMENT"
    <3>1. segs' = [segs EXCEPT ![w][n].cancelled = TRUE]
      BY <2>1 DEF CancelScheduled
    <3>2. [segs EXCEPT ![w] = [[segs[w] EXCEPT ![n] = x] EXCEPT ![n] = x]] = segs'
      BY <1>2, <3>1
    <3> QED
      BY <1>2, <1>4, <3>2
  <2>2. CASE segs[w][n].kind # "ASSIGNMENT"
    <3>1. PICK b \in Predecessor(w, n) :
            /\ ~segs[w][b].released /\ SnapshotSafe(w, segs[w][b].site, from)
            /\ segs' = [[segs EXCEPT ![w][n].cancelled = TRUE] EXCEPT ![w][b].to = Open]
      BY <2>2 DEF CancelScheduled
    <3>2. /\ b \in LiveIn(segs[w]) /\ b \in DOMAIN segs[w] /\ segs[w][b] \in Segment
          /\ segs[w][b].to = from - 1 /\ ~segs[w][b].cancelled /\ b # n
      <4>1. b \in LiveIn(segs[w]) /\ segs[w][b].to = from - 1
        BY <1>2 DEF Predecessor
      <4>2. b # n
        BY <1>2, <1>3, <4>1 DEF Open
      <4> QED
        BY <4>1, <4>2, HistoryOf DEF LiveIn
    <3> DEFINE s == [segs[w][b] EXCEPT !.to = Open]
    <3>3. /\ s \in Segment /\ s.from = segs[w][b].from /\ s.kind = segs[w][b].kind
          /\ ~s.cancelled /\ s.to = Open /\ s.site = segs[w][b].site
      <4>1. segs[w][b].from \in Nat /\ segs[w][b].from <= Open /\ Open \in Day \cup {Open}
        <5>1. segs[w][b].from \in Day
          BY <3>2, SegmentFacts
        <5>2. segs[w][b].from \in Nat /\ segs[w][b].from < Open
          BY <5>1, DayFacts
        <5> QED
          BY <5>2, DayFacts
      <4> QED
        BY <3>1, <3>2, <4>1 DEF Segment
    <3>4. segs' = [segs EXCEPT ![w] = [[segs[w] EXCEPT ![n] = x] EXCEPT ![b] = s]]
      BY <1>2, <3>1, <3>2
    <3> HIDE DEF s
    <3> QED
      BY <3>1, <3>2, <3>3, <3>4
  <2> QED
    BY <2>1, <2>2
<1>6. PICK b \in LiveIn(segs[w]) : \E s \in Segment :
        /\ b # n => /\ segs[w][b].to = from - 1 /\ ~segs[w][b].released
                    /\ s.from = segs[w][b].from /\ s.kind = segs[w][b].kind /\ ~s.cancelled
                    /\ s.to = Open /\ s.site = segs[w][b].site
                    /\ SnapshotSafe(w, segs[w][b].site, from)
        /\ b = n => s = x
        /\ segs' = [segs EXCEPT ![w] = [[segs[w] EXCEPT ![n] = x] EXCEPT ![b] = s]]
  BY <1>5
<1>7. PICK s \in Segment :
        /\ b # n => /\ segs[w][b].to = from - 1 /\ ~segs[w][b].released
                    /\ s.from = segs[w][b].from /\ s.kind = segs[w][b].kind /\ ~s.cancelled
                    /\ s.to = Open /\ s.site = segs[w][b].site
                    /\ SnapshotSafe(w, segs[w][b].site, from)
        /\ b = n => s = x
        /\ segs' = [segs EXCEPT ![w] = [[segs[w] EXCEPT ![n] = x] EXCEPT ![b] = s]]
  BY <1>6
<1> DEFINE f == [segs[w] EXCEPT ![n] = x]
           h == [f EXCEPT ![b] = s]
<1> HIDE DEF x
<1>8. Line(h)
  BY <1>2, <1>4, <1>7, CancelledLine
<1>9. /\ DOMAIN h = DOMAIN segs[w] /\ Len(h) = Len(segs[w]) /\ h[b] = s /\ h[n] = x
      /\ \A a \in DOMAIN segs[w] : a # n /\ a # b => h[a] = segs[w][a]
  <2>1. /\ f \in Seq(Segment) /\ Len(f) = Len(segs[w]) /\ DOMAIN f = DOMAIN segs[w] /\ f[n] = x
        /\ \A a \in DOMAIN segs[w] \ {n} : f[a] = segs[w][a]
    BY <1>2, <1>4, Replaced
  <2> HIDE DEF f
  <2>2. b \in DOMAIN f
    BY <2>1 DEF LiveIn
  <2>3. /\ h \in Seq(Segment) /\ Len(h) = Len(f) /\ DOMAIN h = DOMAIN f /\ h[b] = s
        /\ \A a \in DOMAIN f \ {b} : h[a] = f[a]
    BY <2>1, <2>2, Replaced
  <2> QED
    BY <1>2, <1>7, <2>1, <2>3
<1> HIDE DEF h
<1>10. /\ segs[w][b] \in Segment /\ segs[w][b].from \in Nat /\ segs[w][b].site \in Site
  BY HistoryFacts, SegmentFacts, <1>2 DEF LiveIn
<1>11. KeepsRows(w, h)
  <2> SUFFICES ASSUME NEW p \in Site, NEW d \in Day, rows[w][<<p, d>>] # 0
               PROVE  LET a == rows[w][<<p, d>>] IN
                      /\ h[a].site = p /\ Covers(h[a], d)
                      /\ h[a].cancelled => segs[w][a].cancelled
    BY DEF KeepsRows
  <2> DEFINE a == rows[w][<<p, d>>]
  <2>1. /\ a \in DOMAIN segs[w] /\ segs[w][a].site = p /\ Covers(segs[w][a], d)
        /\ d \in Nat /\ d <= Open
    BY RowFacts, DayFacts
  <2>2. a # n
    <3> SUFFICES ASSUME a = n PROVE FALSE
      OBVIOUS
    <3>1. d >= from /\ p = segs[w][n].site
      BY <2>1 DEF Covers
    <3> QED
      BY <1>1, <3>1 DEF SnapshotSafe
  <2>3. CASE a # b
    BY <1>9, <2>1, <2>2, <2>3
  <2>4. CASE a = b
    <3>1. h[a] = s /\ s.site = p /\ s.from <= d /\ d <= s.to /\ ~s.cancelled
      BY <1>7, <1>9, <2>1, <2>2, <2>4 DEF Covers
    <3> QED
      BY <3>1 DEF Covers
  <2> QED
    BY <2>3, <2>4
<1>12. KeepsDays(w, h)
  <2> SUFFICES ASSUME NEW p \in Site, NEW d \in Day, NEW a \in LiveIn(h),
                      sheet[<<p, MonthOf[d]>>] \in Reviewed, h[a].site = p, Covers(h[a], d)
               PROVE  a \in LiveIn(segs[w]) /\ segs[w][a].site = p /\ Covers(segs[w][a], d)
    BY DEF KeepsDays
  <2>1. a # n /\ a \in DOMAIN segs[w] /\ d \in Nat
    BY <1>4, <1>9, DayFacts DEF LiveIn
  <2>2. CASE a # b
    BY <1>9, <2>1, <2>2 DEF LiveIn
  <2>3. CASE a = b
    <3>1. h[a] = s /\ s.site = p /\ segs[w][b].site = p /\ segs[w][b].from <= d
      BY <1>7, <1>9, <2>1, <2>3 DEF Covers
    <3>2. ~(d >= from)
      BY <1>3, <1>7, <2>1, <2>3, <3>1, SafeDays
    <3>3. d <= segs[w][b].to
      BY <1>3, <1>7, <2>1, <2>3, <3>2
    <3> QED
      BY <2>3, <3>1, <3>3 DEF Covers
  <2> QED
    BY <2>2, <2>3
<1>13. Aside
  BY <1>1, AsideUnchanged
<1>14. segs' = [segs EXCEPT ![w] = h]
  BY <1>7 DEF h
<1>15. Len(segs[w]) <= Len(h) /\ UNCHANGED <<rows, sheet>>
  BY <1>1, <1>9, HistoryOf
<1> QED
  BY <1>8, <1>11, <1>12, <1>13, <1>14, <1>15, HistoryStep

-----------------------------------------------------------------------------
(* Timesheets: rows change in a draft only, and a draft is submitted when   *)
(* it misses nobody.                                                       *)
LEMMA SaveRowStep ==
  ASSUME RentalIInv, NEW w \in Worker, NEW p \in Site, NEW d \in Day, NEW value \in BOOLEAN,
         SaveRow(w, p, d, value)
  PROVE  RentalIInv'
<1>1. PICK n \in At(w, p) :
        /\ Covers(segs[w][n], d)
        /\ rows' = [rows EXCEPT ![w][<<p, d>>] = IF value THEN n ELSE 0]
  BY DEF SaveRow
<1>2. /\ UNCHANGED <<today, segs, overtime, sheet, master, ended, changes>>
      /\ sheet[<<p, MonthOf[d]>>] = "DRAFT"
  BY DEF SaveRow, Editable
<1>3. /\ n \in DOMAIN segs[w] /\ segs[w][n].site = p /\ ~segs[w][n].cancelled
      /\ n \in 0..Len(segs[w]) /\ n \in 0..MaxSegments
  <2>1. n \in Live(w) /\ segs[w][n].site = p
    BY DEF At
  <2>2. /\ Len(segs[w]) \in Nat /\ DOMAIN segs[w] = 1..Len(segs[w])
        /\ Len(segs[w]) <= MaxSegments /\ n \in DOMAIN segs[w] /\ ~segs[w][n].cancelled
    BY <2>1, HistoryOf
  <2> QED
    BY <2>1, <2>2
<1> DEFINE r == IF value THEN n ELSE 0
<1>4. r \in 0..Len(segs[w]) /\ r \in 0..MaxSegments
  BY <1>3
<1>5. /\ rows \in [Worker -> [Site \X Day -> 0..MaxSegments]]
      /\ \A v \in Worker, x \in Site \X Day : rows[v][x] \in 0..Len(segs[v])
  BY DEF RentalIInv, RentalTypeOK
<1>6. /\ rows' \in [Worker -> [Site \X Day -> 0..MaxSegments]]
      /\ rows'[w][<<p, d>>] = r
      /\ \A v \in Worker, x \in Site \X Day :
           v # w \/ x # <<p, d>> => rows'[v][x] = rows[v][x]
  BY <1>1, <1>4, <1>5
<1>7. RentalTypeOK'
  <2>1. \A v \in Worker, x \in Site \X Day : rows'[v][x] \in 0..Len(segs[v])
    BY <1>4, <1>5, <1>6
  <2> QED
    BY <1>2, <1>6, <2>1 DEF RentalIInv, RentalTypeOK
<1>8. Lines'
  BY <1>2 DEF RentalIInv, Lines
<1>9. RowsInForce'
  <2> SUFFICES ASSUME NEW v \in Worker, NEW q \in Site, NEW e \in Day, rows'[v][<<q, e>>] # 0
               PROVE  LET b == rows'[v][<<q, e>>] IN
                      /\ segs[v][b].site = q /\ Covers(segs[v][b], e)
                      /\ segs[v][b].cancelled => Terminated(v)
    BY <1>2 DEF RowsInForce, Covers, Terminated
  <2>1. CASE v = w /\ <<q, e>> = <<p, d>>
    <3>1. rows'[v][<<q, e>>] = n /\ q = p /\ e = d
      BY <1>6, <2>1
    <3> QED
      BY <1>1, <1>3, <2>1, <3>1
  <2>2. CASE ~(v = w /\ <<q, e>> = <<p, d>>)
    <3>1. rows'[v][<<q, e>>] = rows[v][<<q, e>>]
      BY <1>6, <2>2
    <3> QED
      BY <3>1, RowFacts
  <2> QED
    BY <2>1, <2>2
<1>10. ReviewedComplete'
  <2> SUFFICES ASSUME NEW q \in Site, NEW m \in Month, sheet[<<q, m>>] \in Reviewed,
                      NEW v \in Worker, NEW e \in DaysOf(m), rows'[v][<<q, e>>] = 0,
                      NEW b \in At(v, q), Covers(segs[v][b], e)
               PROVE  FALSE
    BY <1>2 DEF ReviewedComplete, Missing, At, Live, Covers
  <2>1. e \in Day /\ MonthOf[e] = m
    BY DEF DaysOf
  <2>2. <<q, e>> # <<p, d>>
    BY <1>2, <2>1 DEF Reviewed
  <2>3. rows[v][<<q, e>>] = 0
    BY <1>6, <2>1, <2>2
  <2>4. <<v, e>> \in Missing(q, m)
    BY <2>3 DEF Missing
  <2> QED
    BY <2>4 DEF RentalIInv, ReviewedComplete
<1> QED
  BY <1>7, <1>8, <1>9, <1>10 DEF RentalIInv

(* A timesheet moves on: nobody is missing from what leaves the draft.     *)
LEMMA TransitionStep ==
  ASSUME RentalIInv, NEW p \in Site, NEW m \in Month, NEW to \in SheetStatus,
         TransitionTimesheet(p, m, to)
  PROVE  RentalIInv'
<1>1. /\ to # "DRAFT" => Missing(p, m) = {}
      /\ sheet' = [sheet EXCEPT ![<<p, m>>] = to]
      /\ UNCHANGED <<today, segs, rows, overtime, master, ended, changes>>
  BY DEF TransitionTimesheet
<1>2. /\ sheet \in [Site \X Month -> SheetStatus] /\ sheet' \in [Site \X Month -> SheetStatus]
      /\ sheet'[<<p, m>>] = to
      /\ \A x \in Site \X Month : x # <<p, m>> => sheet'[x] = sheet[x]
  BY <1>1 DEF RentalIInv, RentalTypeOK
<1>3. RentalTypeOK'
  BY <1>1, <1>2 DEF RentalIInv, RentalTypeOK
<1>4. Lines' /\ RowsInForce'
  BY <1>1 DEF RentalIInv, Lines, RowsInForce, Covers
<1>5. ReviewedComplete'
  <2> SUFFICES ASSUME NEW q \in Site, NEW k \in Month, sheet'[<<q, k>>] \in Reviewed
               PROVE  Missing(q, k) = {}
    BY <1>1 DEF ReviewedComplete, Missing, At, Live, Covers
  <2>1. CASE <<q, k>> = <<p, m>>
    BY <1>1, <1>2, <2>1 DEF Reviewed
  <2>2. CASE <<q, k>> # <<p, m>>
    BY <1>2, <2>2 DEF RentalIInv, ReviewedComplete
  <2> QED
    BY <2>1, <2>2
<1> QED
  BY <1>3, <1>4, <1>5 DEF RentalIInv

-----------------------------------------------------------------------------
(* Masters: nobody comes back from a termination.                          *)
LEMMA MasterStep ==
  ASSUME RentalIInv, NEW x \in Party, NEW m \in Master, SetMaster(x, m),
         master[x].status = "TERMINATED" => m.status = "TERMINATED"
  PROVE  RentalIInv'
<1>1. /\ master' = [master EXCEPT ![x] = m] /\ changes < MaxChanges /\ changes' = changes + 1
      /\ UNCHANGED <<today, segs, rows, overtime, sheet, ended>>
  BY DEF SetMaster, Changing
<1>2. changes' \in 0..MaxChanges
  BY <1>1 DEF RentalIInv, RentalTypeOK
<1>3. master' \in [Party -> Master] /\ \A w \in Worker : Terminated(w) => Terminated(w)'
  BY <1>1 DEF RentalIInv, RentalTypeOK, Terminated, Party
<1>4. Aside
  BY <1>1, <1>2, <1>3 DEF RentalIInv, RentalTypeOK, Aside
<1> QED
  BY <1>1, <1>4, AsideKeeps

(* What the masters' operations write is a master record.                  *)
LEMMA MasterFacts ==
  ASSUME NEW m \in Master
  PROVE  /\ \A status \in {"ACTIVE", "INACTIVE", "TERMINATED"}, d \in 0..MaxDay :
              /\ [[m EXCEPT !.status = status] EXCEPT !.stop = d] \in Master
              /\ [[m EXCEPT !.status = status] EXCEPT !.stop = d].status = status
         /\ \A a \in BOOLEAN : /\ [m EXCEPT !.archived = a] \in Master
                               /\ [m EXCEPT !.archived = a].status = m.status
         /\ \A a \in {"no", "alone", "cascade"} :
              /\ [m EXCEPT !.deleted = a] \in Master
              /\ [m EXCEPT !.deleted = a].status = m.status
BY DEF Master

(* Edits, archive, deletion and restore of one master.                     *)
LEMMA MastersStep ==
  ASSUME RentalIInv, NEW x \in Party,
         \/ Archive(x) \/ RestoreArchive(x) \/ DeleteWorker(x) \/ RestoreWorker(x)
         \/ ActivateSupplier(x) \/ ActivateWorker(x)
         \/ \E d \in 0..MaxDay : Deactivate(x, d)
         \/ \E status \in {"ACTIVE", "INACTIVE"} : UpdateSupplier(x, status) \/ UpdateWorker(x, status)
  PROVE  RentalIInv'
<1>0. master[x] \in Master /\ today \in Day
  BY DEF RentalIInv, RentalTypeOK
<1>1. CASE Archive(x) \/ RestoreArchive(x)
  <2>1. PICK a \in BOOLEAN : SetMaster(x, [master[x] EXCEPT !.archived = a])
    BY <1>1 DEF Archive, RestoreArchive
  <2> DEFINE m == [master[x] EXCEPT !.archived = a]
  <2>2. m \in Master /\ m.status = master[x].status
    BY <1>0, MasterFacts
  <2> HIDE DEF m
  <2> QED
    BY <2>1, <2>2, MasterStep DEF m
<1>2. CASE DeleteWorker(x) \/ RestoreWorker(x)
  <2>1. PICK a \in {"no", "alone", "cascade"} : SetMaster(x, [master[x] EXCEPT !.deleted = a])
    BY <1>2 DEF DeleteWorker, RestoreWorker
  <2> DEFINE m == [master[x] EXCEPT !.deleted = a]
  <2>2. m \in Master /\ m.status = master[x].status
    BY <1>0, MasterFacts
  <2> HIDE DEF m
  <2> QED
    BY <2>1, <2>2, MasterStep DEF m
<1>3. CASE \/ ActivateSupplier(x) \/ ActivateWorker(x)
           \/ \E d \in 0..MaxDay : Deactivate(x, d)
           \/ \E status \in {"ACTIVE", "INACTIVE"} : UpdateSupplier(x, status) \/ UpdateWorker(x, status)
  <2>1. PICK status \in {"ACTIVE", "INACTIVE", "TERMINATED"}, d \in 0..MaxDay :
          /\ SetMaster(x, [[master[x] EXCEPT !.status = status] EXCEPT !.stop = d])
          /\ master[x].status # "TERMINATED"
    <3>1. today \in 0..MaxDay /\ 0 \in 0..MaxDay
      BY <1>0, DayFacts
    <3>2. CASE \E status \in {"ACTIVE", "INACTIVE"} : UpdateSupplier(x, status) \/ UpdateWorker(x, status)
      <4>1. PICK status \in {"ACTIVE", "INACTIVE"} :
              /\ SetMaster(x, [[master[x] EXCEPT !.status = status]
                                          EXCEPT !.stop = IF status = "ACTIVE" THEN 0 ELSE today])
              /\ master[x].status # "TERMINATED"
        BY <3>2 DEF UpdateSupplier, UpdateWorker
      <4>2. (IF status = "ACTIVE" THEN 0 ELSE today) \in 0..MaxDay
        BY <3>1
      <4> QED
        BY <4>1, <4>2
    <3>3. CASE ActivateSupplier(x) \/ ActivateWorker(x)
      BY <3>1, <3>3 DEF ActivateSupplier, ActivateWorker
    <3>4. CASE \E d \in 0..MaxDay : Deactivate(x, d)
      BY <3>4 DEF Deactivate
    <3> QED
      BY <1>3, <3>2, <3>3, <3>4
  <2> DEFINE m == [[master[x] EXCEPT !.status = status] EXCEPT !.stop = d]
  <2>2. m \in Master
    BY <1>0, MasterFacts
  <2> HIDE DEF m
  <2> QED
    BY <2>1, <2>2, MasterStep DEF m
<1> QED
  BY <1>1, <1>2, <1>3

(* A supplier's trash marks and unmarks its workers, and changes no status. *)
LEMMA SupplierTrashStep ==
  ASSUME RentalIInv, NEW f \in Firm, DeleteSupplier(f) \/ RestoreSupplier(f)
  PROVE  RentalIInv'
<1>1. /\ changes < MaxChanges /\ changes' = changes + 1
      /\ UNCHANGED <<today, segs, rows, overtime, sheet, ended>>
  BY DEF DeleteSupplier, RestoreSupplier, Changing
<1>2. changes' \in 0..MaxChanges
  BY <1>1 DEF RentalIInv, RentalTypeOK
<1>3. /\ \E F : master' = [x \in Party |-> F[x]]
      /\ \A x \in Party : \E a \in {"no", "alone", "cascade"} :
           master'[x] = master[x] \/ master'[x] = [master[x] EXCEPT !.deleted = a]
  BY DEF DeleteSupplier, RestoreSupplier
<1>4. ASSUME NEW x \in Party
      PROVE  master'[x] \in Master /\ master'[x].status = master[x].status
  <2>1. master[x] \in Master
    BY DEF RentalIInv, RentalTypeOK
  <2>2. PICK a \in {"no", "alone", "cascade"} :
          master'[x] = master[x] \/ master'[x] = [master[x] EXCEPT !.deleted = a]
    BY <1>3
  <2> DEFINE m == [master[x] EXCEPT !.deleted = a]
  <2>3. m \in Master /\ m.status = master[x].status
    BY <2>1, MasterFacts
  <2> HIDE DEF m
  <2> QED
    BY <2>1, <2>2, <2>3 DEF m
<1>5. master' \in [Party -> Master] /\ \A w \in Worker : Terminated(w) => Terminated(w)'
  BY <1>3, <1>4 DEF Terminated, Party
<1>6. Aside
  BY <1>1, <1>2, <1>5 DEF RentalIInv, RentalTypeOK, Aside
<1> QED
  BY <1>1, <1>6, AsideKeeps

(* The day, overtime and projects.                                         *)
LEMMA OtherStep ==
  ASSUME RentalIInv,
         \/ NextDay
         \/ \E w \in Worker, p \in Site, m \in Month : SaveOvertime(w, p, m) \/ ClearOvertime(w, p, m)
         \/ \E p \in Site : ReopenProject(p) \/ \E d \in Day : CompleteProject(p, d)
  PROVE  RentalIInv'
<1>0. /\ changes \in 0..MaxChanges /\ today \in Day /\ master \in [Party -> Master]
      /\ overtime \in [Worker -> SUBSET (Site \X Month)] /\ ended \in [Site -> 0..MaxDay]
  BY DEF RentalIInv, RentalTypeOK
<1>1. CASE NextDay
  <2>1. today' \in Day
    BY <1>0, <1>1 DEF NextDay, Day
  <2>2. Aside
    BY <1>0, <1>1, <2>1 DEF NextDay, Aside, Terminated
  <2> QED
    BY <1>1, <2>2, AsideKeeps DEF NextDay
<1>2. CASE \E w \in Worker, p \in Site, m \in Month : SaveOvertime(w, p, m) \/ ClearOvertime(w, p, m)
  <2>1. PICK w \in Worker, p \in Site, m \in Month : SaveOvertime(w, p, m) \/ ClearOvertime(w, p, m)
    BY <1>2
  <2>2. /\ changes < MaxChanges /\ changes' = changes + 1
        /\ UNCHANGED <<today, segs, rows, sheet, master, ended>>
        /\ \/ overtime' = [overtime EXCEPT ![w] = @ \cup {<<p, m>>}]
           \/ overtime' = [overtime EXCEPT ![w] = @ \ {<<p, m>>}]
    BY <2>1 DEF SaveOvertime, ClearOvertime, Changing
  <2>3. overtime' \in [Worker -> SUBSET (Site \X Month)] /\ changes' \in 0..MaxChanges
    <3>1. <<p, m>> \in Site \X Month /\ overtime[w] \subseteq Site \X Month
      BY <1>0
    <3> DEFINE A == overtime[w] \cup {<<p, m>>}
               B == overtime[w] \ {<<p, m>>}
    <3>2. A \in SUBSET (Site \X Month) /\ B \in SUBSET (Site \X Month)
      BY <3>1
    <3>4. overtime' = [overtime EXCEPT ![w] = A] \/ overtime' = [overtime EXCEPT ![w] = B]
      BY <2>2
    <3> HIDE DEF A, B
    <3>3. overtime' \in [Worker -> SUBSET (Site \X Month)]
      BY <1>0, <3>2, <3>4
    <3> QED
      BY <1>0, <2>2, <3>3
  <2>4. Aside
    BY <1>0, <2>2, <2>3 DEF Aside, Terminated
  <2> QED
    BY <2>2, <2>4, AsideKeeps
<1>3. CASE \E p \in Site : ReopenProject(p) \/ \E d \in Day : CompleteProject(p, d)
  <2>1. PICK p \in Site, d \in 0..MaxDay :
          /\ changes < MaxChanges /\ changes' = changes + 1 /\ ended' = [ended EXCEPT ![p] = d]
          /\ UNCHANGED <<today, segs, rows, overtime, sheet, master>>
    BY <1>3, DayFacts DEF ReopenProject, CompleteProject, Changing, Day
  <2>2. ended' \in [Site -> 0..MaxDay] /\ changes' \in 0..MaxChanges
    BY <1>0, <2>1
  <2>3. Aside
    BY <1>0, <2>1, <2>2 DEF Aside, Terminated
  <2> QED
    BY <2>1, <2>3, AsideKeeps
<1> QED
  BY <1>1, <1>2, <1>3

-----------------------------------------------------------------------------
(* What a termination does with one segment.                               *)
LEMMA StoppedFacts ==
  ASSUME RentalIInv, NEW w \in Worker, NEW n \in DOMAIN segs[w], NEW d \in 0..MaxDay
  PROVE  LET s == Stopped(w, n, d) IN
         /\ s \in Segment /\ s.site = segs[w][n].site /\ s.from = segs[w][n].from
         /\ s.kind = segs[w][n].kind /\ s.to <= segs[w][n].to
         /\ \/ s = segs[w][n]
            \/ /\ n \in OpenOf(w) /\ s.cancelled /\ s.to = segs[w][n].to
            \/ /\ n \in OpenOf(w) /\ ~s.cancelled /\ s.to = d /\ d \in Day
               /\ s.from <= d /\ Evidence(w, n, d) = {}
<1> DEFINE z == segs[w][n]
<1>1. z \in Segment
  BY HistoryOf
<1>2. z.from \in Nat /\ z.to \in Nat /\ 1 <= z.from /\ d \in Nat
  BY <1>1, SegmentFacts
<1>3. CASE n \notin OpenOf(w)
  BY <1>1, <1>2, <1>3 DEF Stopped
<1>4. CASE n \in OpenOf(w)
  <2>0. z.to = Open /\ ~z.cancelled /\ ~z.released
    BY <1>1, <1>4, HistoryOf, SegmentFacts DEF OpenOf
  <2>1. CASE z.from > d
    <3> DEFINE s == [z EXCEPT !.cancelled = TRUE]
    <3>1. Stopped(w, n, d) = s
      BY <1>4, <2>1 DEF Stopped
    <3>2. /\ s \in Segment /\ s.site = z.site /\ s.from = z.from /\ s.kind = z.kind
          /\ s.to = z.to /\ s.cancelled
      BY <1>1, <2>0 DEF Segment
    <3> HIDE DEF s
    <3> QED
      BY <1>2, <1>4, <3>1, <3>2
  <2>2. CASE ~(z.from > d) /\ Evidence(w, n, d) # {}
    BY <1>1, <1>2, <1>4, <2>2 DEF Stopped
  <2>3. CASE ~(z.from > d) /\ Evidence(w, n, d) = {}
    <3> DEFINE s == [[z EXCEPT !.to = d] EXCEPT !.released = TRUE]
    <3>1. Stopped(w, n, d) = s
      BY <1>4, <2>3 DEF Stopped
    <3>0. d \in Day /\ d <= Open /\ d # Open /\ z.from <= d
      BY <1>2, <2>3 DEF Day, Open
    <3>2. /\ s \in Segment /\ s.site = z.site /\ s.from = z.from /\ s.kind = z.kind
          /\ s.to = d /\ ~s.cancelled
      BY <1>1, <2>0, <3>0 DEF Segment
    <3> HIDE DEF s
    <3> QED
      BY <1>4, <2>0, <2>3, <3>0, <3>1, <3>2
  <2> QED
    BY <2>1, <2>2, <2>3
<1> QED
  BY <1>3, <1>4

(* A termination ends or cancels open segments and clears draft rows only. *)
LEMMA TerminateStep ==
  ASSUME RentalIInv, NEW set, NEW ending \in SUBSET Worker, NEW d \in 0..MaxDay,
         Terminate(set, ending, d)
  PROVE  RentalIInv'
<1>0. changes < MaxChanges /\ changes' = changes + 1 /\ UNCHANGED sheet
  BY DEF Terminate, Changing
<1>1. /\ segs' = [w \in Worker |->
           IF w \in ending THEN [n \in DOMAIN segs[w] |-> Stopped(w, n, d)] ELSE segs[w]]
      /\ rows' = [w \in Worker |->
           IF w \in ending THEN [x \in Site \X Day |-> IF x \in Cleared(w, d) THEN 0 ELSE rows[w][x]]
           ELSE rows[w]]
      /\ master' = [x \in Party |->
           IF x \in set \cup ending THEN [master[x] EXCEPT !.status = "TERMINATED", !.stop = d]
           ELSE master[x]]
      /\ UNCHANGED <<today, overtime, sheet, ended>>
  BY DEF Terminate, Changing
<1>2. /\ rows \in [Worker -> [Site \X Day -> 0..MaxSegments]]
      /\ \A w \in Worker, x \in Site \X Day : rows[w][x] \in 0..Len(segs[w])
      /\ master \in [Party -> Master] /\ changes \in 0..MaxChanges
  BY DEF RentalIInv, RentalTypeOK
(* The histories: what happens to the segments keeps their number and place. *)
<1>3. ASSUME NEW w \in Worker
      PROVE  /\ segs'[w] \in Seq(Segment) /\ DOMAIN segs'[w] = DOMAIN segs[w]
             /\ Len(segs'[w]) = Len(segs[w])
             /\ \A n \in DOMAIN segs[w] :
                  segs'[w][n] = IF w \in ending THEN Stopped(w, n, d) ELSE segs[w][n]
  <2>0. /\ segs[w] \in Seq(Segment) /\ Len(segs[w]) \in Nat
        /\ DOMAIN segs[w] = 1..Len(segs[w])
    BY HistoryOf
  <2>1. CASE w \notin ending
    BY <1>1, <2>0, <2>1
  <2>2. CASE w \in ending
    <3>1. segs'[w] = [n \in 1..Len(segs[w]) |-> Stopped(w, n, d)]
      BY <1>1, <2>0, <2>2
    <3>2. \A n \in 1..Len(segs[w]) : Stopped(w, n, d) \in Segment
      BY <2>0, StoppedFacts
    <3>3. segs'[w] \in Seq(Segment) /\ DOMAIN segs'[w] = 1..Len(segs[w])
      BY <2>0, <3>1, <3>2
    <3> QED
      BY <2>0, <2>2, <3>1, <3>3
  <2> QED
    BY <2>1, <2>2
<1>4. ASSUME NEW w \in Worker, NEW n \in DOMAIN segs[w]
      PROVE  LET s == segs'[w][n] IN
             /\ s \in Segment /\ s.site = segs[w][n].site /\ s.from = segs[w][n].from
             /\ s.kind = segs[w][n].kind /\ s.to <= segs[w][n].to
             /\ \/ s = segs[w][n]
                \/ /\ w \in ending /\ n \in OpenOf(w) /\ s.cancelled /\ s.to = segs[w][n].to
                \/ /\ w \in ending /\ n \in OpenOf(w) /\ ~s.cancelled /\ s.to = d /\ d \in Day
                   /\ s.from <= d /\ Evidence(w, n, d) = {}
  <2>1. CASE w \in ending
    <3>1. segs'[w][n] = Stopped(w, n, d)
      BY <1>3, <2>1
    <3> DEFINE s == Stopped(w, n, d)
    <3>2. /\ s \in Segment /\ s.site = segs[w][n].site /\ s.from = segs[w][n].from
          /\ s.kind = segs[w][n].kind /\ s.to <= segs[w][n].to
          /\ \/ s = segs[w][n]
             \/ /\ n \in OpenOf(w) /\ s.cancelled /\ s.to = segs[w][n].to
             \/ /\ n \in OpenOf(w) /\ ~s.cancelled /\ s.to = d /\ d \in Day
                /\ s.from <= d /\ Evidence(w, n, d) = {}
      BY StoppedFacts
    <3> HIDE DEF s
    <3> QED
      BY <2>1, <3>1, <3>2 DEF s
  <2>2. CASE w \notin ending
    <3>1. segs'[w][n] = segs[w][n] /\ segs[w][n] \in Segment
      BY <1>3, <2>2, HistoryOf
    <3>2. segs[w][n].to \in Nat
      BY <3>1, SegmentFacts
    <3> QED
      BY <3>1, <3>2
  <2> QED
    BY <2>1, <2>2
(* The rows: only draft ones of those who end are cleared. *)
<1>5. ASSUME NEW w \in Worker, NEW x \in Site \X Day
      PROVE  \/ rows'[w][x] = rows[w][x] /\ (w \in ending => x \notin Cleared(w, d))
             \/ /\ rows'[w][x] = 0 /\ w \in ending
                /\ sheet[<<x[1], MonthOf[x[2]]>>] = "DRAFT"
  BY <1>1 DEF Cleared
<1>6. RentalTypeOK'
  <2>1. segs' \in [Worker -> Seq(Segment)]
    BY <1>1, <1>3
  <2>2. \A w \in Worker, x \in Site \X Day :
          rows'[w][x] \in 0..MaxSegments /\ rows'[w][x] \in 0..Len(segs'[w])
    <3> TAKE w \in Worker, x \in Site \X Day
    <3>1. /\ rows[w][x] \in 0..MaxSegments /\ rows[w][x] \in 0..Len(segs[w])
          /\ Len(segs'[w]) = Len(segs[w]) /\ Len(segs[w]) \in Nat
      BY <1>2, <1>3, HistoryOf
    <3>2. rows'[w][x] = rows[w][x] \/ rows'[w][x] = 0
      BY <1>5
    <3>3. 0 \in 0..MaxSegments /\ 0 \in 0..Len(segs[w])
      BY <3>1
    <3> QED
      BY <3>1, <3>2, <3>3
  <2>3. rows' \in [Worker -> [Site \X Day -> 0..MaxSegments]]
    <3>1. \A w \in Worker : rows'[w] \in [Site \X Day -> 0..MaxSegments]
      <4> TAKE w \in Worker
      <4>1. rows[w] \in [Site \X Day -> 0..MaxSegments]
        BY <1>2
      <4>2. CASE w \in ending
        <5>1. rows'[w] = [x \in Site \X Day |-> IF x \in Cleared(w, d) THEN 0 ELSE rows[w][x]]
          BY <1>1, <4>2
        <5> QED
          BY <4>1, <5>1
      <4>3. CASE w \notin ending
        BY <1>1, <4>1, <4>3
      <4> QED
        BY <4>2, <4>3
    <3> QED
      BY <1>1, <3>1
  <2>4. master' \in [Party -> Master]
    <3>1. ASSUME NEW x \in Party
          PROVE  /\ master[x] \in Master
                 /\ [[master[x] EXCEPT !.status = "TERMINATED"] EXCEPT !.stop = d] \in Master
      <4>1. master[x] \in Master
        BY <1>2
      <4> QED
        BY <4>1, MasterFacts
    <3>2. \A x \in Party : master'[x] \in Master
      <4> TAKE x \in Party
      <4> DEFINE m == [[master[x] EXCEPT !.status = "TERMINATED"] EXCEPT !.stop = d]
      <4>1. m \in Master /\ master[x] \in Master
        BY <3>1
      <4>2. master'[x] = master[x] \/ master'[x] = m
        BY <1>1
      <4> HIDE DEF m
      <4> QED
        BY <4>1, <4>2
    <3> QED
      BY <1>1, <3>2
  <2>5. changes' \in 0..MaxChanges
    BY <1>0, <1>2
  <2> QED
    BY <1>1, <2>1, <2>2, <2>3, <2>4, <2>5 DEF RentalIInv, RentalTypeOK
<1>7. Lines'
  <2> SUFFICES ASSUME NEW w \in Worker PROVE Line(segs'[w])
    BY DEF Lines, Line, LiveIn, Apart
  <2>1. /\ Line(segs[w]) /\ segs'[w] \in Seq(Segment) /\ DOMAIN segs'[w] = DOMAIN segs[w]
        /\ Len(segs'[w]) = Len(segs[w])
    BY <1>3, HistoryOf
  <2>2. \A n \in DOMAIN segs[w] :
          \/ segs'[w][n] = segs[w][n]
          \/ /\ n \in LiveIn(segs[w]) /\ segs[w][n].to = Open
             /\ \/ segs'[w][n].cancelled
                \/ /\ ~segs'[w][n].cancelled /\ segs'[w][n].from = segs[w][n].from
                   /\ segs'[w][n].kind = segs[w][n].kind /\ segs'[w][n].to \in Day
    BY <1>4, HistoryOf
  <2> QED
    BY <2>1, <2>2, StoppedLine
<1>8. \A w \in Worker : (w \in ending \/ Terminated(w)) => Terminated(w)'
  <2> SUFFICES ASSUME NEW w \in Worker, w \in ending \/ Terminated(w)
               PROVE  master'[w].status = "TERMINATED"
    BY DEF Terminated
  <2>1. w \in Party /\ master[w] \in Master
    BY <1>2 DEF Party
  <2>2. CASE w \in set \cup ending
    <3> DEFINE m == [[master[w] EXCEPT !.status = "TERMINATED"] EXCEPT !.stop = d]
    <3>1. master'[w] = m
      BY <1>1, <2>1, <2>2
    <3>2. m.status = "TERMINATED"
      BY <2>1 DEF Master
    <3> HIDE DEF m
    <3> QED
      BY <3>1, <3>2
  <2>3. CASE w \notin set \cup ending
    BY <1>1, <2>1, <2>3 DEF Terminated
  <2> QED
    BY <2>2, <2>3
<1>9. RowsInForce'
  <2> SUFFICES ASSUME NEW w \in Worker, NEW p \in Site, NEW e \in Day, rows'[w][<<p, e>>] # 0
               PROVE  LET n == rows'[w][<<p, e>>] IN
                      /\ segs'[w][n].site = p /\ Covers(segs'[w][n], e)
                      /\ segs'[w][n].cancelled => Terminated(w)'
    BY DEF RowsInForce, Covers, Terminated
  <2> DEFINE n == rows'[w][<<p, e>>]
  <2>1. n = rows[w][<<p, e>>] /\ (w \in ending => <<p, e>> \notin Cleared(w, d))
    BY <1>5
  <2>2. /\ n \in DOMAIN segs[w] /\ segs[w][n].site = p /\ Covers(segs[w][n], e)
        /\ segs[w][n].cancelled => Terminated(w)
    BY <2>1, RowFacts
  <2> HIDE DEF n
  <2>3. CASE segs'[w][n] = segs[w][n]
    BY <1>8, <2>2, <2>3 DEF n
  <2>4. CASE /\ w \in ending /\ n \in OpenOf(w) /\ segs'[w][n].cancelled
             /\ segs'[w][n].to = segs[w][n].to
    <3>1. segs'[w][n].site = p /\ Covers(segs'[w][n], e)
      BY <1>4, <2>2, <2>4 DEF Covers
    <3> QED
      BY <1>8, <2>4, <3>1 DEF n
  <2>5. CASE /\ w \in ending /\ n \in OpenOf(w) /\ ~segs'[w][n].cancelled
             /\ segs'[w][n].to = d /\ d \in Day /\ segs'[w][n].from <= d
             /\ Evidence(w, n, d) = {}
(* A later row is a draft, and cleared, or evidence that keeps the segment.  *)
    <3>1. ~(e > d)
      <4> SUFFICES ASSUME e > d PROVE FALSE
        OBVIOUS
      <4> DEFINE x == <<p, e>>
      <4>1. /\ x \in Site \X Day /\ x[1] = p /\ x[2] = e /\ x[2] > d
            /\ rows[w][x] = n /\ w \in Worker
        BY <2>1
      <4>2. sheet[<<x[1], MonthOf[x[2]]>>] \in SheetStatus
        BY <4>1, DayFacts DEF RentalIInv, RentalTypeOK
      <4>3. segs[w][n].from <= d
        BY <1>4, <2>2, <2>5
      <4> HIDE DEF x
      <4>4. x \notin Evidence(w, n, d)
        BY <2>5
      <4>5. sheet[<<x[1], MonthOf[x[2]]>>] = "DRAFT"
        BY <4>1, <4>2, <4>4 DEF Evidence, SheetStatus
      <4>6. x \in Cleared(w, d)
        BY <2>5, <4>1, <4>3, <4>5 DEF Cleared
      <4> QED
        BY <2>1, <2>5, <4>6 DEF x
    <3>2. e \in Nat /\ d \in Nat
      BY DayFacts
    <3>3. segs'[w][n].site = p /\ Covers(segs'[w][n], e)
      <4>1. /\ segs'[w][n].site = segs[w][n].site
            /\ segs'[w][n].from = segs[w][n].from
        BY <1>4, <2>2
      <4>2. segs[w][n].from <= e /\ e <= d
        BY <2>2, <3>1, <3>2 DEF Covers
      <4> QED
        BY <2>2, <2>5, <4>1, <4>2 DEF Covers
    <3> QED
      BY <2>5, <3>3 DEF n
  <2> QED
    BY <1>4, <2>2, <2>3, <2>4, <2>5
<1>10. ReviewedComplete'
  <2> SUFFICES ASSUME NEW p \in Site, NEW m \in Month, sheet[<<p, m>>] \in Reviewed,
                      NEW w \in Worker, NEW e \in DaysOf(m), rows'[w][<<p, e>>] = 0,
                      NEW n \in DOMAIN segs'[w], ~segs'[w][n].cancelled,
                      segs'[w][n].site = p, Covers(segs'[w][n], e)
               PROVE  FALSE
    BY <1>0 DEF ReviewedComplete, Missing, At, Live, Covers
  <2>1. e \in Day /\ MonthOf[e] = m /\ e \in Nat
    BY DayFacts DEF DaysOf
  <2>2. n \in DOMAIN segs[w] /\ segs[w][n] \in Segment /\ segs'[w][n] \in Segment
    BY <1>3, <1>4, HistoryOf
  <2>3. n \in Live(w) /\ segs[w][n].site = p
    BY <1>4, <2>2, HistoryOf DEF Live, OpenOf
  <2>4. Covers(segs[w][n], e)
    <3>1. /\ segs[w][n].to \in Nat /\ segs'[w][n].to \in Nat /\ segs[w][n].from \in Nat
          /\ segs'[w][n].to <= segs[w][n].to /\ segs'[w][n].from = segs[w][n].from
      BY <1>4, <2>2, SegmentFacts
    <3> QED
      BY <2>1, <3>1 DEF Covers
  <2>5. rows[w][<<p, e>>] = 0
    <3> DEFINE x == <<p, e>>
    <3>1. x \in Site \X Day /\ x[1] = p /\ MonthOf[x[2]] = m
      BY <2>1
    <3> HIDE DEF x
    <3>2. sheet[<<x[1], MonthOf[x[2]]>>] # "DRAFT"
      BY <3>1 DEF Reviewed
    <3> QED
      BY <1>5, <3>1, <3>2 DEF x
  <2>6. <<w, e>> \in Missing(p, m)
    BY <2>3, <2>4, <2>5 DEF Missing, At
  <2> QED
    BY <2>6 DEF RentalIInv, ReviewedComplete
<1> QED
  BY <1>6, <1>7, <1>9, <1>10 DEF RentalIInv

-----------------------------------------------------------------------------
LEMMA RentalStarts == RentalInit => RentalIInv
<1> SUFFICES ASSUME RentalInit PROVE RentalIInv
  OBVIOUS
<1>1. /\ today = 1 /\ changes = 0
      /\ segs = [w \in Worker |-> <<>>]
      /\ rows = [w \in Worker |-> [x \in Site \X Day |-> 0]]
      /\ overtime = [w \in Worker |-> {}]
      /\ sheet = [x \in Site \X Month |-> "DRAFT"]
      /\ master = [x \in Party |-> [status |-> "ACTIVE", stop |-> 0, archived |-> FALSE, deleted |-> "no"]]
      /\ ended = [p \in Site |-> 0]
  BY DEF RentalInit
<1>2. /\ <<>> \in Seq(Segment) /\ Len(<<>>) = 0 /\ DOMAIN <<>> = {}
      /\ 0 \in 0..MaxSegments /\ 0 \in 0..MaxDay /\ 0 \in 0..MaxChanges /\ 1 \in Day
      /\ 0 \in 0..0
  BY DEF Day
<1>3. master \in [Party -> Master]
  BY <1>1, <1>2 DEF Master
<1>4. RentalTypeOK
  BY <1>1, <1>2, <1>3 DEF RentalTypeOK, SheetStatus
<1>5. Lines
  BY <1>1, <1>2 DEF Lines, Line, LiveIn
<1>6. RowsInForce
  BY <1>1 DEF RowsInForce
<1>7. ReviewedComplete
  BY <1>1 DEF ReviewedComplete, Reviewed
<1> QED
  BY <1>4, <1>5, <1>6, <1>7 DEF RentalIInv

(* Every step keeps the inductive invariant.                               *)
LEMMA RentalStep == RentalIInv /\ [RentalNext]_rentalVars => RentalIInv'
<1> SUFFICES ASSUME RentalIInv, [RentalNext]_rentalVars PROVE RentalIInv'
  OBVIOUS
<1>1. CASE UNCHANGED rentalVars
  <2>1. Aside /\ UNCHANGED <<segs, rows, sheet>>
    BY <1>1, AsideUnchanged
  <2> QED
    BY <2>1, AsideKeeps
<1>2. ASSUME NEW w \in Worker, NEW p \in Site, NEW d \in Day, AssignWorker(w, p, d)
      PROVE  RentalIInv'
  BY <1>2, AssignStep
<1>3. ASSUME NEW w \in Worker, NEW n \in Started(w), NEW d \in Day,
             \/ \E p \in Site : TransferWorker(w, n, p, d)
             \/ ChangeTerms(w, n, d)
             \/ \E inactive \in BOOLEAN : ReleaseWorker(w, n, d, inactive)
      PROVE  RentalIInv'
  <2>1. n \in OpenOf(w) /\ n \in DOMAIN segs[w]
    BY HistoryOf DEF Started, OpenOf
  <2>2. ASSUME NEW p \in Site, TransferWorker(w, n, p, d) PROVE RentalIInv'
    BY <2>1, <2>2, ReviseStep DEF TransferWorker
  <2>3. CASE ChangeTerms(w, n, d)
    <3> DEFINE p == segs[w][n].site
    <3>1. p \in Site /\ Revise(w, n, p, d) /\ SnapshotSafe(w, p, d)
      BY <2>1, <2>3, HistoryOf, SegmentFacts DEF ChangeTerms, Revise
    <3> HIDE DEF p
    <3> QED
      BY <2>1, <3>1, ReviseStep
  <2>4. ASSUME NEW inactive \in BOOLEAN, ReleaseWorker(w, n, d, inactive) PROVE RentalIInv'
    BY <2>1, <2>4, ReleaseStep
  <2> QED
    BY <1>3, <2>2, <2>3, <2>4
<1>4. ASSUME NEW w \in Worker, NEW n \in OpenOf(w), CancelScheduled(w, n)
      PROVE  RentalIInv'
  BY <1>4, CancelStep
<1>5. ASSUME NEW w \in Worker, NEW p \in Site, NEW d \in Day, NEW value \in BOOLEAN,
             SaveRow(w, p, d, value)
      PROVE  RentalIInv'
  BY <1>5, SaveRowStep
<1>6. ASSUME NEW p \in Site, NEW m \in Month, NEW to \in SheetStatus, TransitionTimesheet(p, m, to)
      PROVE  RentalIInv'
  BY <1>6, TransitionStep
<1>7. Worker \subseteq Party /\ Firm \subseteq Party
  BY DEF Party
<1>8. ASSUME NEW x \in Party,
             Archive(x) \/ RestoreArchive(x) \/ \E d \in 0..MaxDay : Deactivate(x, d)
      PROVE  RentalIInv'
  BY <1>8, MastersStep
<1>9. ASSUME NEW f \in Firm,
             \/ \E status \in {"ACTIVE", "INACTIVE"} : UpdateSupplier(f, status)
             \/ ActivateSupplier(f) \/ DeleteSupplier(f) \/ RestoreSupplier(f)
             \/ \E d \in 0..MaxDay : TerminateSupplier(f, d)
      PROVE  RentalIInv'
  <2>1. ASSUME NEW d \in 0..MaxDay, TerminateSupplier(f, d) PROVE RentalIInv'
    <3> DEFINE ending == {w \in Staff(f) : master[w].deleted = "no" /\ master[w].status # "TERMINATED"}
    <3>1. ending \in SUBSET Worker /\ Terminate({f}, ending, d)
      BY <2>1 DEF TerminateSupplier, Staff
    <3> HIDE DEF ending
    <3> QED
      BY <3>1, TerminateStep
  <2> QED
    BY <1>7, <1>9, <2>1, MastersStep, SupplierTrashStep
<1>10. ASSUME NEW w \in Worker,
              \/ ActivateWorker(w) \/ DeleteWorker(w) \/ RestoreWorker(w)
              \/ \E status \in {"ACTIVE", "INACTIVE"} : UpdateWorker(w, status)
              \/ \E d \in 0..MaxDay : TerminateWorker(w, d)
       PROVE  RentalIInv'
  <2>1. ASSUME NEW d \in 0..MaxDay, TerminateWorker(w, d) PROVE RentalIInv'
    BY <2>1, TerminateStep DEF TerminateWorker
  <2> QED
    BY <1>7, <1>10, <2>1, MastersStep
<1>11. CASE \/ NextDay
            \/ \E w \in Worker, p \in Site, m \in Month : SaveOvertime(w, p, m) \/ ClearOvertime(w, p, m)
            \/ \E p \in Site : ReopenProject(p) \/ \E d \in Day : CompleteProject(p, d)
  BY <1>11, OtherStep
<1> QED
  BY <1>1, <1>2, <1>3, <1>4, <1>5, <1>6, <1>8, <1>9, <1>10, <1>11 DEF RentalNext

-----------------------------------------------------------------------------
(* Rented workers' histories are one line of days each, in every state of  *)
(* every run (rental_manpower/services/assignments.py and masters.py), and *)
(* what a settlement reads is true to them and complete: saved rows are on *)
(* a segment that covers their day, and no month under review misses a     *)
(* worker-day (timesheets.py).                                             *)
THEOREM HistoriesAlwaysOneLine == RentalSpec => []RentalInv
<1>1. RentalIInv => RentalInv
  BY HistoryHolds DEF RentalIInv, RentalInv
<1> QED
  BY RentalStarts, RentalStep, <1>1, PTL DEF RentalSpec

(* Nobody changes the rows or the overtime of a month under review, and a  *)
(* locked timesheet is final.                                              *)
THEOREM ReviewedMonthsStand == RentalSpec => ReviewedRowsKept
<1> DEFINE Kept == \A p \in Site, m \in Month : sheet[<<p, m>>] \in Reviewed =>
       /\ \A w \in Worker, d \in DaysOf(m) : rows'[w][<<p, d>>] = rows[w][<<p, d>>]
       /\ \A w \in Worker : <<p, m>> \in overtime[w] <=> <<p, m>> \in overtime'[w]
       /\ sheet[<<p, m>>] = "LOCKED" => sheet'[<<p, m>>] = "LOCKED"
<1>1. ASSUME RentalIInv, RentalNext PROVE Kept
  <2>0. /\ sheet \in [Site \X Month -> SheetStatus] /\ rows \in [Worker -> [Site \X Day -> 0..MaxSegments]]
        /\ overtime \in [Worker -> SUBSET (Site \X Month)]
    BY <1>1 DEF RentalIInv, RentalTypeOK
  <2>1. CASE UNCHANGED <<rows, overtime, sheet>>
    BY <2>1
  <2>2. ASSUME NEW w \in Worker, NEW p \in Site, NEW d \in Day, NEW value \in BOOLEAN,
               SaveRow(w, p, d, value)
        PROVE  Kept
    <3>1. /\ sheet[<<p, MonthOf[d]>>] = "DRAFT" /\ UNCHANGED <<overtime, sheet>>
          /\ \E r : rows' = [rows EXCEPT ![w][<<p, d>>] = r]
      BY <2>2 DEF SaveRow, Editable
    <3>2. ASSUME NEW q \in Site, NEW m \in Month, sheet[<<q, m>>] \in Reviewed,
                 NEW v \in Worker, NEW e \in DaysOf(m)
          PROVE  rows'[v][<<q, e>>] = rows[v][<<q, e>>]
      <4>1. e \in Day /\ MonthOf[e] = m
        BY DEF DaysOf
      <4>2. <<q, e>> # <<p, d>>
        BY <3>1, <3>2, <4>1 DEF Reviewed
      <4> QED
        BY <2>0, <3>1, <4>1, <4>2
    <3> QED
      BY <3>1, <3>2
  <2>3. ASSUME NEW w \in Worker, NEW p \in Site, NEW m \in Month,
               SaveOvertime(w, p, m) \/ ClearOvertime(w, p, m)
        PROVE  Kept
    <3>1. /\ sheet[<<p, m>>] = "DRAFT" /\ UNCHANGED <<rows, sheet>>
          /\ \/ overtime' = [overtime EXCEPT ![w] = @ \cup {<<p, m>>}]
             \/ overtime' = [overtime EXCEPT ![w] = @ \ {<<p, m>>}]
      BY <2>3 DEF SaveOvertime, ClearOvertime, Editable
    <3>2. ASSUME NEW q \in Site, NEW k \in Month, sheet[<<q, k>>] \in Reviewed, NEW v \in Worker
          PROVE  <<q, k>> \in overtime[v] <=> <<q, k>> \in overtime'[v]
      <4>1. <<q, k>> # <<p, m>>
        BY <3>1, <3>2 DEF Reviewed
      <4> DEFINE x == <<q, k>>
                 y == <<p, m>>
      <4>2. \/ overtime'[v] = overtime[v]
            \/ overtime'[v] = overtime[v] \cup {y}
            \/ overtime'[v] = overtime[v] \ {y}
        BY <2>0, <3>1
      <4>3. x # y
        BY <4>1
      <4> HIDE DEF x, y
      <4>4. x \in overtime[v] <=> x \in overtime'[v]
        BY <4>2, <4>3
      <4> QED
        BY <4>4 DEF x
    <3> QED
      BY <3>1, <3>2
  <2>4. ASSUME NEW p \in Site, NEW m \in Month, NEW to \in SheetStatus, TransitionTimesheet(p, m, to)
        PROVE  Kept
    <3>1. /\ sheet[<<p, m>>] # "LOCKED" /\ UNCHANGED <<rows, overtime>>
          /\ sheet' = [sheet EXCEPT ![<<p, m>>] = to]
      BY <2>4 DEF TransitionTimesheet, Transitions
    <3>2. ASSUME NEW q \in Site, NEW k \in Month, sheet[<<q, k>>] = "LOCKED"
          PROVE  sheet'[<<q, k>>] = "LOCKED"
      <4>1. <<q, k>> # <<p, m>>
        BY <3>1, <3>2
      <4> QED
        BY <2>0, <3>1, <3>2, <4>1
    <3> QED
      BY <3>1, <3>2
  <2>5. ASSUME NEW set, NEW ending \in SUBSET Worker, NEW d, Terminate(set, ending, d)
        PROVE  Kept
    <3>1. UNCHANGED <<overtime, sheet>>
      BY <2>5 DEF Terminate
    <3>2. ASSUME NEW q \in Site, NEW m \in Month, sheet[<<q, m>>] \in Reviewed,
                 NEW v \in Worker, NEW e \in DaysOf(m)
          PROVE  rows'[v][<<q, e>>] = rows[v][<<q, e>>]
      <4> DEFINE x == <<q, e>>
      <4>1. x \in Site \X Day /\ x[1] = q /\ MonthOf[x[2]] = m
        BY DEF DaysOf
      <4> HIDE DEF x
      <4>2. x \notin Cleared(v, d)
        BY <3>2, <4>1 DEF Cleared, Reviewed
      <4>3. rows' = [w \in Worker |->
               IF w \in ending THEN [y \in Site \X Day |-> IF y \in Cleared(w, d) THEN 0 ELSE rows[w][y]]
               ELSE rows[w]]
        BY <2>5 DEF Terminate
      <4> QED
        BY <4>1, <4>2, <4>3 DEF x
    <3> QED
      BY <3>1, <3>2
  <2> HIDE DEF Kept
  <2>6. ASSUME NEW f \in Firm, NEW d \in 0..MaxDay, TerminateSupplier(f, d) PROVE Kept
    <3> DEFINE ending == {w \in Staff(f) : master[w].deleted = "no" /\ master[w].status # "TERMINATED"}
    <3>1. ending \in SUBSET Worker /\ Terminate({f}, ending, d)
      BY <2>6 DEF TerminateSupplier, Staff
    <3> HIDE DEF ending
    <3> QED
      BY <2>5, <3>1
  <2>7. ASSUME NEW w \in Worker, NEW d \in 0..MaxDay, TerminateWorker(w, d) PROVE Kept
    BY <2>5, <2>7 DEF TerminateWorker
  <2>8. ASSUME NEW w \in Worker,
               \/ \E p \in Site, d \in Day : AssignWorker(w, p, d)
               \/ \E n \in Started(w) : \E d \in Day :
                    \/ \E p \in Site : TransferWorker(w, n, p, d)
                    \/ ChangeTerms(w, n, d)
                    \/ \E inactive \in BOOLEAN : ReleaseWorker(w, n, d, inactive)
               \/ \E n \in OpenOf(w) : CancelScheduled(w, n)
        PROVE  Kept
    <3>1. CASE \E p \in Site, d \in Day : AssignWorker(w, p, d)
      BY <2>1, <3>1 DEF AssignWorker, Extend
    <3>2. ASSUME NEW n \in Started(w), NEW d \in Day,
                 (\E p \in Site : TransferWorker(w, n, p, d)) \/ ChangeTerms(w, n, d)
          PROVE  Kept
      BY <2>1, <3>2 DEF TransferWorker, ChangeTerms, Revise, Extend
    <3>3. ASSUME NEW n \in Started(w), NEW d \in Day, NEW inactive \in BOOLEAN,
                 ReleaseWorker(w, n, d, inactive)
          PROVE  Kept
      BY <2>1, <3>3 DEF ReleaseWorker
    <3>4. CASE \E n \in OpenOf(w) : CancelScheduled(w, n)
      BY <2>1, <3>4 DEF CancelScheduled
    <3> QED
      BY <2>8, <3>1, <3>2, <3>3, <3>4
  <2>9. ASSUME NEW x,
               \/ Archive(x) \/ RestoreArchive(x) \/ \E d \in 0..MaxDay : Deactivate(x, d)
               \/ \E status \in {"ACTIVE", "INACTIVE"} : UpdateSupplier(x, status) \/ UpdateWorker(x, status)
               \/ ActivateSupplier(x) \/ DeleteSupplier(x) \/ RestoreSupplier(x)
               \/ ActivateWorker(x) \/ DeleteWorker(x) \/ RestoreWorker(x)
               \/ ReopenProject(x) \/ \E d \in Day : CompleteProject(x, d)
        PROVE  Kept
    <3>1. UNCHANGED <<rows, overtime, sheet>>
      BY <2>9 DEF Archive, RestoreArchive, Deactivate, UpdateSupplier, UpdateWorker, ActivateSupplier,
         DeleteSupplier, RestoreSupplier, ActivateWorker, DeleteWorker, RestoreWorker, SetMaster,
         ReopenProject, CompleteProject
    <3> QED
      BY <2>1, <3>1
  <2>10. CASE NextDay
    BY <2>1, <2>10 DEF NextDay
  <2> QED
    BY <1>1, <2>2, <2>3, <2>4, <2>6, <2>7, <2>8, <2>9, <2>10 DEF RentalNext
<1>2. RentalIInv /\ [RentalNext]_rentalVars => [Kept]_rentalVars
  <2> HIDE DEF Kept
  <2> QED
    BY <1>1
<1> QED
  BY RentalStarts, RentalStep, <1>2, PTL DEF RentalSpec, ReviewedRowsKept
=============================================================================
