-------------------------- MODULE SupplierPromise --------------------------
(***************************************************************************)
(* What a settled month promises its suppliers, without adjustments,       *)
(* calculations, statuses and single payments.  What everybody has earned  *)
(* is fixed at once and stays; an invoice adds VAT to it, once; and money  *)
(* leaves only after the invoice and up to its total, counting what has    *)
(* arrived and what is on its way.  Money on its way arrives or comes      *)
(* back, money that has arrived may be taken back, and either may then be  *)
(* sent again.                                                             *)
(***************************************************************************)
EXTENDS Naturals

CONSTANTS Supplier, Vat, Amounts, None

VARIABLES earned,   \* [Supplier -> Nat], or None before the month is approved
          owed,     \* [Supplier -> total of the invoice, or None]
          sent,     \* [Supplier -> money on its way]
          received  \* [Supplier -> money that has arrived]

Init ==
  /\ earned = None /\ owed = [s \in Supplier |-> None]
  /\ sent = [s \in Supplier |-> 0] /\ received = [s \in Supplier |-> 0]

Approve ==
  /\ earned = None /\ earned' \in [Supplier -> Nat]
  /\ UNCHANGED <<owed, sent, received>>

Invoice(s, vat) ==
  /\ earned # None /\ owed[s] = None
  /\ owed' = [owed EXCEPT ![s] = earned[s] + vat]
  /\ UNCHANGED <<earned, sent, received>>

Covers(s, amount) == received[s] + sent[s] + amount <= owed[s]

Send(s, amount) ==
  Covers(s, amount) /\ sent' = [sent EXCEPT ![s] = @ + amount] /\ UNCHANGED received

HandOver(s, amount) ==
  Covers(s, amount) /\ received' = [received EXCEPT ![s] = @ + amount] /\ UNCHANGED sent

Arrive(s, amount) ==
  /\ amount <= sent[s] /\ sent' = [sent EXCEPT ![s] = @ - amount]
  /\ received' = [received EXCEPT ![s] = @ + amount]

ComeBack(s, amount) ==
  amount <= sent[s] /\ sent' = [sent EXCEPT ![s] = @ - amount] /\ UNCHANGED received

TakeBack(s, amount) ==
  amount <= received[s] /\ received' = [received EXCEPT ![s] = @ - amount] /\ UNCHANGED sent

(* Money moves on an invoice, and changes neither it nor what is earned.   *)
Move(s) ==
  /\ owed[s] # None /\ UNCHANGED <<earned, owed>>
  /\ \E amount \in Amounts :
       \/ Send(s, amount) \/ HandOver(s, amount)
       \/ Arrive(s, amount) \/ ComeBack(s, amount) \/ TakeBack(s, amount)

Next == Approve \/ \E s \in Supplier : Move(s) \/ \E vat \in Vat : Invoice(s, vat)

Spec == Init /\ [][Next]_<<earned, owed, sent, received>>
=============================================================================
