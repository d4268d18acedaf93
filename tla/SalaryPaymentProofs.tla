------------------------ MODULE SalaryPaymentProofs ------------------------
(***************************************************************************)
(* Paying a payroll run keeps its books, whatever the lines, the batches,  *)
(* the files of the bank and the order of the calls.                       *)
(***************************************************************************)
EXTENDS SalaryPayout, SumTheorems

RowStatus  == Result \cup {"NONE", "PENDING", "CANCELLED"}
PaymentRow == [status : RowStatus, claim : BOOLEAN, attempts : Seq(Result)]
BatchRow   == [status : BatchStatus, paid : 0..Total, files : SUBSET File]

(* The attempts of one row are one after the other.                         *)
Linear(r) ==
  r.attempts # <<>> =>
    /\ r.attempts[Len(r.attempts)] = r.status
    /\ \A n \in 1..(Len(r.attempts) - 1) : r.attempts[n] \in {"FAILED", "REVERSED"}

(* A batch's row is of the batch's age: it waits until the batch starts,    *)
(* has a result of the bank or awaits it from then on, and is cancelled     *)
(* with the batch.                                                          *)
OfAge(r, status) ==
  CASE status = "NONE"                    -> r.status = "NONE" /\ r.attempts = <<>> /\ ~r.claim
    [] status \in {"PREPARED", "EXPORTED"} -> r.status = "PENDING" /\ r.attempts = <<>> /\ r.claim
    [] status = "CANCELLED"               -> r.status = "CANCELLED" /\ r.attempts = <<>> /\ ~r.claim
    [] OTHER                              -> r.status \in Result /\ r.attempts # <<>> /\ r.claim

RowsOfAge == \A b \in Batch, l \in Payable : OfAge(row[b][l], batch[b].status)

(* Nothing is paid before the batch starts.                                 *)
UnpaidUntilStarted == \A b \in Batch : ~Started(b) => batch[b].paid = 0

(* The inductive invariant: what the run checks says nothing of the rows of *)
(* a batch that has not started, on which starting it relies.               *)
IInv == SalaryInv /\ RowsOfAge /\ UnpaidUntilStarted

----------------------------------------------------------------------------
(* Amounts *)

(* The payable lines sum to the total of the run, a positive amount, and no *)
(* smaller set of them does.                                                *)
LEMMA PaidSums ==
  /\ Total \in Nat
  /\ \A paid \in SUBSET Payable :
       /\ SumFunctionOnSet(Net, paid) \in 0..Total
       /\ SumFunctionOnSet(Net, paid) = Total <=> paid = Payable
  /\ Total # 0
<1>1. Net \in [Line -> Nat] /\ IsFiniteSet(Line) /\ Payable \subseteq Line
  BY PaymentAssumption DEF Payable
<1>2. \A x \in Line : Net[x] \in Nat
  BY <1>1
<1>3. ASSUME NEW paid \in SUBSET Payable
      PROVE  /\ SumFunctionOnSet(Net, paid) \in 0..Total
             /\ SumFunctionOnSet(Net, paid) = Total <=> paid = Payable
  <2>1. paid \in SUBSET Line
    BY <1>1
  <2>2. /\ Total \in Nat /\ SumFunctionOnSet(Net, paid) \in Nat
        /\ SumFunctionOnSet(Net, paid) <= Total
        /\ SumFunctionOnSet(Net, paid) = Total => \A x \in Line \ paid : Net[x] = 0
    BY <1>1, <1>2, <2>1, SumOfPart DEF Total
  <2>3. SumFunctionOnSet(Net, Payable) = Total
    <3>1. \A x \in Line \ Payable : Net[x] = 0
      BY DEF Payable
    <3> QED
      BY <1>1, <1>2, <3>1, SumWithoutZeroes DEF Total
  <2>4. SumFunctionOnSet(Net, paid) = Total => Payable \subseteq paid
    BY <2>2, <1>1 DEF Payable
  <2> QED
    BY <2>2, <2>3, <2>4
<1>4. Total \in Nat
  BY <1>1, <1>2, SumOfPart DEF Total
<1>5. Payable # {}
  BY PaymentAssumption DEF Payable
<1>6. Total # 0
  <2>1. {} \in SUBSET Payable
    OBVIOUS
  <2> QED
    BY <1>3, <1>5, <2>1, SumEmpty
<1> QED
  BY <1>3, <1>4, <1>6

(* _refresh_batch_locked: the amount of any rows is an amount of the run.   *)
LEMMA PaidAmounts ==
  ASSUME NEW rows
  PROVE  /\ PaidAmount(rows) \in 0..Total
         /\ PaidAmount(rows) = Total <=> \A l \in Payable : rows[l].status = "PAID"
         /\ (\A l \in Payable : rows[l].status # "PAID") => PaidAmount(rows) = 0
<1>1. LinesIn(rows, {"PAID"}) \in SUBSET Payable
  BY DEF LinesIn
<1>2. /\ PaidAmount(rows) \in 0..Total
      /\ PaidAmount(rows) = Total <=> LinesIn(rows, {"PAID"}) = Payable
  BY <1>1, PaidSums DEF PaidAmount
<1>3. LinesIn(rows, {"PAID"}) = Payable <=> \A l \in Payable : rows[l].status = "PAID"
  BY DEF LinesIn
<1>4. (\A l \in Payable : rows[l].status # "PAID") => LinesIn(rows, {"PAID"}) = {}
  BY DEF LinesIn
<1> QED
  BY <1>2, <1>3, <1>4, SumEmpty DEF PaidAmount

LEMMA PayableExists == Payable # {}
BY PaymentAssumption DEF Payable

(* The status that started rows give their batch says what they say.        *)
LEMMA RefreshedStatus ==
  ASSUME NEW rows, \A l \in Payable : rows[l].status \in Result, NEW status
  PROVE  /\ StatusOf(rows, status) \in {"PAID", "ATTENTION", "PARTIALLY_PAID", "PROCESSING"}
         /\ StatusOf(rows, status) = "PAID" <=> \A l \in Payable : rows[l].status = "PAID"
         /\ StatusOf(rows, status) = "ATTENTION" <=>
              \E l \in Payable : rows[l].status \in {"FAILED", "REVERSED"}
<1>1. LinesIn(rows, {"PAID"}) = Payable <=> \A l \in Payable : rows[l].status = "PAID"
  BY DEF LinesIn
<1>2. LinesIn(rows, {"FAILED", "REVERSED"}) # {} <=>
        \E l \in Payable : rows[l].status \in {"FAILED", "REVERSED"}
  BY DEF LinesIn
<1>3. LinesIn(rows, {"PAID"}) # {} \/ LinesIn(rows, {"FAILED", "REVERSED"}) # {}
        \/ LinesIn(rows, {"PROCESSING"}) # {}
  BY PayableExists DEF LinesIn, Result
<1>4. LinesIn(rows, {"PAID"}) = Payable => LinesIn(rows, {"FAILED", "REVERSED"}) = {}
  BY DEF LinesIn
<1> QED
  BY <1>1, <1>2, <1>3, <1>4 DEF StatusOf

----------------------------------------------------------------------------
(* Rows *)

(* A new attempt follows one that came back, or is the first.               *)
LEMMA AttemptedRow ==
  ASSUME NEW r \in PaymentRow, Linear(r), r.attempts = <<>> \/ Retriable(r)
  PROVE  /\ Attempted(r) \in PaymentRow /\ Linear(Attempted(r))
         /\ Attempted(r).status = "PROCESSING" /\ Attempted(r).claim = r.claim
         /\ Attempted(r).attempts # <<>>
<1> DEFINE a == r.attempts  q == Attempted(r)
<1>1. a \in Seq(Result) /\ Len(a) \in Nat
  BY DEF PaymentRow
<1>2. q.attempts = Append(a, "PROCESSING") /\ q.status = "PROCESSING" /\ q.claim = r.claim
  BY DEF Attempted, PaymentRow
<1>3. q \in PaymentRow
  <2>1. Append(a, "PROCESSING") \in Seq(Result)
    BY <1>1 DEF Result
  <2> QED
    BY <2>1 DEF Attempted, PaymentRow, RowStatus, Result
<1>4. /\ Len(q.attempts) = Len(a) + 1 /\ q.attempts[Len(a) + 1] = "PROCESSING"
      /\ \A n \in 1..Len(a) : q.attempts[n] = a[n]
      /\ q.attempts # <<>>
  BY <1>1, <1>2
<1>5. \A n \in 1..Len(a) : a[n] \in {"FAILED", "REVERSED"}
  <2>1. CASE a = <<>>
    BY <2>1
  <2>2. CASE a # <<>> /\ Retriable(r)
    <3>1. a[Len(a)] \in {"FAILED", "REVERSED"}
      BY <2>2 DEF Linear, Retriable
    <3>2. \A n \in 1..(Len(a) - 1) : a[n] \in {"FAILED", "REVERSED"}
      BY <2>2 DEF Linear
    <3> QED
      BY <1>1, <3>1, <3>2
  <2> QED
    BY <2>1, <2>2
<1> HIDE DEF a, q
<1>6. Linear(q)
  BY <1>1, <1>2, <1>4, <1>5 DEF Linear
<1> QED
  BY <1>2, <1>3, <1>4, <1>6 DEF q

(* A result is written to the row and to its newest attempt.                *)
LEMMA ReportedRow ==
  ASSUME NEW r \in PaymentRow, Linear(r), NEW result \in Result \cup {"ABSENT"},
         r.attempts # <<>>, r.status \in Result
  PROVE  /\ Reported(r, result) \in PaymentRow /\ Linear(Reported(r, result))
         /\ Reported(r, result).status \in Result
         /\ Reported(r, result).claim = r.claim
         /\ Len(Reported(r, result).attempts) = Len(r.attempts)
         /\ Reported(r, result).attempts # <<>>
<1> DEFINE a == r.attempts  q == Reported(r, result)
<1>1. a \in Seq(Result) /\ Len(a) \in Nat /\ Len(a) >= 1
  BY DEF PaymentRow
<1>2. CASE result = "ABSENT"
  BY <1>2 DEF Reported
<1>3. CASE result # "ABSENT"
  <2>1. q.attempts = [a EXCEPT ![Len(a)] = result] /\ q.status = result /\ q.claim = r.claim
    BY <1>3 DEF Reported, PaymentRow
  <2>2. /\ [a EXCEPT ![Len(a)] = result] \in Seq(Result)
        /\ Len([a EXCEPT ![Len(a)] = result]) = Len(a)
        /\ [a EXCEPT ![Len(a)] = result][Len(a)] = result
        /\ \A n \in 1..(Len(a) - 1) : [a EXCEPT ![Len(a)] = result][n] = a[n]
    BY <1>1, <1>3
  <2>3. q \in PaymentRow
    BY <1>3, <2>1, <2>2 DEF Reported, PaymentRow, RowStatus
  <2>4. \A n \in 1..(Len(a) - 1) : a[n] \in {"FAILED", "REVERSED"}
    BY DEF Linear
  <2> HIDE DEF a, q
  <2>5. Linear(q)
    BY <2>1, <2>2, <2>4, <1>1 DEF Linear
  <2>6. Len(q.attempts) = Len(a) /\ q.attempts # <<>>
    <3>1. q.attempts \in Seq(Result) /\ Len(q.attempts) = Len(a)
      BY <2>1, <2>2
    <3> QED
      BY <1>1, <3>1
  <2> QED
    BY <1>3, <2>1, <2>3, <2>5, <2>6 DEF q, a
<1> QED
  BY <1>2, <1>3

----------------------------------------------------------------------------
(* Batches *)

(* What the invariant says of one batch, rows and all, as a predicate of    *)
(* the values an action gives them.                                         *)
WaitingIn(status) == status \in {"NONE", "CANCELLED", "PREPARED", "EXPORTED"}

Sound(bt, rows) ==
  /\ bt \in BatchRow /\ rows \in [Payable -> PaymentRow]
  /\ \A l \in Payable : Linear(rows[l]) /\ OfAge(rows[l], bt.status)
  /\ IF WaitingIn(bt.status) THEN bt.paid = 0
     ELSE /\ bt.paid = PaidAmount(rows)
          /\ bt.status \in {"PAID", "CLOSED"} <=> bt.paid = Total
          /\ bt.status = "ATTENTION" <=> \E l \in Payable : rows[l].status \in {"FAILED", "REVERSED"}

(* The invariant, batch by batch: each is sound, one at most is live, and   *)
(* the run has the status of the live one.                                  *)
LiveStatus(status) == status \notin {"NONE", "CANCELLED"}

RunFits(r, status) ==
  LiveStatus(status) =>
    /\ r = "APPROVED" <=> status \in {"PREPARED", "EXPORTED"}
    /\ r = "CLOSED" <=> status = "CLOSED"
    /\ r = "PAID" <=> status = "PAID"

BatchInv ==
  /\ run \in RunStatus
  /\ batch \in [Batch -> BatchRow] /\ row \in [Batch -> [Payable -> PaymentRow]]
  /\ \A b \in Batch : Sound(batch[b], row[b]) /\ RunFits(run, batch[b].status)
  /\ \A b1, b2 \in Batch : LiveStatus(batch[b1].status) /\ LiveStatus(batch[b2].status) => b1 = b2
  /\ run \in {"PAID", "CLOSED"} => \E b \in Batch : LiveStatus(batch[b].status)

LEMMA BatchInvIsInv == BatchInv <=> IInv
<1>1. ASSUME BatchInv PROVE IInv
  <2> USE <1>1
  <2>1. TypeOK
    BY DEF BatchInv, TypeOK, BatchRow, PaymentRow, RowStatus
  <2>2. OneClaim
    BY DEF BatchInv, OneClaim, Live, LiveStatus, Sound, OfAge, BatchRow, BatchStatus
  <2>3. AttemptsLinear
    BY DEF BatchInv, AttemptsLinear, Started, Live, Sound, Linear, OfAge, BatchRow, BatchStatus
  <2>4. BatchAgrees
    BY DEF BatchInv, BatchAgrees, Started, Live, Sound, WaitingIn
  <2>5. RunAgrees
    <3>1. ASSUME run \in {"PAID", "CLOSED"}, NEW l \in Payable
          PROVE  \E b \in Batch : row[b][l].claim /\ row[b][l].status = "PAID"
      <4>1. PICK b \in Batch : LiveStatus(batch[b].status)
        BY <3>1 DEF BatchInv
      <4>2. batch[b].status \in {"PAID", "CLOSED"}
        BY <3>1, <4>1 DEF BatchInv, RunFits
      <4>3. PaidAmount(row[b]) = Total
        BY <4>2 DEF BatchInv, Sound, WaitingIn
      <4> QED
        BY <4>2, <4>3, PaidAmounts DEF BatchInv, Sound, OfAge
    <3>2. ASSUME NEW b \in Batch, Live(b)
          PROVE  /\ run = "APPROVED" <=> ~Started(b)
                 /\ run = "CLOSED" <=> batch[b].status = "CLOSED"
                 /\ run = "PAID" <=> batch[b].status = "PAID"
      BY <3>2 DEF BatchInv, RunFits, LiveStatus, Live, Started
    <3> QED
      BY <3>1, <3>2 DEF RunAgrees
  <2>6. RowsOfAge
    BY DEF BatchInv, RowsOfAge, Sound
  <2>7. UnpaidUntilStarted
    BY DEF BatchInv, UnpaidUntilStarted, Started, Live, Sound, WaitingIn
  <2> QED
    BY <2>1, <2>2, <2>3, <2>4, <2>5, <2>6, <2>7 DEF IInv, SalaryInv
<1>2. ASSUME IInv PROVE BatchInv
  <2> USE <1>2 DEF IInv, SalaryInv
  <2>1. run \in RunStatus /\ batch \in [Batch -> BatchRow] /\ row \in [Batch -> [Payable -> PaymentRow]]
    BY DEF TypeOK, BatchRow, PaymentRow, RowStatus
  <2>2. ASSUME NEW b \in Batch PROVE Sound(batch[b], row[b])
    <3>1. \A l \in Payable : Linear(row[b][l])
      BY DEF AttemptsLinear, Linear
    <3>2. \A l \in Payable : OfAge(row[b][l], batch[b].status)
      BY DEF RowsOfAge
    <3>3. ~WaitingIn(batch[b].status) <=> Started(b)
      BY DEF WaitingIn, Started, Live
    <3> QED
      BY <2>1, <3>1, <3>2, <3>3 DEF Sound, BatchAgrees, UnpaidUntilStarted
  <2>3. ASSUME NEW b \in Batch PROVE RunFits(run, batch[b].status)
    BY DEF RunFits, LiveStatus, RunAgrees, Started, Live
  <2>4. \A b1, b2 \in Batch : LiveStatus(batch[b1].status) /\ LiveStatus(batch[b2].status) => b1 = b2
    BY DEF OneClaim, Live, LiveStatus
  <2>5. run \in {"PAID", "CLOSED"} => \E b \in Batch : LiveStatus(batch[b].status)
    BY PayableExists DEF RunAgrees, OneClaim, Live, LiveStatus
  <2> QED
    BY <2>1, <2>2, <2>3, <2>4, <2>5 DEF BatchInv
<1> QED
  BY <1>1, <1>2

----------------------------------------------------------------------------
(* Steps *)

(* A step that leaves its batch sound and in step with the run, when no     *)
(* other batch is live, keeps the invariant.                                *)
LEMMA OneBatchStep ==
  ASSUME BatchInv, NEW b \in Batch, NEW bt, NEW rows,
         batch' = [batch EXCEPT ![b] = bt], row' = [row EXCEPT ![b] = rows],
         Sound(bt, rows), run' \in RunStatus, RunFits(run', bt.status),
         \A x \in Batch : x # b => ~LiveStatus(batch[x].status),
         run' \in {"PAID", "CLOSED"} => LiveStatus(bt.status)
  PROVE  BatchInv'
<1>1. /\ batch'[b] = bt /\ row'[b] = rows
      /\ \A x \in Batch : x # b => batch'[x] = batch[x] /\ row'[x] = row[x]
  BY DEF BatchInv
<1>2. batch' \in [Batch -> BatchRow] /\ row' \in [Batch -> [Payable -> PaymentRow]]
  BY DEF BatchInv, Sound
<1>3. ASSUME NEW x \in Batch
      PROVE  Sound(batch'[x], row'[x]) /\ RunFits(run', batch'[x].status)
  <2>1. CASE x = b
    BY <1>1, <2>1
  <2>2. CASE x # b
    BY <1>1, <2>2 DEF BatchInv, RunFits
  <2> QED
    BY <2>1, <2>2
<1>4. \A x \in Batch : LiveStatus(batch'[x].status) => x = b
  BY <1>1
<1> QED
  BY <1>1, <1>2, <1>3, <1>4 DEF BatchInv, Sound, PaidAmount, Total

(* A batch that is live is the only one.                                    *)
LEMMA OnlyLive ==
  ASSUME BatchInv, NEW b \in Batch, LiveStatus(batch[b].status)
  PROVE  \A x \in Batch : x # b => ~LiveStatus(batch[x].status)
BY DEF BatchInv

LEMMA PrepareKeeps == ASSUME BatchInv, NEW b \in Batch, Prepare(b) PROVE BatchInv'
<1> DEFINE bt   == [batch[b] EXCEPT !.status = "PREPARED"]
           rows == [l \in Payable |-> [status |-> "PENDING", claim |-> TRUE, attempts |-> <<>>]]
<1>1. batch' = [batch EXCEPT ![b] = bt] /\ row' = [row EXCEPT ![b] = rows] /\ run' = run /\ run = "APPROVED"
  BY DEF Prepare
<1>2. batch[b] \in BatchRow /\ batch[b].status = "NONE" /\ Sound(batch[b], row[b])
  BY DEF BatchInv, Prepare
<1>3. bt \in BatchRow /\ bt.status = "PREPARED" /\ bt.paid = 0
  BY <1>2 DEF BatchRow, BatchStatus, Sound, WaitingIn
<1>4. rows \in [Payable -> PaymentRow]
  BY DEF PaymentRow, RowStatus
<1>5. \A l \in Payable : Linear(rows[l]) /\ OfAge(rows[l], "PREPARED")
  BY DEF Linear, OfAge
<1>6. Sound(bt, rows)
  BY <1>3, <1>4, <1>5 DEF Sound, WaitingIn
<1>7. \A x \in Batch : ~LiveStatus(batch[x].status)
  <2>1. ASSUME NEW x \in Batch, LiveStatus(batch[x].status) PROVE FALSE
    <3>1. PICK l \in Payable : TRUE
      BY PayableExists
    <3>2. row[x][l].claim
      BY <2>1 DEF BatchInv, Sound, OfAge, LiveStatus
    <3> QED
      BY <3>1, <3>2 DEF Prepare, Claimed
  <2> QED
    BY <2>1
<1>8. RunFits(run', bt.status)
  BY <1>1, <1>3 DEF RunFits
<1> HIDE DEF bt, rows
<1> QED
  BY <1>1, <1>6, <1>7, <1>8, OneBatchStep DEF RunStatus

LEMMA ExportKeeps == ASSUME BatchInv, NEW b \in Batch, Export(b) PROVE BatchInv'
<1> DEFINE bt == [batch[b] EXCEPT !.status = IF @ = "PREPARED" THEN "EXPORTED" ELSE @]
<1>1. /\ batch' = [batch EXCEPT ![b] = bt] /\ row' = [row EXCEPT ![b] = row[b]] /\ run' = run
      /\ LiveStatus(batch[b].status)
  BY DEF Export, BatchInv, LiveStatus
<1>2. batch[b] \in BatchRow /\ Sound(batch[b], row[b]) /\ RunFits(run, batch[b].status)
  BY DEF BatchInv
<1>3. bt \in BatchRow /\ bt.paid = batch[b].paid
      /\ bt.status = IF batch[b].status = "PREPARED" THEN "EXPORTED" ELSE batch[b].status
  BY <1>2 DEF BatchRow, BatchStatus
<1> HIDE DEF bt
<1>4. Sound(bt, row[b])
  BY <1>2, <1>3 DEF Sound, OfAge, WaitingIn
<1>5. RunFits(run, bt.status) /\ LiveStatus(bt.status)
  BY <1>1, <1>2, <1>3 DEF RunFits, LiveStatus
<1> QED
  BY <1>1, <1>4, <1>5, OnlyLive, OneBatchStep DEF BatchInv

LEMMA StartKeeps == ASSUME BatchInv, NEW b \in Batch, Start(b) PROVE BatchInv'
<1> DEFINE bt   == [batch[b] EXCEPT !.status = "PROCESSING"]
           rows == [l \in Payable |-> IF row[b][l].claim /\ row[b][l].status = "PENDING"
                                      THEN Attempted(row[b][l]) ELSE row[b][l]]
<1>1. /\ batch' = [batch EXCEPT ![b] = bt] /\ row' = [row EXCEPT ![b] = rows]
      /\ run' = "PAYMENT_PROCESSING" /\ batch[b].status \in {"PREPARED", "EXPORTED"}
  BY DEF Start, BatchInv
<1>2. batch[b] \in BatchRow /\ Sound(batch[b], row[b])
  BY DEF BatchInv
<1>3. bt \in BatchRow /\ bt.status = "PROCESSING" /\ bt.paid = 0
  BY <1>1, <1>2 DEF BatchRow, BatchStatus, Sound, WaitingIn
<1>4. ASSUME NEW l \in Payable
      PROVE  /\ rows[l] \in PaymentRow /\ Linear(rows[l]) /\ rows[l].status = "PROCESSING"
             /\ rows[l].claim /\ rows[l].attempts # <<>>
  <2>1. /\ row[b][l] \in PaymentRow /\ Linear(row[b][l]) /\ row[b][l].claim
        /\ row[b][l].status = "PENDING" /\ row[b][l].attempts = <<>>
    BY <1>1, <1>2 DEF Sound, OfAge
  <2>2. rows[l] = Attempted(row[b][l])
    BY <2>1
  <2> HIDE DEF rows
  <2> QED
    BY <2>1, <2>2, AttemptedRow
<1>5. rows \in [Payable -> PaymentRow]
  BY <1>4
<1> HIDE DEF rows, bt
<1>6. /\ \A l \in Payable : OfAge(rows[l], "PROCESSING")
      /\ PaidAmount(rows) = 0 /\ 0 # Total
      /\ ~\E l \in Payable : rows[l].status \in {"FAILED", "REVERSED"}
  BY <1>4, PaidAmounts, PaidSums DEF OfAge, Result
<1>7. Sound(bt, rows)
  BY <1>3, <1>4, <1>5, <1>6 DEF Sound, WaitingIn
<1>8. RunFits(run', bt.status) /\ run' \in RunStatus /\ LiveStatus(batch[b].status)
  BY <1>1, <1>3 DEF RunFits, RunStatus, LiveStatus
<1> QED
  BY <1>1, <1>7, <1>8, OnlyLive, OneBatchStep

(* Results and retries refresh the batch and the run from the rows.         *)
LEMMA RefreshKeeps ==
  ASSUME BatchInv, NEW b \in Batch, ~WaitingIn(batch[b].status),
         NEW rows \in [Payable -> PaymentRow], NEW file \in SUBSET File,
         \A l \in Payable : Linear(rows[l]) /\ OfAge(rows[l], "PROCESSING"),
         RefreshWith(b, rows, file)
  PROVE  BatchInv'
<1> DEFINE st == StatusOf(rows, batch[b].status)
           bt == [Refreshed(b, rows) EXCEPT !.files = @ \cup file]
<1>1. batch' = [batch EXCEPT ![b] = bt] /\ row' = [row EXCEPT ![b] = rows] /\ run' = RunAfter(st)
  BY DEF RefreshWith
<1>2. batch[b] \in BatchRow
  BY DEF BatchInv
<1>3. /\ \A l \in Payable : rows[l].status \in Result
      /\ PaidAmount(rows) \in 0..Total
      /\ PaidAmount(rows) = Total <=> \A l \in Payable : rows[l].status = "PAID"
  BY PaidAmounts DEF OfAge
<1>4. /\ st \in {"PAID", "ATTENTION", "PARTIALLY_PAID", "PROCESSING"}
      /\ st = "PAID" <=> \A l \in Payable : rows[l].status = "PAID"
      /\ st = "ATTENTION" <=> \E l \in Payable : rows[l].status \in {"FAILED", "REVERSED"}
  BY <1>3, RefreshedStatus
<1> HIDE DEF st
<1>5. bt \in BatchRow /\ bt.status = st /\ bt.paid = PaidAmount(rows)
  BY <1>2, <1>3, <1>4 DEF BatchRow, BatchStatus, Refreshed, st
<1> HIDE DEF bt
<1>6. Sound(bt, rows)
  BY <1>3, <1>4, <1>5 DEF Sound, WaitingIn, OfAge
<1>7. RunFits(run', bt.status) /\ run' \in RunStatus
  BY <1>1, <1>4, <1>5 DEF RunFits, RunAfter, RunStatus
<1>8. LiveStatus(batch[b].status) /\ LiveStatus(bt.status)
  BY <1>4, <1>5 DEF WaitingIn, LiveStatus
<1> QED
  BY <1>1, <1>6, <1>7, <1>8, OnlyLive, OneBatchStep

LEMMA ImportKeeps ==
  ASSUME BatchInv, NEW b \in Batch, NEW file \in File, Import(b, file)
  PROVE  BatchInv'
<1> DEFINE rows == [l \in Payable |-> Reported(row[b][l], file[l])]
<1>1. RefreshWith(b, rows, {file}) /\ ~WaitingIn(batch[b].status)
  BY DEF Import, Reconcilable, WaitingIn
<1>2. Sound(batch[b], row[b])
  BY DEF BatchInv
<1>3. ASSUME NEW l \in Payable
      PROVE  rows[l] \in PaymentRow /\ Linear(rows[l]) /\ OfAge(rows[l], "PROCESSING")
  <2>1. /\ row[b][l] \in PaymentRow /\ Linear(row[b][l]) /\ row[b][l].claim
        /\ row[b][l].status \in Result /\ row[b][l].attempts # <<>>
    BY <1>1, <1>2 DEF Sound, OfAge, WaitingIn
  <2>2. file[l] \in Result \cup {"ABSENT"} /\ rows[l] = Reported(row[b][l], file[l])
    BY DEF File
  <2> HIDE DEF rows
  <2> QED
    BY <2>1, <2>2, ReportedRow DEF OfAge
<1>4. rows \in [Payable -> PaymentRow]
  BY <1>3
<1> HIDE DEF rows
<1> QED
  BY <1>1, <1>3, <1>4, RefreshKeeps

LEMMA RetryKeeps ==
  ASSUME BatchInv, NEW b \in Batch, NEW l \in Payable, Retry(b, l)
  PROVE  BatchInv'
<1> DEFINE rows == [row[b] EXCEPT ![l] = Attempted(row[b][l])]
<1>1. RefreshWith(b, rows, {}) /\ Retriable(row[b][l]) /\ batch[b].status # "NONE"
  BY DEF Retry
<1>2. Sound(batch[b], row[b])
  BY DEF BatchInv
<1>3. ~WaitingIn(batch[b].status)
  BY <1>1, <1>2 DEF Sound, OfAge, Retriable, WaitingIn
<1>4. ASSUME NEW k \in Payable
      PROVE  rows[k] \in PaymentRow /\ Linear(rows[k]) /\ OfAge(rows[k], "PROCESSING")
  <2>1. /\ row[b][k] \in PaymentRow /\ Linear(row[b][k]) /\ row[b][k].claim
        /\ row[b][k].status \in Result /\ row[b][k].attempts # <<>>
    BY <1>2, <1>3 DEF Sound, OfAge, WaitingIn
  <2>2. rows[k] = IF k = l THEN Attempted(row[b][k]) ELSE row[b][k]
    BY <1>2 DEF Sound
  <2> HIDE DEF rows
  <2> QED
    BY <1>1, <2>1, <2>2, AttemptedRow DEF OfAge, Result
<1>5. rows \in [Payable -> PaymentRow]
  BY <1>2, <1>4 DEF Sound
<1> HIDE DEF rows
<1> QED
  BY <1>1, <1>3, <1>4, <1>5, RefreshKeeps

LEMMA CancelKeeps == ASSUME BatchInv, NEW b \in Batch, Cancel(b) PROVE BatchInv'
<1> DEFINE bt   == [batch[b] EXCEPT !.status = "CANCELLED"]
           rows == [l \in Payable |-> [row[b][l] EXCEPT !.status = "CANCELLED", !.claim = FALSE]]
<1>1. /\ batch' = [batch EXCEPT ![b] = bt] /\ row' = [row EXCEPT ![b] = rows] /\ run' = run
      /\ batch[b].status \in {"PREPARED", "EXPORTED"}
  BY DEF Cancel, BatchInv
<1>2. batch[b] \in BatchRow /\ Sound(batch[b], row[b]) /\ RunFits(run, batch[b].status)
  BY DEF BatchInv
<1>3. bt \in BatchRow /\ bt.status = "CANCELLED" /\ bt.paid = 0
  BY <1>1, <1>2 DEF BatchRow, BatchStatus, Sound, WaitingIn
<1>4. ASSUME NEW l \in Payable
      PROVE  rows[l] \in PaymentRow /\ Linear(rows[l]) /\ OfAge(rows[l], "CANCELLED")
  <2>1. row[b][l] \in PaymentRow /\ row[b][l].attempts = <<>>
    BY <1>1, <1>2 DEF Sound, OfAge
  <2>2. /\ rows[l] \in PaymentRow /\ rows[l].status = "CANCELLED" /\ ~rows[l].claim
        /\ rows[l].attempts = <<>>
    BY <2>1 DEF PaymentRow, RowStatus
  <2> HIDE DEF rows
  <2> QED
    BY <2>2 DEF OfAge, Linear
<1>5. rows \in [Payable -> PaymentRow]
  BY <1>4
<1> HIDE DEF rows, bt
<1>6. Sound(bt, rows)
  BY <1>3, <1>4, <1>5 DEF Sound, WaitingIn
<1>7. RunFits(run', bt.status) /\ run' = "APPROVED" /\ LiveStatus(batch[b].status)
  BY <1>1, <1>2, <1>3 DEF RunFits, LiveStatus
<1> QED
  BY <1>1, <1>6, <1>7, OnlyLive, OneBatchStep DEF RunStatus

LEMMA CloseKeeps == ASSUME BatchInv, NEW b \in Batch, Close(b) PROVE BatchInv'
<1> DEFINE bt == [Refreshed(b, row[b]) EXCEPT !.status = "CLOSED"]
<1>1. /\ batch' = [batch EXCEPT ![b] = bt] /\ row' = [row EXCEPT ![b] = row[b]]
      /\ run' = "CLOSED" /\ batch[b].status # "NONE"
      /\ StatusOf(row[b], batch[b].status) = "PAID"
  BY DEF Close, BatchInv
<1>2. batch[b] \in BatchRow /\ Sound(batch[b], row[b])
  BY DEF BatchInv
<1>3. ~WaitingIn(batch[b].status)
  <2>1. ASSUME WaitingIn(batch[b].status) PROVE FALSE
    <3>1. \A l \in Payable : row[b][l].status \in {"PENDING", "CANCELLED"}
      BY <1>1, <1>2, <2>1 DEF Sound, OfAge, WaitingIn
    <3>2. StatusOf(row[b], batch[b].status) = batch[b].status
      BY <3>1, PayableExists DEF StatusOf, LinesIn
    <3> QED
      BY <1>1, <2>1, <3>2 DEF WaitingIn
  <2> QED
    BY <2>1
<1>4. \A l \in Payable : row[b][l].status \in Result /\ OfAge(row[b][l], "CLOSED")
  BY <1>2, <1>3 DEF Sound, OfAge, WaitingIn
<1>5. \A l \in Payable : row[b][l].status = "PAID"
  BY <1>1, <1>4, RefreshedStatus
<1>6. PaidAmount(row[b]) = Total /\ Total \in 0..Total
  BY <1>5, PaidAmounts, PaidSums
<1>7. bt \in BatchRow /\ bt.status = "CLOSED" /\ bt.paid = PaidAmount(row[b])
  BY <1>2, <1>6 DEF BatchRow, BatchStatus, Refreshed
<1> HIDE DEF bt
<1>8. Sound(bt, row[b])
  BY <1>2, <1>4, <1>5, <1>6, <1>7 DEF Sound, WaitingIn
<1>9. /\ RunFits(run', bt.status) /\ run' \in RunStatus
      /\ LiveStatus(batch[b].status) /\ LiveStatus(bt.status)
  BY <1>1, <1>3, <1>7 DEF RunFits, RunStatus, LiveStatus, WaitingIn
<1> QED
  BY <1>1, <1>8, <1>9, OnlyLive, OneBatchStep

LEMMA ReopenKeeps == ASSUME BatchInv, NEW b \in Batch, Reopen(b) PROVE BatchInv'
<1> DEFINE bt == [batch[b] EXCEPT !.status = "PAID"]
<1>1. /\ batch' = [batch EXCEPT ![b] = bt] /\ row' = [row EXCEPT ![b] = row[b]]
      /\ run' = "PAID" /\ batch[b].status = "CLOSED"
  BY DEF Reopen, RunReopened, BatchInv
<1>2. batch[b] \in BatchRow /\ Sound(batch[b], row[b])
  BY DEF BatchInv
<1>3. bt \in BatchRow /\ bt.status = "PAID" /\ bt.paid = batch[b].paid
  BY <1>2 DEF BatchRow, BatchStatus
<1> HIDE DEF bt
<1>4. Sound(bt, row[b])
  BY <1>1, <1>2, <1>3 DEF Sound, WaitingIn, OfAge
<1>5. /\ RunFits(run', bt.status) /\ run' \in RunStatus
      /\ LiveStatus(batch[b].status) /\ LiveStatus(bt.status)
  BY <1>1, <1>3 DEF RunFits, RunStatus, LiveStatus
<1> QED
  BY <1>1, <1>4, <1>5, OnlyLive, OneBatchStep

LEMMA InitSound == Init => BatchInv
<1> SUFFICES ASSUME Init PROVE BatchInv
  OBVIOUS
<1>1. 0 \in 0..Total
  BY PaidSums
<1>2. /\ batch \in [Batch -> BatchRow] /\ \A b \in Batch : batch[b].status = "NONE" /\ batch[b].paid = 0
  BY <1>1 DEF Init, BatchRow, BatchStatus
<1>3. NoRow \in PaymentRow /\ Linear(NoRow) /\ OfAge(NoRow, "NONE")
  BY DEF NoRow, PaymentRow, RowStatus, Linear, OfAge
<1>4. row \in [Batch -> [Payable -> PaymentRow]] /\ \A b \in Batch, l \in Payable : row[b][l] = NoRow
  BY <1>3 DEF Init
<1>5. \A b \in Batch : Sound(batch[b], row[b])
  BY <1>2, <1>3, <1>4 DEF Sound, WaitingIn
<1> QED
  BY <1>2, <1>4, <1>5 DEF Init, BatchInv, RunStatus, RunFits, LiveStatus

LEMMA StepKeeps == BatchInv /\ [Next]_vars => BatchInv'
<1> SUFFICES ASSUME BatchInv, [Next]_vars PROVE BatchInv'
  OBVIOUS
<1>1. CASE UNCHANGED vars
  BY <1>1 DEF vars, BatchInv, Sound, PaidAmount, Total
<1>2. ASSUME NEW b \in Batch, Prepare(b) PROVE BatchInv'
  BY <1>2, PrepareKeeps
<1>3. ASSUME NEW b \in Batch, Export(b) PROVE BatchInv'
  BY <1>3, ExportKeeps
<1>4. ASSUME NEW b \in Batch, Start(b) PROVE BatchInv'
  BY <1>4, StartKeeps
<1>5. ASSUME NEW b \in Batch, Cancel(b) PROVE BatchInv'
  BY <1>5, CancelKeeps
<1>6. ASSUME NEW b \in Batch, Close(b) PROVE BatchInv'
  BY <1>6, CloseKeeps
<1>7. ASSUME NEW b \in Batch, Reopen(b) PROVE BatchInv'
  BY <1>7, ReopenKeeps
<1>8. ASSUME NEW b \in Batch, NEW file \in File, Import(b, file) PROVE BatchInv'
  BY <1>8, ImportKeeps
<1>9. ASSUME NEW b \in Batch, NEW l \in Payable, Retry(b, l) PROVE BatchInv'
  BY <1>9, RetryKeeps
<1> QED
  BY <1>1, <1>2, <1>3, <1>4, <1>5, <1>6, <1>7, <1>8, <1>9 DEF Next

LEMMA BatchesSound == Spec => []BatchInv
BY InitSound, StepKeeps, PTL DEF Spec

(* Rows, batch and run tell the same in every reachable state, no salary is *)
(* on its way twice, and a line of the run is never in two live batches.    *)
THEOREM SalaryAlwaysSound == Spec => []SalaryInv
<1>1. BatchInv => SalaryInv
  BY BatchInvIsInv DEF IInv
<1> QED
  BY <1>1, BatchesSound, PTL

----------------------------------------------------------------------------
(* What a step may do to an outcome *)

(* Every action leaves the rows of the other batches alone.                 *)
LEMMA OthersKept ==
  ASSUME BatchInv, NEW b \in Batch, NEW x \in Batch, x # b,
         \/ Prepare(b) \/ Export(b) \/ Start(b) \/ Cancel(b) \/ Close(b) \/ Reopen(b)
         \/ \E file \in File : Import(b, file)
         \/ \E l \in Payable : Retry(b, l)
  PROVE  row'[x] = row[x] /\ batch'[x] = batch[x]
BY DEF BatchInv, Prepare, Export, Start, Cancel, Close, Reopen, Import, Retry, RefreshWith

LEMMA ClosedStepFrozen ==
  ASSUME BatchInv, Next, NEW b \in Batch, batch[b].status = "CLOSED"
  PROVE  row'[b] = row[b] /\ batch'[b].paid = batch[b].paid
<1>1. PICK x \in Batch :
        \/ Prepare(x) \/ Export(x) \/ Start(x) \/ Cancel(x) \/ Close(x) \/ Reopen(x)
        \/ \E file \in File : Import(x, file)
        \/ \E l \in Payable : Retry(x, l)
  BY DEF Next
<1>2. CASE x # b
  BY <1>1, <1>2, OthersKept
<1>3. CASE x = b
  <2>1. Close(b) \/ Reopen(b)
    BY <1>1, <1>3 DEF Prepare, Export, Start, Cancel, Import, Reconcilable, Retry
  <2>2. batch[b] \in BatchRow /\ batch[b].paid = PaidAmount(row[b])
    BY DEF BatchInv, Sound, WaitingIn
  <2> QED
    BY <2>1, <2>2 DEF Close, Reopen, Refreshed, BatchRow, BatchInv
<1> QED
  BY <1>2, <1>3

LEMMA OutcomeRecorded ==
  ASSUME BatchInv, Next, NEW b \in Batch, NEW l \in Payable,
         row'[b][l].status \in {"PAID", "FAILED", "REVERSED"}, row'[b][l] # row[b][l]
  PROVE  batch'[b].files # batch[b].files
<1>1. PICK x \in Batch :
        \/ Prepare(x) \/ Export(x) \/ Start(x) \/ Cancel(x) \/ Close(x) \/ Reopen(x)
        \/ \E file \in File : Import(x, file)
        \/ \E k \in Payable : Retry(x, k)
  BY DEF Next
<1>2. x = b
  BY <1>1, OthersKept
<1>3. ~Prepare(b) /\ ~Cancel(b) /\ ~Export(b) /\ ~Close(b) /\ ~Reopen(b)
  <2>1. row \in [Batch -> [Payable -> PaymentRow]]
    BY DEF BatchInv
  <2>2. Prepare(b) => row'[b][l].status = "PENDING"
    BY <2>1 DEF Prepare
  <2>3. Cancel(b) => row'[b][l].status = "CANCELLED"
    <3>1. Cancel(b) =>
            row'[b] = [k \in Payable |-> [row[b][k] EXCEPT !.status = "CANCELLED", !.claim = FALSE]]
      BY <2>1 DEF Cancel
    <3>2. row[b][l] \in PaymentRow
      BY <2>1
    <3> QED
      BY <3>1, <3>2 DEF PaymentRow
  <2>4. ~Export(b) /\ ~Close(b) /\ ~Reopen(b)
    BY DEF Export, Close, Reopen
  <2> QED
    BY <2>2, <2>3, <2>4
<1>4. ~Start(b)
  <2> SUFFICES ASSUME Start(b) PROVE FALSE
    OBVIOUS
  <2>1. /\ batch[b].status \in {"PREPARED", "EXPORTED"}
        /\ row'[b][l] = IF row[b][l].claim /\ row[b][l].status = "PENDING"
                        THEN Attempted(row[b][l]) ELSE row[b][l]
    BY DEF Start, BatchInv
  <2>2. /\ row[b][l] \in PaymentRow /\ Linear(row[b][l]) /\ row[b][l].attempts = <<>>
        /\ row[b][l].claim /\ row[b][l].status = "PENDING"
    BY <2>1 DEF BatchInv, Sound, OfAge
  <2>3. Attempted(row[b][l]).status = "PROCESSING"
    BY <2>2, AttemptedRow
  <2> QED
    BY <2>1, <2>2, <2>3
<1>5. ASSUME NEW k \in Payable, Retry(b, k) PROVE FALSE
  <2>1. row'[b][l] = IF l = k THEN Attempted(row[b][l]) ELSE row[b][l]
    BY <1>5 DEF Retry, RefreshWith, BatchInv, Sound
  <2>2. row[b][l] \in PaymentRow /\ Linear(row[b][l]) /\ (l = k => Retriable(row[b][l]))
    BY <1>5 DEF BatchInv, Sound, Retry
  <2>3. l = k => Attempted(row[b][l]).status = "PROCESSING"
    BY <2>2, AttemptedRow
  <2> QED
    BY <2>1, <2>3
<1>6. PICK file \in File : Import(b, file)
  BY <1>1, <1>2, <1>3, <1>4, <1>5
<1>7. batch'[b].files = batch[b].files \cup {file} /\ file \notin batch[b].files
  BY <1>6 DEF Import, Imported, RefreshWith, Refreshed, BatchInv, BatchRow
<1> QED
  BY <1>7

(* A closed batch is out of reach of the bank, and an outcome comes only    *)
(* with the record of the file that reported it.                            *)
THEOREM OutcomesAlwaysStand == Spec => OutcomesStand
<1>1. BatchInv /\ [Next]_vars =>
        [\A b \in Batch : batch[b].status = "CLOSED" =>
           row'[b] = row[b] /\ batch'[b].paid = batch[b].paid]_vars
  BY ClosedStepFrozen
<1>2. BatchInv /\ [Next]_vars =>
        [\A b \in Batch, l \in Payable :
           row'[b][l].status \in {"PAID", "FAILED", "REVERSED"} /\ row'[b][l] # row[b][l]
             => batch'[b].files # batch[b].files]_vars
  BY OutcomeRecorded
<1> QED
  BY <1>1, <1>2, BatchesSound, PTL DEF Spec, OutcomesStand, ClosedFrozen, OutcomesRecorded

----------------------------------------------------------------------------
(* The promise *)

Money     == [l \in Payable |-> IF Claimed(l) THEN MoneyIn(row[ClaimOf(l)][l].status) ELSE "kept"]
Transfers == [l \in Payable |-> IF Claimed(l) THEN Len(row[ClaimOf(l)][l].attempts) ELSE 0]

MoneyOf(rows)     == [l \in Payable |-> MoneyIn(rows[l].status)]
TransfersOf(rows) == [l \in Payable |-> Len(rows[l].attempts)]

(* The money of the promise is where the rows of the live batch say it is.  *)
Mapped ==
  /\ \A b \in Batch : LiveStatus(batch[b].status) =>
       Money = MoneyOf(row[b]) /\ Transfers = TransfersOf(row[b])
  /\ (\A b \in Batch : LiveStatus(batch[b].status) => batch[b].status \in {"PREPARED", "EXPORTED"}) =>
       Money = [l \in Payable |-> "kept"] /\ Transfers = [l \in Payable |-> 0]

LEMMA BatchesMapped == BatchInv => Mapped
<1> SUFFICES ASSUME BatchInv PROVE Mapped
  OBVIOUS
<1>1. ASSUME NEW b \in Batch, LiveStatus(batch[b].status)
      PROVE  Money = MoneyOf(row[b]) /\ Transfers = TransfersOf(row[b])
  <2>1. ASSUME NEW l \in Payable PROVE Claimed(l) /\ ClaimOf(l) = b
    <3>1. \A x \in Batch : row[x][l].claim <=> x = b
      BY <1>1, OnlyLive DEF BatchInv, Sound, OfAge, LiveStatus
    <3> QED
      BY <3>1 DEF Claimed, ClaimOf
  <2> QED
    BY <2>1 DEF Money, Transfers, MoneyOf, TransfersOf
<1>2. ASSUME \A b \in Batch : ~LiveStatus(batch[b].status)
      PROVE  Money = [l \in Payable |-> "kept"] /\ Transfers = [l \in Payable |-> 0]
  <2>1. ASSUME NEW l \in Payable PROVE ~Claimed(l)
    BY <1>2 DEF BatchInv, Sound, OfAge, LiveStatus, Claimed
  <2> QED
    BY <2>1 DEF Money, Transfers
<1>3. ASSUME NEW b \in Batch, LiveStatus(batch[b].status), batch[b].status \in {"PREPARED", "EXPORTED"}
      PROVE  Money = [l \in Payable |-> "kept"] /\ Transfers = [l \in Payable |-> 0]
  <2>1. \A l \in Payable : row[b][l].status = "PENDING" /\ row[b][l].attempts = <<>>
    BY <1>3 DEF BatchInv, Sound, OfAge
  <2> QED
    BY <1>1, <1>3, <2>1 DEF MoneyOf, TransfersOf, MoneyIn
<1> QED
  BY <1>1, <1>2, <1>3 DEF Mapped

LEMMA NextMapped == BatchInv' => Mapped'
BY BatchesMapped, PTL

(* Start is the sending of all money.                                       *)
LEMMA StartMapped == ASSUME BatchInv, BatchInv', NEW b \in Batch, Start(b) PROVE Promise!Send
<1>1. /\ batch[b].status \in {"PREPARED", "EXPORTED"} /\ batch'[b].status = "PROCESSING"
      /\ run' = "PAYMENT_PROCESSING"
      /\ \A l \in Payable : row'[b][l] = IF row[b][l].claim /\ row[b][l].status = "PENDING"
                                         THEN Attempted(row[b][l]) ELSE row[b][l]
  BY DEF Start, BatchInv, BatchRow
<1>2. run = "APPROVED"
  BY <1>1 DEF BatchInv, RunFits, LiveStatus
<1>3. ASSUME NEW l \in Payable
      PROVE  row'[b][l].status = "PROCESSING" /\ Len(row'[b][l].attempts) = 1
  <2>1. /\ row[b][l] \in PaymentRow /\ row[b][l].attempts = <<>>
        /\ row[b][l].claim /\ row[b][l].status = "PENDING"
    BY <1>1 DEF BatchInv, Sound, OfAge
  <2>2. row'[b][l] = [row[b][l] EXCEPT !.status = "PROCESSING",
                                      !.attempts = Append(<<>>, "PROCESSING")]
    BY <1>1, <2>1 DEF Attempted
  <2> QED
    BY <2>1, <2>2 DEF PaymentRow
<1>4. Money' = MoneyOf(row'[b]) /\ Transfers' = TransfersOf(row'[b])
  BY <1>1, NextMapped DEF Mapped, LiveStatus
<1>5. Money' = [l \in Payable |-> "sent"] /\ Transfers' = [l \in Payable |-> 1]
  BY <1>3, <1>4 DEF MoneyOf, TransfersOf, MoneyIn
<1>6. Phase = "approved" /\ Phase' = "paying"
  BY <1>1, <1>2 DEF Phase
<1> QED
  BY <1>5, <1>6 DEF Promise!Send, Money, Transfers

(* A batch that is prepared, exported or cancelled moves no money.          *)
LEMMA StillMapped ==
  ASSUME BatchInv, BatchInv', NEW b \in Batch, Prepare(b) \/ Export(b) \/ Cancel(b)
  PROVE  Money' = Money /\ Transfers' = Transfers /\ Phase' = Phase
<1>1. Mapped /\ Mapped'
  BY BatchesMapped, NextMapped
<1>2. Phase' = Phase
  BY DEF Prepare, Export, Cancel, Phase
<1>3. CASE Export(b)
  <2>1. Money' = Money /\ Transfers' = Transfers
    BY <1>3 DEF Export, Money, Transfers, Claimed, ClaimOf
  <2> QED
    BY <1>2, <2>1
<1>4. CASE Prepare(b) \/ Cancel(b)
  <2>1. /\ run = "APPROVED"
        /\ LiveStatus(batch'[b].status) => batch'[b].status \in {"PREPARED", "EXPORTED"}
        /\ \A x \in Batch : x # b => batch'[x] = batch[x]
        /\ LiveStatus(batch[b].status) => batch[b].status \in {"PREPARED", "EXPORTED"}
    BY <1>4 DEF Prepare, Cancel, BatchInv, BatchRow, LiveStatus, RunFits
  <2>2. \A x \in Batch : LiveStatus(batch[x].status) => batch[x].status \in {"PREPARED", "EXPORTED"}
    BY <2>1 DEF BatchInv, RunFits
  <2>3. \A x \in Batch : LiveStatus(batch'[x].status) => batch'[x].status \in {"PREPARED", "EXPORTED"}
    BY <2>1, <2>2
  <2> QED
    BY <1>1, <1>2, <2>2, <2>3 DEF Mapped
<1> QED
  BY <1>3, <1>4

(* Where started rows say the money is.                                     *)
LEMMA MoneyMoves ==
  ASSUME NEW status \in Result
  PROVE  /\ MoneyIn(status) \in {"sent", "arrived", "back"}
         /\ MoneyIn(status) = "arrived" <=> status = "PAID"
         /\ MoneyIn(status) = "back" <=> status \in {"FAILED", "REVERSED"}
BY DEF MoneyIn, Result

(* A result file is a report of the bank.                                   *)
LEMMA ImportMapped ==
  ASSUME BatchInv, BatchInv', NEW b \in Batch, NEW file \in File, Import(b, file)
  PROVE  Promise!Report
<1> DEFINE st == StatusOf(row'[b], batch[b].status)
<1>1. /\ ~WaitingIn(batch[b].status) /\ batch[b].status # "CLOSED"
      /\ RefreshWith(b, [l \in Payable |-> Reported(row[b][l], file[l])], {file})
  BY DEF Import, Reconcilable, WaitingIn
<1>2. /\ row'[b] = [l \in Payable |-> Reported(row[b][l], file[l])]
      /\ batch'[b].status = st /\ run' = RunAfter(st)
  BY <1>1, ZenonT(40) DEF RefreshWith, Refreshed, BatchInv, BatchRow
<1>3. ASSUME NEW l \in Payable
      PROVE  row'[b][l].status \in Result /\ Len(row'[b][l].attempts) = Len(row[b][l].attempts)
  <2>1. /\ row[b][l] \in PaymentRow /\ Linear(row[b][l])
        /\ row[b][l].status \in Result /\ row[b][l].attempts # <<>>
    BY <1>1 DEF BatchInv, Sound, OfAge, WaitingIn
  <2>2. file[l] \in Result \cup {"ABSENT"} /\ row'[b][l] = Reported(row[b][l], file[l])
    BY <1>2 DEF File
  <2> QED
    BY <2>1, <2>2, ReportedRow
<1>4. /\ st \in {"PAID", "ATTENTION", "PARTIALLY_PAID", "PROCESSING"}
      /\ st = "PAID" <=> \A l \in Payable : row'[b][l].status = "PAID"
  BY <1>3, RefreshedStatus
<1> HIDE DEF st
<1>5. LiveStatus(batch[b].status) /\ LiveStatus(batch'[b].status)
  BY <1>1, <1>2, <1>4 DEF LiveStatus, WaitingIn
<1>6. /\ Money' = MoneyOf(row'[b]) /\ Transfers' = TransfersOf(row'[b])
      /\ Transfers = TransfersOf(row[b])
  BY <1>5, BatchesMapped, NextMapped DEF Mapped
<1>7. Transfers' = Transfers
  BY <1>3, <1>6 DEF TransfersOf
<1>8. /\ Money' \in [Payable -> {"sent", "arrived", "back"}]
      /\ (\A l \in Payable : Money'[l] = "arrived") <=> st = "PAID"
  BY <1>3, <1>4, <1>6, MoneyMoves DEF MoneyOf
<1>9. Phase \in {"paying", "paid"}
  <2>1. run \in {"PAYMENT_PROCESSING", "PAID"}
    BY <1>1, <1>5 DEF BatchInv, RunFits, RunStatus, WaitingIn
  <2> QED
    BY <2>1 DEF Phase
<1>10. Phase' = IF st = "PAID" THEN "paid" ELSE "paying"
  BY <1>2, <1>4 DEF RunAfter, Phase
<1> QED
  BY <1>7, <1>8, <1>9, <1>10
     DEF Promise!Report, Promise!PhaseOf, Promise!State, Money, Transfers

(* A retry sends the money of its line again, which has come back.          *)
LEMMA RetryMapped ==
  ASSUME BatchInv, BatchInv', NEW b \in Batch, NEW l \in Payable, Retry(b, l)
  PROVE  Promise!SendAgain(l)
<1> DEFINE st == StatusOf(row'[b], batch[b].status)
<1>1. /\ Retriable(row[b][l]) /\ batch[b].status \notin {"NONE", "CLOSED"}
      /\ RefreshWith(b, [row[b] EXCEPT ![l] = Attempted(row[b][l])], {})
  BY DEF Retry
<1>2. ~WaitingIn(batch[b].status)
  BY <1>1 DEF BatchInv, Sound, OfAge, Retriable, WaitingIn
<1>3. \A k \in Payable : /\ row[b][k] \in PaymentRow /\ Linear(row[b][k])
                         /\ row[b][k].status \in Result
  BY <1>2 DEF BatchInv, Sound, OfAge, WaitingIn
<1>4. /\ row'[b] = [row[b] EXCEPT ![l] = Attempted(row[b][l])]
      /\ batch'[b].status = st /\ run' = RunAfter(st)
  BY <1>1 DEF RefreshWith, Refreshed, BatchInv, BatchRow
<1>5. /\ row'[b][l].status = "PROCESSING"
      /\ Len(row'[b][l].attempts) = Len(row[b][l].attempts) + 1
      /\ \A k \in Payable : k # l => row'[b][k] = row[b][k]
  <2>1. row'[b][l] = Attempted(row[b][l]) /\ \A k \in Payable : k # l => row'[b][k] = row[b][k]
    BY <1>4 DEF BatchInv, Sound
  <2>2. Attempted(row[b][l]).status = "PROCESSING"
    BY <1>1, <1>3, AttemptedRow
  <2>3. Attempted(row[b][l]).attempts = Append(row[b][l].attempts, "PROCESSING")
    BY <1>3 DEF Attempted, PaymentRow
  <2>4. row[b][l].attempts \in Seq(Result)
    BY <1>3 DEF PaymentRow
  <2> QED
    BY <2>1, <2>2, <2>3, <2>4
<1>6. \A k \in Payable : row'[b][k].status \in Result
  BY <1>3, <1>5 DEF Result
<1>7. st \in {"ATTENTION", "PARTIALLY_PAID", "PROCESSING"}
  BY <1>5, <1>6, RefreshedStatus
<1> HIDE DEF st
<1>8. LiveStatus(batch[b].status) /\ LiveStatus(batch'[b].status)
  BY <1>2, <1>4, <1>7 DEF LiveStatus, WaitingIn
<1>9. /\ Money = MoneyOf(row[b]) /\ Money' = MoneyOf(row'[b])
      /\ Transfers = TransfersOf(row[b]) /\ Transfers' = TransfersOf(row'[b])
  BY <1>8, BatchesMapped, NextMapped DEF Mapped
<1>10. Money[l] = "back" /\ Money' = [Money EXCEPT ![l] = "sent"]
  <2>1. Money[l] = "back" /\ MoneyIn("PROCESSING") = "sent"
    BY <1>1, <1>9 DEF MoneyOf, MoneyIn, Retriable
  <2>2. \A k \in Payable : Money'[k] = IF k = l THEN "sent" ELSE Money[k]
    BY <1>5, <1>9, <2>1 DEF MoneyOf
  <2> QED
    BY <1>9, <2>1, <2>2 DEF MoneyOf
<1>11. Transfers' = [Transfers EXCEPT ![l] = @ + 1]
  BY <1>5, <1>9 DEF TransfersOf
<1>12. Phase = "paying" /\ Phase' = "paying"
  <2>1. \E k \in Payable : row[b][k].status # "PAID"
    BY <1>1 DEF Retriable
  <2>2. batch[b].status # "PAID"
    BY <1>2, <2>1, PaidAmounts DEF BatchInv, Sound
  <2>3. run = "PAYMENT_PROCESSING"
    BY <1>1, <1>2, <1>8, <2>2 DEF BatchInv, RunFits, RunStatus, WaitingIn
  <2> QED
    BY <1>4, <1>7, <2>3 DEF RunAfter, Phase
<1> QED
  BY <1>10, <1>11, <1>12 DEF Promise!SendAgain, Money, Transfers

LEMMA CloseMapped ==
  ASSUME BatchInv, BatchInv', NEW b \in Batch, Close(b) \/ Reopen(b)
  PROVE  \/ Promise!Close \/ Promise!Reopen
         \/ Money' = Money /\ Transfers' = Transfers /\ Phase' = Phase
<1>1. Money' = Money /\ Transfers' = Transfers
  BY DEF Close, Reopen, Money, Transfers, Claimed, ClaimOf
<1>2. CASE Reopen(b)
  <2>1. run = "CLOSED" /\ run' = "PAID"
    BY <1>2 DEF Reopen, RunReopened, BatchInv, RunFits, LiveStatus
  <2> QED
    BY <1>1, <2>1 DEF Phase, Promise!Reopen, Money, Transfers
<1>3. CASE Close(b)
  <2>1. batch'[b].status = "CLOSED" /\ run' = "CLOSED" /\ row'[b] = row[b]
    BY <1>3 DEF Close, BatchInv, Refreshed, BatchRow
  <2>2. \A l \in Payable : row[b][l].status \in Result /\ row[b][l].attempts # <<>>
    BY <2>1 DEF BatchInv, Sound, OfAge
  <2>3. \A l \in Payable : row[b][l].status = "PAID"
    BY <1>3, <2>2, RefreshedStatus DEF Close
  <2>4. ~WaitingIn(batch[b].status)
    BY <2>2, PayableExists DEF BatchInv, Sound, OfAge, WaitingIn
  <2>5. batch[b].status \in {"PAID", "CLOSED"}
    BY <2>3, <2>4, PaidAmounts DEF BatchInv, Sound
  <2>6. run \in {"PAID", "CLOSED"}
    BY <2>5 DEF BatchInv, RunFits, LiveStatus
  <2> QED
    BY <1>1, <2>1, <2>6 DEF Phase, Promise!Close, Money, Transfers
<1> QED
  BY <1>2, <1>3

LEMMA StepMapped ==
  BatchInv /\ BatchInv' /\ [Next]_vars => [Promise!Next]_(<<Money, Transfers, Phase>>)
<1> SUFFICES ASSUME BatchInv, BatchInv', [Next]_vars
             PROVE  Promise!Next \/ (Money' = Money /\ Transfers' = Transfers /\ Phase' = Phase)
  BY Zenon
<1>1. CASE UNCHANGED vars
  BY <1>1 DEF vars, Money, Transfers, Phase, Claimed, ClaimOf
<1>2. ASSUME NEW b \in Batch, Start(b) PROVE Promise!Next
  BY <1>2, StartMapped DEF Promise!Next
<1>3. ASSUME NEW b \in Batch, NEW file \in File, Import(b, file) PROVE Promise!Next
  BY <1>3, ImportMapped DEF Promise!Next
<1>4. ASSUME NEW b \in Batch, NEW l \in Payable, Retry(b, l) PROVE Promise!Next
  BY <1>4, RetryMapped DEF Promise!Next
<1> QED
  BY <1>1, <1>2, <1>3, <1>4, StillMapped, CloseMapped DEF Next, Promise!Next

(* Whatever batches, files, retries and reopenings do, the run is paid as   *)
(* promised: a salary is sent again only when it has come back.             *)
THEOREM AlwaysPaysAsPromised == Spec => PaysAsPromised
<1>1. Init => Promise!Init
  <2> SUFFICES ASSUME Init PROVE Promise!Init
    OBVIOUS
  <2>1. \A b \in Batch : ~LiveStatus(batch[b].status)
    BY DEF Init, LiveStatus
  <2>2. Money = [l \in Payable |-> "kept"] /\ Transfers = [l \in Payable |-> 0]
    BY <2>1, InitSound, BatchesMapped DEF Mapped
  <2> QED
    BY <2>2 DEF Init, Phase, Promise!Init, Money, Transfers
<1>2. BatchInv /\ BatchInv' /\ [Next]_vars => [Promise!Next]_(<<Money, Transfers, Phase>>)
  BY StepMapped
<1> QED
  BY <1>1, <1>2, BatchesSound, PTL DEF Spec, PaysAsPromised, Promise!Spec, Money, Transfers
=============================================================================
