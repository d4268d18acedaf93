-------------------------- MODULE DocumentDelivery --------------------------
(***************************************************************************)
(* Sending packs of final documents to suppliers (documents/api.py from    *)
(* _issue_delivery_pack on, documents/delivery.py, the public share pages  *)
(* of documents/views.py).                                                 *)
(*                                                                         *)
(* A pack is an immutable audit event; its progress is the evidence other  *)
(* events give: sent, opened, delivered, and the generations of its link.  *)
(* Operators and the supplier act at once.  Whoever adds evidence locks    *)
(* the pack and looks again; a mail is sent while the lock is held, and    *)
(* what follows may still roll back.  A dispatch carries the link it will  *)
(* send, which it reads before the lock, and for a mail again under it.    *)
(* The supplier's link is judged before the lock.  Documents, recipients   *)
(* and scopes, which only refuse calls, are left out.                      *)
(***************************************************************************)
EXTENDS Naturals, Sequences, FiniteSets, Absence

CONSTANTS Pack,
          Channel(_),     \* "email", or one an operator confirms: "hand"
          Sender,         \* concurrent requests, operators' and supplier's
          Batches,        \* sequences of packs prepared together
          MaxGeneration,  \* bound on the generations of a link
          MaxLost         \* bound on the rollbacks after a mail was accepted

VARIABLES pack,    \* [Pack -> evidence and state of the link, or None]
          locker,  \* [Pack -> the call that holds the row of the pack]
          call,    \* [Sender -> what the call is doing, or None]
          mails,   \* [Pack -> mails the server accepted]
          mailed,  \* [Pack -> generation of the link in the newest of them, or 0]
          lost     \* [Pack -> accepted mails whose transaction rolled back]

deliveryVars == <<pack, locker, call, mails, mailed, lost>>

Evidence == [sent : Nat, opened : Nat, delivered : Nat, expired : BOOLEAN,
             generation : 1..MaxGeneration, revoked : SUBSET (1..MaxGeneration)]
Call     == [doing : {"dispatch", "open", "acknowledge"}, todo : Seq(Pack),
             link : 0..MaxGeneration,  \* of the pack at hand, 0 before it is read
             step : {"check", "lock", "mail", "record", "open", "deliver"}]

ASSUME DeliveryAssumption ==
  /\ MaxGeneration \in Nat \ {0} /\ MaxLost \in Nat /\ Batches \subseteq Seq(Pack)
  /\ None \notin Evidence \cup Call \cup Sender

DeliveryTypeOK ==
  /\ pack \in [Pack -> Evidence \cup {None}]
  /\ locker \in [Pack -> Sender \cup {None}]
  /\ call \in [Sender -> Call \cup {None}]
  /\ mails \in [Pack -> Nat] /\ mailed \in [Pack -> 0..MaxGeneration]
  /\ lost \in [Pack -> 0..MaxLost]

DeliveryInit ==
  /\ pack = [p \in Pack |-> None] /\ locker = [p \in Pack |-> None]
  /\ call = [r \in Sender |-> None]
  /\ mails = [p \in Pack |-> 0] /\ mailed = [p \in Pack |-> 0] /\ lost = [p \in Pack |-> 0]

Issued(p) == pack[p] # None
Fresh == [sent |-> 0, opened |-> 0, delivered |-> 0, expired |-> FALSE,
          generation |-> 1, revoked |-> {}]

(* One pack, or all of a batch in one transaction.                          *)
IssuePacks(batch) ==
  /\ \A i \in DOMAIN batch : ~Issued(batch[i])
  /\ pack' = [p \in Pack |-> IF \E i \in DOMAIN batch : batch[i] = p THEN Fresh ELSE pack[p]]
  /\ UNCHANGED <<locker, call, mails, mailed, lost>>

Live(p, generation) == /\ generation = pack[p].generation
                       /\ generation \notin pack[p].revoked /\ ~pack[p].expired
CurrentLive(p) == Live(p, pack[p].generation)

Unlocked(p) == locker[p] = None

----------------------------------------------------------------------------
(* Links *)

(* Mutant of RevokeShare: the generation to come is revoked.                *)
RevokeShareNext(p) ==
  /\ Issued(p) /\ Unlocked(p)
  /\ pack' = [pack EXCEPT ![p].revoked = @ \cup {pack[p].generation + 1}]
  /\ UNCHANGED <<locker, call, mails, mailed, lost>>
RevokeShare(p) ==
  /\ Issued(p) /\ Unlocked(p)
  /\ pack' = [pack EXCEPT ![p].revoked = @ \cup {pack[p].generation}]
  /\ UNCHANGED <<locker, call, mails, mailed, lost>>

ReissueShare(p) ==
  /\ Issued(p) /\ Unlocked(p) /\ pack[p].generation < MaxGeneration
  /\ pack' = [pack EXCEPT ![p].generation = @ + 1, ![p].expired = FALSE]
  /\ UNCHANGED <<locker, call, mails, mailed, lost>>

(* Time: a generation lives for a fixed number of seconds.                  *)
ExpireShare(p) ==
  /\ Issued(p) /\ pack' = [pack EXCEPT ![p].expired = TRUE]
  /\ UNCHANGED <<locker, call, mails, mailed, lost>>

----------------------------------------------------------------------------
(* Sending.  A call works through the packs it was given, one pack or the   *)
(* batch; in a batch a pack that fails is passed over.                      *)

StartDispatch(r, batch) ==
  /\ call[r] = None /\ \A i \in DOMAIN batch : Issued(batch[i])
  /\ call' = [call EXCEPT ![r] = [doing |-> "dispatch", todo |-> batch, link |-> 0,
                                  step |-> "check"]]
  /\ UNCHANGED <<pack, locker, mails, mailed, lost>>

Dispatching(r, step) == /\ call[r] # None /\ call[r].doing = "dispatch" /\ call[r].todo # <<>>
                        /\ call[r].step = step
Handled(r) == Head(call[r].todo)

(* The call is done with a pack: sent already, sent now, or failed.         *)
NextPack(r) ==
  call' = [call EXCEPT ![r] = IF Len(@.todo) = 1 THEN None
                              ELSE [@ EXCEPT !.todo = Tail(call[r].todo), !.link = 0,
                                       !.step = "check"]]

(* What ends the work on a pack, under its lock.                            *)
Refused(p) == ~CurrentLive(p) \/ pack[p].sent > 0

(* The call reads the link of the pack it works on and goes on.             *)
ReadLink(r, step) ==
  call' = [call EXCEPT ![r].link = pack[Handled(r)].generation, ![r].step = step]

(* Without a lock: packs that were sent and links that are dead; the link   *)
(* that the response will show.                                             *)
CheckPack(r) ==
  /\ Dispatching(r, "check")
  /\ IF pack[Handled(r)].sent > 0 \/ ~CurrentLive(Handled(r)) THEN NextPack(r)
     ELSE ReadLink(r, "lock")
  /\ UNCHANGED <<pack, locker, mails, mailed, lost>>

(* Mutant of LockPack: the lock is released once the checks are passed.     *)
LockPackBriefly(r) ==
  LET p == Handled(r) IN
  /\ Dispatching(r, "lock") /\ Channel(p) = "email" /\ Unlocked(p)
  /\ IF Refused(p) THEN NextPack(r) ELSE ReadLink(r, "mail")
  /\ UNCHANGED <<pack, locker, mails, mailed, lost>>
(* Mutant of LockPack: the mail gets the link read before the lock.         *)
LockPackOldLink(r) ==
  LET p == Handled(r) IN
  /\ Dispatching(r, "lock") /\ Channel(p) = "email" /\ Unlocked(p)
  /\ IF Refused(p) THEN NextPack(r) /\ UNCHANGED locker
     ELSE call' = [call EXCEPT ![r].step = "mail"] /\ locker' = [locker EXCEPT ![p] = r]
  /\ UNCHANGED <<pack, mails, mailed, lost>>
(* _dispatch_delivery_pack_email takes the row, checks again and fixes the  *)
(* link of the mail ...                                                     *)
LockPack(r) ==
  LET p == Handled(r) IN
  /\ Dispatching(r, "lock") /\ Channel(p) = "email" /\ Unlocked(p)
  /\ IF Refused(p) THEN NextPack(r) /\ UNCHANGED locker
     ELSE ReadLink(r, "mail") /\ locker' = [locker EXCEPT ![p] = r]
  /\ UNCHANGED <<pack, mails, mailed, lost>>

(* ... hands the mail to the server, which may refuse it ...                *)
SendMail(r) ==
  /\ Dispatching(r, "mail")
  /\ mails' = [mails EXCEPT ![Handled(r)] = @ + 1]
  /\ mailed' = [mailed EXCEPT ![Handled(r)] = call[r].link]
  /\ call' = [call EXCEPT ![r].step = "record"]
  /\ UNCHANGED <<pack, locker, lost>>

RefuseMail(r) ==
  /\ Dispatching(r, "mail")
  /\ NextPack(r) /\ locker' = [locker EXCEPT ![Handled(r)] = None]
  /\ UNCHANGED <<pack, mails, mailed, lost>>

(* ... and records the dispatch in the same transaction, which may fail.    *)
RecordMailed(r) ==
  /\ Dispatching(r, "record")
  /\ pack' = [pack EXCEPT ![Handled(r)].sent = @ + 1]
  /\ NextPack(r) /\ locker' = [locker EXCEPT ![Handled(r)] = None]
  /\ UNCHANGED <<mails, mailed, lost>>

LoseMailed(r) ==
  /\ Dispatching(r, "record") /\ lost[Handled(r)] < MaxLost
  /\ lost' = [lost EXCEPT ![Handled(r)] = @ + 1]
  /\ NextPack(r) /\ locker' = [locker EXCEPT ![Handled(r)] = None]
  /\ UNCHANGED <<pack, mails, mailed>>

(* Evidence already there is returned, not repeated.                        *)
Once(n) == IF n = 0 THEN 1 ELSE n

(* _record_delivery_dispatched for a batch handed over by an operator: the  *)
(* link was judged in CheckPack.                                            *)
RecordHanded(r) ==
  /\ Dispatching(r, "lock") /\ Channel(Handled(r)) # "email" /\ Unlocked(Handled(r))
  /\ pack' = [pack EXCEPT ![Handled(r)].sent = Once(@)]
  /\ NextPack(r)
  /\ UNCHANGED <<locker, mails, mailed, lost>>

(* The operator confirms one pack; no link is judged at all.                *)
ConfirmSent(p) ==
  /\ Issued(p) /\ Unlocked(p) /\ Channel(p) # "email"
  /\ pack' = [pack EXCEPT ![p].sent = Once(@)]
  /\ UNCHANGED <<locker, call, mails, mailed, lost>>

----------------------------------------------------------------------------
(* Delivery *)

MarkDelivered(p) ==
  /\ Issued(p) /\ Unlocked(p)
  /\ pack[p].sent > 0 \/ pack[p].opened > 0
  /\ pack' = [pack EXCEPT ![p].delivered = Once(@)]
  /\ UNCHANGED <<locker, call, mails, mailed, lost>>

(* The supplier follows a link of any generation; the token is judged ...   *)
ResolveShare(r, p, generation, doing) ==
  /\ call[r] = None /\ Issued(p) /\ Live(p, generation)
  /\ call' = [call EXCEPT ![r] = [doing |-> doing, todo |-> <<p>>, link |-> 0, step |-> "open"]]
  /\ UNCHANGED <<pack, locker, mails, mailed, lost>>

(* ... and later the first opening is recorded under the lock.              *)
RecordShareOpened(r) ==
  /\ call[r] # None /\ call[r].step = "open" /\ Unlocked(Handled(r))
  /\ pack' = [pack EXCEPT ![Handled(r)].opened = Once(@)]
  /\ call' = [call EXCEPT ![r] = IF @.doing = "acknowledge" THEN [@ EXCEPT !.step = "deliver"]
                                 ELSE None]
  /\ UNCHANGED <<locker, mails, mailed, lost>>

AcknowledgeShare(r) ==
  /\ call[r] # None /\ call[r].step = "deliver" /\ Unlocked(Handled(r))
  /\ pack' = [pack EXCEPT ![Handled(r)].delivered = Once(@)]
  /\ call' = [call EXCEPT ![r] = None]
  /\ UNCHANGED <<locker, mails, mailed, lost>>

(* A request dies between two steps; a held row is released and what its    *)
(* transaction did is gone.  After a mail was accepted it is LoseMailed.    *)
DropCall(r) ==
  /\ call[r] # None /\ call[r].step # "record"
  /\ call' = [call EXCEPT ![r] = None]
  /\ locker' = [p \in Pack |-> IF locker[p] = r THEN None ELSE locker[p]]
  /\ UNCHANGED <<pack, mails, mailed, lost>>

DeliveryNext ==
  \/ \E batch \in Batches : IssuePacks(batch)
  \/ \E p \in Pack : RevokeShare(p) \/ ReissueShare(p) \/ ExpireShare(p)
                     \/ ConfirmSent(p) \/ MarkDelivered(p)
  \/ \E r \in Sender :
       \/ \E batch \in Batches : StartDispatch(r, batch)
       \/ CheckPack(r) \/ LockPack(r) \/ SendMail(r) \/ RefuseMail(r)
       \/ RecordMailed(r) \/ LoseMailed(r) \/ RecordHanded(r)
       \/ \E p \in Pack, generation \in 1..MaxGeneration, doing \in {"open", "acknowledge"} :
            ResolveShare(r, p, generation, doing)
       \/ RecordShareOpened(r) \/ AcknowledgeShare(r) \/ DropCall(r)

DeliverySpec == DeliveryInit /\ [][DeliveryNext]_deliveryVars

----------------------------------------------------------------------------
(* Properties *)

(* At most one piece of evidence of each kind, whichever operators and      *)
(* supplier requests overlap, and delivery only of what went out or was     *)
(* seen.                                                                    *)
EvidenceOnce ==
  \A p \in Pack : Issued(p) =>
    /\ pack[p].sent <= 1 /\ pack[p].opened <= 1 /\ pack[p].delivered <= 1
    /\ pack[p].delivered > 0 => pack[p].sent > 0 \/ pack[p].opened > 0

(* A supplier is mailed a pack twice only when a transaction was lost after *)
(* the mail server had accepted it; evidence of a mail means a mail.        *)
MailAccounted ==
  \A p \in Pack :
    /\ mails[p] <= 1 + lost[p]
    /\ Issued(p) /\ Channel(p) = "email" /\ pack[p].sent > 0 => mails[p] = 1 + lost[p]

(* Both: the evidence of a pack says what happened to it.                   *)
EvidenceTrue == EvidenceOnce /\ MailAccounted

(* The link a mail carries is neither revoked nor replaced when the mail    *)
(* goes out, however long the dispatch had been waiting and whatever its    *)
(* link was then.  (It may have expired since it was read.)                 *)
MailedLinkStands ==
  [][\A p \in Pack : mails'[p] > mails[p] =>
       mailed'[p] = pack[p].generation /\ mailed'[p] \notin pack[p].revoked]_deliveryVars

(* _dispatch_delivery_pack_email: "Existing sends are never duplicated."    *)
NeverMailedTwice == \A p \in Pack : mails[p] <= 1
=============================================================================
