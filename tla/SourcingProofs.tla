--------------------------- MODULE SourcingProofs ---------------------------
(***************************************************************************)
(* The directory of providers under the requests of its pages and of its   *)
(* workbooks, for any number of providers, contacts, offers and files.     *)
(***************************************************************************)
EXTENDS SourcingDesk, TLAPS

Person       == [owner : Provider, primary : BOOLEAN, active : BOOLEAN]
Paper        == [owner : Provider, content : Content, review : ReviewStatus, judged : Content]
Confirmation == [profile : Content, named : Contact \cup {None}]

ConfirmedIs == confirmed \in [Provider -> Confirmation \cup {None}]

(* Offers are deleted with their entry, so that a new entry has none.      *)
Owned == \A o \in Offer : offer[o] # None => provider[Owner(o)] # None

(* A file that is being uploaded or removed is in the storage and in no    *)
(* row, and it is not both.                                                *)
FilesApart ==
  \A f \in File :
    /\ f \in removing \/ uploading[f] # None => f \in stored /\ qualification[f] = None
    /\ f \in removing => uploading[f] = None

DirectoryIInv ==
  /\ DirectoryTypeOK /\ ConfirmedIs /\ Owned /\ FilesApart
  /\ DirectorySound /\ ArchivedQuiet

(* A service writes the row of one entry: it gives no subcontractor a      *)
(* confirmation and takes none from the others.                            *)
Rewrites(p, row) ==
  /\ provider[p] # None /\ row \in Entry /\ (row.archived => ~row.active)
  /\ Role(p) # "subcontractor" /\ provider[p].verified => row.verified
  /\ Role(p) = "subcontractor" /\ row.verified =>
       provider[p].verified /\ row.profile = provider[p].profile /\ row.named = provider[p].named

-----------------------------------------------------------------------------
USE DEF Filing, Catalog

LEMMA EntryRewritten ==
  ASSUME DirectoryIInv, NEW p \in Provider, NEW row, Rewrites(p, row),
         provider' = [provider EXCEPT ![p] = row], contact' \in [Contact -> Person \cup {None}],
         opened' \subseteq Provider, UNCHANGED <<Catalog, confirmed, Filing>>
  PROVE  DirectoryIInv'
<1>1. /\ provider \in [Provider -> Entry \cup {None}] /\ provider'[p] = row /\ row \in Entry
      /\ \A q \in Provider \ {p} : provider'[q] = provider[q]
      /\ provider[p] \in Entry /\ provider[p] # None /\ row # None
  BY DirectoryAssumption DEF DirectoryIInv, DirectoryTypeOK, SourcingTypeOK, Rewrites
<1>2. DirectoryTypeOK'
  BY <1>1 DEF DirectoryIInv, DirectoryTypeOK, SourcingTypeOK, Person
<1>3. ConfirmedIs' /\ FilesApart'
  BY DEF DirectoryIInv, ConfirmedIs, FilesApart
<1>4. \A o \in Offer : offer[o] # None => offer[o] \in Row /\ Owner(o) \in Provider /\ provider[Owner(o)] # None
  BY DEF DirectoryIInv, DirectoryTypeOK, SourcingTypeOK, Row, Owner, Owned
<1>5. Owned'
  BY <1>1, <1>4 DEF Owned, Owner
<1>6. ConfirmedAsIs'
  BY <1>1 DEF DirectoryIInv, DirectorySound, ConfirmedAsIs, Rewrites
<1>7. OffersAsShown'
  <2> SUFFICES ASSUME NEW o \in Offer, offer[o] # None, Role(Owner(o)) # "subcontractor"
               PROVE  offer[o].verified => provider'[Owner(o)].verified
    BY DEF DirectoryIInv, DirectorySound, OffersAsShown, Owner
  <2>1. offer[o].verified => provider[Owner(o)].verified
    BY DEF DirectoryIInv, DirectorySound, OffersAsShown
  <2>2. CASE Owner(o) = p
    BY <1>1, <2>1, <2>2 DEF Rewrites
  <2>3. CASE Owner(o) # p
    BY <1>1, <1>4, <2>1, <2>3
  <2> QED
    BY <2>2, <2>3
<1>8. DocumentsStand'
  BY DEF DirectoryIInv, DirectorySound, DocumentsStand
<1>9. ArchivedQuiet'
  BY <1>1 DEF DirectoryIInv, ArchivedQuiet, Rewrites
<1> QED
  BY <1>2, <1>3, <1>5, <1>6, <1>7, <1>8, <1>9 DEF DirectoryIInv, DirectorySound

(* What a service that only looks at one entry writes.                     *)
LEMMA OnlyKeeps ==
  ASSUME DirectoryIInv, NEW p \in Provider, NEW row, Rewrites(p, row),
         Only(p, row), opened' \subseteq Provider
  PROVE  DirectoryIInv'
<1>1. contact' \in [Contact -> Person \cup {None}]
  BY DEF Only, DirectoryIInv, DirectoryTypeOK, SourcingTypeOK, Person
<1>2. provider' = [provider EXCEPT ![p] = row] /\ UNCHANGED <<Catalog, confirmed, Filing>>
  BY DEF Only
<1> QED
  BY <1>1, <1>2, EntryRewritten


(* The parts of an entry that is there.                                    *)
LEMMA EntryIs ==
  ASSUME DirectoryIInv, NEW p \in Provider, provider[p] # None
  PROVE  /\ provider[p] \in Entry /\ provider[p].active \in BOOLEAN /\ provider[p].archived \in BOOLEAN
         /\ provider[p].verified \in BOOLEAN /\ provider[p].profile \in Content
         /\ provider[p].named \in Contact \cup {None}
         /\ provider[p].archived => ~provider[p].active
<1>1. provider[p] \in Entry
  BY DEF DirectoryIInv, DirectoryTypeOK, SourcingTypeOK
<1> QED
  BY <1>1 DEF Entry, DirectoryIInv, ArchivedQuiet

LEMMA StatusRewritten ==
  ASSUME DirectoryIInv, NEW p \in Provider, provider[p] # None, NEW active \in BOOLEAN,
         NEW archived \in BOOLEAN, NEW trash \in {"no", "kept", "expired"}, archived => ~active
  PROVE  Rewrites(p, [provider[p] EXCEPT !.active = active, !.archived = archived, !.trash = trash])
<1> DEFINE row == [provider[p] EXCEPT !.active = active, !.archived = archived, !.trash = trash]
<1>1. /\ row \in Entry /\ row.archived = archived /\ row.active = active
      /\ row.verified = provider[p].verified /\ row.profile = provider[p].profile
      /\ row.named = provider[p].named
  BY EntryIs DEF Entry
<1> QED
  BY <1>1 DEF Rewrites

LEMMA ProfileRewritten ==
  ASSUME DirectoryIInv, NEW p \in Provider, provider[p] # None, NEW active \in BOOLEAN,
         provider[p].archived => ~active, NEW profile \in Content, NEW named \in Contact \cup {None},
         NEW verified \in BOOLEAN,
         Role(p) = "subcontractor" /\ verified => Kept(p, profile, named),
         Role(p) # "subcontractor" /\ provider[p].verified => verified
  PROVE  Rewrites(p, [provider[p] EXCEPT !.profile = profile, !.named = named, !.active = active,
                                         !.verified = verified])
<1> DEFINE row == [provider[p] EXCEPT !.profile = profile, !.named = named, !.active = active,
                                      !.verified = verified]
<1>1. /\ row \in Entry /\ row.archived = provider[p].archived /\ row.active = active
      /\ row.verified = verified /\ row.profile = profile /\ row.named = named
  BY EntryIs DEF Entry
<1> QED
  BY <1>1 DEF Rewrites, Kept

LEMMA OpenedIs ==
  ASSUME DirectoryIInv, NEW p \in Provider, Through \/ Answered(p)
  PROVE  opened' \subseteq Provider
BY DEF DirectoryIInv, DirectoryTypeOK, Through, Answered

(* Status, archive and Trash of an entry.                                  *)
LEMMA StatusKeeps ==
  ASSUME DirectoryIInv, NEW p \in Provider, Through,
         \/ \E active \in BOOLEAN : Statused(p, active)
         \/ Archived(p) \/ Reopened(p) \/ Trashed(p) \/ PassRetention(p)
         \/ provider[p] # None /\ Only(p, [provider[p] EXCEPT !.trash = "no"])
  PROVE  DirectoryIInv'
<1> DEFINE Row3(active, archived, trash) ==
      [provider[p] EXCEPT !.active = active, !.archived = archived, !.trash = trash]
<1>1. provider[p] # None
  BY DEF Statused, Archived, Reopened, Trashed, PassRetention, Writable, Present, Unheld
<1>2. /\ provider[p] \in Entry /\ provider[p].active \in BOOLEAN /\ provider[p].archived \in BOOLEAN
      /\ provider[p].trash \in {"no", "kept", "expired"}
      /\ provider[p].archived => ~provider[p].active
  BY <1>1, EntryIs DEF Entry
<1>3. opened' \subseteq Provider
  BY OpenedIs
<1>4. ASSUME NEW active \in BOOLEAN, NEW archived \in BOOLEAN, NEW trash \in {"no", "kept", "expired"},
             archived => ~active, Only(p, Row3(active, archived, trash))
      PROVE  DirectoryIInv'
  <2>1. Rewrites(p, Row3(active, archived, trash))
    BY <1>1, <1>4, StatusRewritten
  <2> HIDE DEF Row3
  <2> QED
    BY <1>3, <1>4, <2>1, OnlyKeeps
<1>5. CASE \E active \in BOOLEAN : Statused(p, active)
  <2>1. PICK active \in BOOLEAN : Statused(p, active)
    BY <1>5
  <2>2. ~provider[p].archived /\ Only(p, [provider[p] EXCEPT !.active = active])
    BY <2>1 DEF Statused, Writable
  <2>3. [provider[p] EXCEPT !.active = active] = Row3(active, FALSE, provider[p].trash)
    BY <1>2, <2>2 DEF Entry
  <2> QED
    BY <1>2, <1>4, <2>2, <2>3
<1>6. CASE Archived(p)
  <2>1. Only(p, [provider[p] EXCEPT !.archived = TRUE, !.active = FALSE])
    BY <1>6 DEF Archived
  <2>2. [provider[p] EXCEPT !.archived = TRUE, !.active = FALSE] = Row3(FALSE, TRUE, provider[p].trash)
    BY <1>2 DEF Entry
  <2> QED
    BY <1>2, <1>4, <2>1, <2>2
<1>7. CASE Reopened(p)
  <2>1. Only(p, [provider[p] EXCEPT !.archived = FALSE])
    BY <1>7 DEF Reopened
  <2>2. [provider[p] EXCEPT !.archived = FALSE] = Row3(provider[p].active, FALSE, provider[p].trash)
    BY <1>2 DEF Entry
  <2> QED
    BY <1>2, <1>4, <2>1, <2>2
<1>8. ASSUME NEW trash \in {"no", "kept", "expired"}, Only(p, [provider[p] EXCEPT !.trash = trash])
      PROVE  DirectoryIInv'
  <2>1. [provider[p] EXCEPT !.trash = trash] = Row3(provider[p].active, provider[p].archived, trash)
    BY <1>2 DEF Entry
  <2> QED
    BY <1>2, <1>4, <1>8, <2>1
<1>9. CASE Trashed(p) \/ PassRetention(p) \/ Only(p, [provider[p] EXCEPT !.trash = "no"])
  <2>1. \E trash \in {"no", "kept", "expired"} : Only(p, [provider[p] EXCEPT !.trash = trash])
    BY <1>9 DEF Trashed, PassRetention
  <2> QED
    BY <1>8, <2>1
<1> QED
  BY <1>5, <1>6, <1>7, <1>9

(* Profiles, by their forms and by rows of a workbook.                     *)
LEMMA ProfileKeeps ==
  ASSUME DirectoryIInv, NEW p \in Provider, opened' \subseteq Provider,
         NEW profile \in Content, NEW named \in Contact \cup {None}, NEW active \in BOOLEAN,
         \/ UpdateVendor(p, profile, named) \/ UpdateManpower(p, profile, named)
         \/ UpdateSubcontractor(p, profile, named)
         \/ ImportVendor(p, profile, named, active) \/ ImportManpower(p, profile, named, active)
         \/ ImportSubcontractor(p, profile, named, active)
  PROVE  DirectoryIInv'
<1> DEFINE Row3(on, verified) ==
      [provider[p] EXCEPT !.profile = profile, !.named = named, !.active = on, !.verified = verified]
<1>1. provider[p] # None
  BY DEF UpdateVendor, UpdateManpower, UpdateSubcontractor, ImportVendor, ImportManpower,
         ImportSubcontractor, Is, Unheld
<1>2. /\ provider[p] \in Entry /\ provider[p].active \in BOOLEAN /\ provider[p].archived \in BOOLEAN
      /\ provider[p].verified \in BOOLEAN
      /\ provider[p].archived => ~provider[p].active
  BY <1>1, EntryIs
<1>3. Kept(p, profile, named) \in BOOLEAN
  BY DEF Kept
<1>4. ASSUME NEW on \in BOOLEAN, NEW verified \in BOOLEAN, provider[p].archived => ~on,
             Role(p) = "subcontractor" /\ verified => Kept(p, profile, named),
             Role(p) # "subcontractor" /\ provider[p].verified => verified,
             Only(p, Row3(on, verified))
      PROVE  DirectoryIInv'
  <2>1. Rewrites(p, Row3(on, verified))
    BY <1>1, <1>4, ProfileRewritten
  <2> HIDE DEF Row3
  <2> QED
    BY <1>4, <2>1, OnlyKeeps
<1> HIDE DEF Row3
<1>5. CASE UpdateVendor(p, profile, named) \/ UpdateManpower(p, profile, named)
  <2>1. Role(p) # "subcontractor" /\ Only(p, Described(p, profile, named))
    BY <1>5 DEF UpdateVendor, UpdateManpower, Is
  <2>2. Described(p, profile, named) = Row3(provider[p].active, provider[p].verified)
    BY <1>2 DEF Row3, Described, Entry
  <2> QED
    BY <1>2, <1>4, <2>1, <2>2
<1>6. CASE UpdateSubcontractor(p, profile, named)
  <2> DEFINE row == [Described(p, profile, named) EXCEPT !.verified = Kept(p, profile, named)]
  <2>1. Role(p) = "subcontractor" /\ Only(p, row)
    BY <1>6 DEF UpdateSubcontractor, Is
  <2>2. row = Row3(provider[p].active, Kept(p, profile, named))
    BY <1>2 DEF Row3, Described, Entry
  <2> HIDE DEF row
  <2> QED
    BY <1>2, <1>3, <1>4, <2>1, <2>2
<1>7. CASE ImportVendor(p, profile, named, active) \/ ImportManpower(p, profile, named, active)
  <2> DEFINE row == [Described(p, profile, named) EXCEPT !.active = active]
  <2>1. Role(p) # "subcontractor" /\ Only(p, row) /\ (active # provider[p].active => ~provider[p].archived)
    BY <1>7 DEF ImportVendor, ImportManpower, Is, Writable
  <2>2. row = Row3(active, provider[p].verified)
    BY <1>2 DEF Row3, Described, Entry
  <2>3. provider[p].archived => ~active
    <3>1. CASE active = provider[p].active
      BY <1>2, <3>1
    <3>2. CASE active # provider[p].active
      BY <2>1, <3>2
    <3> QED
      BY <3>1, <3>2
  <2> HIDE DEF row
  <2> QED
    BY <1>2, <1>4, <2>1, <2>2, <2>3
<1>8. CASE ImportSubcontractor(p, profile, named, active)
  <2> DEFINE row == [Described(p, profile, named) EXCEPT !.active = active,
                                                         !.verified = Kept(p, profile, named)]
  <2>1. Role(p) = "subcontractor" /\ Only(p, row) /\ ~provider[p].archived
    BY <1>8 DEF ImportSubcontractor, Is, Writable
  <2>2. row = Row3(active, Kept(p, profile, named))
    BY <1>2 DEF Row3, Described, Entry
  <2> HIDE DEF row
  <2> QED
    BY <1>3, <1>4, <2>1, <2>2
<1> QED
  BY <1>5, <1>6, <1>7, <1>8

(* A row that shows itself.                                                *)
LEMMA ShowsItself ==
  ASSUME NEW row \in Row
  PROVE  row = [row EXCEPT !.active = row.active]
BY DEF Row

(* A new entry, with or without its first offers.                          *)
LEMMA EntryAdded ==
  ASSUME DirectoryIInv, NEW p \in Provider, NEW row \in Entry,
         provider[p] = None, ~row.archived, Role(p) = "subcontractor" => ~row.verified,
         provider' = [provider EXCEPT ![p] = row],
         offer' \in [Offer -> Row \cup {None}], shown' \in [Offer -> Row \cup {None}],
         master' \in [Master -> BOOLEAN \cup {None}], picked' \subseteq Master,
         \A o \in Offer :
           \/ offer'[o] = offer[o] /\ shown'[o] = shown[o]
           \/ /\ offer'[o] \in Row /\ offer'[o].owner = p
              /\ Role(p) # "subcontractor" => /\ shown'[o] = offer'[o]
                                              /\ offer'[o].verified => row.verified
              /\ Role(p) = "subcontractor" => (offer'[o].verified => shown'[o] = offer'[o]),
         UNCHANGED <<contact, confirmed, Filing, opened>>
  PROVE  DirectoryIInv'
<1>1. /\ provider \in [Provider -> Entry \cup {None}] /\ provider'[p] = row /\ row # None
      /\ \A q \in Provider \ {p} : provider'[q] = provider[q]
  BY DirectoryAssumption DEF DirectoryIInv, DirectoryTypeOK, SourcingTypeOK
<1>2. DirectoryTypeOK'
  BY <1>1 DEF DirectoryIInv, DirectoryTypeOK, SourcingTypeOK
<1>3. ConfirmedIs' /\ FilesApart' /\ DocumentsStand'
  BY DEF DirectoryIInv, ConfirmedIs, FilesApart, DirectorySound, DocumentsStand
<1>4. \A o \in Offer : offer[o] # None =>
        offer[o] \in Row /\ offer[o].owner \in Provider /\ offer[o].owner # p /\ provider[offer[o].owner] # None
  BY DEF DirectoryIInv, DirectoryTypeOK, SourcingTypeOK, Row, Owner, Owned
<1>5. Owned'
  BY <1>1, <1>4 DEF Owned, Owner
<1>6. ConfirmedAsIs'
  BY <1>1 DEF DirectoryIInv, DirectorySound, ConfirmedAsIs
<1>7. OffersAsShown'
  <2> SUFFICES ASSUME NEW o \in Offer, offer'[o] # None
               PROVE  IF Role(offer'[o].owner) = "subcontractor"
                      THEN offer'[o].verified => /\ shown'[o] # None
                                                 /\ shown'[o] = [offer'[o] EXCEPT !.active = shown'[o].active]
                      ELSE shown'[o] = offer'[o] /\ (offer'[o].verified => provider'[offer'[o].owner].verified)
    BY DEF OffersAsShown, Owner
  <2>1. CASE offer'[o] = offer[o] /\ shown'[o] = shown[o]
    BY <1>1, <1>4, <2>1 DEF DirectoryIInv, DirectorySound, OffersAsShown, Owner
  <2>2. CASE /\ offer'[o] \in Row /\ offer'[o].owner = p
             /\ Role(p) # "subcontractor" => /\ shown'[o] = offer'[o]
                                             /\ offer'[o].verified => row.verified
             /\ Role(p) = "subcontractor" => (offer'[o].verified => shown'[o] = offer'[o])
    <3>1. offer'[o] = [offer'[o] EXCEPT !.active = offer'[o].active]
      BY <2>2, ShowsItself
    <3>2. CASE Role(p) = "subcontractor"
      BY <2>2, <3>1, <3>2
    <3>3. CASE Role(p) # "subcontractor"
      BY <1>1, <2>2, <3>3
    <3> QED
      BY <3>2, <3>3
  <2> QED
    BY <2>1, <2>2
<1>8. ArchivedQuiet'
  BY <1>1 DEF DirectoryIInv, ArchivedQuiet
<1> QED
  BY <1>2, <1>3, <1>5, <1>6, <1>7, <1>8 DEF DirectoryIInv, DirectorySound

LEMMA NewEntryKeeps ==
  ASSUME DirectoryIInv, NEW p \in Provider, NEW profile \in Content,
         NEW active \in BOOLEAN, NewEntry(p, profile, active),
         UNCHANGED <<contact, Catalog, confirmed, Filing>>, Through
  PROVE  DirectoryIInv'
<1> DEFINE row == [active |-> active, archived |-> FALSE, trash |-> "no", profile |-> profile,
                   named |-> None, verified |-> FALSE]
<1>1. row \in Entry /\ ~row.archived /\ ~row.verified
  BY DEF Entry
<1>2. provider[p] = None /\ provider' = [provider EXCEPT ![p] = row]
  BY DEF NewEntry
<1>3. /\ offer' \in [Offer -> Row \cup {None}] /\ shown' \in [Offer -> Row \cup {None}]
      /\ master' \in [Master -> BOOLEAN \cup {None}] /\ picked' \subseteq Master
  BY DEF DirectoryIInv, DirectoryTypeOK, SourcingTypeOK
<1>4. UNCHANGED <<contact, confirmed, Filing, opened>> /\ \A o \in Offer : offer'[o] = offer[o] /\ shown'[o] = shown[o]
  BY DEF Through
<1> HIDE DEF row
<1> QED
  BY <1>1, <1>2, <1>3, <1>4, EntryAdded

LEMMA RowIs ==
  ASSUME NEW p \in Provider, NEW x \in Master, NEW content \in Content, NEW verify \in BOOLEAN
  PROVE  /\ NewRow(p, x, content, verify) \in Row
         /\ NewRow(p, x, content, verify).owner = p
         /\ NewRow(p, x, content, verify).verified = verify
BY DEF NewRow, Row

LEMMA FoundedKeeps ==
  ASSUME DirectoryIInv, NEW p \in Provider, NEW profile \in Content,
         NEW seeds \in SUBSET Offer, NEW x \in Master, NEW draft \in BOOLEAN, NEW verify \in BOOLEAN,
         Founded(p, profile, seeds, x, draft, verify), Through
  PROVE  DirectoryIInv'
<1> DEFINE supply == Role(p) # "subcontractor"
           new == NewRow(p, x, profile, verify)
           row == [active |-> TRUE, archived |-> FALSE, trash |-> "no", profile |-> profile,
                   named |-> None, verified |-> supply /\ verify]
<1>1. /\ provider[p] = None /\ provider' = [provider EXCEPT ![p] = row]
      /\ offer' = [o \in Offer |-> IF o \in seeds THEN new ELSE offer[o]]
      /\ shown' = [o \in Offer |-> IF o \in seeds /\ (supply \/ verify) THEN offer'[o] ELSE shown[o]]
      /\ master' = [master EXCEPT ![x] = IF draft THEN TRUE ELSE @] /\ picked' = picked \ {x}
      /\ UNCHANGED <<contact, confirmed, Filing, opened>>
  BY DEF Founded, Through
<1>2. row \in Entry /\ ~row.archived /\ (row.verified <=> supply /\ verify)
  BY DEF Entry
<1>3. new \in Row /\ new.owner = p /\ new.verified = verify
  BY RowIs
<1>4. /\ offer \in [Offer -> Row \cup {None}] /\ shown \in [Offer -> Row \cup {None}]
      /\ master \in [Master -> BOOLEAN \cup {None}] /\ picked \subseteq Master
  BY DEF DirectoryIInv, DirectoryTypeOK, SourcingTypeOK
<1> HIDE DEF new, row
<1>5. /\ offer' \in [Offer -> Row \cup {None}] /\ shown' \in [Offer -> Row \cup {None}]
      /\ master' \in [Master -> BOOLEAN \cup {None}] /\ picked' \subseteq Master
  BY <1>1, <1>3, <1>4
<1>6. ASSUME NEW o \in Offer
      PROVE  \/ offer'[o] = offer[o] /\ shown'[o] = shown[o]
             \/ /\ offer'[o] \in Row /\ offer'[o].owner = p
                /\ Role(p) # "subcontractor" => /\ shown'[o] = offer'[o]
                                                /\ offer'[o].verified => row.verified
                /\ Role(p) = "subcontractor" => (offer'[o].verified => shown'[o] = offer'[o])
  <2>1. CASE o \notin seeds
    BY <1>1, <2>1
  <2>2. CASE o \in seeds
    <3>1. offer'[o] = new /\ shown'[o] = IF supply \/ verify THEN new ELSE shown[o]
      BY <1>1, <2>2
    <3> QED
      BY <1>2, <1>3, <3>1
  <2> QED
    BY <2>1, <2>2
<1>7. Role(p) = "subcontractor" => ~row.verified
  BY <1>2
<1> QED
  BY <1>1, <1>2, <1>5, <1>6, <1>7, EntryAdded

(* Deletions leave every other entry its offers.                           *)
LEMMA RemovedKeeps ==
  ASSUME DirectoryIInv, NEW p \in Provider, Removed(p), Through \/ Answered(p)
  PROVE  DirectoryIInv'
<1>1. /\ provider' = [provider EXCEPT ![p] = None]
      /\ contact' = [c \in Contact |-> IF c \in Contacts(p) THEN None ELSE contact[c]]
      /\ offer' = [o \in Offer |-> IF o \in Offers(p) THEN None ELSE offer[o]]
      /\ UNCHANGED <<master, picked, shown, confirmed, Filing>>
  BY DEF Removed
<1>2. /\ provider \in [Provider -> Entry \cup {None}] /\ provider'[p] = None
      /\ \A q \in Provider \ {p} : provider'[q] = provider[q]
  BY <1>1 DEF DirectoryIInv, DirectoryTypeOK, SourcingTypeOK
<1>3. \A o \in Offer : offer'[o] # None =>
        offer'[o] = offer[o] /\ offer[o] \in Row /\ offer[o].owner \in Provider /\ offer[o].owner # p
  BY <1>1 DEF DirectoryIInv, DirectoryTypeOK, SourcingTypeOK, Row, Offers
<1>4. DirectoryTypeOK'
  <2>1. opened' \subseteq Provider
    BY OpenedIs
  <2>2. provider' \in [Provider -> Entry \cup {None}] /\ offer' \in [Offer -> Row \cup {None}]
    BY <1>1 DEF DirectoryIInv, DirectoryTypeOK, SourcingTypeOK
  <2>3. contact' \in [Contact -> Person \cup {None}]
    BY <1>1 DEF DirectoryIInv, DirectoryTypeOK, SourcingTypeOK, Person
  <2> QED
    BY <1>1, <2>1, <2>2, <2>3 DEF DirectoryIInv, DirectoryTypeOK, SourcingTypeOK, Person
<1>5. ConfirmedIs' /\ FilesApart' /\ DocumentsStand'
  BY <1>1 DEF DirectoryIInv, ConfirmedIs, FilesApart, DirectorySound, DocumentsStand
<1>6. Owned'
  BY <1>2, <1>3 DEF DirectoryIInv, Owned, Owner
<1>7. ConfirmedAsIs' /\ ArchivedQuiet'
  BY <1>1, <1>2 DEF DirectoryIInv, DirectorySound, ConfirmedAsIs, ArchivedQuiet
<1>8. OffersAsShown'
  BY <1>1, <1>2, <1>3 DEF DirectoryIInv, DirectorySound, OffersAsShown, Owner
<1> QED
  BY <1>4, <1>5, <1>6, <1>7, <1>8 DEF DirectoryIInv, DirectorySound

LEMMA VerifyKeeps ==
  ASSUME DirectoryIInv, NEW p \in Provider, VerifySubcontractor(p), Through
  PROVE  DirectoryIInv'
<1> DEFINE row == [provider[p] EXCEPT !.verified = TRUE]
           now == [profile |-> provider[p].profile, named |-> provider[p].named]
<1>1. /\ Role(p) = "subcontractor" /\ provider[p] # None
      /\ provider' = [provider EXCEPT ![p].verified = TRUE]
      /\ confirmed' = [confirmed EXCEPT ![p] = now]
      /\ UNCHANGED <<contact, Catalog, Filing, opened>>
  BY DEF VerifySubcontractor, Is, Unheld, Through
<1>2. /\ row \in Entry /\ row.verified /\ row.profile = provider[p].profile
      /\ row.named = provider[p].named /\ row.archived = provider[p].archived
      /\ row.active = provider[p].active /\ (provider[p].archived => ~provider[p].active)
  BY <1>1, EntryIs DEF Entry
<1>3. now \in Confirmation
  BY <1>1, EntryIs DEF Confirmation
<1>4. provider \in [Provider -> Entry \cup {None}] /\ confirmed \in [Provider -> Confirmation \cup {None}]
  BY DEF DirectoryIInv, DirectoryTypeOK, SourcingTypeOK, ConfirmedIs
<1>5. provider' = [provider EXCEPT ![p] = row]
  BY <1>1, <1>4
<1>6. /\ provider'[p] = row /\ confirmed'[p] = now /\ row # None
      /\ \A q \in Provider \ {p} : provider'[q] = provider[q] /\ confirmed'[q] = confirmed[q]
  BY <1>1, <1>2, <1>4, <1>5, DirectoryAssumption
<1>7. now = [profile |-> row.profile, named |-> row.named]
  BY <1>2
<1> HIDE DEF row, now
<1>8. DirectoryTypeOK'
  BY <1>1, <1>2, <1>4, <1>5 DEF DirectoryIInv, DirectoryTypeOK, SourcingTypeOK
<1>9. ConfirmedIs' /\ FilesApart' /\ DocumentsStand'
  BY <1>1, <1>3, <1>4 DEF DirectoryIInv, ConfirmedIs, FilesApart, DirectorySound, DocumentsStand
<1>10. \A o \in Offer : offer[o] # None => offer[o] \in Row /\ Owner(o) \in Provider /\ provider[Owner(o)] # None
  BY DEF DirectoryIInv, DirectoryTypeOK, SourcingTypeOK, Row, Owner, Owned
<1>11. Owned'
  BY <1>1, <1>6, <1>10 DEF Owned, Owner
<1>12. ConfirmedAsIs'
  BY <1>6, <1>7 DEF DirectoryIInv, DirectorySound, ConfirmedAsIs
<1>13. ArchivedQuiet'
  BY <1>2, <1>6 DEF DirectoryIInv, ArchivedQuiet
<1>14. OffersAsShown'
  BY <1>1, <1>2, <1>6, <1>10 DEF DirectoryIInv, DirectorySound, OffersAsShown, Owner
<1> QED
  BY <1>8, <1>9, <1>11, <1>12, <1>13, <1>14 DEF DirectoryIInv, DirectorySound

LEMMA EntryNextKeeps ==
  ASSUME DirectoryIInv, NEW may \in Rights, NEW p \in Provider, EntryNext(may, p)
  PROVE  DirectoryIInv'
<1>1. ASSUME NEW profile \in Content, NEW seeds \in SUBSET Offer, NEW x \in Master,
             NEW draft \in BOOLEAN, NEW verify \in BOOLEAN,
             \/ vendor_create(may, p, profile, seeds, x, draft, verify)
             \/ manpower_supplier_create(may, p, profile, seeds, x, draft, verify)
             \/ subcontractor_create(may, p, profile, seeds, x, draft, verify)
      PROVE  DirectoryIInv'
  <2>1. Through
    BY <1>1 DEF vendor_create, manpower_supplier_create, subcontractor_create
  <2>2. CASE Founded(p, profile, seeds, x, draft, verify)
    BY <2>1, <2>2, FoundedKeeps
  <2>3. CASE NewEntry(p, profile, TRUE) /\ UNCHANGED <<contact, Catalog, confirmed, Filing>>
    BY <2>1, <2>3, NewEntryKeeps
  <2> QED
    BY <1>1, <2>2, <2>3 DEF vendor_create, manpower_supplier_create, subcontractor_create,
       CreateVendor, CreateManpower, CreateSubcontractor, CreateVendorWithMaterials
<1>2. ASSUME NEW profile \in Content, NEW named \in Contact \cup {None},
             \/ vendor_edit(p, profile, named) \/ manpower_supplier_edit(p, profile, named)
             \/ subcontractor_edit(may, p, profile, named)
      PROVE  DirectoryIInv'
  <2>1. opened' \subseteq Provider
    BY <1>2, OpenedIs DEF vendor_edit, manpower_supplier_edit, subcontractor_edit
  <2>2. \/ UpdateVendor(p, profile, named) \/ UpdateManpower(p, profile, named)
        \/ UpdateSubcontractor(p, profile, named)
    BY <1>2 DEF vendor_edit, manpower_supplier_edit, subcontractor_edit
  <2> QED
    BY <2>1, <2>2, ProfileKeeps
<1>3. ASSUME NEW profile \in Content, NEW named \in Contact \cup {None}, NEW active \in BOOLEAN,
             \/ vendor_row(may, p, profile, named, active)
             \/ manpower_supplier_row(may, p, profile, named, active)
             \/ subcontractor_row(may, p, profile, named, active)
      PROVE  DirectoryIInv'
  <2>1. Through /\ opened' \subseteq Provider
    BY <1>3, OpenedIs DEF vendor_row, manpower_supplier_row, subcontractor_row
  <2>2. CASE NewEntry(p, profile, active) /\ UNCHANGED <<contact, Catalog, confirmed, Filing>>
    BY <2>1, <2>2, NewEntryKeeps
  <2>3. CASE \/ ImportVendor(p, profile, named, active) \/ ImportManpower(p, profile, named, active)
             \/ ImportSubcontractor(p, profile, named, active)
    BY <2>1, <2>3, ProfileKeeps
  <2> QED
    BY <1>3, <2>2, <2>3 DEF vendor_row, manpower_supplier_row, subcontractor_row,
       CreateVendor, CreateManpower, CreateSubcontractor
<1>4. CASE \E active \in BOOLEAN : \/ vendor_status(may, p, active)
                                   \/ manpower_supplier_status(may, p, active)
                                   \/ subcontractor_status(may, p, active)
  <2>1. Through /\ \E active \in BOOLEAN : Statused(p, active)
    BY <1>4 DEF vendor_status, manpower_supplier_status, subcontractor_status, SetVendorStatus,
       SetManpowerStatus, SetSubcontractorStatus
  <2> QED
    BY <2>1, StatusKeeps
<1>5. CASE \/ vendor_archive(may, p) \/ manpower_supplier_archive(may, p)
           \/ subcontractor_archive(may, p)
  <2>1. Through /\ Archived(p)
    BY <1>5 DEF vendor_archive, manpower_supplier_archive, subcontractor_archive, ArchiveVendor,
       ArchiveManpower, ArchiveSubcontractor
  <2> QED
    BY <2>1, StatusKeeps
<1>6. CASE \/ vendor_restore_archive(may, p) \/ manpower_supplier_restore_archive(may, p)
           \/ subcontractor_restore_archive(may, p)
  <2>1. Through /\ Reopened(p)
    BY <1>6 DEF vendor_restore_archive, manpower_supplier_restore_archive,
       subcontractor_restore_archive, RestoreVendorArchive, RestoreManpowerArchive,
       RestoreSubcontractorArchive
  <2> QED
    BY <2>1, StatusKeeps
<1>7. CASE \/ vendor_trash(may, p) \/ manpower_supplier_trash(may, p) \/ subcontractor_trash(may, p)
  <2>1. Through /\ Trashed(p)
    BY <1>7 DEF vendor_trash, manpower_supplier_trash, subcontractor_trash, TrashVendor,
       TrashManpower, TrashSubcontractor
  <2> QED
    BY <2>1, StatusKeeps
<1>8. CASE \/ vendor_restore_trash(may, p) \/ manpower_supplier_restore_trash(may, p)
           \/ subcontractor_restore_trash(may, p)
  <2>1. Through /\ provider[p] # None /\ Only(p, [provider[p] EXCEPT !.trash = "no"])
    BY <1>8 DEF vendor_restore_trash, manpower_supplier_restore_trash, subcontractor_restore_trash,
       RestoreVendorTrash, RestoreManpowerTrash, RestoreSubcontractorTrash, Is, Unheld
  <2> QED
    BY <2>1, StatusKeeps
<1>9. CASE \/ vendor_delete(may, p) \/ manpower_supplier_delete(may, p) \/ subcontractor_delete(may, p)
  <2>1. Removed(p) /\ (Through \/ Answered(p))
    BY <1>9 DEF vendor_delete, manpower_supplier_delete, subcontractor_delete, DeleteVendor,
       DeleteManpower, DeleteSubcontractor
  <2> QED
    BY <2>1, RemovedKeeps
<1>10. CASE subcontractor_verify(may, p)
  BY <1>10, VerifyKeeps DEF subcontractor_verify
<1>11. CASE Open(may, p)
  <2>1. opened' \subseteq Provider /\ UNCHANGED sourcingVars
    BY <1>11 DEF Open, DirectoryIInv, DirectoryTypeOK
  <2> QED
    BY <2>1 DEF sourcingVars, DirectoryIInv, DirectoryTypeOK, SourcingTypeOK, ConfirmedIs, Owned, Owner, FilesApart,
       DirectorySound, ConfirmedAsIs, OffersAsShown, DocumentsStand, ArchivedQuiet
<1>12. CASE PassRetention(p) /\ Through
  BY <1>12, StatusKeeps
<1> QED
  BY <1>1, <1>2, <1>3, <1>4, <1>5, <1>6, <1>7, <1>8, <1>9, <1>10, <1>11, <1>12 DEF EntryNext

-----------------------------------------------------------------------------
(* Contacts *)

LEMMA WrittenTyped ==
  ASSUME DirectoryIInv, NEW p \in Provider, NEW c \in Contact, NEW primary \in BOOLEAN,
         NEW active \in BOOLEAN, NEW takesOver \in BOOLEAN, Written(p, c, primary, active, takesOver)
  PROVE  contact' \in [Contact -> Person \cup {None}]
<1>1. contact \in [Contact -> Person \cup {None}]
  BY DEF DirectoryIInv, DirectoryTypeOK, SourcingTypeOK, Person
<1>2. [owner |-> p, primary |-> primary, active |-> active] \in Person
  BY DEF Person
<1>3. \A d \in Contacts(p) : [contact[d] EXCEPT !.primary = FALSE] \in Person
  BY <1>1 DEF Contacts, Person
<1> QED
  BY <1>1, <1>2, <1>3 DEF Written

(* A new name in the summary costs a subcontractor its confirmation.       *)
LEMMA SyncedRewrites ==
  ASSUME DirectoryIInv, NEW p \in Provider, provider[p] # None, NEW c \in Contact,
         NEW primary \in BOOLEAN, NEW active \in BOOLEAN, Synced(p, c, primary, active)
  PROVE  \E row : Rewrites(p, row) /\ provider' = [provider EXCEPT ![p] = row]
<1> DEFINE row == [provider[p] EXCEPT !.named = c,
                                      !.verified = provider[p].verified /\ Role(p) # "subcontractor"]
<1>1. provider \in [Provider -> Entry \cup {None}] /\ provider[p] \in Entry
  BY EntryIs DEF DirectoryIInv, DirectoryTypeOK, SourcingTypeOK
<1>2. /\ row \in Entry /\ (row.verified <=> provider[p].verified /\ Role(p) # "subcontractor")
      /\ row.archived = provider[p].archived /\ row.active = provider[p].active
      /\ provider[p].archived => ~provider[p].active
  BY EntryIs DEF Entry
<1>3. CASE primary /\ active
  <2>1. provider' = [provider EXCEPT ![p] = row]
    BY <1>1, <1>3 DEF Synced
  <2> HIDE DEF row
  <2>2. Rewrites(p, row)
    BY <1>2 DEF Rewrites
  <2> QED
    BY <2>1, <2>2
<1>4. CASE ~(primary /\ active)
  <2>1. provider' = [provider EXCEPT ![p] = provider[p]]
    BY <1>1, <1>4 DEF Synced
  <2>2. Rewrites(p, provider[p])
    BY <1>1, <1>2 DEF Rewrites
  <2> QED
    BY <2>1, <2>2
<1> QED
  BY <1>3, <1>4

LEMMA UnnamedRewrites ==
  ASSUME DirectoryIInv, NEW p \in Provider, provider[p] # None, NEW primary \in BOOLEAN,
         Role(p) = "subcontractor", Unnamed(p, primary)
  PROVE  \E row : Rewrites(p, row) /\ provider' = [provider EXCEPT ![p] = row]
<1> DEFINE row == [provider[p] EXCEPT !.named = None, !.verified = FALSE]
<1>1. provider \in [Provider -> Entry \cup {None}] /\ provider[p] \in Entry
  BY EntryIs DEF DirectoryIInv, DirectoryTypeOK, SourcingTypeOK
<1>2. /\ row \in Entry /\ ~row.verified
      /\ row.archived = provider[p].archived /\ row.active = provider[p].active
      /\ provider[p].archived => ~provider[p].active
  BY EntryIs DEF Entry
<1>3. CASE primary
  <2>1. provider' = [provider EXCEPT ![p] = row]
    BY <1>1, <1>3 DEF Unnamed
  <2> HIDE DEF row
  <2>2. Rewrites(p, row)
    BY <1>2 DEF Rewrites
  <2> QED
    BY <2>1, <2>2
<1>4. CASE ~primary
  <2>1. provider' = [provider EXCEPT ![p] = provider[p]]
    BY <1>1, <1>4 DEF Unnamed
  <2>2. Rewrites(p, provider[p])
    BY <1>1, <1>2 DEF Rewrites
  <2> QED
    BY <2>1, <2>2
<1> QED
  BY <1>3, <1>4

LEMMA ContactKeeps ==
  ASSUME DirectoryIInv, NEW p \in Provider, provider[p] # None,
         contact' \in [Contact -> Person \cup {None}], opened' \subseteq Provider,
         \/ UNCHANGED provider
         \/ \E row : Rewrites(p, row) /\ provider' = [provider EXCEPT ![p] = row],
         UNCHANGED <<Catalog, confirmed, Filing>>
  PROVE  DirectoryIInv'
<1>1. CASE \E row : Rewrites(p, row) /\ provider' = [provider EXCEPT ![p] = row]
  <2>1. PICK row : Rewrites(p, row) /\ provider' = [provider EXCEPT ![p] = row]
    BY <1>1
  <2> QED
    BY <2>1, EntryRewritten
<1>2. CASE UNCHANGED provider
  <2>1. provider' = [provider EXCEPT ![p] = provider[p]]
    BY <1>2 DEF DirectoryIInv, DirectoryTypeOK, SourcingTypeOK
  <2>2. Rewrites(p, provider[p])
    BY EntryIs DEF Rewrites
  <2> QED
    BY <2>1, <2>2, EntryRewritten
<1> QED
  BY <1>1, <1>2

LEMMA NewContactKeeps ==
  ASSUME DirectoryIInv, NEW p \in Provider, NEW c \in Contact,
         NEW primary \in BOOLEAN, NEW active \in BOOLEAN, provider[p] # None, opened' \subseteq Provider,
         NewContact(p, c, primary, active) \/ Edit(p, c, primary, active)
  PROVE  DirectoryIInv'
<1>1. \/ Written(p, c, primary, active, primary /\ active)
      \/ Written(p, c, primary /\ active, active, primary /\ active)
  BY DEF NewContact, Edit
<1>2. (primary /\ active) \in BOOLEAN
  OBVIOUS
<1>3. contact' \in [Contact -> Person \cup {None}]
  BY <1>1, <1>2, WrittenTyped
<1>4. Synced(p, c, primary, active)
  BY DEF NewContact, Edit
<1>5. \E row : Rewrites(p, row) /\ provider' = [provider EXCEPT ![p] = row]
  BY <1>4, SyncedRewrites
<1>6. UNCHANGED <<Catalog, confirmed, Filing>>
  BY <1>4 DEF Synced
<1> QED
  BY <1>3, <1>5, <1>6, ContactKeeps

LEMMA LostContactKeeps ==
  ASSUME DirectoryIInv, NEW p \in Provider, NEW c \in Contact,
         provider[p] # None, opened' \subseteq Provider, Retired(p, c) \/ Dropped(p, c),
         \/ UNCHANGED provider
         \/ /\ Role(p) = "subcontractor"
            /\ Unnamed(p, contact[c].primary) \/ Unnamed(p, contact[c].primary /\ contact[c].active)
  PROVE  DirectoryIInv'
<1>1. c \in Contacts(p) /\ UNCHANGED <<Catalog, confirmed, Filing>>
  BY DEF Retired, Dropped
<1>2. contact[c].primary \in BOOLEAN /\ (contact[c].primary /\ contact[c].active) \in BOOLEAN
  BY <1>1 DEF Contacts, DirectoryIInv, DirectoryTypeOK, SourcingTypeOK
<1>3. contact' \in [Contact -> Person \cup {None}]
  <2>1. CASE Retired(p, c)
    <3>1. Written(p, c, FALSE, FALSE, FALSE)
      BY <2>1 DEF Retired
    <3> QED
      BY <3>1, WrittenTyped
  <2>2. CASE Dropped(p, c)
    BY <2>2 DEF Dropped, DirectoryIInv, DirectoryTypeOK, SourcingTypeOK, Person
  <2> QED
    BY <2>1, <2>2
<1>4. \/ UNCHANGED provider
      \/ \E row : Rewrites(p, row) /\ provider' = [provider EXCEPT ![p] = row]
  BY <1>2, UnnamedRewrites
<1> QED
  BY <1>1, <1>3, <1>4, ContactKeeps

LEMMA ContactNextKeeps ==
  ASSUME DirectoryIInv, NEW may \in Rights, NEW p \in Provider, NEW c \in Contact,
         ContactNext(may, p, c)
  PROVE  DirectoryIInv'
<1>1. ASSUME NEW primary \in BOOLEAN,
             \/ vendor_contact_create(p, c, primary) \/ manpower_contact_create(p, c, primary)
             \/ vendor_contact_edit(p, c, primary) \/ manpower_contact_edit(p, c, primary)
      PROVE  DirectoryIInv'
  <2>1. provider[p] # None /\ Answered(p)
    BY <1>1 DEF vendor_contact_create, manpower_contact_create, vendor_contact_edit,
       manpower_contact_edit, CreateVendorContact, CreateManpowerContact, UpdateVendorContact,
       UpdateManpowerContact, Present, Unheld
  <2>2. NewContact(p, c, primary, TRUE) \/ Edit(p, c, primary, TRUE)
    BY <1>1 DEF vendor_contact_create, manpower_contact_create, vendor_contact_edit,
       manpower_contact_edit, CreateVendorContact, CreateManpowerContact, UpdateVendorContact,
       UpdateManpowerContact
  <2>3. opened' \subseteq Provider
    BY <2>1, OpenedIs
  <2> QED
    BY <2>1, <2>2, <2>3, NewContactKeeps
<1>2. ASSUME NEW primary \in BOOLEAN, NEW active \in BOOLEAN,
             \/ subcontractor_contact_create(may, p, c, primary, active)
             \/ subcontractor_contact_edit(may, p, c, primary, active)
      PROVE  DirectoryIInv'
  <2>1. provider[p] # None /\ Through
    BY <1>2 DEF subcontractor_contact_create, subcontractor_contact_edit,
       CreateSubcontractorContact, UpdateSubcontractorContact, Is, Unheld
  <2>2. NewContact(p, c, primary, active) \/ Edit(p, c, primary, active)
    BY <1>2 DEF subcontractor_contact_create, subcontractor_contact_edit,
       CreateSubcontractorContact, UpdateSubcontractorContact
  <2>3. opened' \subseteq Provider
    BY <2>1, OpenedIs
  <2> QED
    BY <2>1, <2>2, <2>3, NewContactKeeps
<1>3. CASE \/ vendor_contact_deactivate(may, p, c) \/ manpower_contact_deactivate(may, p, c)
           \/ vendor_contact_delete(may, p, c) \/ manpower_contact_delete(may, p, c)
  <2>1. /\ provider[p] # None /\ Through /\ UNCHANGED provider
        /\ Retired(p, c) \/ Dropped(p, c)
    BY <1>3 DEF vendor_contact_deactivate, manpower_contact_deactivate, vendor_contact_delete,
       manpower_contact_delete, DeactivateVendorContact, DeactivateManpowerContact,
       DeleteVendorContact, DeleteManpowerContact, Is, Unheld
  <2>2. opened' \subseteq Provider
    BY <2>1, OpenedIs
  <2> QED
    BY <2>1, <2>2, LostContactKeeps
<1>4. CASE subcontractor_contact_deactivate(may, p, c) \/ subcontractor_contact_delete(may, p, c)
  <2>1. /\ provider[p] # None /\ Role(p) = "subcontractor" /\ Through
        /\ Retired(p, c) \/ Dropped(p, c)
        /\ Unnamed(p, contact[c].primary) \/ Unnamed(p, contact[c].primary /\ contact[c].active)
    BY <1>4 DEF subcontractor_contact_deactivate, subcontractor_contact_delete,
       DeactivateSubcontractorContact, DeleteSubcontractorContact, Is, Unheld
  <2>2. opened' \subseteq Provider
    BY <2>1, OpenedIs
  <2> QED
    BY <2>1, <2>2, LostContactKeeps
<1> QED
  BY <1>1, <1>2, <1>3, <1>4 DEF ContactNext

-----------------------------------------------------------------------------
(* Materials, trades and services *)

LEMMA MasteredKeeps ==
  ASSUME DirectoryIInv, NEW x \in Master, NEW value \in BOOLEAN \cup {None}, Mastered(x, value),
         Through, \A o \in Offer : offer'[o] \in {offer[o], None}, offer' \in [Offer -> Row \cup {None}]
  PROVE  DirectoryIInv'
<1>1. /\ master' = [master EXCEPT ![x] = value]
      /\ UNCHANGED <<provider, contact, picked, shown, confirmed, Filing, opened>>
  BY DEF Mastered, Through
<1>2. DirectoryTypeOK'
  BY <1>1 DEF DirectoryIInv, DirectoryTypeOK, SourcingTypeOK
<1>3. ConfirmedIs' /\ FilesApart' /\ DocumentsStand' /\ ConfirmedAsIs' /\ ArchivedQuiet'
  BY <1>1 DEF DirectoryIInv, ConfirmedIs, FilesApart, DirectorySound, DocumentsStand, ConfirmedAsIs,
     ArchivedQuiet
<1>4. \A o \in Offer : offer'[o] # None => offer'[o] = offer[o]
  OBVIOUS
<1>5. Owned' /\ OffersAsShown'
  BY <1>1, <1>4 DEF DirectoryIInv, DirectorySound, Owned, OffersAsShown, Owner
<1> QED
  BY <1>2, <1>3, <1>5 DEF DirectoryIInv, DirectorySound

LEMMA MasterNextKeeps ==
  ASSUME DirectoryIInv, NEW may \in Rights, NEW x \in Master, MasterNext(may, x)
  PROVE  DirectoryIInv'
<1>1. offer \in [Offer -> Row \cup {None}]
  BY DEF DirectoryIInv, DirectoryTypeOK, SourcingTypeOK
<1>2. ASSUME Through, UNCHANGED offer, NEW value \in BOOLEAN \cup {None}, Mastered(x, value)
      PROVE  DirectoryIInv'
  BY <1>1, <1>2, MasteredKeeps
<1>3. CASE \/ material_create(may, x) \/ trade_create(may, x) \/ service_create(may, x)
           \/ reference_lookup(may, x)
  <2>1. Through /\ UNCHANGED offer /\ Mastered(x, TRUE)
    BY <1>3 DEF material_create, trade_create, service_create, reference_lookup, CreateMaterial,
       CreateTrade, CreateService, NewMaster
  <2> QED
    BY <1>2, <2>1
<1>4. CASE material_delete(may, x) \/ trade_delete(may, x) \/ service_delete(may, x)
  <2>1. /\ Through /\ Mastered(x, None)
        /\ offer' = [o \in Offer |-> IF o \in Using(x) THEN None ELSE offer[o]]
    BY <1>4 DEF material_delete, trade_delete, service_delete, DeleteMaterial, DeleteTrade,
       DeleteService, Uprooted
  <2>2. \A o \in Offer : offer'[o] \in {offer[o], None}
    BY <2>1
  <2>3. offer' \in [Offer -> Row \cup {None}]
    BY <1>1, <2>1
  <2> QED
    BY <2>1, <2>2, <2>3, MasteredKeeps
<1>5. ASSUME NEW active \in BOOLEAN,
             \/ material_status(may, x, active) \/ trade_status(may, x, active)
             \/ service_status(may, x, active)
             \/ material_row(may, x, active) \/ trade_row(may, x, active) \/ service_row(may, x, active)
      PROVE  DirectoryIInv'
  <2>1. Through /\ UNCHANGED offer /\ Mastered(x, active)
    BY <1>5 DEF material_status, trade_status, service_status, SetMaterialActive, SetTradeActive,
       SetServiceActive, Switched, material_row, trade_row, service_row, MasterRow
  <2> QED
    BY <1>2, <2>1
<1>6. CASE Choose(may, x)
  <2>1. /\ picked' \subseteq Master
        /\ UNCHANGED <<provider, contact, master, offer, shown, confirmed, Filing, opened>>
    BY <1>6 DEF Choose, PickMaster, Through, DirectoryIInv, DirectoryTypeOK, SourcingTypeOK
  <2> QED
    BY <2>1 DEF DirectoryIInv, DirectoryTypeOK, SourcingTypeOK, ConfirmedIs, Owned, Owner, FilesApart,
       DirectorySound, ConfirmedAsIs, OffersAsShown, DocumentsStand, ArchivedQuiet
<1> QED
  BY <1>3, <1>4, <1>5, <1>6 DEF MasterNext

-----------------------------------------------------------------------------
(* Offers *)

(* The offers that are there, and what is shown of them.                   *)
LEMMA OfferIs ==
  ASSUME DirectoryIInv, NEW o \in Offer, offer[o] # None
  PROVE  /\ offer[o] \in Row /\ Owner(o) \in Provider /\ provider[Owner(o)] # None
         /\ offer[o].owner = Owner(o) /\ offer[o].verified \in BOOLEAN /\ offer[o].active \in BOOLEAN
         /\ offer[o].master \in Master /\ offer[o].content \in Content
         /\ Role(Owner(o)) # "subcontractor" => (offer[o].verified => provider[Owner(o)].verified)
         /\ Role(Owner(o)) = "subcontractor" => (offer[o].verified =>
              shown[o] # None /\ shown[o] = [offer[o] EXCEPT !.active = shown[o].active])
<1>1. offer[o] \in Row
  BY DEF DirectoryIInv, DirectoryTypeOK, SourcingTypeOK
<1>2. provider[Owner(o)] # None
  BY DEF DirectoryIInv, Owned
<1>3. /\ Role(Owner(o)) # "subcontractor" => (offer[o].verified => provider[Owner(o)].verified)
      /\ Role(Owner(o)) = "subcontractor" => (offer[o].verified =>
           shown[o] # None /\ shown[o] = [offer[o] EXCEPT !.active = shown[o].active])
  BY DEF DirectoryIInv, DirectorySound, OffersAsShown
<1> QED
  BY <1>1, <1>2, <1>3 DEF Row, Owner

LEMMA RevisedIs ==
  ASSUME NEW o \in Offer, offer[o] \in Row, NEW x \in Master, NEW content \in Content, NEW verify \in BOOLEAN
  PROVE  /\ Revised(o, x, content, verify) \in Row
         /\ Revised(o, x, content, verify).owner = offer[o].owner
         /\ Revised(o, x, content, verify).master = x
         /\ Revised(o, x, content, verify).content = content
         /\ Revised(o, x, content, verify).active = offer[o].active
         /\ Revised(o, x, content, verify).verified <=> offer[o].verified \/ verify
BY DEF Revised, Row

(* One offer is written, and shown as it is; a provider that was verified  *)
(* stays so.                                                               *)
LEMMA SuppliedKeeps ==
  ASSUME DirectoryIInv, NEW p \in Provider, provider[p] # None,
         Role(p) # "subcontractor", NEW o \in Offer, NEW row \in Row, row.owner = p,
         NEW verify \in BOOLEAN, row.verified => verify \/ provider[p].verified,
         Supplied(p, o, row, verify), picked' \subseteq Master, Through
  PROVE  DirectoryIInv'
<1> DEFINE entry == [provider[p] EXCEPT !.verified = provider[p].verified \/ verify]
<1>1. /\ offer' = [offer EXCEPT ![o] = row] /\ shown' = [shown EXCEPT ![o] = row]
      /\ UNCHANGED <<contact, master, confirmed, Filing, opened>>
  BY DEF Supplied, Through
<1>2. /\ provider \in [Provider -> Entry \cup {None}]
      /\ offer \in [Offer -> Row \cup {None}] /\ shown \in [Offer -> Row \cup {None}]
  BY DEF DirectoryIInv, DirectoryTypeOK, SourcingTypeOK
<1>3. provider' = [provider EXCEPT ![p] = entry]
  BY <1>2 DEF Supplied
<1>4. /\ entry \in Entry /\ (entry.verified <=> provider[p].verified \/ verify)
      /\ entry.archived = provider[p].archived /\ entry.active = provider[p].active
      /\ provider[p].archived => ~provider[p].active
  BY EntryIs DEF Entry
<1> HIDE DEF entry
<1>5. /\ provider'[p] = entry /\ entry # None /\ offer'[o] = row /\ shown'[o] = row /\ row # None
      /\ \A q \in Provider \ {p} : provider'[q] = provider[q]
      /\ \A k \in Offer \ {o} : offer'[k] = offer[k] /\ shown'[k] = shown[k]
  BY <1>1, <1>2, <1>3, <1>4, DirectoryAssumption
<1>6. DirectoryTypeOK'
  BY <1>1, <1>2, <1>3, <1>4 DEF DirectoryIInv, DirectoryTypeOK, SourcingTypeOK
<1>7. ConfirmedIs' /\ FilesApart' /\ DocumentsStand'
  BY <1>1 DEF DirectoryIInv, ConfirmedIs, FilesApart, DirectorySound, DocumentsStand
<1>8. ConfirmedAsIs' /\ ArchivedQuiet'
  BY <1>1, <1>4, <1>5 DEF DirectoryIInv, DirectorySound, ConfirmedAsIs, ArchivedQuiet
<1>9. ASSUME NEW k \in Offer \ {o}, offer[k] # None
      PROVE  /\ offer'[k].owner \in Provider /\ provider'[offer'[k].owner] # None
             /\ IF Role(offer'[k].owner) = "subcontractor"
                THEN offer'[k].verified => /\ shown'[k] # None
                                           /\ shown'[k] = [offer'[k] EXCEPT !.active = shown'[k].active]
                ELSE shown'[k] = offer'[k] /\ (offer'[k].verified => provider'[offer'[k].owner].verified)
  <2>1. offer'[k] = offer[k] /\ shown'[k] = shown[k] /\ offer[k].owner = Owner(k)
    BY <1>5, <1>9, OfferIs
  <2>2. Role(Owner(k)) # "subcontractor" => shown[k] = offer[k]
    BY <1>9 DEF DirectoryIInv, DirectorySound, OffersAsShown
  <2>3. CASE Owner(k) = p
    BY <1>4, <1>5, <1>9, <2>1, <2>2, <2>3, OfferIs
  <2>4. CASE Owner(k) # p
    BY <1>5, <1>9, <2>1, <2>2, <2>4, OfferIs
  <2> QED
    BY <2>3, <2>4
<1>10. Owned'
  BY <1>5, <1>9 DEF Owned, Owner
<1>11. OffersAsShown'
  <2>1. row.verified => provider'[p].verified
    BY <1>4, <1>5
  <2> QED
    BY <1>5, <1>9, <2>1 DEF OffersAsShown, Owner
<1> QED
  BY <1>6, <1>7, <1>8, <1>10, <1>11 DEF DirectoryIInv, DirectorySound

(* One service offer is written, shown as it is or not as verified.        *)
LEMMA ServicedKeeps ==
  ASSUME DirectoryIInv, NEW o \in Offer, NEW row \in Row,
         provider[row.owner] # None, Role(row.owner) = "subcontractor",
         NEW told \in Row \cup {None},
         row.verified => told # None /\ told = [row EXCEPT !.active = told.active],
         offer' = [offer EXCEPT ![o] = row], shown' = [shown EXCEPT ![o] = told],
         picked' \subseteq Master, UNCHANGED <<provider, contact, master, confirmed, Filing>>, Through
  PROVE  DirectoryIInv'
<1>1. /\ offer \in [Offer -> Row \cup {None}] /\ shown \in [Offer -> Row \cup {None}]
      /\ UNCHANGED opened /\ row.owner \in Provider
  BY DEF DirectoryIInv, DirectoryTypeOK, SourcingTypeOK, Through, Row
<1>2. /\ offer'[o] = row /\ shown'[o] = told
      /\ \A k \in Offer \ {o} : offer'[k] = offer[k] /\ shown'[k] = shown[k]
  BY <1>1
<1>3. DirectoryTypeOK'
  BY <1>1 DEF DirectoryIInv, DirectoryTypeOK, SourcingTypeOK
<1>4. ConfirmedIs' /\ FilesApart' /\ DocumentsStand' /\ ConfirmedAsIs' /\ ArchivedQuiet'
  BY DEF DirectoryIInv, ConfirmedIs, FilesApart, DirectorySound, DocumentsStand, ConfirmedAsIs,
     ArchivedQuiet
<1>5. Owned'
  BY <1>2 DEF DirectoryIInv, Owned, Owner
<1>6. OffersAsShown'
  BY <1>2 DEF DirectoryIInv, DirectorySound, OffersAsShown, Owner
<1> QED
  BY <1>3, <1>4, <1>5, <1>6 DEF DirectoryIInv, DirectorySound

LEMMA DelistedKeeps ==
  ASSUME DirectoryIInv, NEW o \in Offer, Delisted(o), Through
  PROVE  DirectoryIInv'
<1>1. /\ offer' = [offer EXCEPT ![o] = None]
      /\ UNCHANGED <<provider, contact, master, picked, shown, confirmed, Filing, opened>>
  BY DEF Delisted, Through
<1>2. \A k \in Offer : offer'[k] # None => offer'[k] = offer[k]
  BY <1>1 DEF DirectoryIInv, DirectoryTypeOK, SourcingTypeOK
<1>3. DirectoryTypeOK'
  BY <1>1 DEF DirectoryIInv, DirectoryTypeOK, SourcingTypeOK
<1>4. ConfirmedIs' /\ FilesApart' /\ DocumentsStand' /\ ConfirmedAsIs' /\ ArchivedQuiet'
  BY <1>1 DEF DirectoryIInv, ConfirmedIs, FilesApart, DirectorySound, DocumentsStand, ConfirmedAsIs,
     ArchivedQuiet
<1>5. Owned' /\ OffersAsShown'
  BY <1>1, <1>2 DEF DirectoryIInv, DirectorySound, Owned, OffersAsShown, Owner
<1> QED
  BY <1>3, <1>4, <1>5 DEF DirectoryIInv, DirectorySound

(* Offers of vendors and of manpower suppliers.                            *)
LEMMA SuppliesKeep ==
  ASSUME DirectoryIInv, NEW o \in Offer, NEW x \in Master, NEW content \in Content,
         NEW verify \in BOOLEAN, NEW active \in BOOLEAN, NEW kind \in {"vendor", "manpower"}, Through,
         picked' \subseteq Master,
         \/ /\ \/ \E p \in Provider : /\ Is(p, kind) /\ offer[o] = None
                                      /\ Supplied(p, o, NewRow(p, x, content, verify), verify)
               \/ /\ Usable(o, kind)
                  /\ \/ Supplied(Owner(o), o, Revised(o, x, content, verify), verify)
                     \/ Supplied(Owner(o), o, [offer[o] EXCEPT !.active = active], FALSE)
         \/ \E p \in Provider : /\ Listed(p, o, x, kind)
                                /\ Supplied(p, o, [RowOf(p, o, x, content, verify) EXCEPT !.active = active], verify)
  PROVE  DirectoryIInv'
<1>1. ASSUME NEW p \in Provider, Is(p, kind), offer[o] = None,
             Supplied(p, o, NewRow(p, x, content, verify), verify)
      PROVE  DirectoryIInv'
  <2>1. provider[p] # None /\ Role(p) # "subcontractor"
    BY <1>1 DEF Is, Unheld
  <2> DEFINE row == NewRow(p, x, content, verify)
  <2>2. row \in Row /\ row.owner = p /\ row.verified = verify
    BY RowIs
  <2> HIDE DEF row
  <2>3. Supplied(p, o, row, verify)
    BY <1>1 DEF row
  <2> QED
    BY <2>1, <2>2, <2>3, SuppliedKeeps
<1>2. ASSUME Usable(o, kind)
      PROVE  /\ Owner(o) \in Provider /\ provider[Owner(o)] # None /\ Role(Owner(o)) # "subcontractor"
             /\ offer[o] \in Row /\ offer[o].owner = Owner(o) /\ offer[o].active \in BOOLEAN
             /\ offer[o].verified => provider[Owner(o)].verified
  BY <1>2, OfferIs DEF Usable
<1>3. ASSUME Usable(o, kind), Supplied(Owner(o), o, Revised(o, x, content, verify), verify)
      PROVE  DirectoryIInv'
  <2> DEFINE row == Revised(o, x, content, verify)
  <2>1. row \in Row /\ row.owner = Owner(o) /\ (row.verified <=> offer[o].verified \/ verify)
    BY <1>2, <1>3, RevisedIs
  <2> HIDE DEF row
  <2>2. Supplied(Owner(o), o, row, verify)
    BY <1>3 DEF row
  <2> QED
    BY <1>2, <1>3, <2>1, <2>2, SuppliedKeeps
<1>4. ASSUME Usable(o, kind), Supplied(Owner(o), o, [offer[o] EXCEPT !.active = active], FALSE)
      PROVE  DirectoryIInv'
  <2> DEFINE row == [offer[o] EXCEPT !.active = active]
  <2>1. row \in Row /\ row.owner = Owner(o) /\ (row.verified <=> offer[o].verified)
    BY <1>2, <1>4 DEF Row
  <2> HIDE DEF row
  <2>2. Supplied(Owner(o), o, row, FALSE)
    BY <1>4 DEF row
  <2> QED
    BY <1>2, <1>4, <2>1, <2>2, SuppliedKeeps
<1>5. ASSUME NEW p \in Provider, Listed(p, o, x, kind),
             Supplied(p, o, [RowOf(p, o, x, content, verify) EXCEPT !.active = active], verify)
      PROVE  DirectoryIInv'
  <2> DEFINE from == RowOf(p, o, x, content, verify)
             row  == [from EXCEPT !.active = active]
  <2>1. provider[p] # None /\ Role(p) # "subcontractor" /\ (offer[o] = None \/ Found(p, o, x))
    BY <1>5 DEF Listed, Is, Unheld
  <2>2. from \in Row /\ from.owner = p /\ (from.verified => verify \/ provider[p].verified)
    <3>1. CASE offer[o] = None
      BY <3>1, RowIs DEF RowOf
    <3>2. CASE offer[o] # None
      <4>1. /\ offer[o] \in Row /\ offer[o].owner = p /\ Owner(o) = p
            /\ offer[o].verified => provider[p].verified
        BY <2>1, <3>2, OfferIs DEF Found
      <4> QED
        BY <3>2, <4>1, RevisedIs DEF RowOf
    <3> QED
      BY <3>1, <3>2
  <2> HIDE DEF from
  <2>3. row \in Row /\ row.owner = p /\ (row.verified <=> from.verified)
    BY <2>2 DEF Row
  <2> HIDE DEF row
  <2>4. Supplied(p, o, row, verify)
    BY <1>5 DEF row, from
  <2> QED
    BY <2>1, <2>2, <2>3, <2>4, SuppliedKeeps
<1> QED
  BY <1>1, <1>3, <1>4, <1>5

(* Offers of subcontractors.                                               *)
LEMMA ServiceRowKeeps ==
  ASSUME DirectoryIInv, NEW o \in Offer, NEW row \in Row,
         provider[row.owner] # None, Role(row.owner) = "subcontractor", NEW verify \in BOOLEAN,
         row.verified => verify \/ (shown[o] # None /\ shown[o] = [row EXCEPT !.active = shown[o].active]),
         Serviced(o, row, verify), picked' \subseteq Master, Through
  PROVE  DirectoryIInv'
<1>1. /\ offer' = [offer EXCEPT ![o] = row]
      /\ shown' = IF verify THEN [shown EXCEPT ![o] = row] ELSE shown
      /\ UNCHANGED <<provider, contact, master, confirmed, Filing>>
  BY DEF Serviced
<1>2. shown \in [Offer -> Row \cup {None}]
  BY DEF DirectoryIInv, DirectoryTypeOK, SourcingTypeOK
<1>3. row # None /\ row = [row EXCEPT !.active = row.active]
  BY ShowsItself, DirectoryAssumption
<1>4. CASE verify
  BY <1>1, <1>3, <1>4, ServicedKeeps
<1>5. CASE ~verify
  <2>1. shown' = [shown EXCEPT ![o] = shown[o]] /\ shown[o] \in Row \cup {None}
    BY <1>1, <1>2, <1>5
  <2> QED
    BY <1>1, <1>5, <2>1, ServicedKeeps
<1> QED
  BY <1>4, <1>5

LEMMA ServicesKeep ==
  ASSUME DirectoryIInv, NEW may \in Rights, NEW o \in Offer, NEW x \in Master,
         NEW content \in Content, NEW verify \in BOOLEAN, NEW active \in BOOLEAN, NEW p \in Provider,
         \/ subcontractor_service_create(may, p, o, x, content, verify)
         \/ subcontractor_service_edit(may, o, x, content, verify)
         \/ subcontractor_service_status(may, o, active)
         \/ subcontractor_service_verify(may, o, content)
  PROVE  DirectoryIInv'
<1>1. Through /\ picked' \subseteq Master
  BY DEF subcontractor_service_create, subcontractor_service_edit, subcontractor_service_status,
     subcontractor_service_verify, CreateServiceOffer, UpdateServiceOffer, SetServiceOfferActive,
     VerifyServiceOffer, DirectoryIInv, DirectoryTypeOK, SourcingTypeOK
<1>2. ASSUME Usable(o, "subcontractor")
      PROVE  /\ provider[offer[o].owner] # None /\ Role(offer[o].owner) = "subcontractor"
             /\ offer[o] \in Row /\ offer[o].master \in Master
             /\ offer[o].verified \in BOOLEAN /\ offer[o].active \in BOOLEAN
             /\ offer[o].verified => shown[o] # None /\ shown[o] = [offer[o] EXCEPT !.active = shown[o].active]
  BY <1>2, OfferIs DEF Usable, Owner
<1>3. CASE subcontractor_service_create(may, p, o, x, content, verify)
  <2> DEFINE row == NewRow(p, x, content, verify)
  <2>1. Is(p, "subcontractor") /\ Serviced(o, row, verify)
    BY <1>3 DEF subcontractor_service_create, CreateServiceOffer
  <2>2. row \in Row /\ row.owner = p /\ row.verified = verify
    BY RowIs
  <2>3. provider[p] # None /\ Role(p) = "subcontractor"
    BY <2>1 DEF Is, Unheld
  <2> HIDE DEF row
  <2> QED
    BY <1>1, <2>1, <2>2, <2>3, ServiceRowKeeps
<1>4. CASE subcontractor_service_edit(may, o, x, content, verify)
  <2> DEFINE from == Revised(o, x, content, verify)
             same == x = offer[o].master /\ content = offer[o].content
             row  == [from EXCEPT !.verified = verify \/ (from.verified /\ same)]
  <2>1. Usable(o, "subcontractor") /\ Serviced(o, row, verify)
    BY <1>4 DEF subcontractor_service_edit, UpdateServiceOffer
  <2>2. /\ from \in Row /\ from.owner = offer[o].owner /\ from.master = x /\ from.content = content
        /\ from.active = offer[o].active /\ (from.verified <=> offer[o].verified \/ verify)
    BY <1>2, <2>1, RevisedIs
  <2> HIDE DEF from
  <2>3. /\ row \in Row /\ row.owner = offer[o].owner /\ row.master = x /\ row.content = content
        /\ row.active = offer[o].active /\ (row.verified <=> verify \/ (offer[o].verified /\ same))
    BY <2>2 DEF Row
  <2> HIDE DEF row
  <2>4. ASSUME row.verified, ~verify
        PROVE  shown[o] # None /\ shown[o] = [row EXCEPT !.active = shown[o].active]
    <3>1. offer[o].verified /\ same
      BY <2>3, <2>4
    <3>2. row = offer[o]
      BY <1>2, <2>1, <2>3, <2>4, <3>1 DEF Row
    <3> QED
      BY <1>2, <2>1, <3>1, <3>2
  <2> QED
    BY <1>1, <1>2, <2>1, <2>3, <2>4, ServiceRowKeeps
<1>5. CASE subcontractor_service_status(may, o, active)
  <2> DEFINE row == [offer[o] EXCEPT !.active = active]
  <2>1. Usable(o, "subcontractor") /\ Serviced(o, row, FALSE)
    BY <1>5 DEF subcontractor_service_status, SetServiceOfferActive
  <2>2. row \in Row /\ row.owner = offer[o].owner /\ (row.verified <=> offer[o].verified)
    BY <1>2, <2>1 DEF Row
  <2>3. row.verified => shown[o] # None /\ shown[o] = [row EXCEPT !.active = shown[o].active]
    <3>1. [row EXCEPT !.active = shown[o].active] = [offer[o] EXCEPT !.active = shown[o].active]
      BY <1>2, <2>1 DEF Row
    <3> HIDE DEF row
    <3> QED
      BY <1>2, <2>1, <2>2, <3>1
  <2> HIDE DEF row
  <2> QED
    BY <1>1, <1>2, <2>1, <2>2, <2>3, ServiceRowKeeps
<1>6. CASE subcontractor_service_verify(may, o, content)
  <2> DEFINE row == Revised(o, offer[o].master, content, TRUE)
  <2>1. Usable(o, "subcontractor") /\ Serviced(o, row, TRUE)
    BY <1>6 DEF subcontractor_service_verify, VerifyServiceOffer
  <2>2. row \in Row /\ row.owner = offer[o].owner
    BY <1>2, <2>1 DEF Revised, Row
  <2> HIDE DEF row
  <2> QED
    BY <1>1, <1>2, <2>1, <2>2, ServiceRowKeeps
<1> QED
  BY <1>3, <1>4, <1>5, <1>6

(* Its row of a workbook: the evidence is of the row before its status.    *)
LEMMA ServiceListedKeeps ==
  ASSUME DirectoryIInv, NEW may \in Rights, NEW o \in Offer, NEW x \in Master,
         NEW content \in Content, NEW verify \in BOOLEAN, NEW active \in BOOLEAN, NEW p \in Provider,
         service_catalog_row(may, p, o, x, content, verify, active)
  PROVE  DirectoryIInv'
<1> DEFINE from == RowOf(p, o, x, content, verify)
           kept == offer[o] # None /\ offer[o].content = content /\ offer[o].verified
           new  == [from EXCEPT !.verified = verify \/ kept]
           row  == [new EXCEPT !.active = active]
           told == IF verify THEN new ELSE shown[o]
<1>1. /\ Listed(p, o, x, "subcontractor") /\ Through
      /\ offer' = [offer EXCEPT ![o] = row]
      /\ shown' = IF verify THEN [shown EXCEPT ![o] = new] ELSE shown
      /\ UNCHANGED <<provider, contact, master, picked, confirmed, Filing>>
  BY DEF service_catalog_row
<1>2. /\ provider[p] # None /\ Role(p) = "subcontractor" /\ (offer[o] = None \/ Found(p, o, x))
      /\ shown \in [Offer -> Row \cup {None}] /\ picked \subseteq Master
  BY <1>1 DEF Listed, Is, Unheld, DirectoryIInv, DirectoryTypeOK, SourcingTypeOK
<1>3. ASSUME offer[o] # None
      PROVE  /\ offer[o] \in Row /\ offer[o].owner = p /\ offer[o].master = x /\ Owner(o) = p
             /\ offer[o].verified => shown[o] # None /\ shown[o] = [offer[o] EXCEPT !.active = shown[o].active]
  BY <1>2, <1>3, OfferIs DEF Found
<1>4. from \in Row /\ from.owner = p
  <2>1. CASE offer[o] = None
    BY <2>1, RowIs DEF RowOf
  <2>2. CASE offer[o] # None
    BY <1>3, <2>2, RevisedIs DEF RowOf
  <2> QED
    BY <2>1, <2>2
<1>5. ASSUME kept
      PROVE  from.master = x /\ from.content = offer[o].content /\ from.active = offer[o].active
  BY <1>3, <1>5, RevisedIs DEF RowOf
<1> HIDE DEF from
<1>6. /\ new \in Row /\ new.owner = p /\ (new.verified <=> verify \/ kept)
      /\ new.master = from.master /\ new.content = from.content /\ new.active = from.active
  BY <1>4 DEF Row
<1>7. kept => new = offer[o]
  BY <1>3, <1>5, <1>6 DEF Row
<1> HIDE DEF new
<1>8. /\ row \in Row /\ row.owner = p /\ (row.verified <=> new.verified)
      /\ [row EXCEPT !.active = new.active] = new
  BY <1>6 DEF Row
<1>9. ASSUME NEW status \in BOOLEAN
      PROVE  [row EXCEPT !.active = status] = [new EXCEPT !.active = status]
  BY <1>6 DEF Row
<1>10. row.verified => told # None /\ told = [row EXCEPT !.active = told.active]
  <2>1. CASE verify
    BY <1>6, <1>8, <2>1, DirectoryAssumption
  <2>2. CASE ~verify /\ row.verified
    <3>1. kept /\ new = offer[o]
      BY <1>6, <1>7, <1>8, <2>2
    <3>2. shown[o] # None /\ shown[o] = [new EXCEPT !.active = shown[o].active]
      BY <1>3, <3>1
    <3>3. shown[o].active \in BOOLEAN
      BY <1>2, <3>2 DEF Row
    <3> QED
      BY <1>9, <2>2, <3>2, <3>3
  <2> QED
    BY <2>1, <2>2
<1>11. shown' = [shown EXCEPT ![o] = told] /\ told \in Row \cup {None}
  BY <1>1, <1>2, <1>6
<1> HIDE DEF row, told
<1> QED
  BY <1>1, <1>2, <1>8, <1>10, <1>11, ServicedKeeps

LEMMA OfferNextKeeps ==
  ASSUME DirectoryIInv, NEW may \in Rights, NEW o \in Offer, OfferNext(may, o)
  PROVE  DirectoryIInv'
<1>1. ASSUME NEW x \in Master, NEW content \in Content, NEW verify \in BOOLEAN, NEW p \in Provider,
             NEW active \in BOOLEAN,
             \/ vendor_offer_create(may, p, o, x, content, verify)
             \/ vendor_catalog_row(may, p, o, x, content, verify, active)
             \/ vendor_offer_edit(may, o, x, content, verify)
             \/ vendor_offer_status(may, o, active)
      PROVE  DirectoryIInv'
  <2>1. Through /\ picked' \subseteq Master
    BY <1>1 DEF vendor_offer_create, vendor_catalog_row, vendor_offer_edit, vendor_offer_status,
       CreateVendorOffer, UpdateVendorOffer, SetVendorOfferActive, DirectoryIInv, DirectoryTypeOK, SourcingTypeOK
  <2>2. \/ /\ Is(p, "vendor") /\ offer[o] = None
           /\ Supplied(p, o, NewRow(p, x, content, verify), verify)
        \/ /\ Usable(o, "vendor")
           /\ \/ Supplied(Owner(o), o, Revised(o, x, content, verify), verify)
              \/ Supplied(Owner(o), o, [offer[o] EXCEPT !.active = active], FALSE)
        \/ /\ Listed(p, o, x, "vendor")
           /\ Supplied(p, o, [RowOf(p, o, x, content, verify) EXCEPT !.active = active], verify)
    BY <1>1 DEF vendor_offer_create, vendor_catalog_row, vendor_offer_edit, vendor_offer_status,
       CreateVendorOffer, UpdateVendorOffer, SetVendorOfferActive
  <2> QED
    BY <2>1, <2>2, SuppliesKeep
<1>2. ASSUME NEW x \in Master, NEW content \in Content, NEW verify \in BOOLEAN, NEW p \in Provider,
             NEW active \in BOOLEAN,
             \/ workforce_offer_create(may, p, o, x, content, verify)
             \/ workforce_catalog_row(may, p, o, x, content, verify, active)
             \/ workforce_offer_edit(may, o, x, content, verify)
             \/ workforce_offer_status(may, o, active)
      PROVE  DirectoryIInv'
  <2>1. Through /\ picked' \subseteq Master
    BY <1>2 DEF workforce_offer_create, workforce_catalog_row, workforce_offer_edit,
       workforce_offer_status, CreateWorkforceOffer, UpdateWorkforceOffer, SetWorkforceOfferActive,
       DirectoryIInv, DirectoryTypeOK, SourcingTypeOK
  <2>2. \/ /\ Is(p, "manpower") /\ offer[o] = None
           /\ Supplied(p, o, NewRow(p, x, content, verify), verify)
        \/ /\ Usable(o, "manpower")
           /\ \/ Supplied(Owner(o), o, Revised(o, x, content, verify), verify)
              \/ Supplied(Owner(o), o, [offer[o] EXCEPT !.active = active], FALSE)
        \/ /\ Listed(p, o, x, "manpower")
           /\ Supplied(p, o, [RowOf(p, o, x, content, verify) EXCEPT !.active = active], verify)
    BY <1>2 DEF workforce_offer_create, workforce_catalog_row, workforce_offer_edit,
       workforce_offer_status, CreateWorkforceOffer, UpdateWorkforceOffer, SetWorkforceOfferActive
  <2> QED
    BY <2>1, <2>2, SuppliesKeep
<1>3. ASSUME NEW content \in Content, vendor_offer_verify(may, o, content) \/ workforce_offer_verify(may, o, content)
      PROVE  DirectoryIInv'
  <2>1. /\ Through /\ picked' \subseteq Master
        /\ \E kind \in {"vendor", "manpower"} : Usable(o, kind)
        /\ Supplied(Owner(o), o, Revised(o, offer[o].master, content, TRUE), TRUE)
    BY <1>3 DEF vendor_offer_verify, workforce_offer_verify, VerifyVendorOffer, VerifyWorkforceOffer,
       DirectoryIInv, DirectoryTypeOK, SourcingTypeOK
  <2>2. PICK kind \in {"vendor", "manpower"} : Usable(o, kind)
    BY <2>1
  <2>3. offer[o].master \in Master
    BY <2>2, OfferIs DEF Usable
  <2>4. TRUE \in BOOLEAN
    OBVIOUS
  <2> QED
    BY <2>1, <2>2, <2>3, <2>4, SuppliesKeep
<1>4. ASSUME NEW x \in Master, NEW content \in Content, NEW verify \in BOOLEAN, NEW p \in Provider,
             NEW active \in BOOLEAN,
             \/ subcontractor_service_create(may, p, o, x, content, verify)
             \/ service_catalog_row(may, p, o, x, content, verify, active)
             \/ subcontractor_service_edit(may, o, x, content, verify)
      PROVE  DirectoryIInv'
  BY <1>4, ServicesKeep, ServiceListedKeeps
<1>5. CASE \/ vendor_offer_delete(may, o) \/ workforce_offer_delete(may, o)
           \/ subcontractor_service_delete(may, o)
  <2>1. Delisted(o) /\ Through
    BY <1>5 DEF vendor_offer_delete, workforce_offer_delete, subcontractor_service_delete,
       DeleteVendorOffer, DeleteWorkforceOffer, DeleteServiceOffer
  <2> QED
    BY <2>1, DelistedKeeps
<1>6. ASSUME NEW active \in BOOLEAN,
             \/ vendor_offer_status(may, o, active) \/ workforce_offer_status(may, o, active)
             \/ subcontractor_service_status(may, o, active)
      PROVE  DirectoryIInv'
  <2>1. offer[o] # None
    BY <1>6 DEF vendor_offer_status, workforce_offer_status, subcontractor_service_status,
       SetVendorOfferActive, SetWorkforceOfferActive, SetServiceOfferActive, Usable
  <2>2. PICK x \in Master, content \in Content, p \in Provider : TRUE
    BY <2>1, OfferIs
  <2>3. TRUE \in BOOLEAN
    OBVIOUS
  <2> QED
    BY <1>1, <1>2, <1>6, <2>2, <2>3, ServicesKeep
<1>7. ASSUME NEW content \in Content, subcontractor_service_verify(may, o, content)
      PROVE  DirectoryIInv'
  <2>1. offer[o] # None
    BY <1>7 DEF subcontractor_service_verify, VerifyServiceOffer, Usable
  <2>2. PICK x \in Master, p \in Provider : TRUE
    BY <2>1, OfferIs
  <2>3. TRUE \in BOOLEAN
    OBVIOUS
  <2> QED
    BY <1>7, <2>2, <2>3, ServicesKeep
<1>8. ASSUME NEW x \in Master, NEW content \in Content, NEW verify \in BOOLEAN,
             \/ vendor_offer_edit(may, o, x, content, verify)
             \/ workforce_offer_edit(may, o, x, content, verify)
             \/ subcontractor_service_edit(may, o, x, content, verify)
      PROVE  DirectoryIInv'
  <2>1. offer[o] # None
    BY <1>8 DEF vendor_offer_edit, workforce_offer_edit, subcontractor_service_edit,
       UpdateVendorOffer, UpdateWorkforceOffer, UpdateServiceOffer, Usable
  <2>2. PICK p \in Provider : TRUE
    BY <2>1, OfferIs
  <2>3. TRUE \in BOOLEAN
    OBVIOUS
  <2> QED
    BY <1>1, <1>2, <1>4, <1>8, <2>2, <2>3
<1>9. ASSUME NEW x \in Master, NEW content \in Content, NEW verify \in BOOLEAN, NEW p \in Provider,
             \/ vendor_offer_create(may, p, o, x, content, verify)
             \/ workforce_offer_create(may, p, o, x, content, verify)
             \/ subcontractor_service_create(may, p, o, x, content, verify)
             \/ \E active \in BOOLEAN :
                  \/ vendor_catalog_row(may, p, o, x, content, verify, active)
                  \/ workforce_catalog_row(may, p, o, x, content, verify, active)
                  \/ service_catalog_row(may, p, o, x, content, verify, active)
      PROVE  DirectoryIInv'
  <2>1. TRUE \in BOOLEAN
    OBVIOUS
  <2> QED
    BY <1>1, <1>2, <1>4, <1>9, <2>1
<1> QED
  BY <1>3, <1>5, <1>6, <1>7, <1>8, <1>9 DEF OfferNext

-----------------------------------------------------------------------------
(* Qualification documents *)

(* Only files and their rows change.                                       *)
LEMMA FilingKeeps ==
  ASSUME DirectoryIInv, Filed, Through,
         qualification' \in [File -> Paper \cup {None}], stored' \subseteq File, removing' \subseteq File,
         uploading' \in [File -> Provider \cup {None}], FilesApart', DocumentsStand'
  PROVE  DirectoryIInv'
<1>1. UNCHANGED <<provider, contact, master, picked, offer, shown, confirmed, opened>>
  BY DEF Filed, Through
<1>2. DirectoryTypeOK'
  BY <1>1 DEF DirectoryIInv, DirectoryTypeOK, SourcingTypeOK, Paper
<1> QED
  BY <1>1, <1>2 DEF DirectoryIInv, ConfirmedIs, Owned, Owner, DirectorySound, ConfirmedAsIs,
     OffersAsShown, ArchivedQuiet

(* A row that is written is of what the document says, or pending.         *)
LEMMA PaperKeeps ==
  ASSUME DirectoryIInv, NEW f \in File, Filed, Through, UNCHANGED <<stored, removing>>,
         uploading' = uploading \/ uploading' = [uploading EXCEPT ![f] = None],
         NEW row \in Paper, qualification' = [qualification EXCEPT ![f] = row],
         row.review # "PENDING" => row.judged = row.content,
         f \in stored, f \notin removing, uploading'[f] = None
  PROVE  DirectoryIInv'
<1>1. /\ qualification \in [File -> Paper \cup {None}] /\ uploading \in [File -> Provider \cup {None}]
      /\ stored \subseteq File /\ removing \subseteq File
  BY DEF DirectoryIInv, DirectoryTypeOK, SourcingTypeOK, Paper
<1>2. /\ qualification' \in [File -> Paper \cup {None}] /\ uploading' \in [File -> Provider \cup {None}]
      /\ qualification'[f] = row
      /\ \A g \in File \ {f} : qualification'[g] = qualification[g] /\ uploading'[g] = uploading[g]
  BY <1>1
<1>3. FilesApart'
  BY <1>2 DEF DirectoryIInv, FilesApart
<1>4. DocumentsStand'
  BY <1>2 DEF DirectoryIInv, DirectorySound, DocumentsStand
<1> QED
  BY <1>1, <1>2, <1>3, <1>4, FilingKeeps

LEMMA FileNextKeeps ==
  ASSUME DirectoryIInv, NEW may \in Rights, NEW f \in File, FileNext(may, f)
  PROVE  DirectoryIInv'
<1>1. /\ qualification \in [File -> Paper \cup {None}] /\ uploading \in [File -> Provider \cup {None}]
      /\ stored \subseteq File /\ removing \subseteq File /\ FilesApart /\ DocumentsStand
  BY DEF DirectoryIInv, DirectorySound, DirectoryTypeOK, SourcingTypeOK, Paper
<1>2. ASSUME qualification[f] # None
      PROVE  /\ qualification[f] \in Paper /\ f \in stored /\ f \notin removing /\ uploading[f] = None
             /\ qualification[f].review # "PENDING" => qualification[f].judged = qualification[f].content
  BY <1>1, <1>2 DEF FilesApart, DocumentsStand
<1>3. ASSUME NEW p \in Provider, subcontractor_document_create(may, p, f)
      PROVE  DirectoryIInv'
  <2>1. /\ f \notin stored /\ qualification[f] = None /\ Filed /\ Through
        /\ stored' = stored \cup {f} /\ uploading' = [uploading EXCEPT ![f] = p]
        /\ UNCHANGED <<qualification, removing>>
    BY <1>3 DEF subcontractor_document_create, StoreFile
  <2>2. \A g \in File \ {f} : uploading'[g] = uploading[g]
    BY <1>1, <2>1
  <2>3. f \notin removing
    BY <1>1, <2>1 DEF FilesApart
  <2>4. FilesApart' /\ DocumentsStand'
    BY <1>1, <2>1, <2>2, <2>3 DEF FilesApart, DocumentsStand
  <2>5. uploading' \in [File -> Provider \cup {None}] /\ stored' \subseteq File
    BY <1>1, <2>1
  <2> QED
    BY <1>1, <2>1, <2>4, <2>5, FilingKeeps
<1>4. ASSUME NEW content \in Content, subcontractor_document_edit(may, f, content)
      PROVE  DirectoryIInv'
  <2> DEFINE row == IF content = qualification[f].content THEN qualification[f]
                    ELSE [qualification[f] EXCEPT !.content = content, !.review = "PENDING"]
  <2>1. /\ qualification[f] # None /\ Filed /\ Through
        /\ qualification' = [qualification EXCEPT ![f] = row]
        /\ UNCHANGED <<stored, uploading, removing>>
    BY <1>4 DEF subcontractor_document_edit, UpdateDocument
  <2>2. row \in Paper /\ (row.review # "PENDING" => row.judged = row.content)
    BY <1>2, <2>1 DEF Paper, ReviewStatus
  <2> HIDE DEF row
  <2> QED
    BY <1>2, <2>1, <2>2, PaperKeeps
<1>5. ASSUME NEW verdict \in {"APPROVED", "REJECTED"}, subcontractor_document_review(may, f, verdict)
      PROVE  DirectoryIInv'
  <2> DEFINE row == [qualification[f] EXCEPT !.review = verdict, !.judged = qualification[f].content]
  <2>1. /\ qualification[f] # None /\ Filed /\ Through
        /\ qualification' = [qualification EXCEPT ![f].review = verdict,
                                                  ![f].judged = qualification[f].content]
        /\ UNCHANGED <<stored, uploading, removing>>
    BY <1>5 DEF subcontractor_document_review, ReviewDocument
  <2>2. qualification' = [qualification EXCEPT ![f] = row]
    BY <1>1, <2>1
  <2>3. row \in Paper /\ (row.review # "PENDING" => row.judged = row.content)
    BY <1>2, <2>1 DEF Paper, ReviewStatus
  <2> HIDE DEF row
  <2> QED
    BY <1>2, <2>1, <2>2, <2>3, PaperKeeps
<1>6. CASE subcontractor_document_delete(may, f)
  <2>1. /\ qualification[f] # None /\ Filed /\ Through
        /\ qualification' = [qualification EXCEPT ![f] = None] /\ removing' = removing \cup {f}
        /\ UNCHANGED <<stored, uploading>>
    BY <1>6 DEF subcontractor_document_delete, DeleteDocument
  <2>2. /\ qualification' \in [File -> Paper \cup {None}] /\ removing' \subseteq File
        /\ qualification'[f] = None /\ \A g \in File \ {f} : qualification'[g] = qualification[g]
    BY <1>1, <2>1
  <2>3. FilesApart' /\ DocumentsStand'
    BY <1>1, <1>2, <2>1, <2>2 DEF FilesApart, DocumentsStand
  <2> QED
    BY <1>1, <2>1, <2>2, <2>3, FilingKeeps
<1>7. ASSUME NEW content \in Content, CreateDocument(f, content), Through
      PROVE  DirectoryIInv'
  <2> DEFINE row == [owner |-> uploading[f], content |-> content, review |-> "PENDING", judged |-> content]
  <2>1. /\ uploading[f] # None /\ Filed /\ uploading' = [uploading EXCEPT ![f] = None]
        /\ qualification' = [qualification EXCEPT ![f] = row]
        /\ UNCHANGED <<stored, removing>>
    BY <1>7 DEF CreateDocument
  <2>2. row \in Paper /\ (row.review # "PENDING" => row.judged = row.content)
    BY <1>1, <2>1 DEF Paper, ReviewStatus
  <2>3. f \in stored /\ f \notin removing /\ uploading'[f] = None
    BY <1>1, <2>1 DEF FilesApart
  <2> HIDE DEF row
  <2> QED
    BY <1>7, <2>1, <2>2, <2>3, PaperKeeps
<1>8. ASSUME RefuseDocument(f) \/ RemoveFile(f) \/ CrashFiling(f), Through
      PROVE  DirectoryIInv'
  <2>1. /\ Filed /\ UNCHANGED qualification /\ qualification[f] = None
        /\ \/ stored' = stored \/ stored' = stored \ {f}
        /\ removing' \subseteq removing /\ removing \ {f} \subseteq removing'
        /\ uploading' = uploading \/ uploading' = [uploading EXCEPT ![f] = None]
        /\ stored' # stored => f \notin removing' /\ uploading'[f] = None
    BY <1>1, <1>8 DEF RefuseDocument, RemoveFile, CrashFiling, FilesApart
  <2>2. /\ uploading' \in [File -> Provider \cup {None}] /\ stored' \subseteq File /\ removing' \subseteq File
        /\ uploading'[f] \in {uploading[f], None} /\ \A g \in File \ {f} : uploading'[g] = uploading[g]
    BY <1>1, <2>1
  <2>3. FilesApart'
    BY <1>1, <2>1, <2>2 DEF FilesApart
  <2>4. DocumentsStand'
    BY <1>1, <2>1 DEF DocumentsStand
  <2> QED
    BY <1>1, <1>8, <2>1, <2>2, <2>3, <2>4, FilingKeeps
<1> QED
  BY <1>3, <1>4, <1>5, <1>6, <1>7, <1>8 DEF FileNext, FilingGoesOn

-----------------------------------------------------------------------------

LEMMA DirectoryStarts == DirectoryInit => DirectoryIInv
BY DEF DirectoryInit, SourcingInit, DirectoryIInv, DirectoryTypeOK, SourcingTypeOK, ConfirmedIs, Owned, FilesApart,
   DirectorySound, ConfirmedAsIs, OffersAsShown, DocumentsStand, ArchivedQuiet

(* The inductive invariant of the directory, whoever works on it: a new    *)
(* entry finds no offers of an old one, and a file is not taken away while *)
(* it is in use.                                                           *)
THEOREM DirectoryInductive == DirectorySpec => []DirectoryIInv
<1>1. DirectoryIInv /\ [DirectoryNext]_directoryVars => DirectoryIInv'
  <2> SUFFICES ASSUME DirectoryIInv, DirectoryNext \/ UNCHANGED directoryVars PROVE DirectoryIInv'
    OBVIOUS
  <2>1. CASE UNCHANGED directoryVars
    BY <2>1 DEF directoryVars, sourcingVars, DirectoryIInv, DirectoryTypeOK, SourcingTypeOK, ConfirmedIs, Owned, Owner,
       FilesApart, DirectorySound, ConfirmedAsIs, OffersAsShown, DocumentsStand, ArchivedQuiet
  <2>2. CASE DirectoryNext
    BY <2>2, EntryNextKeeps, ContactNextKeeps, MasterNextKeeps, OfferNextKeeps, FileNextKeeps DEF DirectoryNext
  <2> QED
    BY <2>1, <2>2
<1> QED
  BY <1>1, DirectoryStarts, PTL DEF DirectorySpec

(* What the directory shows as confirmed, verified or reviewed is what     *)
(* somebody confirmed, verified or reviewed, its documents can be          *)
(* downloaded, and what is archived is not in use, whichever requests and  *)
(* rows of a workbook touch it in whatever order, and wherever an upload   *)
(* or a deletion dies.                                                     *)
THEOREM DirectoryAlwaysSound == DirectorySpec => []DirectoryTrue
<1>1. DirectoryIInv => DirectoryTrue
  BY DEF DirectoryIInv, DirectoryTrue
<1> QED
  BY <1>1, DirectoryInductive, PTL
=============================================================================
