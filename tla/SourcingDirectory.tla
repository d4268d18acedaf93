------------------------- MODULE SourcingDirectory -------------------------
(***************************************************************************)
(* The reference directory of vendors, manpower suppliers and              *)
(* subcontractors (sourcing/services): their contacts, what they offer,    *)
(* who confirmed it, and the qualification files of subcontractors.        *)
(*                                                                         *)
(* Every service locks the provider, so its steps are serial; what can go  *)
(* wrong is that one of many paths forgets the evidence.  Two things are   *)
(* not under that lock: the form that read an active material, trade or    *)
(* service before, and the file storage, which no transaction rolls back.  *)
(* Three kinds of provider have nearly the same services: what they share  *)
(* is defined once and each service is an action.  Contents are versions;  *)
(* codes, names and duplicates only refuse calls and are left out.         *)
(***************************************************************************)
EXTENDS Naturals, FiniteSets, Absence

CONSTANTS Provider,
          Role(_),     \* "vendor", "manpower" or "subcontractor"
          Contact, Offer, File,
          Master,      \* materials, trades and services
          Sort(_),     \* the kind of provider that offers a master
          Content      \* versions of a profile, an offer, a document

VARIABLES provider,       \* [Provider -> directory entry, or None]
          contact,        \* [Contact -> a person of a provider, or None]
          master,         \* [Master -> whether it is active, or None]
          picked,         \* masters a submitted form has read as active
          offer,          \* [Offer -> catalog row, or None]
          shown,          \* [Offer -> what its newest revision shows, or None]
          confirmed,      \* [Provider -> what its newest confirmation shows]
          qualification,  \* [File -> qualification document, or None]
          stored,         \* the files in the storage
          uploading,      \* [File -> the provider an upload is for, or None]
          removing        \* files whose deletion waits for a commit

sourcingVars == <<provider, contact, master, picked, offer, shown, confirmed,
                  qualification, stored, uploading, removing>>

Entry == [active : BOOLEAN, archived : BOOLEAN, trash : {"no", "kept", "expired"},
          profile : Content, named : Contact \cup {None}, verified : BOOLEAN]
Row == [owner : Provider, master : Master, content : Content, active : BOOLEAN,
        verified : BOOLEAN]
ReviewStatus == {"PENDING", "APPROVED", "REJECTED"}

(* An entry or an offer that is there is not the absence of one.           *)
ASSUME DirectoryAssumption == None \notin Entry /\ None \notin Row

SourcingTypeOK ==
  /\ provider \in [Provider -> Entry \cup {None}]
  /\ contact \in [Contact -> [owner : Provider, primary : BOOLEAN, active : BOOLEAN] \cup {None}]
  /\ master \in [Master -> BOOLEAN \cup {None}] /\ picked \subseteq Master
  /\ offer \in [Offer -> Row \cup {None}] /\ shown \in [Offer -> Row \cup {None}]
  /\ qualification \in [File -> [owner : Provider, content : Content, review : ReviewStatus,
                                 judged : Content] \cup {None}]
  /\ stored \subseteq File /\ removing \subseteq File
  /\ uploading \in [File -> Provider \cup {None}]

SourcingInit ==
  /\ provider = [p \in Provider |-> None] /\ contact = [c \in Contact |-> None]
  /\ master = [x \in Master |-> None] /\ picked = {}
  /\ offer = [o \in Offer |-> None] /\ shown = [o \in Offer |-> None]
  /\ confirmed = [p \in Provider |-> None]
  /\ qualification = [f \in File |-> None] /\ stored = {}
  /\ uploading = [f \in File |-> None] /\ removing = {}

Filing   == <<qualification, stored, uploading, removing>>
Catalog  == <<master, picked, offer, shown>>
Contacts(p)  == {c \in Contact : contact[c] # None /\ contact[c].owner = p}
Offers(p)    == {o \in Offer : offer[o] # None /\ offer[o].owner = p}
Documents(p) == {f \in File : qualification[f] # None /\ qualification[f].owner = p}

(* The provider as its services find it under the lock, which an upload     *)
(* holds for longer.                                                        *)
Unheld(p) == provider[p] # None /\ \A f \in File : uploading[f] # p
Is(p, kind) == Unheld(p) /\ Role(p) = kind
Present(p) == Unheld(p) /\ provider[p].trash = "no"
Writable(p) == Present(p) /\ ~provider[p].archived

----------------------------------------------------------------------------
(* Entries *)

Only(p, row) == /\ provider' = [provider EXCEPT ![p] = row]
                /\ UNCHANGED <<contact, master, picked, offer, shown, confirmed, Filing>>

NewEntry(p, profile, active) ==
  /\ provider[p] = None
  /\ provider' = [provider EXCEPT ![p] =
       [active |-> active, archived |-> FALSE, trash |-> "no", profile |-> profile,
        named |-> None, verified |-> FALSE]]

(* What a form names: a master that still exists.                           *)
Chosen(x, kind) == Sort(x) = kind /\ x \in picked /\ master[x] # None
(* A master that does not exist is created together with what names it.     *)
Named(x, kind, draft) == IF draft THEN Sort(x) = kind /\ master[x] = None ELSE Chosen(x, kind)
NewRow(p, x, content, verify) ==
  [owner |-> p, master |-> x, content |-> content, active |-> TRUE, verified |-> verify]

(* The entry and its first offers at once: all of a vendor's and a supplier's *)
(* offers are evidence, a subcontractor's are when they are verified.       *)
Founded(p, profile, seeds, x, draft, verify) ==
  LET supply == Role(p) # "subcontractor" IN
  /\ provider[p] = None /\ seeds \subseteq {o \in Offer : offer[o] = None} /\ seeds # {}
  /\ Named(x, Role(p), draft)
  /\ provider' = [provider EXCEPT ![p] =
       [active |-> TRUE, archived |-> FALSE, trash |-> "no", profile |-> profile,
        named |-> None, verified |-> supply /\ verify]]
  /\ offer' = [o \in Offer |-> IF o \in seeds THEN NewRow(p, x, profile, verify) ELSE offer[o]]
  /\ shown' = [o \in Offer |-> IF o \in seeds /\ (supply \/ verify) THEN offer'[o] ELSE shown[o]]
  /\ master' = [master EXCEPT ![x] = IF draft THEN TRUE ELSE @] /\ picked' = picked \ {x}
  /\ UNCHANGED <<contact, confirmed, Filing>>

CreateVendor(p, profile, active) ==
  /\ Role(p) = "vendor" /\ NewEntry(p, profile, active)
  /\ UNCHANGED <<contact, Catalog, confirmed, Filing>>
(* create_vendor_with_materials                                             *)
CreateVendorWithMaterials(p, profile, seeds, x, draft, verify) ==
  Role(p) = "vendor" /\ Founded(p, profile, seeds, x, draft, verify)
CreateManpower(p, profile, active) ==
  /\ Role(p) = "manpower" /\ NewEntry(p, profile, active)
  /\ UNCHANGED <<contact, Catalog, confirmed, Filing>>
CreateSubcontractor(p, profile, active) ==
  /\ Role(p) = "subcontractor" /\ NewEntry(p, profile, active)
  /\ UNCHANGED <<contact, Catalog, confirmed, Filing>>

Described(p, profile, named) == [provider[p] EXCEPT !.profile = profile, !.named = named]

(* Vendors and manpower suppliers are edited in the archive as well.        *)
UpdateVendor(p, profile, named) ==
  Is(p, "vendor") /\ Present(p) /\ Only(p, Described(p, profile, named))
UpdateManpower(p, profile, named) ==
  Is(p, "manpower") /\ Present(p) /\ Only(p, Described(p, profile, named))
(* A substantive change takes the confirmation back.                        *)
Kept(p, profile, named) ==
  provider[p].verified /\ provider[p].profile = profile /\ provider[p].named = named
UpdateSubcontractor(p, profile, named) ==
  /\ Is(p, "subcontractor") /\ Writable(p)
  /\ Only(p, [Described(p, profile, named) EXCEPT !.verified = Kept(p, profile, named)])

Statused(p, active) == Writable(p) /\ Only(p, [provider[p] EXCEPT !.active = active])
SetVendorStatus(p, active) == Is(p, "vendor") /\ Statused(p, active)
SetManpowerStatus(p, active) == Is(p, "manpower") /\ Statused(p, active)
SetSubcontractorStatus(p, active) == Is(p, "subcontractor") /\ Statused(p, active)

(* import_sourcing_rows: one row updates the profile and then the status.   *)
ImportVendor(p, profile, named, active) ==
  /\ Is(p, "vendor") /\ Present(p) /\ (active # provider[p].active => Writable(p))
  /\ Only(p, [Described(p, profile, named) EXCEPT !.active = active])
ImportManpower(p, profile, named, active) ==
  /\ Is(p, "manpower") /\ Present(p) /\ (active # provider[p].active => Writable(p))
  /\ Only(p, [Described(p, profile, named) EXCEPT !.active = active])
ImportSubcontractor(p, profile, named, active) ==
  /\ Is(p, "subcontractor") /\ Writable(p)
  /\ Only(p, [Described(p, profile, named) EXCEPT !.active = active,
                                                  !.verified = Kept(p, profile, named)])

Archived(p) ==
  Present(p) /\ Only(p, [provider[p] EXCEPT !.archived = TRUE, !.active = FALSE])
ArchiveVendor(p) == Is(p, "vendor") /\ Archived(p)
ArchiveManpower(p) == Is(p, "manpower") /\ Archived(p)
ArchiveSubcontractor(p) == Is(p, "subcontractor") /\ Archived(p)

Reopened(p) == Present(p) /\ Only(p, [provider[p] EXCEPT !.archived = FALSE])
RestoreVendorArchive(p) == Is(p, "vendor") /\ Reopened(p)
RestoreManpowerArchive(p) == Is(p, "manpower") /\ Reopened(p)
RestoreSubcontractorArchive(p) == Is(p, "subcontractor") /\ Reopened(p)

Trashed(p) == Present(p) /\ Only(p, [provider[p] EXCEPT !.trash = "kept"])
TrashVendor(p) == Is(p, "vendor") /\ Trashed(p)
TrashManpower(p) == Is(p, "manpower") /\ Trashed(p)
TrashSubcontractor(p) == Is(p, "subcontractor") /\ Trashed(p)

(* Thirty days later.                                                       *)
PassRetention(p) ==
  /\ provider[p] # None /\ provider[p].trash = "kept"
  /\ Only(p, [provider[p] EXCEPT !.trash = "expired"])

(* Only subcontractors look at the retention.                               *)
RestoreVendorTrash(p) ==
  /\ Is(p, "vendor") /\ ~Present(p) /\ Only(p, [provider[p] EXCEPT !.trash = "no"])
RestoreManpowerTrash(p) ==
  /\ Is(p, "manpower") /\ ~Present(p) /\ Only(p, [provider[p] EXCEPT !.trash = "no"])
RestoreSubcontractorTrash(p) ==
  /\ Is(p, "subcontractor") /\ provider[p].trash = "kept"
  /\ Only(p, [provider[p] EXCEPT !.trash = "no"])

(* The entry goes with its contacts and offers; revisions are detached.     *)
Removed(p) ==
  /\ provider' = [provider EXCEPT ![p] = None]
  /\ contact' = [c \in Contact |-> IF c \in Contacts(p) THEN None ELSE contact[c]]
  /\ offer' = [o \in Offer |-> IF o \in Offers(p) THEN None ELSE offer[o]]
  /\ UNCHANGED <<master, picked, shown, confirmed, Filing>>
DeleteVendor(p) == Is(p, "vendor") /\ Removed(p)
DeleteManpower(p) == Is(p, "manpower") /\ Removed(p)
DeleteSubcontractor(p) ==
  Is(p, "subcontractor") /\ Offers(p) = {} /\ Documents(p) = {} /\ Removed(p)

(* verify_subcontractor: somebody confirmed the details of the company.     *)
VerifySubcontractor(p) ==
  /\ Is(p, "subcontractor") /\ Writable(p) /\ provider[p].active
  /\ provider' = [provider EXCEPT ![p].verified = TRUE]
  /\ confirmed' = [confirmed EXCEPT ![p] = [profile |-> provider[p].profile,
                                            named |-> provider[p].named]]
  /\ UNCHANGED <<contact, Catalog, Filing>>

----------------------------------------------------------------------------
(* Contacts *)

(* One contact is written; a new primary contact takes over from others.    *)
Written(p, c, primary, active, takesOver) ==
  contact' = [d \in Contact |->
    IF d = c THEN [owner |-> p, primary |-> primary, active |-> active]
    ELSE IF takesOver /\ d \in Contacts(p) THEN [contact[d] EXCEPT !.primary = FALSE]
    ELSE contact[d]]

(* _sync_primary_contact_summary, _sync_primary: only subcontractors lose   *)
(* their confirmation.                                                      *)
Synced(p, c, primary, active) ==
  /\ provider' = [provider EXCEPT ![p] = IF ~(primary /\ active) THEN @ ELSE
       [@ EXCEPT !.named = c, !.verified = provider[p].verified /\ Role(p) # "subcontractor"]]
  /\ UNCHANGED <<Catalog, confirmed, Filing>>

NewContact(p, c, primary, active) ==
  /\ contact[c] = None
  /\ Written(p, c, primary, active, primary /\ active) /\ Synced(p, c, primary, active)
CreateVendorContact(p, c, primary) ==
  Is(p, "vendor") /\ Present(p) /\ NewContact(p, c, primary, TRUE)
CreateManpowerContact(p, c, primary) ==
  Is(p, "manpower") /\ Present(p) /\ NewContact(p, c, primary, TRUE)
CreateSubcontractorContact(p, c, primary, active) ==
  Is(p, "subcontractor") /\ Writable(p) /\ NewContact(p, c, primary, active)

(* An edit brings a contact back; that of a subcontractor says whether.     *)
Edit(p, c, primary, active) ==
  /\ c \in Contacts(p)
  /\ Written(p, c, primary /\ active, active, primary /\ active)
  /\ Synced(p, c, primary, active)
UpdateVendorContact(p, c, primary) ==
  Is(p, "vendor") /\ Present(p) /\ Edit(p, c, primary, TRUE)
UpdateManpowerContact(p, c, primary) ==
  Is(p, "manpower") /\ Present(p) /\ Edit(p, c, primary, TRUE)
UpdateSubcontractorContact(p, c, primary, active) ==
  Is(p, "subcontractor") /\ Writable(p) /\ Edit(p, c, primary, active)

Retired(p, c) == /\ c \in Contacts(p) /\ Written(p, c, FALSE, FALSE, FALSE)
                 /\ UNCHANGED <<Catalog, confirmed, Filing>>
DeactivateVendorContact(p, c) ==
  Is(p, "vendor") /\ Present(p) /\ Retired(p, c) /\ UNCHANGED provider
DeactivateManpowerContact(p, c) ==
  Is(p, "manpower") /\ Present(p) /\ Retired(p, c) /\ UNCHANGED provider

Unnamed(p, primary) ==
  provider' = [provider EXCEPT ![p] =
    IF primary THEN [@ EXCEPT !.named = None, !.verified = FALSE] ELSE @]
(* Mutant of DeactivateSubcontractorContact: only the name is cleared.      *)
DeactivateSubcontractorContactQuietly(p, c) ==
  /\ Is(p, "subcontractor") /\ Writable(p) /\ Retired(p, c)
  /\ provider' = [provider EXCEPT ![p].named = IF contact[c].primary THEN None ELSE @]
DeactivateSubcontractorContact(p, c) ==
  /\ Is(p, "subcontractor") /\ Writable(p) /\ Retired(p, c)
  /\ Unnamed(p, contact[c].primary)

Dropped(p, c) == /\ c \in Contacts(p) /\ Writable(p)
                 /\ contact' = [contact EXCEPT ![c] = None]
                 /\ UNCHANGED <<Catalog, confirmed, Filing>>
DeleteVendorContact(p, c) == Is(p, "vendor") /\ Dropped(p, c) /\ UNCHANGED provider
DeleteManpowerContact(p, c) == Is(p, "manpower") /\ Dropped(p, c) /\ UNCHANGED provider
DeleteSubcontractorContact(p, c) ==
  /\ Is(p, "subcontractor") /\ Dropped(p, c)
  /\ Unnamed(p, contact[c].primary /\ contact[c].active)

----------------------------------------------------------------------------
(* Materials, trades and services *)

Mastered(x, value) == /\ master' = [master EXCEPT ![x] = value]
                      /\ UNCHANGED <<provider, contact, picked, shown, confirmed, Filing>>
NewMaster(x, sort) == Sort(x) = sort /\ master[x] = None /\ Mastered(x, TRUE) /\ UNCHANGED offer
CreateMaterial(x) == NewMaster(x, "vendor")
CreateTrade(x) == NewMaster(x, "manpower")
CreateService(x) == NewMaster(x, "subcontractor")

Switched(x, sort, active) ==
  Sort(x) = sort /\ master[x] # None /\ Mastered(x, active) /\ UNCHANGED offer
SetMaterialActive(x, active) == Switched(x, "vendor", active)
SetTradeActive(x, active) == Switched(x, "manpower", active)
SetServiceActive(x, active) == Switched(x, "subcontractor", active)

Using(x) == {o \in Offer : offer[o] # None /\ offer[o].master = x}
(* Offers go with their material or trade, whatever state the provider is   *)
(* in; a service in use stays.                                              *)
Uprooted(x, sort) ==
  /\ Sort(x) = sort /\ master[x] # None /\ Mastered(x, None)
  /\ offer' = [o \in Offer |-> IF o \in Using(x) THEN None ELSE offer[o]]
DeleteMaterial(x) == Uprooted(x, "vendor")
DeleteTrade(x) == Uprooted(x, "manpower")
DeleteService(x) == Using(x) = {} /\ Uprooted(x, "subcontractor")

(* A form is validated against the master as it is; the service that gets   *)
(* the instance looks at it again without reading it again.                 *)
PickMaster(x) ==
  /\ master[x] = TRUE /\ picked' = picked \cup {x}
  /\ UNCHANGED <<provider, contact, master, offer, shown, confirmed, Filing>>

----------------------------------------------------------------------------
(* Offers *)

Owner(o) == offer[o].owner
Usable(o, kind) == offer[o] # None /\ Role(Owner(o)) = kind /\ Writable(Owner(o))

(* Every save of a supply offer is evidence; a verification also dates the  *)
(* provider.                                                                *)
Supplied(p, o, row, verify) ==
  /\ offer' = [offer EXCEPT ![o] = row] /\ shown' = [shown EXCEPT ![o] = row]
  /\ provider' = [provider EXCEPT ![p].verified = @ \/ verify]
  /\ UNCHANGED <<contact, master, confirmed, Filing>>

CreateVendorOffer(p, o, x, content, verify) ==
  /\ Is(p, "vendor") /\ Writable(p) /\ offer[o] = None /\ Chosen(x, "vendor")
  /\ Supplied(p, o, NewRow(p, x, content, verify), verify) /\ picked' = picked \ {x}
CreateWorkforceOffer(p, o, x, content, verify) ==
  /\ Is(p, "manpower") /\ Writable(p) /\ offer[o] = None /\ Chosen(x, "manpower")
  /\ Supplied(p, o, NewRow(p, x, content, verify), verify) /\ picked' = picked \ {x}

(* The master stays, or it is another one the form has read as active.      *)
Revised(o, x, content, verify) ==
  [offer[o] EXCEPT !.master = x, !.content = content, !.verified = @ \/ verify]
UpdateVendorOffer(o, x, content, verify) ==
  /\ Usable(o, "vendor") /\ (x = offer[o].master \/ Chosen(x, "vendor"))
  /\ Supplied(Owner(o), o, Revised(o, x, content, verify), verify) /\ picked' = picked \ {x}
UpdateWorkforceOffer(o, x, content, verify) ==
  /\ Usable(o, "manpower") /\ (x = offer[o].master \/ Chosen(x, "manpower"))
  /\ Supplied(Owner(o), o, Revised(o, x, content, verify), verify) /\ picked' = picked \ {x}

SetVendorOfferActive(o, active) ==
  /\ Usable(o, "vendor") /\ UNCHANGED picked
  /\ Supplied(Owner(o), o, [offer[o] EXCEPT !.active = active], FALSE)
SetWorkforceOfferActive(o, active) ==
  /\ Usable(o, "manpower") /\ UNCHANGED picked
  /\ Supplied(Owner(o), o, [offer[o] EXCEPT !.active = active], FALSE)

VerifyVendorOffer(o, content) ==
  /\ Usable(o, "vendor") /\ offer[o].active /\ UNCHANGED picked
  /\ Supplied(Owner(o), o, Revised(o, offer[o].master, content, TRUE), TRUE)
VerifyWorkforceOffer(o, content) ==
  /\ Usable(o, "manpower") /\ offer[o].active /\ UNCHANGED picked
  /\ Supplied(Owner(o), o, Revised(o, offer[o].master, content, TRUE), TRUE)

Delisted(o) == /\ offer' = [offer EXCEPT ![o] = None]
               /\ UNCHANGED <<provider, contact, master, picked, shown, confirmed, Filing>>
DeleteVendorOffer(o) == Usable(o, "vendor") /\ Delisted(o)
DeleteWorkforceOffer(o) == Usable(o, "manpower") /\ Delisted(o)
DeleteServiceOffer(o) == Usable(o, "subcontractor") /\ Delisted(o)

(* A service offer leaves evidence when it is verified, and only then.      *)
Serviced(o, row, verify) ==
  /\ offer' = [offer EXCEPT ![o] = row]
  /\ shown' = IF verify THEN [shown EXCEPT ![o] = row] ELSE shown
  /\ UNCHANGED <<provider, contact, master, confirmed, Filing>>

CreateServiceOffer(p, o, x, content, verify) ==
  /\ Is(p, "subcontractor") /\ Writable(p) /\ offer[o] = None /\ Chosen(x, "subcontractor")
  /\ Serviced(o, NewRow(p, x, content, verify), verify) /\ picked' = picked \ {x}
(* "A changed unverified reference is NOT silently represented as fresh."   *)
UpdateServiceOffer(o, x, content, verify) ==
  LET same == x = offer[o].master /\ content = offer[o].content IN
  /\ Usable(o, "subcontractor") /\ (x = offer[o].master \/ Chosen(x, "subcontractor"))
  /\ Serviced(o, [Revised(o, x, content, verify) EXCEPT !.verified = verify \/ (@ /\ same)], verify)
  /\ picked' = picked \ {x}
VerifyServiceOffer(o, content) ==
  /\ Usable(o, "subcontractor") /\ offer[o].active /\ master[offer[o].master]
  /\ Serviced(o, Revised(o, offer[o].master, content, TRUE), TRUE) /\ UNCHANGED picked
SetServiceOfferActive(o, active) ==
  /\ Usable(o, "subcontractor") /\ (active => master[offer[o].master])
  /\ Serviced(o, [offer[o] EXCEPT !.active = active], FALSE) /\ UNCHANGED picked

----------------------------------------------------------------------------
(* Qualification documents *)

Filed == UNCHANGED <<provider, contact, Catalog, confirmed>>
Of(p) == Is(p, "subcontractor") /\ Writable(p)

(* create_document: the file is stored, then the row is written ...         *)
StoreFile(p, f) ==
  /\ Of(p) /\ f \notin stored /\ qualification[f] = None
  /\ stored' = stored \cup {f} /\ uploading' = [uploading EXCEPT ![f] = p]
  /\ UNCHANGED <<qualification, removing>> /\ Filed
CreateDocument(f, content) ==
  /\ uploading[f] # None
  /\ qualification' = [qualification EXCEPT ![f] =
       [owner |-> uploading[f], content |-> content, review |-> "PENDING", judged |-> content]]
  /\ uploading' = [uploading EXCEPT ![f] = None]
  /\ UNCHANGED <<stored, removing>> /\ Filed
(* ... or refused, and the file is deleted.                                 *)
RefuseDocument(f) ==
  /\ uploading[f] # None
  /\ stored' = stored \ {f} /\ uploading' = [uploading EXCEPT ![f] = None]
  /\ UNCHANGED <<qualification, removing>> /\ Filed

UpdateDocument(f, content) ==
  /\ qualification[f] # None /\ Of(qualification[f].owner)
  /\ qualification' = [qualification EXCEPT ![f] = IF content = @.content THEN @ ELSE
       [@ EXCEPT !.content = content, !.review = "PENDING"]]
  /\ UNCHANGED <<stored, uploading, removing>> /\ Filed
ReviewDocument(f, verdict) ==
  /\ qualification[f] # None /\ Of(qualification[f].owner)
  /\ qualification' = [qualification EXCEPT ![f].review = verdict,
                                            ![f].judged = qualification[f].content]
  /\ UNCHANGED <<stored, uploading, removing>> /\ Filed

(* The row is deleted; the file follows the commit ...                      *)
DeleteDocument(f) ==
  /\ qualification[f] # None /\ Of(qualification[f].owner)
  /\ qualification' = [qualification EXCEPT ![f] = None] /\ removing' = removing \cup {f}
  /\ UNCHANGED <<stored, uploading>> /\ Filed
RemoveFile(f) ==
  /\ f \in removing
  /\ stored' = stored \ {f} /\ removing' = removing \ {f}
  /\ UNCHANGED <<qualification, uploading>> /\ Filed
(* ... unless the process dies in between: the file stays behind, unnamed.  *)
CrashFiling(f) ==
  /\ f \in removing \/ uploading[f] # None
  /\ removing' = removing \ {f} /\ uploading' = [uploading EXCEPT ![f] = None]
  /\ UNCHANGED <<qualification, stored>> /\ Filed

----------------------------------------------------------------------------
(* Properties *)

(* verify_subcontractor: a subcontractor shown as confirmed is, in all that *)
(* a confirmation covers, what somebody has confirmed, whichever service    *)
(* has touched the entry, its summary or its contacts since.                *)
ConfirmedAsIs ==
  \A p \in Provider :
    provider[p] # None /\ Role(p) = "subcontractor" /\ provider[p].verified =>
      confirmed[p] = [profile |-> provider[p].profile, named |-> provider[p].named]

(* catalog.py, workforce.py: the newest revision of an offer shows the      *)
(* offer, and a verified one dates its provider.  subcontractor_catalog.py: *)
(* one that is shown as verified has not changed since its evidence.        *)
OffersAsShown ==
  \A o \in Offer : offer[o] # None =>
    IF Role(Owner(o)) = "subcontractor"
      THEN offer[o].verified => /\ shown[o] # None
                                /\ shown[o] = [offer[o] EXCEPT !.active = shown[o].active]
      ELSE shown[o] = offer[o] /\ (offer[o].verified => provider[Owner(o)].verified)

(* subcontractor_documents.py: a document can always be downloaded, and its *)
(* review is of what it says now.                                           *)
DocumentsStand ==
  \A f \in File : qualification[f] # None =>
    /\ f \in stored
    /\ qualification[f].review # "PENDING" => qualification[f].judged = qualification[f].content

(* What the directory shows as confirmed, verified or reviewed is what was. *)
DirectorySound == ConfirmedAsIs /\ OffersAsShown /\ DocumentsStand
=============================================================================
