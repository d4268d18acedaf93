---------------------------- MODULE SourcingDesk ----------------------------
(***************************************************************************)
(* The request layer of the directory (sourcing/views.py, exchange.py and  *)
(* the page templates): who may call which service, what a view looks at   *)
(* before the service locks the provider, what one row of an imported      *)
(* workbook does, what the pages offer and what an export contains.        *)
(*                                                                         *)
(* Views, services, pages and exports each have rules of their own about   *)
(* archived entries, inactive offers and inactive masters, in different    *)
(* files; whether they agree is the question here.  An action is a request *)
(* and is named after its view.  Rows of one workbook are committed        *)
(* together or not at all; one row is a step.                              *)
(***************************************************************************)
EXTENDS SourcingDirectory

CONSTANT Rights   \* what access profiles may edit: sets of kinds and "masters"

VARIABLE opened   \* vendors and manpower suppliers with a request for an edit
                  \* or a contact that the view has let through

directoryVars == <<sourcingVars, opened>>

DirectoryTypeOK == SourcingTypeOK /\ opened \subseteq Provider
DirectoryInit == SourcingInit /\ opened = {}

Through == UNCHANGED opened
Answered(p) == opened' = opened \ {p}

----------------------------------------------------------------------------
(* Entries *)

vendor_create(may, p, profile, seeds, x, draft, verify) ==
  /\ "vendor" \in may /\ (draft => "masters" \in may)
  /\ \/ seeds = {} /\ ~draft /\ ~verify /\ CreateVendor(p, profile, TRUE)
     \/ CreateVendorWithMaterials(p, profile, seeds, x, draft, verify)
  /\ Through
(* Two views run several services in one transaction of their own.          *)
manpower_supplier_create(may, p, profile, seeds, x, draft, verify) ==
  /\ "manpower" \in may /\ (draft => "masters" \in may)
  /\ \/ seeds = {} /\ ~draft /\ ~verify /\ CreateManpower(p, profile, TRUE)
     \/ Role(p) = "manpower" /\ Founded(p, profile, seeds, x, draft, verify)
  /\ Through
subcontractor_create(may, p, profile, seeds, x, draft, verify) ==
  /\ "subcontractor" \in may /\ (draft => "masters" \in may)
  /\ \/ seeds = {} /\ ~draft /\ ~verify /\ CreateSubcontractor(p, profile, TRUE)
     \/ Role(p) = "subcontractor" /\ Founded(p, profile, seeds, x, draft, verify)
  /\ Through

(* The view finds the entry in use; the service does not look again whether *)
(* it has been archived since.                                              *)
Open(may, p) ==
  /\ Role(p) \in may \ {"subcontractor"} /\ provider[p] # None
  /\ provider[p].trash = "no" /\ ~provider[p].archived
  /\ opened' = opened \cup {p} /\ UNCHANGED sourcingVars
vendor_edit(p, profile, named) ==
  p \in opened /\ UpdateVendor(p, profile, named) /\ Answered(p)
manpower_supplier_edit(p, profile, named) ==
  p \in opened /\ UpdateManpower(p, profile, named) /\ Answered(p)
subcontractor_edit(may, p, profile, named) ==
  "subcontractor" \in may /\ UpdateSubcontractor(p, profile, named) /\ Through

vendor_status(may, p, active) == "vendor" \in may /\ SetVendorStatus(p, active) /\ Through
manpower_supplier_status(may, p, active) ==
  "manpower" \in may /\ SetManpowerStatus(p, active) /\ Through
subcontractor_status(may, p, active) ==
  "subcontractor" \in may /\ SetSubcontractorStatus(p, active) /\ Through

vendor_archive(may, p) == "vendor" \in may /\ ArchiveVendor(p) /\ Through
manpower_supplier_archive(may, p) == "manpower" \in may /\ ArchiveManpower(p) /\ Through
subcontractor_archive(may, p) == "subcontractor" \in may /\ ArchiveSubcontractor(p) /\ Through
vendor_restore_archive(may, p) == "vendor" \in may /\ RestoreVendorArchive(p) /\ Through
manpower_supplier_restore_archive(may, p) ==
  "manpower" \in may /\ RestoreManpowerArchive(p) /\ Through
subcontractor_restore_archive(may, p) ==
  "subcontractor" \in may /\ RestoreSubcontractorArchive(p) /\ Through

vendor_trash(may, p) == "vendor" \in may /\ TrashVendor(p) /\ Through
manpower_supplier_trash(may, p) == "manpower" \in may /\ TrashManpower(p) /\ Through
subcontractor_trash(may, p) == "subcontractor" \in may /\ TrashSubcontractor(p) /\ Through
vendor_restore_trash(may, p) == "vendor" \in may /\ RestoreVendorTrash(p) /\ Through
manpower_supplier_restore_trash(may, p) ==
  "manpower" \in may /\ RestoreManpowerTrash(p) /\ Through
subcontractor_restore_trash(may, p) ==
  "subcontractor" \in may /\ RestoreSubcontractorTrash(p) /\ Through

(* A request for an entry that is gone finds nothing.                       *)
vendor_delete(may, p) == "vendor" \in may /\ DeleteVendor(p) /\ Answered(p)
manpower_supplier_delete(may, p) == "manpower" \in may /\ DeleteManpower(p) /\ Answered(p)
subcontractor_delete(may, p) ==
  "subcontractor" \in may /\ DeleteSubcontractor(p) /\ Through

subcontractor_verify(may, p) ==
  "subcontractor" \in may /\ VerifySubcontractor(p) /\ Through

----------------------------------------------------------------------------
(* Contacts *)

vendor_contact_create(p, c, primary) ==
  p \in opened /\ CreateVendorContact(p, c, primary) /\ Answered(p)
manpower_contact_create(p, c, primary) ==
  p \in opened /\ CreateManpowerContact(p, c, primary) /\ Answered(p)
subcontractor_contact_create(may, p, c, primary, active) ==
  "subcontractor" \in may /\ CreateSubcontractorContact(p, c, primary, active) /\ Through
vendor_contact_edit(p, c, primary) ==
  p \in opened /\ UpdateVendorContact(p, c, primary) /\ Answered(p)
manpower_contact_edit(p, c, primary) ==
  p \in opened /\ UpdateManpowerContact(p, c, primary) /\ Answered(p)
subcontractor_contact_edit(may, p, c, primary, active) ==
  "subcontractor" \in may /\ UpdateSubcontractorContact(p, c, primary, active) /\ Through

vendor_contact_deactivate(may, p, c) ==
  "vendor" \in may /\ DeactivateVendorContact(p, c) /\ Through
manpower_contact_deactivate(may, p, c) ==
  "manpower" \in may /\ DeactivateManpowerContact(p, c) /\ Through
subcontractor_contact_deactivate(may, p, c) ==
  "subcontractor" \in may /\ DeactivateSubcontractorContact(p, c) /\ Through
vendor_contact_delete(may, p, c) == "vendor" \in may /\ DeleteVendorContact(p, c) /\ Through
manpower_contact_delete(may, p, c) ==
  "manpower" \in may /\ DeleteManpowerContact(p, c) /\ Through
subcontractor_contact_delete(may, p, c) ==
  "subcontractor" \in may /\ DeleteSubcontractorContact(p, c) /\ Through

----------------------------------------------------------------------------
(* Materials, trades and services *)

material_create(may, x) == "masters" \in may /\ CreateMaterial(x) /\ Through
trade_create(may, x) == "masters" \in may /\ CreateTrade(x) /\ Through
service_create(may, x) == "masters" \in may /\ CreateService(x) /\ Through
material_status(may, x, active) == "masters" \in may /\ SetMaterialActive(x, active) /\ Through
trade_status(may, x, active) == "masters" \in may /\ SetTradeActive(x, active) /\ Through
service_status(may, x, active) == "masters" \in may /\ SetServiceActive(x, active) /\ Through
material_delete(may, x) == "masters" \in may /\ DeleteMaterial(x) /\ Through
trade_delete(may, x) == "masters" \in may /\ DeleteTrade(x) /\ Through
service_delete(may, x) == "masters" \in may /\ DeleteService(x) /\ Through

(* The dialog of an offer form: whoever edits providers of a kind does not  *)
(* thereby create what all companies' offers are named after.               *)
reference_lookup(may, x) ==
  /\ "masters" \in may /\ (CreateMaterial(x) \/ CreateTrade(x) \/ CreateService(x))
  /\ Through
(* The form of an offer lists the active masters and is valid with one.     *)
Choose(may, x) == Sort(x) \in may /\ PickMaster(x) /\ Through

----------------------------------------------------------------------------
(* Offers *)

vendor_offer_create(may, p, o, x, content, verify) ==
  "vendor" \in may /\ CreateVendorOffer(p, o, x, content, verify) /\ Through
workforce_offer_create(may, p, o, x, content, verify) ==
  "manpower" \in may /\ CreateWorkforceOffer(p, o, x, content, verify) /\ Through
subcontractor_service_create(may, p, o, x, content, verify) ==
  "subcontractor" \in may /\ CreateServiceOffer(p, o, x, content, verify) /\ Through
vendor_offer_edit(may, o, x, content, verify) ==
  "vendor" \in may /\ UpdateVendorOffer(o, x, content, verify) /\ Through
workforce_offer_edit(may, o, x, content, verify) ==
  "manpower" \in may /\ UpdateWorkforceOffer(o, x, content, verify) /\ Through
subcontractor_service_edit(may, o, x, content, verify) ==
  "subcontractor" \in may /\ UpdateServiceOffer(o, x, content, verify) /\ Through
vendor_offer_status(may, o, active) ==
  "vendor" \in may /\ SetVendorOfferActive(o, active) /\ Through
workforce_offer_status(may, o, active) ==
  "manpower" \in may /\ SetWorkforceOfferActive(o, active) /\ Through
subcontractor_service_status(may, o, active) ==
  "subcontractor" \in may /\ SetServiceOfferActive(o, active) /\ Through
vendor_offer_verify(may, o, content) ==
  "vendor" \in may /\ VerifyVendorOffer(o, content) /\ Through
workforce_offer_verify(may, o, content) ==
  "manpower" \in may /\ VerifyWorkforceOffer(o, content) /\ Through
subcontractor_service_verify(may, o, content) ==
  "subcontractor" \in may /\ VerifyServiceOffer(o, content) /\ Through
vendor_offer_delete(may, o) == "vendor" \in may /\ DeleteVendorOffer(o) /\ Through
workforce_offer_delete(may, o) == "manpower" \in may /\ DeleteWorkforceOffer(o) /\ Through
subcontractor_service_delete(may, o) ==
  "subcontractor" \in may /\ DeleteServiceOffer(o) /\ Through

----------------------------------------------------------------------------
(* Qualification documents of subcontractors *)

(* subcontractor_document_create: the service stores the file first.        *)
subcontractor_document_create(may, p, f) ==
  "subcontractor" \in may /\ StoreFile(p, f) /\ Through
subcontractor_document_edit(may, f, content) ==
  "subcontractor" \in may /\ UpdateDocument(f, content) /\ Through
subcontractor_document_review(may, f, verdict) ==
  "subcontractor" \in may /\ ReviewDocument(f, verdict) /\ Through
subcontractor_document_delete(may, f) ==
  "subcontractor" \in may /\ DeleteDocument(f) /\ Through
(* What the storage and the database do with a request under way.           *)
FilingGoesOn(f, content) ==
  /\ CreateDocument(f, content) \/ RefuseDocument(f) \/ RemoveFile(f) \/ CrashFiling(f)
  /\ Through

----------------------------------------------------------------------------
(* One row of a workbook (exchange.py) *)

(* Create or update, then the status: an archived entry keeps the one it    *)
(* has.                                                                     *)
vendor_row(may, p, profile, named, active) ==
  /\ "vendor" \in may /\ Through
  /\ (named = None /\ CreateVendor(p, profile, active)) \/ ImportVendor(p, profile, named, active)
manpower_supplier_row(may, p, profile, named, active) ==
  /\ "manpower" \in may /\ Through
  /\ \/ named = None /\ CreateManpower(p, profile, active)
     \/ ImportManpower(p, profile, named, active)
subcontractor_row(may, p, profile, named, active) ==
  /\ "subcontractor" \in may /\ Through
  /\ \/ named = None /\ CreateSubcontractor(p, profile, active)
     \/ ImportSubcontractor(p, profile, named, active)

MasterRow(may, x, active) == "masters" \in may /\ Mastered(x, active) /\ UNCHANGED offer /\ Through
material_row(may, x, active) == Sort(x) = "vendor" /\ MasterRow(may, x, active)
trade_row(may, x, active) == Sort(x) = "manpower" /\ MasterRow(may, x, active)
service_row(may, x, active) == Sort(x) = "subcontractor" /\ MasterRow(may, x, active)

(* The offer of that master is revised, whatever the master's state; a new  *)
(* one takes an active master.  Its status follows.                         *)
Found(p, o, x) == offer[o] # None /\ offer[o].owner = p /\ offer[o].master = x
RowOf(p, o, x, content, verify) ==
  IF offer[o] = None THEN NewRow(p, x, content, verify) ELSE Revised(o, x, content, verify)
Listed(p, o, x, kind) ==
  /\ Is(p, kind) /\ Writable(p) /\ Sort(x) = kind /\ master[x] # None
  /\ \/ Found(p, o, x)
     \/ offer[o] = None /\ master[x] = TRUE /\ (kind # "subcontractor" => ~\E k \in Offer : Found(p, k, x))
vendor_catalog_row(may, p, o, x, content, verify, active) ==
  /\ "vendor" \in may /\ Listed(p, o, x, "vendor")
  /\ Supplied(p, o, [RowOf(p, o, x, content, verify) EXCEPT !.active = active], verify)
  /\ UNCHANGED picked /\ Through
workforce_catalog_row(may, p, o, x, content, verify, active) ==
  /\ "manpower" \in may /\ Listed(p, o, x, "manpower")
  /\ Supplied(p, o, [RowOf(p, o, x, content, verify) EXCEPT !.active = active], verify)
  /\ UNCHANGED picked /\ Through
(* The evidence is of the row as it was before its status followed.         *)
service_catalog_row(may, p, o, x, content, verify, active) ==
  LET row  == RowOf(p, o, x, content, verify)
      kept == offer[o] # None /\ offer[o].content = content /\ offer[o].verified
      new  == [row EXCEPT !.verified = verify \/ kept]
  IN /\ "subcontractor" \in may /\ Listed(p, o, x, "subcontractor")
     /\ active # row.active => (active => master[x] = TRUE)
     /\ offer' = [offer EXCEPT ![o] = [new EXCEPT !.active = active]]
     /\ shown' = IF verify THEN [shown EXCEPT ![o] = new] ELSE shown
     /\ UNCHANGED <<provider, contact, master, picked, confirmed, Filing>> /\ Through

----------------------------------------------------------------------------
(* What the pages offer to somebody who may edit the kind *)

InUse(p) == provider[p].trash = "no" /\ ~provider[p].archived
Buttons(p) ==
  {<<"delete">>}
  \cup (IF provider[p].trash # "no" THEN {<<"restore_trash">>}
        ELSE IF provider[p].archived THEN {<<"restore_archive">>}
        ELSE {<<"status">>, <<"archive">>, <<"edit">>})
  \cup (IF ~InUse(p) THEN {} ELSE
        UNION {{<<"offer_edit", o>>, <<"offer_status", o>>, <<"offer_delete", o>>} : o \in Offers(p)}
        \cup {<<"offer_verify", o>> : o \in {o \in Offers(p) : offer[o].active \/ Role(p) = "manpower"}}
        \cup UNION {{<<"contact_edit", c>>, <<"contact_delete", c>>} : c \in Contacts(p)}
        \cup {<<"contact_deactivate", c>> : c \in {c \in Contacts(p) : contact[c].active}}
        \cup UNION {{<<"document_edit", f>>, <<"document_review", f>>, <<"document_delete", f>>} :
                      f \in Documents(p)}
        \cup (IF Role(p) # "subcontractor" THEN {} ELSE
              {<<"trash">>} \cup (IF provider[p].active THEN {<<"verify">>} ELSE {})))

(* What a button sends, as the page fills it in.                            *)
Pressed(may, p, b) ==
  LET of == b[2] row == offer[b[2]] now == provider[p] IN
  \/ b = <<"delete">> /\ (\/ vendor_delete(may, p) \/ manpower_supplier_delete(may, p)
                          \/ subcontractor_delete(may, p))
  \/ b = <<"restore_trash">> /\ (\/ vendor_restore_trash(may, p)
                                 \/ manpower_supplier_restore_trash(may, p)
                                 \/ subcontractor_restore_trash(may, p))
  \/ b = <<"restore_archive">> /\ (\/ vendor_restore_archive(may, p)
                                   \/ manpower_supplier_restore_archive(may, p)
                                   \/ subcontractor_restore_archive(may, p))
  \/ b = <<"status">> /\ (\/ vendor_status(may, p, ~now.active)
                          \/ manpower_supplier_status(may, p, ~now.active)
                          \/ subcontractor_status(may, p, ~now.active))
  \/ b = <<"archive">> /\ (\/ vendor_archive(may, p) \/ manpower_supplier_archive(may, p)
                           \/ subcontractor_archive(may, p))
  \/ b = <<"trash">> /\ subcontractor_trash(may, p)
  \/ b = <<"verify">> /\ subcontractor_verify(may, p)
  \/ b = <<"edit">> /\ (Open(may, p) \/ subcontractor_edit(may, p, now.profile, now.named))
  \/ b[1] = "contact_edit" /\ (Open(may, p) \/ subcontractor_contact_edit(may, p, of, TRUE, TRUE))
  \/ b[1] = "contact_deactivate" /\ (\/ vendor_contact_deactivate(may, p, of)
                                     \/ manpower_contact_deactivate(may, p, of)
                                     \/ subcontractor_contact_deactivate(may, p, of))
  \/ b[1] = "contact_delete" /\ (\/ vendor_contact_delete(may, p, of)
                                 \/ manpower_contact_delete(may, p, of)
                                 \/ subcontractor_contact_delete(may, p, of))
  \/ b[1] = "offer_edit" /\ (\/ vendor_offer_edit(may, of, row.master, row.content, FALSE)
                             \/ workforce_offer_edit(may, of, row.master, row.content, FALSE)
                             \/ subcontractor_service_edit(may, of, row.master, row.content, FALSE))
  \/ b[1] = "offer_status" /\ (\/ vendor_offer_status(may, of, ~row.active)
                               \/ workforce_offer_status(may, of, ~row.active)
                               \/ subcontractor_service_status(may, of, ~row.active))
  \/ b[1] = "offer_delete" /\ (\/ vendor_offer_delete(may, of) \/ workforce_offer_delete(may, of)
                               \/ subcontractor_service_delete(may, of))
  \/ b[1] = "offer_verify" /\ (\/ vendor_offer_verify(may, of, row.content)
                               \/ workforce_offer_verify(may, of, row.content)
                               \/ subcontractor_service_verify(may, of, row.content))
  \/ b[1] = "document_edit" /\ subcontractor_document_edit(may, of, qualification[of].content)
  \/ b[1] = "document_review" /\ subcontractor_document_review(may, of, "REJECTED")
  \/ b[1] = "document_delete" /\ subcontractor_document_delete(may, of)

(* Subcontractors have reasons of their own to refuse.                      *)
Objection(p, b) ==
  \/ b = <<"restore_trash">> /\ Role(p) = "subcontractor" /\ provider[p].trash = "expired"
  \/ b = <<"delete">> /\ Role(p) = "subcontractor" /\ (Offers(p) # {} \/ Documents(p) # {})
  \/ b[1] = "offer_verify" /\ ~offer[b[2]].active
  \/ /\ b[1] \in {"offer_verify", "offer_status"} /\ Role(p) = "subcontractor"
     /\ ~master[offer[b[2]].master]

(* The finder, which an export can be limited to: what could be ordered.    *)
InFinder(o) ==
  /\ offer[o] # None /\ offer[o].active /\ master[offer[o].master] = TRUE
  /\ InUse(Owner(o)) /\ provider[Owner(o)].active

----------------------------------------------------------------------------

EntryNext(may, p) ==
  \/ \E profile \in Content :
       \/ \E seeds \in SUBSET Offer, x \in Master, draft \in BOOLEAN, verify \in BOOLEAN :
            \/ vendor_create(may, p, profile, seeds, x, draft, verify)
            \/ manpower_supplier_create(may, p, profile, seeds, x, draft, verify)
            \/ subcontractor_create(may, p, profile, seeds, x, draft, verify)
       \/ \E named \in Contact \cup {None} :
            \/ vendor_edit(p, profile, named) \/ manpower_supplier_edit(p, profile, named)
            \/ subcontractor_edit(may, p, profile, named)
            \/ \E active \in BOOLEAN : \/ vendor_row(may, p, profile, named, active)
                                       \/ manpower_supplier_row(may, p, profile, named, active)
                                       \/ subcontractor_row(may, p, profile, named, active)
  \/ \E active \in BOOLEAN :
       \/ vendor_status(may, p, active) \/ manpower_supplier_status(may, p, active)
       \/ subcontractor_status(may, p, active)
  \/ vendor_archive(may, p) \/ manpower_supplier_archive(may, p) \/ subcontractor_archive(may, p)
  \/ vendor_restore_archive(may, p) \/ manpower_supplier_restore_archive(may, p)
  \/ subcontractor_restore_archive(may, p)
  \/ vendor_trash(may, p) \/ manpower_supplier_trash(may, p) \/ subcontractor_trash(may, p)
  \/ vendor_restore_trash(may, p) \/ manpower_supplier_restore_trash(may, p)
  \/ subcontractor_restore_trash(may, p)
  \/ vendor_delete(may, p) \/ manpower_supplier_delete(may, p) \/ subcontractor_delete(may, p)
  \/ subcontractor_verify(may, p) \/ Open(may, p)
  \/ PassRetention(p) /\ Through

ContactNext(may, p, c) ==
  \/ \E primary \in BOOLEAN :
       \/ vendor_contact_create(p, c, primary) \/ manpower_contact_create(p, c, primary)
       \/ vendor_contact_edit(p, c, primary) \/ manpower_contact_edit(p, c, primary)
       \/ \E active \in BOOLEAN : \/ subcontractor_contact_create(may, p, c, primary, active)
                                  \/ subcontractor_contact_edit(may, p, c, primary, active)
  \/ vendor_contact_deactivate(may, p, c) \/ manpower_contact_deactivate(may, p, c)
  \/ subcontractor_contact_deactivate(may, p, c)
  \/ vendor_contact_delete(may, p, c) \/ manpower_contact_delete(may, p, c)
  \/ subcontractor_contact_delete(may, p, c)

MasterNext(may, x) ==
  \/ material_create(may, x) \/ trade_create(may, x) \/ service_create(may, x)
  \/ reference_lookup(may, x) \/ Choose(may, x)
  \/ material_delete(may, x) \/ trade_delete(may, x) \/ service_delete(may, x)
  \/ \E active \in BOOLEAN :
       \/ material_status(may, x, active) \/ trade_status(may, x, active)
       \/ service_status(may, x, active)
       \/ material_row(may, x, active) \/ trade_row(may, x, active) \/ service_row(may, x, active)

OfferNext(may, o) ==
  \/ \E x \in Master, content \in Content, verify \in BOOLEAN :
       \/ \E p \in Provider :
            \/ vendor_offer_create(may, p, o, x, content, verify)
            \/ workforce_offer_create(may, p, o, x, content, verify)
            \/ subcontractor_service_create(may, p, o, x, content, verify)
            \/ \E active \in BOOLEAN :
                 \/ vendor_catalog_row(may, p, o, x, content, verify, active)
                 \/ workforce_catalog_row(may, p, o, x, content, verify, active)
                 \/ service_catalog_row(may, p, o, x, content, verify, active)
       \/ vendor_offer_edit(may, o, x, content, verify)
       \/ workforce_offer_edit(may, o, x, content, verify)
       \/ subcontractor_service_edit(may, o, x, content, verify)
  \/ \E active \in BOOLEAN :
       \/ vendor_offer_status(may, o, active) \/ workforce_offer_status(may, o, active)
       \/ subcontractor_service_status(may, o, active)
  \/ \E content \in Content :
       \/ vendor_offer_verify(may, o, content) \/ workforce_offer_verify(may, o, content)
       \/ subcontractor_service_verify(may, o, content)
  \/ vendor_offer_delete(may, o) \/ workforce_offer_delete(may, o)
  \/ subcontractor_service_delete(may, o)

FileNext(may, f) ==
  \/ \E p \in Provider : subcontractor_document_create(may, p, f)
  \/ \E content \in Content : subcontractor_document_edit(may, f, content) \/ FilingGoesOn(f, content)
  \/ \E verdict \in {"APPROVED", "REJECTED"} : subcontractor_document_review(may, f, verdict)
  \/ subcontractor_document_delete(may, f)

DirectoryNext == \E may \in Rights :
  \/ \E p \in Provider : EntryNext(may, p) \/ \E c \in Contact : ContactNext(may, p, c)
  \/ \E x \in Master : MasterNext(may, x)
  \/ \E o \in Offer : OfferNext(may, o)
  \/ \E f \in File : FileNext(may, f)

DirectorySpec == DirectoryInit /\ [][DirectoryNext]_directoryVars

----------------------------------------------------------------------------
(* Properties *)

(* The lifecycle card: "Restoring keeps the vendor inactive".  What is out  *)
(* of use is not in the finder, whichever form, row or late edit touched it.*)
ArchivedQuiet ==
  \A p \in Provider : provider[p] # None /\ provider[p].archived => ~provider[p].active

(* The templates offer what the views and services accept, whoever sees     *)
(* them, but for the objections a page does not show.                       *)
ButtonsWork ==
  \A p \in Provider : Unheld(p) =>
    \A b \in Buttons(p), may \in Rights :
      Role(p) \in may => Objection(p, b) \/ ENABLED Pressed(may, p, b)

(* exchange.py: what the finder exports, and the entries that are not in    *)
(* Trash (a subcontractor's: nor archived), can be imported again.          *)
ExportsComeBack ==
  \A may \in Rights, p \in Provider : Present(p) /\ Role(p) \in may =>
    LET now == provider[p] IN
    /\ InUse(p) \/ Role(p) # "subcontractor" =>
         ENABLED (\/ vendor_row(may, p, now.profile, now.named, now.active)
                  \/ manpower_supplier_row(may, p, now.profile, now.named, now.active)
                  \/ subcontractor_row(may, p, now.profile, now.named, now.active))
    /\ \A o \in Offers(p) : InFinder(o) =>
         LET row == offer[o] IN
         ENABLED (\/ vendor_catalog_row(may, p, o, row.master, row.content, FALSE, TRUE)
                  \/ workforce_catalog_row(may, p, o, row.master, row.content, FALSE, TRUE)
                  \/ service_catalog_row(may, p, o, row.master, row.content, FALSE, TRUE))

(* The directory is typed and says what was confirmed.                      *)
DirectoryTrue == DirectoryTypeOK /\ DirectorySound /\ ArchivedQuiet

(* Its pages and its workbooks agree with its services.                     *)
DirectoryOffers == ButtonsWork /\ ExportsComeBack
=============================================================================
