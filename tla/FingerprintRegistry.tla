-------------------------- MODULE FingerprintRegistry --------------------------
(***************************************************************************)
(* The registry of known prints: the fingerprints collection, the images   *)
(* it refers to, and the administrators' requests that register, change    *)
(* and delete prints.  Registration stores the image first, then extracts  *)
(* a template from it, then writes the document; a change reads a document *)
(* and writes all of it back; nothing spans two steps.                     *)
(***************************************************************************)
EXTENDS Integers, FiniteSets

CONSTANTS
    PrintID,        \* ObjectIDs for the documents and the image files
    Image,        \* pictures an administrator may upload
    Featureless,  \* those that cannot be decoded or give no template
    Request,      \* administrators' requests handled at the same time
    Faults,       \* the faults that occur: "cloud" (an upload reports an error), "reject" (Cloudinary
                  \* answers that it does not take the image), "disk", "db_read", "db_write", "crash"
    Changes,      \* the changes that occur: "update", "delete"
    NoPrint, NoImage

Place  == { "cloud", "local" }

\* Where an image_url leads; "none" is the empty URL.
Origin == Place \cup { "none" }

Status == { "active", "archived", "deleted" }

ASSUME FeaturelessAssumption == Featureless \subseteq Image
ASSUME FaultsAssumption ==
    Faults \subseteq { "cloud", "reject", "disk", "db_read", "db_write", "crash" }
ASSUME ChangesAssumption == Changes \subseteq { "update", "delete" }

\* A template is named by the picture it was extracted from; url is where the image is.
Fingerprint == [ image : Image, template : Image, url : Origin, status : Status ]

ASSUME NullAssumption == NoPrint \notin Fingerprint \cup PrintID /\ NoImage \notin Image

\* What a handler holds: the document it works on, the one it builds or has read, the
\* status it is asked to set.
Handling ==
    [ pc     : { "idle", "upload", "local", "extract", "insert", "read", "write", "delete", "audit" },
      kind   : { "create", "update", "delete" },
      print  : PrintID \cup {NoPrint},
      image  : Image \cup {NoImage},
      template : Image \cup {NoImage},
      url    : Origin,
      status : Status,
      copy   : Fingerprint \cup {NoPrint} ]

VARIABLES
    prints,   \* the fingerprints collection, deleted ones included
    files,    \* image files: pairs <<place, print>>
    admin,    \* the administrators' requests being handled
    logged,   \* the audit log: pairs <<action, print>>
    told,     \* history: the prints answered 201
    rejected  \* history: the prints whose image Cloudinary would not take

registry == << prints, files, admin, logged, told, rejected >>

Idle == [ pc |-> "idle", kind |-> "create", print |-> NoPrint, image |-> NoImage,
          template |-> NoImage, url |-> "cloud", status |-> "active", copy |-> NoPrint ]

\* What a handler holds when.
WellFormed(h) ==
    /\ h.pc \in { "upload", "local", "extract", "insert" } =>
          h.kind = "create" /\ h.print \in PrintID /\ h.image \in Image
    /\ h.pc = "insert" => h.template \in Image
    /\ h.pc \in { "read", "write" } => h.kind = "update"
    /\ h.pc = "write" => /\ h.print \in PrintID /\ h.copy # NoPrint
                         /\ prints[h.print] # NoPrint
                         /\ h.copy = [ prints[h.print] EXCEPT !.status = h.copy.status ]
    /\ h.pc = "delete" => h.kind = "delete"
    /\ h.pc = "audit" /\ h.kind # "delete" => h.print \in PrintID

RegistryTypeOK ==
    /\ prints \in [ PrintID -> Fingerprint \cup {NoPrint} ]
    /\ files  \subseteq Place \X PrintID
    /\ admin  \in [ Request -> Handling ]
    /\ logged \subseteq { "fingerprint.created", "fingerprint.updated", "fingerprint.deleted" }
                          \X (PrintID \cup {NoPrint})
    /\ told     \subseteq PrintID
    /\ rejected \subseteq PrintID
    /\ \A r \in Request : WellFormed(admin[r])

RegistryInit ==
    /\ prints = [ p \in PrintID |-> NoPrint ]
    /\ files  = {}
    /\ admin  = [ r \in Request |-> Idle ]
    /\ logged = {}
    /\ told   = {}
    /\ rejected = {}

-----------------------------------------------------------------------------
Stored(p) == p \in PrintID /\ prints[p] # NoPrint

\* GetByID finds every print but the deleted ones; GetAllActive the active ones.
Findable(p) == Stored(p) /\ prints[p].status # "deleted"
ActivePrints == { p \in PrintID : Stored(p) /\ prints[p].status = "active" }

ReadFails == "db_read" \in Faults

WriteResults == { "ok" } \cup (IF "db_write" \in Faults
                               THEN { "refused", "unacknowledged" } ELSE {})

\* An id that nothing uses yet.
Fresh(p) ==
    /\ prints[p] = NoPrint
    /\ p \notin rejected /\ \A place \in Place : << place, p >> \notin files
    /\ \A r \in Request : admin[r].print # p

At(r, pc) == admin[r].pc = pc

Becomes(r, h) == admin' = [ admin EXCEPT ![r] = h ]

Fail(r) == Becomes(r, Idle) /\ UNCHANGED << prints, files, logged, told, rejected >>

Continue(r, h) == Becomes(r, h) /\ UNCHANGED << prints, files, logged, told, rejected >>

-----------------------------------------------------------------------------
(***************************************************************************)
(* Registration.                                                           *)
(***************************************************************************)

ReceivePrint(r) ==
    /\ At(r, "idle")
    /\ \E p \in PrintID, i \in Image :
          /\ Fresh(p)
          /\ Continue(r, [ Idle EXCEPT !.pc = "upload", !.print = p, !.image = i ])

\* To Cloudinary; an upload that reports an error may have stored the file all the same.  The
\* library returns a rejection by Cloudinary in the response, which is not looked at: there is
\* no error, no URL and no reason to fall back to the disk.
UploadImage(r) ==
    /\ At(r, "upload")
    /\ \/ /\ files' = files \cup { << "cloud", admin[r].print >> }
          /\ Becomes(r, [ admin[r] EXCEPT !.pc = "extract", !.url = "cloud" ])
          /\ UNCHANGED rejected
       \/ /\ "cloud" \in Faults
          /\ files' \in { files, files \cup { << "cloud", admin[r].print >> } }
          /\ Becomes(r, [ admin[r] EXCEPT !.pc = "local" ])
          /\ UNCHANGED rejected
       \/ /\ "reject" \in Faults
          /\ rejected' = rejected \cup { admin[r].print }
          /\ Becomes(r, [ admin[r] EXCEPT !.pc = "extract", !.url = "none" ])
          /\ UNCHANGED files
    /\ UNCHANGED << prints, logged, told >>

\* Faulty variant: the error of the local write is not looked at.
StoreImageLocallyUnchecked(r) ==
    /\ At(r, "local")
    /\ files' \in { files \cup { << "local", admin[r].print >> } }
                    \cup (IF "disk" \in Faults THEN { files } ELSE {})
    /\ Becomes(r, [ admin[r] EXCEPT !.pc = "extract", !.url = "local" ])
    /\ UNCHANGED << prints, logged, told, rejected >>

StoreImageLocally(r) ==
    /\ At(r, "local")
    /\ \/ /\ files' = files \cup { << "local", admin[r].print >> }
          /\ Becomes(r, [ admin[r] EXCEPT !.pc = "extract", !.url = "local" ])
          /\ UNCHANGED << prints, logged, told, rejected >>
       \/ "disk" \in Faults /\ Fail(r)

ExtractTemplate(r) ==
    /\ At(r, "extract")
    /\ IF admin[r].image \in Featureless THEN Fail(r)
       ELSE Continue(r, [ admin[r] EXCEPT !.pc = "insert", !.template = admin[r].image ])

Registered(h) ==
    [ image |-> h.image, template |-> h.template, url |-> h.url, status |-> "active" ]

\* Faulty variant: an insertion that fails is answered like one that succeeds.
InsertPrintUnchecked(r) ==
    /\ At(r, "insert")
    /\ \E result \in WriteResults :
          prints' = IF result = "refused" THEN prints
                    ELSE [ prints EXCEPT ![admin[r].print] = Registered(admin[r]) ]
    /\ Becomes(r, [ admin[r] EXCEPT !.pc = "audit" ])
    /\ UNCHANGED << files, logged, told, rejected >>

InsertPrint(r) ==
    /\ At(r, "insert")
    /\ \E result \in WriteResults :
          /\ prints' = IF result = "refused" THEN prints
                       ELSE [ prints EXCEPT ![admin[r].print] = Registered(admin[r]) ]
          /\ Becomes(r, IF result = "ok" THEN [ admin[r] EXCEPT !.pc = "audit" ] ELSE Idle)
    /\ UNCHANGED << files, logged, told, rejected >>

-----------------------------------------------------------------------------
(***************************************************************************)
(* Changes and deletions.  The id an administrator names is one of the     *)
(* collection or of no print.                                              *)
(***************************************************************************)

ReceiveChange(r) ==
    /\ At(r, "idle")
    /\ \E p \in PrintID \cup {NoPrint}, s \in Status :
          /\ Stored(p) \/ p = NoPrint
          /\ \/ /\ "update" \in Changes
                /\ Continue(r, [ Idle EXCEPT !.pc = "read", !.kind = "update", !.print = p,
                                            !.status = s ])
             \/ /\ "delete" \in Changes /\ s = "active"
                /\ Continue(r, [ Idle EXCEPT !.pc = "delete", !.kind = "delete", !.print = p ])

\* Faulty variant: a print that is not found is written all the same.
ReadPrintUnchecked(r) ==
    /\ At(r, "read")
    /\ Continue(r, [ admin[r] EXCEPT !.pc = "write",
                                     !.copy = IF Findable(admin[r].print)
                                              THEN prints[admin[r].print] ELSE NoPrint ])

ReadPrint(r) ==
    /\ At(r, "read")
    /\ \/ /\ Findable(admin[r].print)
          /\ Continue(r, [ admin[r] EXCEPT !.pc = "write", !.copy = prints[admin[r].print] ])
       \/ (~Findable(admin[r].print) \/ ReadFails) /\ Fail(r)

\* Faulty variant: the document is rebuilt from the request instead of from the copy.
ChangedRebuilt(h) ==
    [ h.copy EXCEPT !.status = h.status, !.url = "cloud", !.template = h.copy.image ]

\* A request changes the label, which is not modelled, and the status if it names one.
Changed(h) == [ h.copy EXCEPT !.status = h.status ]

WritePrint(r) ==
    /\ At(r, "write")
    /\ \E result \in WriteResults :
          /\ prints' = IF result = "refused" THEN prints
                       ELSE [ prints EXCEPT ![admin[r].print] = Changed(admin[r]) ]
          /\ Becomes(r, IF result = "ok" THEN [ admin[r] EXCEPT !.pc = "audit", !.copy = NoPrint ]
                        ELSE Idle)
    /\ UNCHANGED << files, logged, told, rejected >>

DeletePrint(r) ==
    /\ At(r, "delete")
    /\ \E result \in WriteResults :
          /\ prints' = IF result = "refused" \/ ~Stored(admin[r].print) THEN prints
                       ELSE [ prints EXCEPT ![admin[r].print].status = "deleted" ]
          /\ Becomes(r, IF result = "ok" THEN [ admin[r] EXCEPT !.pc = "audit" ] ELSE Idle)
    /\ UNCHANGED << files, logged, told, rejected >>

ActionOf(kind) ==
    CASE kind = "create" -> "fingerprint.created"
      [] kind = "update" -> "fingerprint.updated"
      [] kind = "delete" -> "fingerprint.deleted"

\* The audit entry, whose error is discarded, and the answer.
LogAndAnswer(r) ==
    /\ At(r, "audit")
    /\ \E result \in WriteResults :
          logged' = IF result = "refused" THEN logged
                    ELSE logged \cup { << ActionOf(admin[r].kind), admin[r].print >> }
    /\ told' = IF admin[r].kind = "create" THEN told \cup { admin[r].print } ELSE told
    /\ Becomes(r, Idle)
    /\ UNCHANGED << prints, files, rejected >>

RegistryCrash ==
    /\ "crash" \in Faults
    /\ admin' = [ r \in Request |-> Idle ]
    /\ UNCHANGED << prints, files, logged, told, rejected >>

RegistryStep(r) ==
    \/ ReceivePrint(r) \/ UploadImage(r) \/ StoreImageLocally(r) \/ ExtractTemplate(r)
    \/ InsertPrint(r) \/ ReceiveChange(r) \/ ReadPrint(r) \/ WritePrint(r) \/ DeletePrint(r)
    \/ LogAndAnswer(r)

RegistryNext == (\E r \in Request : RegistryStep(r)) \/ RegistryCrash

RegistrySpec == RegistryInit /\ [][RegistryNext]_registry

-----------------------------------------------------------------------------
(***************************************************************************)
(* Properties.                                                             *)
(***************************************************************************)

\* Where a print's URL leads there is its image, and only a print whose image Cloudinary
\* rejected has an empty one.
UrlTrue(url, p) == IF url = "none" THEN p \in rejected ELSE << url, p >> \in files

\* Whatever failed on the way, a print in the collection is searched by what it shows: its
\* template was extracted from the very image that is where its URL says, and its URL is
\* empty in one case only, a rejection by Cloudinary, which the handler does not see
\* (CreateFingerprint of the handler and of the service).
RegisteredPrintsAreWhole ==
    \A p \in PrintID : Stored(p) =>
        /\ UrlTrue(prints[p].url, p)
        /\ prints[p].template = prints[p].image
        /\ prints[p].image \notin Featureless

\* A print whose registration was answered 201 or logged is in the collection
\* (CreateFingerprint of the handler and of the service).
AcknowledgedIsRegistered ==
    \A p \in PrintID : p \in told \/ << "fingerprint.created", p >> \in logged => Stored(p)

\* Concurrent changes and deletions, each writing back what it once read, leave a print's
\* image, template and URL alone, and lose no print (fingerprintRepo.Update, Delete).
IdentityIsImmutable ==
    [][ \A p \in PrintID : Stored(p) =>
          /\ prints'[p] # NoPrint
          /\ prints'[p].image = prints[p].image
          /\ prints'[p].template = prints[p].template
          /\ prints'[p].url = prints[p].url ]_registry

\* "DeleteFingerprint deletes a fingerprint by its ID" (fingerprint_handler.go:179): a
\* deleted print stays deleted.
DeletedPrintStaysDeleted ==
    [][ \A p \in PrintID : Stored(p) /\ prints[p].status = "deleted" =>
          prints'[p].status = "deleted" ]_registry
===============================================================================
