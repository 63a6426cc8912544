----------------------- MODULE FingerprintRegistryProofs -----------------------
(***************************************************************************)
(* Proofs about FingerprintRegistry, for any prints, pictures, requests    *)
(* and faults.  The inductive invariant says of every handler what its     *)
(* position has made true of the print it works on; no step undoes that    *)
(* for another handler, because a print being registered is its handler's  *)
(* own (Exclusive) and a registered one keeps its identity (KeepsPrints).  *)
(***************************************************************************)
EXTENDS FingerprintRegistry, TLAPS

USE FeaturelessAssumption, NullAssumption

\* From the choice of an id to the insertion of its document.
Registering == { "upload", "local", "extract", "insert" }

\* What a handler has achieved when it gets to a step.
HandlerTrue(h) ==
    /\ h.pc \in Registering => prints[h.print] = NoPrint
    /\ h.pc \in { "extract", "insert" } => UrlTrue(h.url, h.print)
    /\ h.pc = "insert" => h.template = h.image /\ h.image \notin Featureless
    /\ h.pc = "audit" /\ h.kind = "create" => Stored(h.print)

HandlerOK(r) == WellFormed(admin[r]) /\ HandlerTrue(admin[r])

\* No two registrations are of one print.
Exclusive ==
    \A q, r \in Request :
        q # r /\ admin[q].pc \in Registering /\ admin[r].pc \in Registering
          => admin[q].print # admin[r].print

CollectionOK ==
    /\ prints \in [ PrintID -> Fingerprint \cup {NoPrint} ]
    /\ files    \subseteq Place \X PrintID
    /\ rejected \subseteq PrintID
    /\ RegisteredPrintsAreWhole

LogOK ==
    /\ logged \subseteq { "fingerprint.created", "fingerprint.updated", "fingerprint.deleted" }
                          \X (PrintID \cup {NoPrint})
    /\ told   \subseteq PrintID
    /\ AcknowledgedIsRegistered

RegistryInv ==
    /\ CollectionOK
    /\ LogOK
    /\ admin \in [ Request -> Handling ]
    /\ \A r \in Request : HandlerOK(r)
    /\ Exclusive

\* What no step does to a print that is in the collection, to a file or to a rejection.
KeepsPrints ==
    /\ \A p \in PrintID : Stored(p) =>
          /\ prints'[p] # NoPrint
          /\ prints'[p].image    = prints[p].image
          /\ prints'[p].template = prints[p].template
          /\ prints'[p].url      = prints[p].url
    /\ files \subseteq files' /\ rejected \subseteq rejected'

LEMMA RegistryInvImplies ==
    RegistryInv => RegistryTypeOK /\ RegisteredPrintsAreWhole /\ AcknowledgedIsRegistered
BY DEF RegistryInv, CollectionOK, LogOK, HandlerOK, RegistryTypeOK

LEMMA IdleOK == Idle \in Handling /\ Idle.pc = "idle" /\ Idle.print = NoPrint
BY DEF Idle, Handling, Origin, Place, Status

LEMMA RegistryInitInv == RegistryInit => RegistryInv
<1> SUFFICES ASSUME RegistryInit PROVE RegistryInv
  OBVIOUS
<1>1. CollectionOK /\ LogOK
  BY DEF RegistryInit, CollectionOK, LogOK, RegisteredPrintsAreWhole, AcknowledgedIsRegistered,
         Stored
<1>2. admin \in [ Request -> Handling ] /\ \A r \in Request : admin[r] = Idle
  BY IdleOK DEF RegistryInit
<1>3. (\A r \in Request : HandlerOK(r)) /\ Exclusive
  BY <1>2, IdleOK DEF HandlerOK, WellFormed, HandlerTrue, Exclusive, Registering
<1> QED
  BY <1>1, <1>2, <1>3 DEF RegistryInv

-----------------------------------------------------------------------------
(***************************************************************************)
(* What a step leaves of the collection and of the other handlers.         *)
(***************************************************************************)

LEMMA SamePrints ==
    ASSUME RegistryInv, UNCHANGED << prints, files, rejected >>
    PROVE  CollectionOK' /\ KeepsPrints
BY DEF RegistryInv, CollectionOK, KeepsPrints, RegisteredPrintsAreWhole, UrlTrue, Stored

LEMMA SameLog ==
    ASSUME RegistryInv, KeepsPrints, UNCHANGED << logged, told >>
    PROVE  LogOK'
BY DEF RegistryInv, LogOK, KeepsPrints, AcknowledgedIsRegistered, Stored

\* A print's document p becomes f, which says of its identity what the old one said.
LEMMA RewrittenPrint ==
    ASSUME RegistryInv, NEW p \in PrintID, Stored(p), NEW f \in Fingerprint,
           f.image = prints[p].image, f.template = prints[p].template, f.url = prints[p].url,
           prints' = [ prints EXCEPT ![p] = f ], UNCHANGED << files, rejected >>
    PROVE  CollectionOK' /\ KeepsPrints /\ \A q \in PrintID : Stored(q)' => Stored(q)
<1>1. \A q \in PrintID : prints'[q] = IF q = p THEN f ELSE prints[q]
  BY DEF RegistryInv, CollectionOK
<1>2. prints' \in [ PrintID -> Fingerprint \cup {NoPrint} ]
  BY DEF RegistryInv, CollectionOK
<1>3. f # NoPrint
  OBVIOUS
<1>4. KeepsPrints /\ \A q \in PrintID : Stored(q)' => Stored(q)
  BY <1>1, <1>3 DEF KeepsPrints, Stored
<1>5. RegisteredPrintsAreWhole'
  BY <1>1 DEF RegistryInv, CollectionOK, RegisteredPrintsAreWhole, UrlTrue, Stored
<1> QED
  BY <1>2, <1>4, <1>5 DEF CollectionOK, RegistryInv

\* A handler that did not move is still in order, if its own print is still unregistered.
LEMMA HandlerKept ==
    ASSUME RegistryInv, KeepsPrints, CollectionOK', NEW r \in Request, admin'[r] = admin[r],
           admin[r].pc \in Registering => prints'[admin[r].print] = prints[admin[r].print]
    PROVE  HandlerOK(r)'
<1> DEFINE h == admin[r]
<1>1. h \in Handling /\ WellFormed(h) /\ HandlerTrue(h) /\ admin'[r] = h
  BY DEF RegistryInv, HandlerOK
<1>2. h.pc \in Registering => prints'[h.print] = prints[h.print]
  OBVIOUS
<1>3. \A p \in PrintID : prints[p] # NoPrint => prints[p] \in Fingerprint /\ prints'[p] \in Fingerprint
  BY DEF RegistryInv, CollectionOK, KeepsPrints, Stored
<1> HIDE DEF h
<1>4. h.pc = "write" => h.copy = [ prints'[h.print] EXCEPT !.status = h.copy.status ]
  <2> SUFFICES ASSUME h.pc = "write"
               PROVE  h.copy = [ prints'[h.print] EXCEPT !.status = h.copy.status ]
    OBVIOUS
  <2>1. /\ h.print \in PrintID /\ prints[h.print] # NoPrint
        /\ h.copy = [ prints[h.print] EXCEPT !.status = h.copy.status ]
    BY <1>1 DEF WellFormed
  <2>2. PICK f \in Fingerprint : f = prints[h.print]
    BY <1>3, <2>1
  <2>3. PICK g \in Fingerprint : g = prints'[h.print]
    BY <1>3, <2>1
  <2>4. f.image = g.image /\ f.template = g.template /\ f.url = g.url
    BY <2>1, <2>2, <2>3 DEF KeepsPrints, Stored
  <2>5. \A s : [ f EXCEPT !.status = s ] = [ g EXCEPT !.status = s ]
    BY <2>4 DEF Fingerprint
  <2> QED
    BY <2>1, <2>2, <2>3, <2>5
<1>5. (WellFormed(admin[r]))'
  BY <1>1, <1>4 DEF WellFormed, KeepsPrints, Stored
<1>6. (HandlerTrue(admin[r]))'
  BY <1>1, <1>2 DEF HandlerTrue, KeepsPrints, UrlTrue, Stored
<1> QED
  BY <1>5, <1>6 DEF HandlerOK

\* No other handler registers the print that h registers.
Owns(r, h) ==
    h.pc \in Registering =>
        \A q \in Request \ {r} : admin[q].pc \in Registering => admin[q].print # h.print

LEMMA StillOwns ==
    ASSUME RegistryInv, NEW r \in Request, admin[r].pc \in Registering,
           NEW h, h.print = admin[r].print
    PROVE  Owns(r, h)
BY DEF RegistryInv, Exclusive, Owns

\* Request r becomes h, which is in order, and no other handler's print changed.
LEMMA Moved ==
    ASSUME RegistryInv, KeepsPrints, CollectionOK', LogOK',
           NEW r \in Request, NEW h \in Handling, Becomes(r, h), HandlerOK(r)',
           Owns(r, h),
           \A q \in Request \ {r} : admin[q].pc \in Registering =>
               prints'[admin[q].print] = prints[admin[q].print]
    PROVE  RegistryInv'
<1>1. admin' = [ admin EXCEPT ![r] = h ] /\ admin \in [ Request -> Handling ]
  BY DEF Becomes, RegistryInv
<1>2. admin'[r] = h /\ \A q \in Request \ {r} : admin'[q] = admin[q]
  BY <1>1
<1>3. \A q \in Request : HandlerOK(q)'
  BY <1>2, HandlerKept
<1>4. Exclusive'
  BY <1>2 DEF RegistryInv, Exclusive, Owns
<1>5. admin' \in [ Request -> Handling ]
  BY <1>1
<1> QED
  BY <1>3, <1>4, <1>5 DEF RegistryInv

LEMMA HandlingOf ==
    ASSUME RegistryInv, NEW r \in Request
    PROVE  admin[r] \in Handling /\ WellFormed(admin[r]) /\ HandlerTrue(admin[r])
BY DEF RegistryInv, HandlerOK

\* A step that only changes what one handler holds.
LEMMA Continued ==
    ASSUME RegistryInv, NEW r \in Request, NEW h \in Handling, Continue(r, h),
           WellFormed(h), HandlerTrue(h),
           Owns(r, h)
    PROVE  RegistryInv' /\ KeepsPrints
<1>1. Becomes(r, h) /\ UNCHANGED << prints, files, logged, told, rejected >>
  BY DEF Continue
<1>2. CollectionOK' /\ KeepsPrints /\ LogOK'
  BY <1>1, SamePrints, SameLog
<1>3. (admin[r])' = h
  BY <1>1 DEF Becomes, RegistryInv
<1>4. HandlerOK(r)'
  BY <1>1, <1>3 DEF HandlerOK, WellFormed, HandlerTrue, UrlTrue, Stored
<1> QED
  BY <1>1, <1>2, <1>4, Moved

LEMMA IdleTrue == WellFormed(Idle) /\ HandlerTrue(Idle)
BY IdleOK DEF WellFormed, HandlerTrue, Registering

LEMMA MovedToIdle ==
    ASSUME RegistryInv, KeepsPrints, CollectionOK', LogOK',
           NEW r \in Request, Becomes(r, Idle),
           \A q \in Request \ {r} : admin[q].pc \in Registering =>
               prints'[admin[q].print] = prints[admin[q].print]
    PROVE  RegistryInv'
<1>1. (admin[r])' = Idle
  BY DEF Becomes, RegistryInv
<1>2. HandlerOK(r)'
  BY <1>1, IdleOK DEF HandlerOK, WellFormed, HandlerTrue, Registering
<1> QED
  BY <1>2, IdleOK, Moved DEF Owns, Registering

LEMMA Failed ==
    ASSUME RegistryInv, NEW r \in Request, Fail(r)
    PROVE  RegistryInv' /\ KeepsPrints
BY IdleOK, IdleTrue, Continued DEF Fail, Continue, Registering, Owns

-----------------------------------------------------------------------------
(***************************************************************************)
(* Registration, step by step.                                             *)
(***************************************************************************)

LEMMA ReceivePrintKeeps ==
    ASSUME RegistryInv, NEW r \in Request, ReceivePrint(r)
    PROVE  RegistryInv' /\ KeepsPrints
<1>1. PICK p \in PrintID, i \in Image :
          Fresh(p) /\ Continue(r, [ Idle EXCEPT !.pc = "upload", !.print = p, !.image = i ])
  BY DEF ReceivePrint
<1>2. PICK h : h = [ Idle EXCEPT !.pc = "upload", !.print = p, !.image = i ]
  OBVIOUS
<1>3. h \in Handling /\ h.pc = "upload" /\ h.kind = "create" /\ h.print = p /\ h.image = i
  BY <1>2 DEF Idle, Handling, Origin, Place, Status
<1>4. WellFormed(h) /\ HandlerTrue(h) /\ Owns(r, h)
  BY <1>1, <1>3 DEF WellFormed, HandlerTrue, Owns, Fresh, Registering
<1> QED
  BY <1>1, <1>2, <1>3, <1>4, Continued

\* The image is stored at a place, rejected, or lost: the collection sees no difference.
LEMMA StoredImage ==
    ASSUME RegistryInv, NEW r \in Request, admin[r].pc \in Registering,
           NEW place \in Place,
           files' \in { files, files \cup { << place, admin[r].print >> } },
           rejected' \in { rejected, rejected \cup { admin[r].print } },
           NEW h \in Handling, Becomes(r, h), UNCHANGED << prints, logged, told >>,
           h.print = admin[r].print, h.image = admin[r].image, h.kind = admin[r].kind,
           h.pc \in { "local", "extract" },
           h.pc = "extract" => UrlTrue(h.url, h.print)'
    PROVE  RegistryInv' /\ KeepsPrints
<1>1. WellFormed(admin[r]) /\ HandlerTrue(admin[r]) /\ admin[r].print \in PrintID
  BY HandlingOf DEF WellFormed, Registering
<1>2. /\ files' \subseteq Place \X PrintID /\ files \subseteq files'
      /\ rejected' \subseteq PrintID /\ rejected \subseteq rejected'
  BY <1>1 DEF RegistryInv, CollectionOK
<1>3. CollectionOK' /\ KeepsPrints
  BY <1>2 DEF RegistryInv, CollectionOK, KeepsPrints, RegisteredPrintsAreWhole, UrlTrue, Stored
<1>4. LogOK'
  BY <1>3, SameLog
<1>5. (admin[r])' = h
  BY DEF Becomes, RegistryInv
<1>6. WellFormed(h)' /\ HandlerTrue(h)'
  BY <1>1 DEF WellFormed, HandlerTrue, Registering, UrlTrue
<1>7. HandlerOK(r)'
  BY <1>5, <1>6 DEF HandlerOK, WellFormed, HandlerTrue, UrlTrue, Stored
<1>8. Owns(r, h)
  BY StillOwns
<1> QED
  BY <1>3, <1>4, <1>7, <1>8, Moved

LEMMA UploadImageKeeps ==
    ASSUME RegistryInv, NEW r \in Request, UploadImage(r)
    PROVE  RegistryInv' /\ KeepsPrints
<1>1. admin[r] \in Handling /\ WellFormed(admin[r]) /\ admin[r].pc = "upload"
  BY HandlingOf DEF UploadImage, At
<1>2. admin[r].pc \in Registering /\ "cloud" \in Place /\ UNCHANGED << prints, logged, told >>
  BY <1>1 DEF UploadImage, Registering, Place
<1>3. CASE /\ files' = files \cup { << "cloud", admin[r].print >> }
           /\ Becomes(r, [ admin[r] EXCEPT !.pc = "extract", !.url = "cloud" ])
           /\ UNCHANGED rejected
  <2>1. PICK h : h = [ admin[r] EXCEPT !.pc = "extract", !.url = "cloud" ]
    OBVIOUS
  <2>2. /\ h \in Handling /\ h.pc = "extract" /\ h.url = "cloud"
        /\ h.print = admin[r].print /\ h.image = admin[r].image /\ h.kind = admin[r].kind
    BY <1>1, <2>1 DEF Handling, Origin, Place
  <2>3. UrlTrue(h.url, h.print)'
    BY <1>3, <2>2 DEF UrlTrue
  <2> QED
    BY <1>2, <1>3, <2>1, <2>2, <2>3, StoredImage
<1>4. CASE /\ files' \in { files, files \cup { << "cloud", admin[r].print >> } }
           /\ Becomes(r, [ admin[r] EXCEPT !.pc = "local" ])
           /\ UNCHANGED rejected
  <2>1. PICK h : h = [ admin[r] EXCEPT !.pc = "local" ]
    OBVIOUS
  <2>2. /\ h \in Handling /\ h.pc = "local"
        /\ h.print = admin[r].print /\ h.image = admin[r].image /\ h.kind = admin[r].kind
    BY <1>1, <2>1 DEF Handling
  <2> QED
    BY <1>2, <1>4, <2>1, <2>2, StoredImage
<1>5. CASE /\ rejected' = rejected \cup { admin[r].print }
           /\ Becomes(r, [ admin[r] EXCEPT !.pc = "extract", !.url = "none" ])
           /\ UNCHANGED files
  <2>1. PICK h : h = [ admin[r] EXCEPT !.pc = "extract", !.url = "none" ]
    OBVIOUS
  <2>2. /\ h \in Handling /\ h.pc = "extract" /\ h.url = "none"
        /\ h.print = admin[r].print /\ h.image = admin[r].image /\ h.kind = admin[r].kind
    BY <1>1, <2>1 DEF Handling, Origin, Place
  <2>3. UrlTrue(h.url, h.print)'
    BY <1>5, <2>2 DEF UrlTrue
  <2> QED
    BY <1>2, <1>5, <2>1, <2>2, <2>3, StoredImage
<1> QED
  BY <1>3, <1>4, <1>5 DEF UploadImage

LEMMA StoreImageLocallyKeeps ==
    ASSUME RegistryInv, NEW r \in Request, StoreImageLocally(r)
    PROVE  RegistryInv' /\ KeepsPrints
<1>1. admin[r] \in Handling /\ WellFormed(admin[r]) /\ admin[r].pc = "local"
  BY HandlingOf DEF StoreImageLocally, At
<1>2. PICK h : h = [ admin[r] EXCEPT !.pc = "extract", !.url = "local" ]
  OBVIOUS
<1>3. /\ h \in Handling /\ h.pc = "extract" /\ h.url = "local"
      /\ h.print = admin[r].print /\ h.image = admin[r].image /\ h.kind = admin[r].kind
  BY <1>1, <1>2 DEF Handling, Origin, Place
<1>4. CASE /\ files' = files \cup { << "local", admin[r].print >> }
           /\ Becomes(r, h)
           /\ UNCHANGED << prints, logged, told, rejected >>
  <2>1. admin[r].pc \in Registering /\ "local" \in Place
    BY <1>1 DEF Registering, Place
  <2>2. UrlTrue(h.url, h.print)'
    BY <1>3, <1>4 DEF UrlTrue
  <2> QED
    BY <1>3, <1>4, <2>1, <2>2, StoredImage
<1>5. CASE Fail(r)
  BY <1>5, Failed
<1> QED
  BY <1>2, <1>4, <1>5 DEF StoreImageLocally

LEMMA ExtractTemplateKeeps ==
    ASSUME RegistryInv, NEW r \in Request, ExtractTemplate(r)
    PROVE  RegistryInv' /\ KeepsPrints
<1>1. /\ admin[r] \in Handling /\ WellFormed(admin[r]) /\ HandlerTrue(admin[r])
      /\ admin[r].pc = "extract"
  BY HandlingOf DEF ExtractTemplate, At
<1>2. CASE admin[r].image \in Featureless
  BY <1>2, Failed DEF ExtractTemplate
<1>3. CASE admin[r].image \notin Featureless
  <2>1. PICK h : h = [ admin[r] EXCEPT !.pc = "insert", !.template = admin[r].image ]
    OBVIOUS
  <2>2. admin[r].image \in Image
    BY <1>1 DEF WellFormed
  <2>3. /\ h \in Handling /\ h.pc = "insert" /\ h.template = h.image
        /\ h.print = admin[r].print /\ h.image = admin[r].image /\ h.kind = admin[r].kind
        /\ h.url = admin[r].url
    BY <1>1, <2>1, <2>2 DEF Handling
  <2>4. WellFormed(h) /\ HandlerTrue(h)
    BY <1>1, <1>3, <2>3 DEF WellFormed, HandlerTrue, Registering
  <2>5. Owns(r, h)
    BY <1>1, <2>3, StillOwns DEF Registering
  <2> QED
    BY <1>3, <2>1, <2>3, <2>4, <2>5, Continued DEF ExtractTemplate
<1> QED
  BY <1>2, <1>3

LEMMA InsertPrintKeeps ==
    ASSUME RegistryInv, NEW r \in Request, InsertPrint(r)
    PROVE  RegistryInv' /\ KeepsPrints
<1> DEFINE g == admin[r]
           p == g.print
           f == Registered(g)
<1>1. /\ g \in Handling /\ WellFormed(g) /\ HandlerTrue(g) /\ g.pc = "insert"
      /\ g.kind = "create"
  BY HandlingOf DEF InsertPrint, At, WellFormed
<1>2. PICK result \in WriteResults :
          /\ prints' = IF result = "refused" THEN prints ELSE [ prints EXCEPT ![p] = f ]
          /\ Becomes(r, IF result = "ok" THEN [ g EXCEPT !.pc = "audit" ] ELSE Idle)
  BY DEF InsertPrint
<1>3. UNCHANGED << files, logged, told, rejected >>
  BY DEF InsertPrint
<1>4. /\ p \in PrintID /\ prints[p] = NoPrint /\ UrlTrue(g.url, p)
      /\ g.image \in Image /\ g.template = g.image /\ g.image \notin Featureless
  BY <1>1 DEF WellFormed, HandlerTrue, Registering
<1>5. /\ f \in Fingerprint /\ f # NoPrint /\ f.url = g.url /\ f.image = g.image
      /\ f.template = g.image
  BY <1>1, <1>4 DEF Registered, Fingerprint, Handling, Status
<1>6. prints \in [ PrintID -> Fingerprint \cup {NoPrint} ]
  BY DEF RegistryInv, CollectionOK
<1>7. \A q \in Request \ {r} : admin[q].pc \in Registering => admin[q].print # p
  BY <1>1 DEF RegistryInv, Exclusive, Registering
<1> HIDE DEF g, p, f
<1>8. CollectionOK' /\ KeepsPrints
  <2>1. CASE result = "refused"
    BY <1>2, <1>3, <2>1, SamePrints
  <2>2. CASE result # "refused"
    <3>1. \A q \in PrintID : prints'[q] = IF q = p THEN f ELSE prints[q]
      BY <1>2, <1>4, <1>6, <2>2
    <3>2. prints' \in [ PrintID -> Fingerprint \cup {NoPrint} ]
      BY <1>2, <1>4, <1>5, <1>6
    <3>3. RegisteredPrintsAreWhole'
      BY <1>3, <1>4, <1>5, <3>1 DEF RegistryInv, CollectionOK, RegisteredPrintsAreWhole, UrlTrue, Stored
    <3>4. KeepsPrints
      BY <1>3, <1>4, <3>1 DEF KeepsPrints, Stored
    <3> QED
      BY <1>3, <3>2, <3>3, <3>4 DEF CollectionOK, RegistryInv
  <2> QED
    BY <2>1, <2>2
<1>9. LogOK'
  BY <1>3, <1>8, SameLog
<1>10. \A q \in Request \ {r} : admin[q].pc \in Registering =>
           prints'[admin[q].print] = prints[admin[q].print]
  BY <1>2, <1>4, <1>6, <1>7, HandlingOf DEF WellFormed, Registering
<1>11. CASE result = "ok"
  <2>1. PICK h : h = [ g EXCEPT !.pc = "audit" ]
    OBVIOUS
  <2>2. /\ h \in Handling /\ h.pc = "audit" /\ h.kind = "create" /\ h.print = p
    BY <1>1, <2>1 DEF Handling, p
  <2>3. Becomes(r, h) /\ (admin[r])' = h
    BY <1>2, <1>11, <2>1 DEF Becomes, RegistryInv
  <2>4. prints'[p] # NoPrint
    BY <1>2, <1>4, <1>5, <1>6, <1>11
  <2>5. HandlerOK(r)'
    BY <1>4, <2>2, <2>3, <2>4 DEF HandlerOK, WellFormed, HandlerTrue, Stored, Registering
  <2>6. Owns(r, h)
    BY <2>2 DEF Owns, Registering
  <2> QED
    BY <1>8, <1>9, <1>10, <2>2, <2>3, <2>5, <2>6, Moved
<1>12. CASE result # "ok"
  BY <1>2, <1>8, <1>9, <1>10, <1>12, MovedToIdle
<1> QED
  BY <1>11, <1>12

-----------------------------------------------------------------------------
(***************************************************************************)
(* Changes and deletions, step by step.                                    *)
(***************************************************************************)

LEMMA ReceiveChangeKeeps ==
    ASSUME RegistryInv, NEW r \in Request, ReceiveChange(r)
    PROVE  RegistryInv' /\ KeepsPrints
<1>1. PICK p \in PrintID \cup {NoPrint}, s \in Status :
          \/ Continue(r, [ Idle EXCEPT !.pc = "read", !.kind = "update", !.print = p,
                                       !.status = s ])
          \/ Continue(r, [ Idle EXCEPT !.pc = "delete", !.kind = "delete", !.print = p ])
  BY DEF ReceiveChange
<1>2. PICK h : h = [ Idle EXCEPT !.pc = "read", !.kind = "update", !.print = p, !.status = s ]
  OBVIOUS
<1>3. PICK g : g = [ Idle EXCEPT !.pc = "delete", !.kind = "delete", !.print = p ]
  OBVIOUS
<1>4. h \in Handling /\ h.pc = "read" /\ h.kind = "update"
  BY <1>2 DEF Idle, Handling, Origin, Place, Status
<1>5. g \in Handling /\ g.pc = "delete" /\ g.kind = "delete"
  BY <1>3 DEF Idle, Handling, Origin, Place, Status
<1>6. WellFormed(h) /\ HandlerTrue(h) /\ Owns(r, h)
  BY <1>4 DEF WellFormed, HandlerTrue, Owns, Registering
<1>7. WellFormed(g) /\ HandlerTrue(g) /\ Owns(r, g)
  BY <1>5 DEF WellFormed, HandlerTrue, Owns, Registering
<1>8. Continue(r, h) \/ Continue(r, g)
  BY <1>1, <1>2, <1>3
<1> QED
  BY <1>4, <1>5, <1>6, <1>7, <1>8, Continued

LEMMA ReadPrintKeeps ==
    ASSUME RegistryInv, NEW r \in Request, ReadPrint(r)
    PROVE  RegistryInv' /\ KeepsPrints
<1>1. /\ admin[r] \in Handling /\ WellFormed(admin[r]) /\ admin[r].pc = "read"
      /\ admin[r].kind = "update"
  BY HandlingOf DEF ReadPrint, At, WellFormed
<1>2. PICK h : h = [ admin[r] EXCEPT !.pc = "write", !.copy = prints[admin[r].print] ]
  OBVIOUS
<1>3. CASE Findable(admin[r].print) /\ Continue(r, h)
  <2>1. /\ admin[r].print \in PrintID
        /\ prints[admin[r].print] \in Fingerprint /\ prints[admin[r].print] # NoPrint
    BY <1>3 DEF Findable, Stored, RegistryInv, CollectionOK
  <2>2. /\ h \in Handling /\ h.pc = "write" /\ h.kind = "update"
        /\ h.print = admin[r].print /\ h.copy = prints[h.print]
    BY <1>1, <1>2, <2>1 DEF Handling
  <2>3. h.copy = [ prints[h.print] EXCEPT !.status = h.copy.status ]
    BY <2>1, <2>2 DEF Fingerprint
  <2>4. WellFormed(h) /\ HandlerTrue(h) /\ Owns(r, h)
    BY <2>1, <2>2, <2>3 DEF WellFormed, HandlerTrue, Owns, Registering
  <2> QED
    BY <1>3, <2>2, <2>4, Continued
<1>4. CASE Fail(r)
  BY <1>4, Failed
<1> QED
  BY <1>2, <1>3, <1>4 DEF ReadPrint

\* A step that rewrites the document of r's print, or fails to, and ends in h or in nothing.
LEMMA Rewrites ==
    ASSUME RegistryInv, NEW r \in Request, NEW p \in PrintID, Stored(p),
           NEW f \in Fingerprint,
           f.image = prints[p].image, f.template = prints[p].template, f.url = prints[p].url,
           prints' = prints \/ prints' = [ prints EXCEPT ![p] = f ],
           UNCHANGED << files, logged, told, rejected >>,
           NEW h \in Handling, h.pc = "audit", h.kind # "create",
           h.kind # "delete" => h.print \in PrintID,
           Becomes(r, h) \/ Becomes(r, Idle)
    PROVE  RegistryInv' /\ KeepsPrints
<1>1. prints \in [ PrintID -> Fingerprint \cup {NoPrint} ]
  BY DEF RegistryInv, CollectionOK
<1>2. CollectionOK' /\ KeepsPrints
  BY SamePrints, RewrittenPrint
<1>3. LogOK'
  BY <1>2, SameLog
<1>4. \A q \in Request \ {r} : admin[q].pc \in Registering =>
          prints'[admin[q].print] = prints[admin[q].print]
  <2>1. ASSUME NEW q \in Request, admin[q].pc \in Registering
        PROVE  admin[q].print \in PrintID /\ prints[admin[q].print] = NoPrint
    BY <2>1, HandlingOf DEF HandlerTrue, WellFormed, Registering
  <2>2. \A x \in PrintID : prints[x] = NoPrint => prints'[x] = prints[x]
    BY <1>1 DEF Stored
  <2> QED
    BY <2>1, <2>2
<1>5. CASE Becomes(r, h)
  <2>1. (admin[r])' = h
    BY <1>5 DEF Becomes, RegistryInv
  <2>2. HandlerOK(r)'
    BY <2>1 DEF HandlerOK, WellFormed, HandlerTrue, Registering
  <2> QED
    BY <1>2, <1>3, <1>4, <1>5, <2>2, Moved DEF Owns, Registering
<1>6. CASE Becomes(r, Idle)
  BY <1>2, <1>3, <1>4, <1>6, MovedToIdle
<1> QED
  BY <1>2, <1>5, <1>6

LEMMA WritePrintKeeps ==
    ASSUME RegistryInv, NEW r \in Request, WritePrint(r)
    PROVE  RegistryInv' /\ KeepsPrints
<1> DEFINE g == admin[r]
           p == g.print
           f == Changed(g)
<1>1. /\ g \in Handling /\ WellFormed(g) /\ g.pc = "write" /\ g.kind = "update"
  BY HandlingOf DEF WritePrint, At, WellFormed
<1>2. /\ p \in PrintID /\ Stored(p) /\ prints[p] \in Fingerprint
      /\ g.copy = [ prints[p] EXCEPT !.status = g.copy.status ]
  BY <1>1 DEF WellFormed, Stored, RegistryInv, CollectionOK
<1>3. g.copy \in Fingerprint /\ g.status \in Status
  BY <1>1 DEF Handling, WellFormed
<1>4. /\ f \in Fingerprint
      /\ f.image = g.copy.image /\ f.template = g.copy.template /\ f.url = g.copy.url
  BY <1>3 DEF Changed, Fingerprint
<1>5. /\ g.copy.image = prints[p].image /\ g.copy.template = prints[p].template
      /\ g.copy.url = prints[p].url
  BY <1>2 DEF Fingerprint
<1>6. PICK h : h = [ g EXCEPT !.pc = "audit", !.copy = NoPrint ]
  OBVIOUS
<1>7. h \in Handling /\ h.pc = "audit" /\ h.kind = "update" /\ h.print = p
  BY <1>1, <1>6 DEF Handling
<1>8. /\ prints' = prints \/ prints' = [ prints EXCEPT ![p] = f ]
      /\ Becomes(r, h) \/ Becomes(r, Idle)
      /\ UNCHANGED << files, logged, told, rejected >>
  BY <1>6 DEF WritePrint
<1> HIDE DEF g, p, f
<1> QED
  BY <1>2, <1>4, <1>5, <1>7, <1>8, Rewrites

LEMMA DeletePrintKeeps ==
    ASSUME RegistryInv, NEW r \in Request, DeletePrint(r)
    PROVE  RegistryInv' /\ KeepsPrints
<1> DEFINE g == admin[r]
           p == g.print
<1>1. g \in Handling /\ g.pc = "delete" /\ g.kind = "delete"
  BY HandlingOf DEF DeletePrint, At, WellFormed
<1>2. PICK h : h = [ g EXCEPT !.pc = "audit" ]
  OBVIOUS
<1>3. h \in Handling /\ h.pc = "audit" /\ h.kind = "delete"
  BY <1>1, <1>2 DEF Handling
<1>4. Becomes(r, h) \/ Becomes(r, Idle)
  BY <1>2 DEF DeletePrint
<1>5. UNCHANGED << files, logged, told, rejected >>
  BY DEF DeletePrint
<1>6. CASE Stored(p)
  <2>1. p \in PrintID /\ prints[p] \in Fingerprint
    BY <1>6 DEF Stored, RegistryInv, CollectionOK
  <2>2. PICK f : f = [ prints[p] EXCEPT !.status = "deleted" ]
    OBVIOUS
  <2>3. /\ f \in Fingerprint
        /\ f.image = prints[p].image /\ f.template = prints[p].template
        /\ f.url = prints[p].url
    BY <2>1, <2>2 DEF Fingerprint, Status
  <2>4. prints' = prints \/ prints' = [ prints EXCEPT ![p] = f ]
    BY <2>2 DEF DeletePrint
  <2> HIDE DEF g, p
  <2> QED
    BY <1>3, <1>4, <1>5, <1>6, <2>1, <2>3, <2>4, Rewrites
<1>7. CASE ~Stored(p)
  <2>1. prints' = prints
    BY <1>7 DEF DeletePrint
  <2>2. CollectionOK' /\ KeepsPrints /\ LogOK'
    BY <1>5, <2>1, SamePrints, SameLog
  <2>3. CASE Becomes(r, h)
    <3>1. (admin[r])' = h
      BY <2>3 DEF Becomes, RegistryInv
    <3>2. HandlerOK(r)'
      BY <1>3, <3>1 DEF HandlerOK, WellFormed, HandlerTrue, Registering
    <3> QED
      BY <1>3, <2>1, <2>2, <2>3, <3>2, Moved DEF Owns, Registering
  <2>4. CASE Becomes(r, Idle)
    BY <2>1, <2>2, <2>4, MovedToIdle
  <2> QED
    BY <1>4, <2>2, <2>3, <2>4
<1> QED
  BY <1>6, <1>7

-----------------------------------------------------------------------------
(***************************************************************************)
(* The answer, and the end of the process.                                 *)
(***************************************************************************)

LEMMA LogAndAnswerKeeps ==
    ASSUME RegistryInv, NEW r \in Request, LogAndAnswer(r)
    PROVE  RegistryInv' /\ KeepsPrints
<1> DEFINE g == admin[r]
<1>1. g \in Handling /\ WellFormed(g) /\ HandlerTrue(g) /\ g.pc = "audit"
  BY HandlingOf DEF LogAndAnswer, At
<1>2. UNCHANGED << prints, files, rejected >> /\ Becomes(r, Idle)
  BY DEF LogAndAnswer
<1>3. CollectionOK' /\ KeepsPrints
  BY <1>2, SamePrints
<1>4. /\ logged' = logged \/ logged' = logged \cup { << ActionOf(g.kind), g.print >> }
      /\ told' = IF g.kind = "create" THEN told \cup { g.print } ELSE told
  BY DEF LogAndAnswer
<1>5. /\ g.kind \in { "create", "update", "delete" } /\ g.print \in PrintID \cup {NoPrint}
      /\ g.kind = "create" => g.print \in PrintID /\ Stored(g.print)
  BY <1>1 DEF Handling, HandlerTrue, Stored
<1>6. /\ ActionOf(g.kind)
            \in { "fingerprint.created", "fingerprint.updated", "fingerprint.deleted" }
      /\ ActionOf(g.kind) = "fingerprint.created" => g.kind = "create"
  BY <1>5 DEF ActionOf
<1> HIDE DEF g
<1>7. LogOK'
  <2>1. LogOK
    BY DEF RegistryInv
  <2>2. /\ told' \subseteq PrintID
        /\ logged' \subseteq { "fingerprint.created", "fingerprint.updated",
                               "fingerprint.deleted" } \X (PrintID \cup {NoPrint})
    BY <1>4, <1>5, <1>6, <2>1 DEF LogOK
  <2>3. \A p \in PrintID : Stored(p) => Stored(p)'
    BY <1>2 DEF Stored
  <2>4. AcknowledgedIsRegistered'
    BY <1>4, <1>5, <1>6, <2>1, <2>3 DEF LogOK, AcknowledgedIsRegistered
  <2> QED
    BY <2>2, <2>4 DEF LogOK
<1> QED
  BY <1>2, <1>3, <1>7, MovedToIdle

LEMMA RegistryCrashKeeps ==
    ASSUME RegistryInv, RegistryCrash
    PROVE  RegistryInv' /\ KeepsPrints
<1>1. CollectionOK' /\ KeepsPrints /\ LogOK'
  BY SamePrints, SameLog DEF RegistryCrash
<1>2. admin' \in [ Request -> Handling ] /\ \A r \in Request : admin'[r] = Idle
  BY IdleOK DEF RegistryCrash
<1>3. (\A r \in Request : HandlerOK(r)') /\ Exclusive'
  BY <1>2, IdleOK DEF HandlerOK, WellFormed, HandlerTrue, Exclusive, Registering
<1> QED
  BY <1>1, <1>2, <1>3 DEF RegistryInv

LEMMA RegistryNextKeeps ==
    ASSUME RegistryInv, [RegistryNext]_registry
    PROVE  RegistryInv' /\ KeepsPrints
<1>1. ASSUME NEW r \in Request, RegistryStep(r)
      PROVE  RegistryInv' /\ KeepsPrints
  BY <1>1, ReceivePrintKeeps, UploadImageKeeps, StoreImageLocallyKeeps, ExtractTemplateKeeps,
     InsertPrintKeeps, ReceiveChangeKeeps, ReadPrintKeeps, WritePrintKeeps, DeletePrintKeeps,
     LogAndAnswerKeeps DEF RegistryStep
<1>2. CASE UNCHANGED registry
  BY <1>2 DEF registry, RegistryInv, CollectionOK, LogOK, HandlerOK, WellFormed, HandlerTrue,
              UrlTrue, Exclusive, Stored, RegisteredPrintsAreWhole, AcknowledgedIsRegistered, KeepsPrints
<1> QED
  BY <1>1, <1>2, RegistryCrashKeeps DEF RegistryNext

-----------------------------------------------------------------------------
(***************************************************************************)
(* The theorems.                                                           *)
(***************************************************************************)

\* The invariant holds of every state the registry reaches (fingerprint_handler.go and
\* fingerprint_service.go, all of their operations on prints).
THEOREM RegistryInvariant == RegistrySpec => []RegistryInv
<1>1. RegistryInv /\ [RegistryNext]_registry => RegistryInv'
  BY RegistryNextKeeps
<1> QED
  BY <1>1, RegistryInitInv, PTL DEF RegistrySpec

\* Every variable has its type, and every handler holds what its position in the code says.
THEOREM RegistryTypeCorrect == RegistrySpec => []RegistryTypeOK
BY RegistryInvariant, RegistryInvImplies, PTL

\* Whatever failed, a print of the collection has its image where its URL says, or an empty
\* URL because Cloudinary rejected the image, and a template extracted from that image
\* (CreateFingerprint).
THEOREM PrintsWhole == RegistrySpec => []RegisteredPrintsAreWhole
BY RegistryInvariant, RegistryInvImplies, PTL

\* A print answered 201 or logged as created is in the collection (CreateFingerprint).
THEOREM AcknowledgedRegistered == RegistrySpec => []AcknowledgedIsRegistered
BY RegistryInvariant, RegistryInvImplies, PTL

\* No change or deletion, however it interleaves with others, loses a print or touches its
\* image, template or URL (fingerprintRepo.Update, Delete).
THEOREM IdentityImmutable == RegistrySpec => IdentityIsImmutable
<1>1. RegistryInv /\ [RegistryNext]_registry =>
          [ \A p \in PrintID : Stored(p) =>
              /\ prints'[p] # NoPrint
              /\ prints'[p].image = prints[p].image
              /\ prints'[p].template = prints[p].template
              /\ prints'[p].url = prints[p].url ]_registry
  BY RegistryNextKeeps DEF KeepsPrints
<1> QED
  BY <1>1, RegistryInvariant, PTL DEF RegistrySpec, IdentityIsImmutable

-----------------------------------------------------------------------------
(***************************************************************************)
(* How far the resurrection of deleted prints goes.  The violation of      *)
(* DeletedPrintStaysDeleted needs a change: without one, registrations,    *)
(* deletions, failures and crashes leave a deleted print deleted.          *)
(***************************************************************************)

NoChangeUnderWay == \A r \in Request : admin[r].pc \notin { "read", "write" }

DeletedKept ==
    \A p \in PrintID : Stored(p) /\ prints[p].status = "deleted" => prints'[p].status = "deleted"

LEMMA NoChangeBegins ==
    ASSUME "update" \notin Changes, RegistryInv, NoChangeUnderWay, [RegistryNext]_registry
    PROVE  NoChangeUnderWay'
<1> USE DEF NoChangeUnderWay, At
<1>1. admin \in [ Request -> Handling ]
  BY DEF RegistryInv
<1>2. ASSUME NEW r \in Request, NEW h, Becomes(r, h), h.pc \notin { "read", "write" }
      PROVE  NoChangeUnderWay'
  BY <1>1, <1>2 DEF Becomes
<1>3. ASSUME NEW r \in Request, Fail(r)
      PROVE  NoChangeUnderWay'
  BY <1>2, <1>3, IdleOK DEF Fail
<1>4. ASSUME NEW r \in Request, NEW pc, pc \notin { "read", "write" },
             NEW h \in Handling, Becomes(r, [ h EXCEPT !.pc = pc ])
      PROVE  NoChangeUnderWay'
  <2>1. [ h EXCEPT !.pc = pc ].pc = pc
    BY DEF Handling
  <2> QED
    BY <1>2, <1>4, <2>1
<1>5. CASE UNCHANGED registry
  BY <1>5 DEF registry
<1>6. CASE RegistryCrash
  BY <1>6, IdleOK DEF RegistryCrash
<1>7. ASSUME NEW r \in Request, RegistryStep(r)
      PROVE  NoChangeUnderWay'
  <2>1. CASE ReceivePrint(r)
    <3>1. PICK p \in PrintID, i \in Image :
              Becomes(r, [ Idle EXCEPT !.pc = "upload", !.print = p, !.image = i ])
      BY <2>1 DEF ReceivePrint, Continue
    <3> QED
      BY <1>2, <3>1 DEF Idle
  <2>2. CASE UploadImage(r)
    BY <1>1, <1>2, <2>2 DEF UploadImage, Handling
  <2>3. CASE StoreImageLocally(r)
    BY <1>1, <1>2, <1>3, <2>3 DEF StoreImageLocally, Handling
  <2>4. CASE ExtractTemplate(r)
    BY <1>1, <1>2, <1>3, <2>4 DEF ExtractTemplate, Continue, Handling
  <2>5. CASE InsertPrint(r)
    BY <1>1, <1>2, <1>4, <2>5, IdleOK DEF InsertPrint
  <2>6. CASE ReceiveChange(r)
    <3>1. PICK p \in PrintID \cup {NoPrint} :
              Becomes(r, [ Idle EXCEPT !.pc = "delete", !.kind = "delete", !.print = p ])
      BY <2>6 DEF ReceiveChange, Continue
    <3> QED
      BY <1>2, <3>1 DEF Idle
  <2>7. CASE ReadPrint(r) \/ WritePrint(r)
    BY <2>7 DEF ReadPrint, WritePrint
  <2>8. CASE DeletePrint(r)
    BY <1>1, <1>2, <1>4, <2>8, IdleOK DEF DeletePrint
  <2>9. CASE LogAndAnswer(r)
    BY <1>2, <2>9, IdleOK DEF LogAndAnswer
  <2> QED
    BY <1>7, <2>1, <2>2, <2>3, <2>4, <2>5, <2>6, <2>7, <2>8, <2>9 DEF RegistryStep
<1> QED
  BY <1>5, <1>6, <1>7 DEF RegistryNext

LEMMA NothingRevives ==
    ASSUME RegistryInv, NoChangeUnderWay, [RegistryNext]_registry
    PROVE  DeletedKept
<1> SUFFICES ASSUME NEW p \in PrintID, Stored(p), prints[p].status = "deleted"
             PROVE  prints'[p].status = "deleted"
  BY DEF DeletedKept
<1>1. prints \in [ PrintID -> Fingerprint \cup {NoPrint} ] /\ prints[p] \in Fingerprint
  BY DEF RegistryInv, CollectionOK, Stored
<1>2. CASE UNCHANGED prints
  BY <1>2
<1>3. ASSUME NEW r \in Request, InsertPrint(r)
      PROVE  prints'[p] = prints[p]
  <2>1. prints[admin[r].print] = NoPrint
    BY <1>3, HandlingOf DEF InsertPrint, At, HandlerTrue, Registering
  <2>2. admin[r].print # p
    BY <2>1 DEF Stored
  <2> QED
    BY <1>1, <1>3, <2>2 DEF InsertPrint
<1>4. ASSUME NEW r \in Request, DeletePrint(r)
      PROVE  prints'[p].status = "deleted"
  BY <1>1, <1>4 DEF DeletePrint, Fingerprint
<1>5. UNCHANGED prints \/ \E r \in Request : InsertPrint(r) \/ DeletePrint(r)
  BY DEF RegistryNext, RegistryStep, RegistryCrash, registry, ReceivePrint, UploadImage,
         StoreImageLocally, ExtractTemplate, ReceiveChange, ReadPrint, WritePrint, LogAndAnswer,
         Continue, Fail, NoChangeUnderWay, At
<1> QED
  BY <1>2, <1>3, <1>4, <1>5

\* Where no change of a print occurs, a deleted print stays deleted, whatever else fails or
\* interleaves: the document written back is the only way back (fingerprintRepo.Update).
THEOREM DeletionIsFinalWithoutChanges ==
    ASSUME "update" \notin Changes
    PROVE  RegistrySpec => DeletedPrintStaysDeleted
<1>1. RegistryInit => NoChangeUnderWay
  BY IdleOK DEF RegistryInit, NoChangeUnderWay
<1>2. RegistryInv /\ NoChangeUnderWay /\ [RegistryNext]_registry => NoChangeUnderWay'
  BY NoChangeBegins
<1>3. RegistryInv /\ NoChangeUnderWay /\ [RegistryNext]_registry =>
          [ \A p \in PrintID : Stored(p) /\ prints[p].status = "deleted" =>
              prints'[p].status = "deleted" ]_registry
  BY NothingRevives DEF DeletedKept
<1> QED
  BY <1>1, <1>2, <1>3, RegistryInvariant, PTL DEF RegistrySpec, DeletedPrintStaysDeleted
===============================================================================
