--------------------------- MODULE OverlapPipeline ---------------------------
(***************************************************************************)
(* The life of an uploaded overlapped print: the HTTP handler that stores  *)
(* the original image and creates the record, the goroutine it spawns to   *)
(* have the two prints separated, and the server process that may stop or  *)
(* die under both.  What a client reads at any time is the record.         *)
(*                                                                         *)
(* Every call that leaves the process (Cloudinary, MongoDB, the image      *)
(* download, the Python service) is one step, so steps of different        *)
(* uploads, of a handler and its own goroutine, and of the server          *)
(* interleave freely.                                                      *)
(***************************************************************************)
EXTENDS Integers

CONSTANTS
    Overlap,      \* the uploads; each gets one record, named by the same value
    ImageCounts,  \* how many separated prints an answer of the Python service holds
    Faults,       \* the kinds of trouble the environment may cause
    NoImage,      \* the empty URL
    NoRecord      \* the absence of a database record

Positions == 1..2

\* Files held by Cloudinary: position 0 is the original, 1 and 2 its separated prints.
Asset == Overlap \X (0..2)

FaultKinds == { "store_original", "disk", "db_read", "db_write", "download",
                "hang", "extract", "store_separated", "reject", "crash", "shutdown" }

ASSUME FaultsAssumption  == Faults \subseteq FaultKinds
\* main.py answers with one print (nothing overlapped) or two.
ASSUME CountsAssumption  == ImageCounts \subseteq Nat \ {0}
ASSUME NoImageAssumption == NoImage \notin Asset

Status  == { "pending", "processing", "completed", "failed" }
Settled == { "completed", "failed" }

\* Where a URL of an original leads; "none" is the empty URL.
Origin == { "none", "cloud", "local" }

OverlapRecord ==
    [ original  : Origin,
      status    : Status,
      separated : [ Positions -> Asset \cup {NoImage} ] ]

ASSUME NoRecordAssumption == NoRecord \notin OverlapRecord

HandlerActive == { "store", "fallback", "create", "audit", "spawn", "respond" }
HandlerState  == { "none", "created", "refused", "dropped" } \cup HandlerActive
WorkerActive  == { "start", "load", "download", "hung", "extract", "upload",
                   "complete", "audit", "fail" }
\* "gave_up": its last status write returned an error; "killed": the process ended under it.
WorkerState   == { "none", "done", "gave_up", "killed" } \cup WorkerActive

VARIABLES
    \* outside the process
    overlaps,   \* the MongoDB collection
    audits,     \* the audit log: pairs <<action, upload>>
    cloud,      \* the assets Cloudinary holds
    rejected,   \* history: the separated prints Cloudinary would not take
    disk,       \* the originals under ./uploads/overlaps
    \* inside the process
    server,     \* the phase of main()
    handler,    \* control state of each upload's request
    secureURL,  \* the handler's secureURL: where the original went
    worker,     \* control state of each upload's goroutine
    answered,   \* prints in the Python service's answer
    index,      \* the loop variable over those prints
    paths       \* the goroutine's separatedPaths

files    == << cloud, rejected >>
stored   == << overlaps, audits, cloud, rejected, disk >>
request  == << handler, secureURL >>
loop     == << answered, index, paths >>
vars     == << stored, server, request, worker, loop >>

TypeOK ==
    /\ overlaps  \in [ Overlap -> OverlapRecord \cup {NoRecord} ]
    /\ audits    \subseteq { "overlap.uploaded", "overlap.processed" } \X Overlap
    /\ cloud     \subseteq Asset
    /\ rejected  \subseteq Asset
    /\ disk      \subseteq Overlap
    /\ server    \in { "up", "draining", "disconnected", "down" }
    /\ handler   \in [ Overlap -> HandlerState ]
    /\ secureURL \in [ Overlap -> Origin ]
    /\ worker    \in [ Overlap -> WorkerState ]
    /\ answered  \in [ Overlap -> Nat ]
    /\ index     \in [ Overlap -> 1..3 ]
    /\ paths     \in [ Overlap -> [ Positions -> Asset \cup {NoImage} ] ]

Blank == [ i \in Positions |-> NoImage ]

Init ==
    /\ overlaps  = [ o \in Overlap |-> NoRecord ]
    /\ audits    = {}
    /\ cloud     = {}
    /\ rejected  = {}
    /\ disk      = {}
    /\ server    = "up"
    /\ handler   = [ o \in Overlap |-> "none" ]
    /\ secureURL = [ o \in Overlap |-> "none" ]
    /\ worker    = [ o \in Overlap |-> "none" ]
    /\ answered  = [ o \in Overlap |-> 0 ]
    /\ index     = [ o \in Overlap |-> 1 ]
    /\ paths     = [ o \in Overlap |-> Blank ]

-----------------------------------------------------------------------------
(***************************************************************************)
(* The database.  A write returns nil, or an error without having been     *)
(* applied, or an error although it was applied (the reply was lost).      *)
(* Once main() has disconnected the client, every call is refused.         *)
(***************************************************************************)

Connected == server \in { "up", "draining" }

WriteResults ==
    (IF Connected THEN { "ok" } ELSE { "refused" })
        \cup (IF Connected /\ "db_write" \in Faults
              THEN { "refused", "unacknowledged" } ELSE {})

Applied(result) == result \in { "ok", "unacknowledged" }

NewRecord(o) ==
    [ original |-> secureURL[o], status |-> "pending", separated |-> Blank ]

Create(o, result) ==
    overlaps' = IF Applied(result)
                THEN [ overlaps EXCEPT ![o] = NewRecord(o) ] ELSE overlaps

\* Faulty variant: the whole document is written back from a copy read before.
UpdateStatusWholeDocument(o, status, result) ==
    overlaps' = IF Applied(result)
                THEN [ overlaps EXCEPT ![o] =
                         [ original  |-> overlaps[o].original,
                           status    |-> status,
                           separated |-> Blank ] ]
                ELSE overlaps

UpdateStatus(o, status, result) ==
    overlaps' = IF Applied(result)
                THEN [ overlaps EXCEPT ![o] =
                         [ original  |-> overlaps[o].original,
                           status    |-> status,
                           separated |-> overlaps[o].separated ] ]
                ELSE overlaps

UpdateSeparatedImages(o, result) ==
    overlaps' = IF Applied(result)
                THEN [ overlaps EXCEPT ![o] =
                         [ original  |-> overlaps[o].original,
                           status    |-> overlaps[o].status,
                           separated |-> paths[o] ] ]
                ELSE overlaps

\* The audit write's own error is discarded by every caller.
WriteAudit(action, o) ==
    \E result \in WriteResults :
        audits' = IF Applied(result) THEN audits \cup { << action, o >> } ELSE audits

\* UploadFile and UploadBytes alike: a URL comes back; or the attempt is given up after
\* four seconds, when the file may have arrived all the same; or Cloudinary rejects the
\* file, which is no error to the client library: an empty URL comes back, without an error.
Upload(asset)  == cloud' = cloud \cup { asset } /\ UNCHANGED rejected
GiveUp(asset)  == cloud' \in { cloud, cloud \cup { asset } } /\ UNCHANGED rejected
Reject(asset)  == "reject" \in Faults /\ rejected' = rejected \cup { asset } /\ UNCHANGED cloud

-----------------------------------------------------------------------------
(***************************************************************************)
(* The request: POST /overlap/upload.                                      *)
(***************************************************************************)

HandlerMoves(o, from, to) ==
    /\ Connected
    /\ handler[o] = from
    /\ handler' = [ handler EXCEPT ![o] = to ]
    /\ UNCHANGED << server, loop >>

\* The form holds a readable image, or the request is answered 400 or 500.
ReceiveUpload(o) ==
    /\ server = "up"
    /\ \E to \in { "store", "refused" } : HandlerMoves(o, "none", to)
    /\ UNCHANGED << stored, secureURL, worker >>

\* A rejected original is no reason to fall back: the request goes on with an empty URL.
StoreOriginal(o) ==
    /\ \/ /\ HandlerMoves(o, "store", "create")
          /\ Upload(<< o, 0 >>)
          /\ secureURL' = [ secureURL EXCEPT ![o] = "cloud" ]
       \/ /\ HandlerMoves(o, "store", "create")
          /\ Reject(<< o, 0 >>)
          /\ UNCHANGED secureURL
       \/ /\ "store_original" \in Faults
          /\ HandlerMoves(o, "store", "fallback")
          /\ GiveUp(<< o, 0 >>)
          /\ UNCHANGED secureURL
    /\ UNCHANGED << overlaps, audits, disk, worker >>

\* Faulty variant: the error of os.WriteFile is not looked at.
StoreLocallyUnchecked(o) ==
    /\ HandlerMoves(o, "fallback", "create")
    /\ disk' \in IF "disk" \in Faults THEN { disk, disk \cup { o } } ELSE { disk \cup { o } }
    /\ secureURL' = [ secureURL EXCEPT ![o] = "local" ]
    /\ UNCHANGED << overlaps, audits, files, worker >>

StoreLocally(o) ==
    /\ \/ /\ HandlerMoves(o, "fallback", "create")
          /\ disk' = disk \cup { o }
          /\ secureURL' = [ secureURL EXCEPT ![o] = "local" ]
       \/ /\ "disk" \in Faults
          /\ HandlerMoves(o, "fallback", "refused")
          /\ UNCHANGED << disk, secureURL >>
    /\ UNCHANGED << overlaps, audits, files, worker >>

CreateRecord(o) ==
    /\ \E result \in WriteResults :
          /\ HandlerMoves(o, "create", IF result = "ok" THEN "audit" ELSE "refused")
          /\ Create(o, result)
    /\ UNCHANGED << audits, files, disk, secureURL, worker >>

AuditUpload(o) ==
    /\ HandlerMoves(o, "audit", "spawn")
    /\ WriteAudit("overlap.uploaded", o)
    /\ UNCHANGED << overlaps, files, disk, secureURL, worker >>

SpawnWorker(o) ==
    /\ HandlerMoves(o, "spawn", "respond")
    /\ worker' = [ worker EXCEPT ![o] = "start" ]
    /\ UNCHANGED << stored, secureURL >>

\* 201 with the record as it was created, whatever the goroutine did since.
Respond(o) ==
    /\ HandlerMoves(o, "respond", "created")
    /\ UNCHANGED << stored, secureURL, worker >>

HandlerStep(o) ==
    \/ StoreOriginal(o) \/ StoreLocally(o) \/ CreateRecord(o)
    \/ AuditUpload(o) \/ SpawnWorker(o) \/ Respond(o)

-----------------------------------------------------------------------------
(***************************************************************************)
(* The goroutine: ProcessOverlap.                                          *)
(***************************************************************************)

WorkerMoves(o, from, to) ==
    /\ server # "down"
    /\ worker[o] = from
    /\ worker' = [ worker EXCEPT ![o] = to ]
    /\ UNCHANGED << server, request >>

MarkProcessing(o) ==
    /\ \E result \in WriteResults :
          /\ WorkerMoves(o, "start", IF result = "ok" THEN "load" ELSE "gave_up")
          /\ UpdateStatus(o, "processing", result)
    /\ UNCHANGED << audits, files, disk, loop >>

\* Faulty variant: the failed read returns without marking the record.
LoadRecordSilent(o) ==
    /\ \/ /\ Connected
          /\ WorkerMoves(o, "load", "download")
       \/ /\ ~Connected \/ "db_read" \in Faults
          /\ WorkerMoves(o, "load", "done")
    /\ UNCHANGED << stored, loop >>

LoadRecord(o) ==
    /\ \/ /\ Connected
          /\ WorkerMoves(o, "load", "download")
       \/ /\ ~Connected \/ "db_read" \in Faults
          /\ WorkerMoves(o, "load", "fail")
    /\ UNCHANGED << stored, loop >>

\* http.Get has no host to ask for "/uploads/overlaps/..." or "": it always fails.
Download(o) ==
    /\ \/ /\ WorkerMoves(o, "download", "extract")
          /\ overlaps[o].original = "cloud"
       \/ /\ WorkerMoves(o, "download", "fail")
          /\ overlaps[o].original # "cloud" \/ "download" \in Faults
    /\ UNCHANGED << stored, loop >>

\* The default client has no timeout: a silent peer holds the goroutine until it speaks, or
\* breaks off.
Hang(o) ==
    /\ "hang" \in Faults
    /\ WorkerMoves(o, "download", "hung")
    /\ overlaps[o].original = "cloud"
    /\ UNCHANGED << stored, loop >>

Unhang(o) ==
    /\ \/ WorkerMoves(o, "hung", "extract")
       \/ "download" \in Faults /\ WorkerMoves(o, "hung", "fail")
    /\ UNCHANGED << stored, loop >>

\* The request, its 60-second limit, the status check and the decoding of the answer.
Extract(o) ==
    /\ \/ /\ WorkerMoves(o, "extract", "upload")
          /\ \E n \in ImageCounts : answered' = [ answered EXCEPT ![o] = n ]
       \/ /\ "extract" \in Faults
          /\ WorkerMoves(o, "extract", "fail")
          /\ UNCHANGED answered
    /\ UNCHANGED << stored, index, paths >>

\* Faulty variant: one turn too many.
MoreImagesOneMore(o) == index[o] <= answered[o] + 1

MoreImages(o) == index[o] <= answered[o] /\ index[o] <= 2

\* The loop goes on to the next image, with the URL of this one or without.
Keeps(o, url) ==
    /\ WorkerMoves(o, "upload", "upload")
    /\ paths' = [ paths EXCEPT ![o][index[o]] = url ]
    /\ index' = [ index EXCEPT ![o] = @ + 1 ]

\* Faulty variant: the error of UploadBytes is not looked at; its URL is empty.
StoreSeparatedUnchecked(o) ==
    /\ MoreImages(o)
    /\ \/ Upload(<< o, index[o] >>) /\ Keeps(o, << o, index[o] >>)
       \/ Reject(<< o, index[o] >>) /\ Keeps(o, NoImage)
       \/ "store_separated" \in Faults /\ GiveUp(<< o, index[o] >>) /\ Keeps(o, NoImage)
    /\ UNCHANGED << overlaps, audits, disk, answered >>

\* One turn of the loop: decode image index[o] and upload it under the overlap's own id.
StoreSeparated(o) ==
    /\ MoreImages(o)
    /\ \/ Upload(<< o, index[o] >>) /\ Keeps(o, << o, index[o] >>)
       \/ Reject(<< o, index[o] >>) /\ Keeps(o, NoImage)
       \/ /\ "store_separated" \in Faults
          /\ WorkerMoves(o, "upload", "fail")
          /\ GiveUp(<< o, index[o] >>)
          /\ UNCHANGED << paths, index >>
    /\ UNCHANGED << overlaps, audits, disk, answered >>

\* Faulty variant: the error of the write is returned without marking the record.
RecordImagesSilent(o) ==
    /\ ~MoreImages(o)
    /\ \E result \in WriteResults :
          /\ WorkerMoves(o, "upload", IF result = "ok" THEN "complete" ELSE "done")
          /\ UpdateSeparatedImages(o, result)
    /\ UNCHANGED << audits, files, disk, loop >>

\* The loop is over: write the URLs.
RecordImages(o) ==
    /\ ~MoreImages(o)
    /\ \E result \in WriteResults :
          /\ WorkerMoves(o, "upload", IF result = "ok" THEN "complete" ELSE "fail")
          /\ UpdateSeparatedImages(o, result)
    /\ UNCHANGED << audits, files, disk, loop >>

\* Faulty variants: the last error path marks the record failed like the others;
\* the error is not looked at; the audit entry is forgotten.
MarkCompletedOrFailed(o) ==
    /\ \E result \in WriteResults :
          /\ WorkerMoves(o, "complete", IF result = "ok" THEN "audit" ELSE "fail")
          /\ UpdateStatus(o, "completed", result)
    /\ UNCHANGED << audits, files, disk, loop >>

MarkCompletedUnchecked(o) ==
    /\ WorkerMoves(o, "complete", "audit")
    /\ \E result \in WriteResults : UpdateStatus(o, "completed", result)
    /\ UNCHANGED << audits, files, disk, loop >>

MarkCompletedUnaudited(o) ==
    /\ WorkerMoves(o, "complete", "done")
    /\ \E result \in WriteResults : UpdateStatus(o, "completed", result)
    /\ UNCHANGED << audits, files, disk, loop >>

MarkCompleted(o) ==
    /\ \E result \in WriteResults :
          /\ WorkerMoves(o, "complete", IF result = "ok" THEN "audit" ELSE "gave_up")
          /\ UpdateStatus(o, "completed", result)
    /\ UNCHANGED << audits, files, disk, loop >>

AuditProcessed(o) ==
    /\ WorkerMoves(o, "audit", "done")
    /\ WriteAudit("overlap.processed", o)
    /\ UNCHANGED << overlaps, files, disk, loop >>

\* Every error path ends in this write, whose own error is discarded.
MarkFailed(o) ==
    /\ \E result \in WriteResults :
          /\ WorkerMoves(o, "fail", IF result = "ok" THEN "done" ELSE "gave_up")
          /\ UpdateStatus(o, "failed", result)
    /\ UNCHANGED << audits, files, disk, loop >>

WorkerStep(o) ==
    \/ MarkProcessing(o) \/ LoadRecord(o) \/ Download(o) \/ Extract(o)
    \/ StoreSeparated(o) \/ RecordImages(o) \/ MarkCompleted(o)
    \/ AuditProcessed(o) \/ MarkFailed(o)

-----------------------------------------------------------------------------
(***************************************************************************)
(* The process: main().  Shutdown waits for requests, not for goroutines.  *)
(***************************************************************************)

Requests == { o \in Overlap : handler[o] \in HandlerActive }
Workers  == { o \in Overlap : worker[o] \in WorkerActive }

\* SIGINT or SIGTERM: no new requests.
Signal ==
    /\ "shutdown" \in Faults
    /\ server = "up"
    /\ server' = "draining"
    /\ UNCHANGED << stored, request, worker, loop >>

Disconnect ==
    /\ server = "draining"
    /\ Requests = {}
    /\ server' = "disconnected"
    /\ UNCHANGED << stored, request, worker, loop >>

\* The process ends, and takes what it had in memory with it.
Stop ==
    /\ server' = "down"
    /\ handler' = [ o \in Overlap |-> IF o \in Requests THEN "dropped" ELSE handler[o] ]
    /\ worker' = [ o \in Overlap |-> IF o \in Workers THEN "killed" ELSE worker[o] ]
    /\ UNCHANGED << stored, secureURL, loop >>

Exit == server = "disconnected" /\ Stop

\* Shutdown gave up on a request after 30 seconds: log.Fatalf.
ShutdownTimesOut == server = "draining" /\ Requests # {} /\ Stop

Crash == "crash" \in Faults /\ server # "down" /\ Stop

\* main() again: nothing looks for records left behind.
Start ==
    /\ server = "down"
    /\ server' = "up"
    /\ UNCHANGED << stored, request, worker, loop >>

ServerStep == Signal \/ Disconnect \/ Exit \/ ShutdownTimesOut \/ Crash \/ Start

-----------------------------------------------------------------------------
Next ==
    \/ \E o \in Overlap :
          \/ ReceiveUpload(o) \/ HandlerStep(o)
          \/ WorkerStep(o) \/ Hang(o) \/ Unhang(o)
    \/ ServerStep

Spec == Init /\ [][Next]_vars

(***************************************************************************)
(* Go runs every goroutine that can run, and every call but http.Get is    *)
(* given up after a bounded time.  Nothing makes a silent peer speak.      *)
(***************************************************************************)
Fairness ==
    \A o \in Overlap :
        /\ WF_vars(HandlerStep(o))
        /\ WF_vars(WorkerStep(o))

FairSpec == Spec /\ Fairness

-----------------------------------------------------------------------------
(***************************************************************************)
(* Properties.                                                             *)
(***************************************************************************)

Exists(o)      == overlaps[o] # NoRecord
IsCompleted(o) == Exists(o) /\ overlaps[o].status = "completed"
IsSettled(o)   == Exists(o) /\ overlaps[o].status \in Settled

\* Every URL a record holds leads to a file that exists and that belongs to this
\* very upload, position by position, whatever failed or died on the way
\* (UploadOverlap, ProcessOverlap: a URL is written only after its upload returned).
RecordedUrlsResolve ==
    \A o \in Overlap : Exists(o) =>
        /\ overlaps[o].original = "cloud" => << o, 0 >> \in cloud
        /\ overlaps[o].original = "local" => o \in disk
        /\ \A i \in Positions : overlaps[o].separated[i] # NoImage =>
              overlaps[o].separated[i] = << o, i >> /\ << o, i >> \in cloud

\* "completed" is written last: such a record names the separated prints Cloudinary holds
\* for it and no other, a print of the answer it does not name is one Cloudinary rejected,
\* and its original is on Cloudinary (ProcessOverlap, the order of its calls and its returns).
CompletedIsWhole ==
    \A o \in Overlap : IsCompleted(o) =>
        /\ overlaps[o].original = "cloud"
        /\ \A i \in Positions :
              /\ << o, i >> \in cloud <=> overlaps[o].separated[i] = << o, i >>
              /\ i <= answered[o] => << o, i >> \in cloud \cup rejected

\* A client told 201 finds its record for ever after.  If the goroutine that was started for
\* it has returned, the record is settled, unless the goroutine's last status write returned
\* an error: those records, and those whose goroutine the process took with it, are the only
\* ones left unsettled (ProcessOverlap, whose every other return follows a write).
AcceptedIsAccountedFor ==
    \A o \in Overlap : handler[o] = "created" =>
        /\ Exists(o)
        /\ IsSettled(o) \/ worker[o] \in WorkerActive \cup { "gave_up", "killed" }

\* The audit log never tells of something that did not happen: an "overlap.uploaded"
\* entry has its record, an "overlap.processed" entry a completed one.
AuditsAreTrue ==
    \A o \in Overlap :
        /\ << "overlap.uploaded", o >> \in audits => Exists(o)
        /\ << "overlap.processed", o >> \in audits => IsCompleted(o)

\* No step of anyone changes a settled record.
SettledIsFinal ==
    [][ \A o \in Overlap : IsSettled(o) => overlaps'[o] = overlaps[o] ]_vars

\* What a record may have gained when it is completed: its first print, and a second if there
\* is one, unless Cloudinary rejects prints.
Gains == IF "reject" \in Faults THEN SUBSET Positions ELSE { {1}, {1, 2} }

\* The record, seen from outside, follows the abstract life cycle.
Lifecycle == INSTANCE OverlapLifecycle WITH
    ImageSets <- Gains,
    status <- [ o \in Overlap |-> IF Exists(o) THEN overlaps[o].status ELSE "absent" ],
    images <- [ o \in Overlap |->
                  IF Exists(o) THEN { i \in Positions : overlaps[o].separated[i] # NoImage }
                               ELSE {} ]

LifecycleSpec == Lifecycle!Spec

\* As long as no database write fails and the process lives, a record that is not
\* settled has someone working on it: its handler, about to start the goroutine, or
\* the goroutine (every return of ProcessOverlap but two marks the record).
NoOrphanedWork ==
    \A o \in Overlap :
        Exists(o) /\ ~IsSettled(o) =>
            handler[o] \in HandlerActive \/ worker[o] \in WorkerActive

\* Under the same conditions a completed record whose goroutine has ended has both
\* its audit entries.
AuditTrailComplete ==
    \A o \in Overlap : IsCompleted(o) /\ worker[o] = "done" =>
        { "overlap.uploaded", "overlap.processed" } \X { o } \subseteq audits

\* The record of an upload answered "Processing started." is eventually completed.
AcceptedIsSeparated ==
    \A o \in Overlap : handler[o] = "created" ~> IsCompleted(o)
=============================================================================
