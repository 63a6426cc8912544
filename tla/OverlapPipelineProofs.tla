------------------------ MODULE OverlapPipelineProofs ------------------------
(***************************************************************************)
(* Theorems about OverlapPipeline, for every set of uploads, every set of  *)
(* answers of the Python service and every combination of faults.          *)
(***************************************************************************)
EXTENDS OverlapPipeline, TLAPS

USE DEF files

(***************************************************************************)
(* Where the request stands decides whether the original is stored, the    *)
(* record exists and the goroutine was started.  Types depend on it: a     *)
(* record is built from secureURL, and a write of the goroutine keeps the  *)
(* type of the record only if there is a record.                           *)
(***************************************************************************)
ControlOK ==
    \A o \in Overlap :
        /\ handler[o] \in { "audit", "spawn", "respond", "created" } => Exists(o)
        /\ handler[o] \in { "none", "store", "fallback", "create" } => ~Exists(o)
        /\ handler[o] \in { "none", "store", "fallback", "create", "audit", "spawn", "refused" } =>
              worker[o] = "none"
        /\ handler[o] \in { "respond", "created" } => worker[o] # "none"
        /\ worker[o] # "none" => Exists(o)

LEMMA NewRecordType ==
    ASSUME NEW o \in Overlap, TypeOK
    PROVE  NewRecord(o) \in OverlapRecord /\ NewRecord(o) # NoRecord
BY NoRecordAssumption DEF NewRecord, TypeOK, OverlapRecord, Status, Blank

LEMMA CreateType ==
    ASSUME TypeOK, NEW o \in Overlap,
           NEW result \in WriteResults, Create(o, result)
    PROVE  /\ overlaps' \in [ Overlap -> OverlapRecord \cup {NoRecord} ]
           /\ \A p \in Overlap \ {o} : overlaps'[p] = overlaps[p]
           /\ result = "ok" => overlaps'[o] # NoRecord
BY NewRecordType DEF Create, Applied, TypeOK

\* A step that writes at most the record of o, which it leaves a record.
KeepsRecord(o) ==
    /\ overlaps' \in [ Overlap -> OverlapRecord \cup {NoRecord} ]
    /\ \A p \in Overlap \ {o} : overlaps'[p] = overlaps[p]
    /\ overlaps'[o] # NoRecord

LEMMA StatusType ==
    ASSUME TypeOK, NEW o \in Overlap, overlaps[o] # NoRecord, NEW result, NEW s \in Status,
           UpdateStatus(o, s, result)
    PROVE  KeepsRecord(o)
<1> DEFINE r == [ original |-> overlaps[o].original, status |-> s,
                  separated |-> overlaps[o].separated ]
<1>1. r \in OverlapRecord
  BY DEF OverlapRecord, TypeOK
<1>2. QED
  BY <1>1, NoRecordAssumption DEF UpdateStatus, TypeOK, KeepsRecord

LEMMA ImagesType ==
    ASSUME TypeOK, NEW o \in Overlap, overlaps[o] # NoRecord, NEW result,
           UpdateSeparatedImages(o, result)
    PROVE  KeepsRecord(o)
<1> DEFINE r == [ original |-> overlaps[o].original, status |-> overlaps[o].status,
                  separated |-> paths[o] ]
<1>1. r \in OverlapRecord
  BY DEF OverlapRecord, TypeOK
<1>2. QED
  BY <1>1, NoRecordAssumption DEF UpdateSeparatedImages, TypeOK, KeepsRecord

LEMMA InitType == Init => TypeOK /\ ControlOK
BY DEF Init, TypeOK, ControlOK, Exists, Blank, Origin, HandlerState, WorkerState

\* The steps of the request.
LEMMA HandlerType ==
    ASSUME TypeOK, ControlOK, NEW o \in Overlap,
           ReceiveUpload(o) \/ HandlerStep(o)
    PROVE  TypeOK' /\ ControlOK'
<1>1. CASE ReceiveUpload(o)
  BY <1>1 DEF ReceiveUpload, HandlerMoves, stored, loop, TypeOK, ControlOK, Exists,
              HandlerState, HandlerActive
<1>2. CASE StoreOriginal(o)
  <2>1. cloud' \subseteq Asset /\ rejected' \subseteq Asset
    <3>1. << o, 0 >> \in Asset
      BY DEF Asset
    <3>2. /\ cloud' \subseteq cloud \cup { << o, 0 >> }
          /\ rejected' \subseteq rejected \cup { << o, 0 >> }
      BY <1>2 DEF StoreOriginal, Upload, GiveUp, Reject
    <3>3. QED
      BY <3>1, <3>2 DEF TypeOK
  <2>2. TypeOK'
    BY <1>2, <2>1 DEF StoreOriginal, HandlerMoves, loop, TypeOK, HandlerState, HandlerActive,
                      Origin
  <2>3. ControlOK'
    BY <1>2 DEF StoreOriginal, HandlerMoves, TypeOK, ControlOK, Exists
  <2>4. QED
    BY <2>2, <2>3
<1>3. CASE StoreLocally(o)
  BY <1>3 DEF StoreLocally, HandlerMoves, loop, TypeOK, ControlOK, Exists,
              HandlerState, HandlerActive, Origin
<1>4. CASE CreateRecord(o)
  <2>1. PICK result \in WriteResults :
           /\ HandlerMoves(o, "create", IF result = "ok" THEN "audit" ELSE "refused")
           /\ Create(o, result)
    BY <1>4 DEF CreateRecord
  <2>2. /\ overlaps' \in [ Overlap -> OverlapRecord \cup {NoRecord} ]
        /\ \A p \in Overlap \ {o} : overlaps'[p] = overlaps[p]
        /\ result = "ok" => overlaps'[o] # NoRecord
    BY <2>1, CreateType DEF HandlerMoves, ControlOK
  <2>3. TypeOK'
    BY <1>4, <2>1, <2>2 DEF CreateRecord, HandlerMoves, loop, TypeOK, HandlerState, HandlerActive
  <2>4. ControlOK'
    BY <1>4, <2>1, <2>2 DEF CreateRecord, HandlerMoves, loop, TypeOK, ControlOK, Exists
  <2>5. QED
    BY <2>3, <2>4
<1>5. CASE AuditUpload(o)
  BY <1>5 DEF AuditUpload, HandlerMoves, WriteAudit, loop, TypeOK, ControlOK, Exists,
              HandlerState, HandlerActive
<1>6. CASE SpawnWorker(o)
  BY <1>6 DEF SpawnWorker, HandlerMoves, stored, loop, TypeOK, ControlOK, Exists,
              HandlerState, HandlerActive, WorkerState, WorkerActive
<1>7. CASE Respond(o)
  BY <1>7 DEF Respond, HandlerMoves, stored, loop, TypeOK, ControlOK, Exists,
              HandlerState, HandlerActive
<1>8. QED
  BY <1>1, <1>2, <1>3, <1>4, <1>5, <1>6, <1>7 DEF HandlerStep

\* What a step of the goroutine has to respect.
LEMMA MoveType ==
    ASSUME TypeOK, ControlOK, NEW o \in Overlap,
           NEW from \in WorkerActive, NEW to \in WorkerState \ {"none"},
           WorkerMoves(o, from, to), KeepsRecord(o),
           audits' \subseteq { "overlap.uploaded", "overlap.processed" } \X Overlap,
           cloud' \subseteq Asset, rejected' \subseteq Asset, disk' = disk,
           answered' \in [ Overlap -> Nat ], index' \in [ Overlap -> 1..3 ],
           paths' \in [ Overlap -> [ Positions -> Asset \cup {NoImage} ] ]
    PROVE  TypeOK' /\ ControlOK'
<1>1. TypeOK'
  BY DEF WorkerMoves, request, KeepsRecord, TypeOK
<1>2. worker[o] # "none"
  BY DEF WorkerMoves, WorkerActive
<1>3. ControlOK'
  BY <1>2 DEF WorkerMoves, request, KeepsRecord, TypeOK, ControlOK, Exists
<1>4. QED
  BY <1>1, <1>3

\* The steps of the goroutine.
LEMMA WorkerType ==
    ASSUME TypeOK, ControlOK, NEW o \in Overlap,
           WorkerStep(o) \/ Hang(o) \/ Unhang(o)
    PROVE  TypeOK' /\ ControlOK'
<1>1. overlaps[o] # NoRecord
  BY DEF WorkerStep, Hang, Unhang, MarkProcessing, LoadRecord, Download, Extract,
         StoreSeparated, Keeps, RecordImages, MarkCompleted, AuditProcessed, MarkFailed,
         WorkerMoves, ControlOK, Exists
<1>2. overlaps' = overlaps => KeepsRecord(o)
  BY <1>1 DEF KeepsRecord, TypeOK
<1>3. CASE LoadRecord(o) \/ Download(o) \/ Hang(o) \/ Unhang(o)
  <2>1. PICK from \in WorkerActive, to \in WorkerState \ {"none"} : WorkerMoves(o, from, to)
    BY <1>3 DEF LoadRecord, Download, Hang, Unhang, WorkerActive, WorkerState
  <2>2. UNCHANGED << stored, loop >>
    BY <1>3 DEF LoadRecord, Download, Hang, Unhang
  <2>3. QED
    BY <1>2, <2>1, <2>2, MoveType DEF stored, loop, TypeOK
<1>4. CASE MarkProcessing(o)
  <2>1. PICK result \in WriteResults :
           /\ WorkerMoves(o, "start", IF result = "ok" THEN "load" ELSE "gave_up")
           /\ UpdateStatus(o, "processing", result)
    BY <1>4 DEF MarkProcessing
  <2>2. KeepsRecord(o)
    BY <1>1, <2>1, StatusType DEF Status
  <2>3. QED
    BY <1>4, <2>1, <2>2, MoveType DEF MarkProcessing, loop, TypeOK, WorkerActive, WorkerState
<1>5. CASE Extract(o)
  <2>1. answered' \in [ Overlap -> Nat ]
    BY <1>5, CountsAssumption DEF Extract, TypeOK
  <2>2. PICK to \in WorkerState \ {"none"} : WorkerMoves(o, "extract", to)
    BY <1>5 DEF Extract, WorkerState, WorkerActive
  <2>3. QED
    BY <1>2, <1>5, <2>1, <2>2, MoveType DEF Extract, stored, TypeOK, WorkerActive
<1>6. CASE StoreSeparated(o)
  <2>1. index[o] \in 1..2
    BY <1>6 DEF StoreSeparated, MoreImages, TypeOK
  <2>2. << o, index[o] >> \in Asset
    BY <2>1 DEF Asset
  <2>3. paths' \in [ Overlap -> [ Positions -> Asset \cup {NoImage} ] ]
    <3>1. [ paths[o] EXCEPT ![index[o]] = << o, index[o] >> ]
            \in [ Positions -> Asset \cup {NoImage} ]
      BY <2>1, <2>2 DEF TypeOK, Positions
    <3>2. [ paths[o] EXCEPT ![index[o]] = NoImage ] \in [ Positions -> Asset \cup {NoImage} ]
      BY <2>1 DEF TypeOK, Positions
    <3>3. \/ paths' = paths
          \/ paths' = [ paths EXCEPT ![o] = [ paths[o] EXCEPT ![index[o]] = NoImage ] ]
          \/ paths' = [ paths EXCEPT ![o] = [ paths[o] EXCEPT ![index[o]] = << o, index[o] >> ] ]
      BY <1>6 DEF StoreSeparated, Keeps
    <3>4. paths \in [ Overlap -> [ Positions -> Asset \cup {NoImage} ] ]
      BY DEF TypeOK
    <3>5. QED
      BY <3>1, <3>2, <3>3, <3>4
  <2>4. index' \in [ Overlap -> 1..3 ]
    BY <1>6, <2>1 DEF StoreSeparated, Keeps, TypeOK
  <2>5. cloud' \subseteq Asset /\ rejected' \subseteq Asset
    <3>1. /\ cloud' \subseteq cloud \cup { << o, index[o] >> }
          /\ rejected' \subseteq rejected \cup { << o, index[o] >> }
      BY <1>6 DEF StoreSeparated, Upload, GiveUp, Reject
    <3>2. QED
      BY <2>2, <3>1 DEF TypeOK
  <2>6. PICK to \in { "upload", "fail" } : WorkerMoves(o, "upload", to)
    BY <1>6 DEF StoreSeparated, Keeps
  <2>7. QED
    BY <1>2, <1>6, <2>3, <2>4, <2>5, <2>6, MoveType
       DEF StoreSeparated, TypeOK, WorkerActive, WorkerState
<1>7. CASE RecordImages(o)
  <2>1. PICK result \in WriteResults :
           /\ WorkerMoves(o, "upload", IF result = "ok" THEN "complete" ELSE "fail")
           /\ UpdateSeparatedImages(o, result)
    BY <1>7 DEF RecordImages
  <2>2. KeepsRecord(o)
    BY <1>1, <2>1, ImagesType
  <2>3. QED
    BY <1>7, <2>1, <2>2, MoveType DEF RecordImages, loop, TypeOK, WorkerActive, WorkerState
<1>8. CASE MarkCompleted(o)
  <2>1. PICK result \in WriteResults :
           /\ WorkerMoves(o, "complete", IF result = "ok" THEN "audit" ELSE "gave_up")
           /\ UpdateStatus(o, "completed", result)
    BY <1>8 DEF MarkCompleted
  <2>2. KeepsRecord(o)
    BY <1>1, <2>1, StatusType DEF Status
  <2>3. QED
    BY <1>8, <2>1, <2>2, MoveType DEF MarkCompleted, loop, TypeOK, WorkerActive, WorkerState
<1>9. CASE AuditProcessed(o)
  <2>1. audits' \subseteq { "overlap.uploaded", "overlap.processed" } \X Overlap
    BY <1>9 DEF AuditProcessed, WriteAudit, TypeOK
  <2>2. QED
    BY <1>2, <1>9, <2>1, MoveType
       DEF AuditProcessed, loop, TypeOK, WorkerActive, WorkerState
<1>10. CASE MarkFailed(o)
  <2>1. PICK result \in WriteResults :
           /\ WorkerMoves(o, "fail", IF result = "ok" THEN "done" ELSE "gave_up")
           /\ UpdateStatus(o, "failed", result)
    BY <1>10 DEF MarkFailed
  <2>2. KeepsRecord(o)
    BY <1>1, <2>1, StatusType DEF Status
  <2>3. QED
    BY <1>10, <2>1, <2>2, MoveType DEF MarkFailed, loop, TypeOK, WorkerActive, WorkerState
<1>11. QED
  BY <1>3, <1>4, <1>5, <1>6, <1>7, <1>8, <1>9, <1>10 DEF WorkerStep

\* The steps of the process, and stuttering.
LEMMA ServerType ==
    ASSUME TypeOK, ControlOK, ServerStep \/ UNCHANGED vars
    PROVE  TypeOK' /\ ControlOK'
<1>1. CASE Exit \/ ShutdownTimesOut \/ Crash
  <2>1. Stop
    BY <1>1 DEF Exit, ShutdownTimesOut, Crash
  <2>2. QED
    BY <2>1 DEF Stop, Requests, Workers, stored, loop, TypeOK, ControlOK, Exists,
                HandlerState, HandlerActive, WorkerState, WorkerActive
<1>2. CASE Signal \/ Disconnect \/ Start
  BY <1>2 DEF Signal, Disconnect, Start, stored, request, loop, TypeOK, ControlOK, Exists
<1>3. CASE UNCHANGED vars
  BY <1>3 DEF vars, stored, request, loop, TypeOK, ControlOK, Exists
<1>4. QED
  BY <1>1, <1>2, <1>3 DEF ServerStep

\* Every variable keeps its type, and the request, the record and the goroutine
\* advance together (UploadOverlap stores, then creates, then spawns, then answers).
THEOREM TypeCorrect == Spec => [](TypeOK /\ ControlOK)
<1>1. TypeOK /\ ControlOK /\ [Next]_vars => TypeOK' /\ ControlOK'
  BY HandlerType, WorkerType, ServerType DEF Next
<1>2. QED
  BY <1>1, InitType, PTL DEF Spec

-----------------------------------------------------------------------------
(***************************************************************************)
(* The inductive invariant: where the goroutine stands decides what its    *)
(* record says and which separated prints Cloudinary holds.                *)
(***************************************************************************)

BeforeLoop == { "none", "start", "load", "download", "hung", "extract" }
InLoop     == { "upload", "complete" }

OriginalKept(o) ==
    /\ secureURL[o] = "cloud" => << o, 0 >> \in cloud
    /\ secureURL[o] = "local" => o \in disk
    /\ Exists(o) => overlaps[o].original = secureURL[o]
    /\ worker[o] \in { "hung", "extract" } \cup InLoop => secureURL[o] = "cloud"

StatusFollowsWorker(o) ==
    Exists(o) =>
        /\ worker[o] \in { "none", "start" } => overlaps[o].status = "pending"
        /\ worker[o] \in { "load", "download", "hung", "extract", "upload", "complete", "fail" } =>
              overlaps[o].status = "processing"
        /\ worker[o] = "audit" => overlaps[o].status = "completed"
        /\ worker[o] = "done" => overlaps[o].status \in Settled
        /\ worker[o] \in BeforeLoop \cup { "upload" } => overlaps[o].separated = Blank
        /\ worker[o] = "complete" => overlaps[o].separated = paths[o]

LoopMatchesCloud(o) ==
    /\ worker[o] \in BeforeLoop => index[o] = 1
    /\ worker[o] \in BeforeLoop \cup InLoop =>
          \A i \in Positions :
              /\ paths[o][i] = IF << o, i >> \in cloud THEN << o, i >> ELSE NoImage
              /\ << o, i >> \in cloud \cup rejected <=> i < index[o]
              /\ ~(<< o, i >> \in cloud /\ << o, i >> \in rejected)
    /\ worker[o] = "upload" => answered[o] >= 1
    /\ worker[o] = "complete" =>
          /\ index[o] >= 2
          /\ \A i \in Positions : i <= answered[o] => i < index[o]

\* The history tells of rejections only where there may be some.
RejectionsAreFaults(o) ==
    \A i \in Positions : << o, i >> \in rejected => "reject" \in Faults

ImagesResolve(o) ==
    Exists(o) =>
        /\ \A i \in Positions : overlaps[o].separated[i] # NoImage =>
              overlaps[o].separated[i] = << o, i >> /\ << o, i >> \in cloud
        /\ overlaps[o].status = "completed" =>
              /\ secureURL[o] = "cloud"
              /\ \A i \in Positions :
                    /\ << o, i >> \in cloud => overlaps[o].separated[i] = << o, i >>
                    /\ ~(<< o, i >> \in cloud /\ << o, i >> \in rejected)
                    /\ i <= answered[o] => << o, i >> \in cloud \cup rejected

AuditTrue(o) ==
    /\ << "overlap.uploaded", o >> \in audits => Exists(o)
    /\ << "overlap.processed", o >> \in audits => IsCompleted(o)

OInv(o) ==
    /\ OriginalKept(o)
    /\ StatusFollowsWorker(o)
    /\ LoopMatchesCloud(o)
    /\ ImagesResolve(o)
    /\ RejectionsAreFaults(o)
    /\ AuditTrue(o)

IInv == \A o \in Overlap : OInv(o)

\* What OInv(p) reads of the state, unchanged by a step.
Same(p) ==
    /\ overlaps'[p]  = overlaps[p]
    /\ secureURL'[p] = secureURL[p]
    /\ worker'[p]    = worker[p]
    /\ answered'[p]  = answered[p]
    /\ index'[p]     = index[p]
    /\ paths'[p]     = paths[p]
    /\ p \in disk' <=> p \in disk
    /\ \A i \in 0..2 : /\ << p, i >> \in cloud' <=> << p, i >> \in cloud
                       /\ << p, i >> \in rejected' <=> << p, i >> \in rejected
    /\ \A a \in { "overlap.uploaded", "overlap.processed" } :
          << a, p >> \in audits' <=> << a, p >> \in audits

LEMMA Frame ==
    ASSUME NEW p \in Overlap, OInv(p), Same(p)
    PROVE  OInv(p)'
<1>1. OriginalKept(p)' /\ StatusFollowsWorker(p)'
  BY DEF OInv, OriginalKept, StatusFollowsWorker, Same, Exists
<1>2. LoopMatchesCloud(p)'
  BY DEF OInv, LoopMatchesCloud, Same, Positions
<1>3. ImagesResolve(p)'
  BY DEF OInv, ImagesResolve, Same, Exists, Positions
<1>4. AuditTrue(p)'
  BY DEF OInv, AuditTrue, Same, Exists, IsCompleted
<1>5. RejectionsAreFaults(p)'
  BY DEF OInv, RejectionsAreFaults, Same, Positions
<1>6. QED
  BY <1>1, <1>2, <1>3, <1>4, <1>5 DEF OInv

LEMMA OthersSame ==
    ASSUME TypeOK, NEW o \in Overlap, NEW p \in Overlap, p # o,
           ReceiveUpload(o) \/ HandlerStep(o)
             \/ WorkerStep(o) \/ Hang(o) \/ Unhang(o)
    PROVE  Same(p)
<1>1. CASE ReceiveUpload(o)
  BY <1>1 DEF ReceiveUpload, HandlerMoves, stored, loop, Same
<1>2. CASE StoreOriginal(o)
  BY <1>2 DEF StoreOriginal, Upload, GiveUp, Reject, HandlerMoves, loop, Same, TypeOK
<1>3. CASE StoreLocally(o)
  BY <1>3 DEF StoreLocally, HandlerMoves, loop, Same, TypeOK
<1>4. CASE CreateRecord(o)
  BY <1>4 DEF CreateRecord, HandlerMoves, Create, loop, Same, TypeOK
<1>5. CASE AuditUpload(o)
  BY <1>5 DEF AuditUpload, HandlerMoves, WriteAudit, loop, Same, TypeOK
<1>6. CASE SpawnWorker(o) \/ Respond(o)
  BY <1>6 DEF SpawnWorker, Respond, HandlerMoves, stored, loop, Same, TypeOK
<1>8. CASE LoadRecord(o) \/ Download(o) \/ Hang(o) \/ Unhang(o)
  BY <1>8 DEF LoadRecord, Download, Hang, Unhang, WorkerMoves, stored, request, loop, Same, TypeOK
<1>9. CASE MarkProcessing(o)
  BY <1>9 DEF MarkProcessing, WorkerMoves, UpdateStatus, request, loop, Same, TypeOK
<1>10. CASE Extract(o)
  BY <1>10 DEF Extract, WorkerMoves, stored, request, Same, TypeOK
<1>11. CASE StoreSeparated(o)
  <2>1. /\ UNCHANGED << overlaps, audits, disk, answered, request >>
        /\ worker'[p] = worker[p] /\ index'[p] = index[p] /\ paths'[p] = paths[p]
    BY <1>11 DEF StoreSeparated, Keeps, WorkerMoves, TypeOK
  <2>2. /\ cloud' = cloud \/ cloud' = cloud \cup { << o, index[o] >> }
        /\ rejected' = rejected \/ rejected' = rejected \cup { << o, index[o] >> }
    BY <1>11 DEF StoreSeparated, Upload, GiveUp, Reject
  <2>3. QED
    BY <2>1, <2>2 DEF Same, request
<1>12. CASE RecordImages(o)
  BY <1>12 DEF RecordImages, WorkerMoves, UpdateSeparatedImages, request, loop, Same, TypeOK
<1>13. CASE MarkCompleted(o)
  BY <1>13 DEF MarkCompleted, WorkerMoves, UpdateStatus, request, loop, Same, TypeOK
<1>14. CASE AuditProcessed(o)
  BY <1>14 DEF AuditProcessed, WorkerMoves, WriteAudit, request, loop, Same, TypeOK
<1>15. CASE MarkFailed(o)
  BY <1>15 DEF MarkFailed, WorkerMoves, UpdateStatus, request, loop, Same, TypeOK
<1>16. QED
  BY <1>1, <1>2, <1>3, <1>4, <1>5, <1>6, <1>8, <1>9, <1>10, <1>11, <1>12,
     <1>13, <1>14, <1>15 DEF HandlerStep, WorkerStep

LEMMA BlankImages == \A i \in Positions : Blank[i] = NoImage
BY DEF Blank

LEMMA AssetsAreImages == \A o \in Overlap : \A i \in 0..2 : << o, i >> # NoImage
BY NoImageAssumption DEF Asset

LEMMA InitInv == Init => IInv
<1> SUFFICES ASSUME Init, NEW o \in Overlap PROVE OInv(o)
  BY DEF IInv
<1>1. ~Exists(o) /\ worker[o] = "none"
  BY DEF Init, Exists
<1>2. LoopMatchesCloud(o)
  BY <1>1, BlankImages DEF Init, LoopMatchesCloud, BeforeLoop, InLoop, Positions
<1>3. OriginalKept(o) /\ AuditTrue(o) /\ RejectionsAreFaults(o)
  BY <1>1 DEF Init, OriginalKept, AuditTrue, RejectionsAreFaults, InLoop
<1>4. QED
  BY <1>1, <1>2, <1>3 DEF OInv, StatusFollowsWorker, ImagesResolve

\* The steps of a request keep the invariant of its own upload.
LEMMA HandlerInv ==
    ASSUME TypeOK, ControlOK, NEW o \in Overlap, OInv(o),
           ReceiveUpload(o) \/ HandlerStep(o)
    PROVE  OInv(o)'
<1> USE DEF OInv
<1>0. ASSUME UNCHANGED rejected PROVE RejectionsAreFaults(o)'
  BY <1>0 DEF RejectionsAreFaults
<1>1. CASE ReceiveUpload(o)
  <2>1. Same(o)
    BY <1>1 DEF ReceiveUpload, HandlerMoves, stored, loop, Same
  <2>2. QED
    BY <2>1, Frame
<1>2. CASE StoreOriginal(o)
  <2>1. worker[o] = "none" /\ ~Exists(o) /\ ~Exists(o)'
    BY <1>2 DEF StoreOriginal, HandlerMoves, ControlOK, Exists
  <2>2. \A i \in 1..2 : /\ << o, i >> \in cloud' <=> << o, i >> \in cloud
                        /\ << o, i >> \in rejected' <=> << o, i >> \in rejected
    BY <1>2 DEF StoreOriginal, Upload, GiveUp, Reject
  <2>3. OriginalKept(o)'
    BY <1>2, <2>1 DEF StoreOriginal, Upload, GiveUp, Reject, OriginalKept, InLoop, TypeOK, Exists
  <2>4. LoopMatchesCloud(o)' /\ RejectionsAreFaults(o)'
    <3>1. UNCHANGED << worker, loop >>
      BY <1>2 DEF StoreOriginal, HandlerMoves
    <3>2. \A i \in Positions : /\ << o, i >> \in cloud' <=> << o, i >> \in cloud
                               /\ << o, i >> \in rejected' <=> << o, i >> \in rejected
      BY <2>2 DEF Positions
    <3>3. LoopMatchesCloud(o)'
      BY <3>1, <3>2 DEF loop, LoopMatchesCloud
    <3>4. RejectionsAreFaults(o)'
      BY <3>2 DEF RejectionsAreFaults
    <3>5. QED
      BY <3>3, <3>4
  <2>5. AuditTrue(o)'
    BY <1>2 DEF StoreOriginal, AuditTrue, Exists, IsCompleted
  <2>6. StatusFollowsWorker(o)' /\ ImagesResolve(o)'
    BY <2>1 DEF StatusFollowsWorker, ImagesResolve
  <2>7. QED
    BY <2>3, <2>4, <2>5, <2>6
<1>3. CASE StoreLocally(o)
  <2>1. worker[o] = "none" /\ ~Exists(o) /\ ~Exists(o)'
    BY <1>3 DEF StoreLocally, HandlerMoves, ControlOK, Exists
  <2>2. OriginalKept(o)'
    BY <1>3, <2>1 DEF StoreLocally, OriginalKept, InLoop, TypeOK
  <2>3. LoopMatchesCloud(o)' /\ AuditTrue(o)'
    BY <1>3 DEF StoreLocally, HandlerMoves, loop, LoopMatchesCloud, AuditTrue,
                Exists, IsCompleted
  <2>4. StatusFollowsWorker(o)' /\ ImagesResolve(o)'
    BY <2>1 DEF StatusFollowsWorker, ImagesResolve
  <2>5. RejectionsAreFaults(o)'
    BY <1>0, <1>3 DEF StoreLocally
  <2>6. QED
    BY <2>2, <2>3, <2>4, <2>5
<1>4. CASE CreateRecord(o)
  <2>1. /\ handler[o] = "create" /\ worker[o] = "none" /\ ~Exists(o)
        /\ UNCHANGED << audits, files, disk, secureURL, worker, loop >>
    BY <1>4 DEF CreateRecord, HandlerMoves, ControlOK
  <2>2. overlaps'[o] = NewRecord(o) \/ overlaps'[o] = overlaps[o]
    BY <1>4 DEF CreateRecord, Create, TypeOK
  <2>3. CASE overlaps'[o] = overlaps[o]
    <3>1. Same(o)
      BY <2>1, <2>3 DEF loop, Same
    <3>2. QED
      BY <3>1, Frame
  <2>4. CASE overlaps'[o] = NewRecord(o)
    <3>1. OriginalKept(o)' /\ StatusFollowsWorker(o)'
      BY <2>1, <2>4 DEF OriginalKept, StatusFollowsWorker, NewRecord, InLoop
    <3>2. LoopMatchesCloud(o)'
      BY <2>1 DEF LoopMatchesCloud, loop
    <3>3. ImagesResolve(o)'
      BY <2>4, BlankImages DEF ImagesResolve, NewRecord
    <3>4. AuditTrue(o)'
      BY <2>1 DEF AuditTrue, IsCompleted, Exists
    <3>5. RejectionsAreFaults(o)'
      BY <1>0, <2>1
    <3>6. QED
      BY <3>1, <3>2, <3>3, <3>4, <3>5
  <2>5. QED
    BY <2>2, <2>3, <2>4
<1>5. CASE AuditUpload(o)
  <2>1. Exists(o) /\ UNCHANGED << overlaps, files, disk, secureURL, worker, loop >>
    BY <1>5 DEF AuditUpload, HandlerMoves, ControlOK
  <2>2. audits' \subseteq audits \cup { << "overlap.uploaded", o >> }
    BY <1>5 DEF AuditUpload, WriteAudit
  <2>3. AuditTrue(o)'
    BY <2>1, <2>2 DEF AuditTrue, Exists, IsCompleted
  <2>4. QED
    BY <1>0, <2>1, <2>3 DEF OriginalKept, StatusFollowsWorker, LoopMatchesCloud, ImagesResolve,
                            Exists, loop
<1>6. CASE SpawnWorker(o)
  <2>1. /\ worker[o] = "none" /\ worker'[o] = "start"
        /\ UNCHANGED << stored, secureURL, loop >>
    BY <1>6 DEF SpawnWorker, HandlerMoves, ControlOK, TypeOK
  <2>2. QED
    BY <1>0, <2>1 DEF OriginalKept, StatusFollowsWorker, LoopMatchesCloud, ImagesResolve,
                      AuditTrue, Exists, IsCompleted, stored, loop, BeforeLoop, InLoop
<1>7. CASE Respond(o)
  <2>1. Same(o)
    BY <1>7 DEF Respond, HandlerMoves, stored, loop, Same
  <2>2. QED
    BY <2>1, Frame
<1>8. QED
  BY <1>1, <1>2, <1>3, <1>4, <1>5, <1>6, <1>7 DEF HandlerStep

\* The steps of a goroutine keep the invariant of its own upload.
LEMMA WorkerInv ==
    ASSUME TypeOK, ControlOK, NEW o \in Overlap, OInv(o),
           WorkerStep(o) \/ Hang(o) \/ Unhang(o)
    PROVE  OInv(o)'
<1> USE DEF OInv
<1>1. /\ Exists(o) /\ overlaps[o] \in OverlapRecord
      /\ UNCHANGED << server, request >> /\ worker[o] \in WorkerActive
      /\ disk' = disk
  BY DEF WorkerStep, Hang, Unhang, MarkProcessing, LoadRecord, Download, Extract,
         StoreSeparated, Keeps, RecordImages, MarkCompleted, AuditProcessed, MarkFailed,
         WorkerMoves, WorkerActive, ControlOK, Exists, TypeOK, stored
<1>2. ASSUME UNCHANGED rejected PROVE RejectionsAreFaults(o)'
  BY <1>2 DEF RejectionsAreFaults
<1>3. CASE LoadRecord(o) \/ Download(o) \/ Hang(o) \/ Unhang(o)
  <2>1. /\ UNCHANGED << stored, loop >> /\ worker[o] \in BeforeLoop \ { "none", "start" }
        /\ worker'[o] \in (BeforeLoop \ { "none", "start" }) \cup { "fail" }
        /\ worker'[o] \in { "hung", "extract" } => secureURL[o] = "cloud"
    BY <1>1, <1>3 DEF LoadRecord, Download, Hang, Unhang, WorkerMoves, TypeOK, BeforeLoop,
                      OriginalKept
  <2>2. OriginalKept(o)' /\ StatusFollowsWorker(o)'
    BY <1>1, <2>1 DEF OriginalKept, StatusFollowsWorker, Exists, stored, request, BeforeLoop, InLoop
  <2>3. LoopMatchesCloud(o)' /\ RejectionsAreFaults(o)'
    BY <1>2, <2>1 DEF LoopMatchesCloud, stored, loop, BeforeLoop, InLoop
  <2>4. ImagesResolve(o)' /\ AuditTrue(o)'
    BY <1>1, <2>1 DEF ImagesResolve, AuditTrue, Exists, IsCompleted, stored, request, loop
  <2>5. QED
    BY <2>2, <2>3, <2>4
<1>4. CASE MarkProcessing(o)
  <2>1. PICK result \in WriteResults :
           /\ WorkerMoves(o, "start", IF result = "ok" THEN "load" ELSE "gave_up")
           /\ UpdateStatus(o, "processing", result)
    BY <1>4 DEF MarkProcessing
  <2>2. /\ overlaps[o].status = "pending" /\ overlaps[o].separated = Blank
        /\ worker[o] = "start" /\ UNCHANGED << audits, files, loop >>
    BY <1>1, <1>4, <2>1 DEF MarkProcessing, WorkerMoves, StatusFollowsWorker, BeforeLoop
  <2>3. worker'[o] = IF result = "ok" THEN "load" ELSE "gave_up"
    BY <2>1 DEF WorkerMoves, TypeOK
  <2>4. overlaps'[o].status \in { "pending", "processing" }
        /\ (result = "ok" => overlaps'[o].status = "processing")
        /\ overlaps'[o].separated = Blank /\ overlaps'[o].original = overlaps[o].original
        /\ Exists(o)'
    BY <1>1, <2>1, <2>2, StatusType DEF UpdateStatus, Applied, TypeOK, Exists, KeepsRecord, Status
  <2>5. OriginalKept(o)' /\ StatusFollowsWorker(o)'
    BY <1>1, <2>2, <2>3, <2>4 DEF OriginalKept, StatusFollowsWorker, BeforeLoop, InLoop, request, Exists
  <2>6. LoopMatchesCloud(o)'
    BY <2>2, <2>3 DEF LoopMatchesCloud, BeforeLoop, InLoop, loop
  <2>7. ImagesResolve(o)'
    BY <2>4, BlankImages DEF ImagesResolve
  <2>8. AuditTrue(o)'
    BY <2>2, <2>4 DEF AuditTrue, IsCompleted, Exists
  <2>9. QED
    BY <1>2, <2>2, <2>5, <2>6, <2>7, <2>8
<1>5. CASE Extract(o)
  <2>1. /\ UNCHANGED << stored, index, paths >> /\ worker[o] = "extract"
        /\ \/ worker'[o] = "upload" /\ answered'[o] >= 1
           \/ worker'[o] = "fail"
    BY <1>5, CountsAssumption DEF Extract, WorkerMoves, TypeOK
  <2>2. overlaps[o].status = "processing"
    BY <1>1, <2>1 DEF StatusFollowsWorker
  <2>3. OriginalKept(o)' /\ StatusFollowsWorker(o)'
    BY <1>1, <2>1 DEF OriginalKept, StatusFollowsWorker, Exists, stored, request, BeforeLoop, InLoop
  <2>4. LoopMatchesCloud(o)' /\ RejectionsAreFaults(o)'
    BY <1>2, <2>1 DEF LoopMatchesCloud, stored, BeforeLoop, InLoop
  <2>5. ImagesResolve(o)' /\ AuditTrue(o)'
    BY <1>1, <2>1, <2>2 DEF ImagesResolve, AuditTrue, Exists, IsCompleted, stored, request
  <2>6. QED
    BY <2>3, <2>4, <2>5
<1>6. CASE StoreSeparated(o)
  <2>1. /\ UNCHANGED << overlaps, audits, answered >> /\ worker[o] = "upload"
        /\ index[o] \in 1..2
        /\ overlaps[o].separated = Blank /\ overlaps[o].status = "processing"
    BY <1>1, <1>6 DEF StoreSeparated, Keeps, WorkerMoves, MoreImages, TypeOK, StatusFollowsWorker
  <2>2. /\ cloud \subseteq cloud'
        /\ \A i \in 0..2 : i # index[o] => /\ << o, i >> \in cloud' <=> << o, i >> \in cloud
                                           /\ << o, i >> \in rejected' <=> << o, i >> \in rejected
    BY <1>6 DEF StoreSeparated, Upload, GiveUp, Reject
  <2>3. \/ worker'[o] = "fail"
        \/ /\ worker'[o] = "upload" /\ index'[o] = index[o] + 1
           /\ << o, index[o] >> \in cloud' /\ UNCHANGED rejected
           /\ paths'[o] = [ paths[o] EXCEPT ![index[o]] = << o, index[o] >> ]
        \/ /\ worker'[o] = "upload" /\ index'[o] = index[o] + 1
           /\ << o, index[o] >> \in rejected' /\ UNCHANGED cloud
           /\ paths'[o] = [ paths[o] EXCEPT ![index[o]] = NoImage ]
    BY <1>6 DEF StoreSeparated, Keeps, Upload, Reject, WorkerMoves, TypeOK
  <2>4. LoopMatchesCloud(o)'
    <3>1. CASE worker'[o] = "fail"
      BY <3>1 DEF LoopMatchesCloud, BeforeLoop, InLoop
    <3>2. CASE worker'[o] = "upload"
      <4>1. ASSUME NEW i \in Positions
            PROVE  /\ paths'[o][i] = IF << o, i >> \in cloud' THEN << o, i >> ELSE NoImage
                   /\ << o, i >> \in cloud' \cup rejected' <=> i < index'[o]
                   /\ ~(<< o, i >> \in cloud' /\ << o, i >> \in rejected')
        <5>1. /\ paths[o][i] = IF << o, i >> \in cloud THEN << o, i >> ELSE NoImage
              /\ << o, i >> \in cloud \cup rejected <=> i < index[o]
              /\ ~(<< o, i >> \in cloud /\ << o, i >> \in rejected)
          BY <2>1 DEF LoopMatchesCloud, InLoop
        <5>2. CASE i = index[o]
          <6>1. << o, i >> \notin cloud /\ << o, i >> \notin rejected
            BY <2>1, <5>1, <5>2
          <6>2. i < index'[o]
            BY <2>1, <2>3, <3>2, <5>2
          <6>3. paths[o] \in [ Positions -> Asset \cup {NoImage} ]
            BY DEF TypeOK
          <6>4. QED
            BY <2>3, <3>2, <5>2, <6>1, <6>2, <6>3
        <5>3. CASE i # index[o]
          <6>1. paths'[o][i] = paths[o][i]
            BY <2>3, <3>2, <5>3 DEF TypeOK
          <6>2. /\ << o, i >> \in cloud' <=> << o, i >> \in cloud
                /\ << o, i >> \in rejected' <=> << o, i >> \in rejected
            BY <2>2, <5>3 DEF Positions
          <6>3. i < index[o] <=> i < index'[o]
            BY <2>1, <2>3, <3>2, <5>3 DEF Positions
          <6>4. QED
            BY <5>1, <6>1, <6>2, <6>3
        <5>4. QED
          BY <5>2, <5>3
      <4>2. QED
        BY <2>1, <3>2, <4>1 DEF LoopMatchesCloud, BeforeLoop
    <3>3. QED
      BY <2>3, <3>1, <3>2
  <2>5. OriginalKept(o)'
    BY <1>1, <2>1, <2>2, <2>3 DEF OriginalKept, InLoop, request, Exists
  <2>6. StatusFollowsWorker(o)' /\ AuditTrue(o)'
    BY <2>1, <2>3 DEF StatusFollowsWorker, AuditTrue, BeforeLoop, Exists, IsCompleted
  <2>7. ImagesResolve(o)'
    BY <2>1, BlankImages DEF ImagesResolve
  <2>8. RejectionsAreFaults(o)'
    BY <1>6 DEF StoreSeparated, Upload, GiveUp, Reject, RejectionsAreFaults
  <2>9. QED
    BY <2>4, <2>5, <2>6, <2>7, <2>8
<1>7. CASE RecordImages(o)
  <2>1. PICK result \in WriteResults :
           /\ WorkerMoves(o, "upload", IF result = "ok" THEN "complete" ELSE "fail")
           /\ UpdateSeparatedImages(o, result)
    BY <1>7 DEF RecordImages
  <2>2. /\ worker[o] = "upload" /\ UNCHANGED << audits, files, loop >>
        /\ overlaps[o].separated = Blank /\ overlaps[o].status = "processing"
        /\ index[o] >= 2 /\ \A i \in Positions : i <= answered[o] => i < index[o]
    <3>1. worker[o] = "upload" /\ UNCHANGED << audits, files, loop >> /\ ~MoreImages(o)
      BY <1>7, <2>1 DEF RecordImages, WorkerMoves
    <3>2. answered[o] >= 1 /\ answered[o] \in Nat /\ index[o] \in 1..3
      BY <3>1 DEF LoopMatchesCloud, TypeOK
    <3>3. QED
      BY <1>1, <3>1, <3>2 DEF MoreImages, StatusFollowsWorker, Positions
  <2>3. worker'[o] = IF result = "ok" THEN "complete" ELSE "fail"
    BY <2>1 DEF WorkerMoves, TypeOK
  <2>4. /\ overlaps'[o].status = "processing" /\ overlaps'[o].original = overlaps[o].original
        /\ overlaps'[o].separated \in { Blank, paths[o] }
        /\ result = "ok" => overlaps'[o].separated = paths[o]
    BY <1>1, <2>1, <2>2 DEF UpdateSeparatedImages, Applied, TypeOK
  <2>5. OriginalKept(o)' /\ StatusFollowsWorker(o)'
    BY <1>1, <2>2, <2>3, <2>4
       DEF OriginalKept, StatusFollowsWorker, BeforeLoop, InLoop, request, loop, Exists
  <2>6. LoopMatchesCloud(o)'
    BY <2>2, <2>3 DEF LoopMatchesCloud, BeforeLoop, InLoop, loop
  <2>7. ImagesResolve(o)'
    BY <2>2, <2>4, BlankImages, AssetsAreImages DEF ImagesResolve, LoopMatchesCloud, InLoop
  <2>8. AuditTrue(o)'
    <3>1. Exists(o)'
      BY <1>1, <2>1, ImagesType DEF KeepsRecord, Exists
    <3>2. QED
      BY <2>2, <3>1 DEF AuditTrue, IsCompleted, Exists
  <2>9. QED
    BY <1>2, <2>2, <2>5, <2>6, <2>7, <2>8
<1>8. CASE MarkCompleted(o)
  <2>1. PICK result \in WriteResults :
           /\ WorkerMoves(o, "complete", IF result = "ok" THEN "audit" ELSE "gave_up")
           /\ UpdateStatus(o, "completed", result)
    BY <1>8 DEF MarkCompleted
  <2>2. /\ worker[o] = "complete" /\ UNCHANGED << audits, files, loop >>
        /\ overlaps[o].separated = paths[o] /\ overlaps[o].status = "processing"
        /\ secureURL[o] = "cloud"
    BY <1>1, <1>8, <2>1
       DEF MarkCompleted, WorkerMoves, LoopMatchesCloud, StatusFollowsWorker, OriginalKept, InLoop
  <2>3. worker'[o] = IF result = "ok" THEN "audit" ELSE "gave_up"
    BY <2>1 DEF WorkerMoves, TypeOK
  <2>4. /\ overlaps'[o].status \in { "processing", "completed" }
        /\ result = "ok" => overlaps'[o].status = "completed"
        /\ overlaps'[o].original = overlaps[o].original
        /\ overlaps'[o].separated = paths[o]
    BY <1>1, <2>1, <2>2 DEF UpdateStatus, Applied, TypeOK
  <2>5. OriginalKept(o)' /\ StatusFollowsWorker(o)'
    BY <1>1, <2>2, <2>3, <2>4
       DEF OriginalKept, StatusFollowsWorker, BeforeLoop, InLoop, request, loop, Exists
  <2>6. LoopMatchesCloud(o)'
    BY <2>3 DEF LoopMatchesCloud, BeforeLoop, InLoop
  <2>7. ImagesResolve(o)'
    <3>1. \A i \in Positions :
             /\ paths[o][i] = IF << o, i >> \in cloud THEN << o, i >> ELSE NoImage
             /\ ~(<< o, i >> \in cloud /\ << o, i >> \in rejected)
             /\ i <= answered[o] => << o, i >> \in cloud \cup rejected
      BY <2>2 DEF LoopMatchesCloud, InLoop
    <3>2. QED
      BY <1>1, <2>2, <2>4, <3>1 DEF ImagesResolve, request, loop
  <2>8. AuditTrue(o)'
    <3>1. Exists(o)'
      BY <1>1, <2>1, StatusType DEF KeepsRecord, Exists, Status
    <3>2. QED
      BY <2>2, <3>1 DEF AuditTrue, IsCompleted, Exists
  <2>9. QED
    BY <1>2, <2>2, <2>5, <2>6, <2>7, <2>8
<1>9. CASE AuditProcessed(o)
  <2>1. /\ worker[o] = "audit" /\ worker'[o] = "done" /\ UNCHANGED << overlaps, files, loop >>
        /\ overlaps[o].status = "completed"
    BY <1>1, <1>9 DEF AuditProcessed, WorkerMoves, TypeOK, StatusFollowsWorker
  <2>2. audits' \subseteq audits \cup { << "overlap.processed", o >> }
    BY <1>9 DEF AuditProcessed, WriteAudit
  <2>3. AuditTrue(o)'
    BY <1>1, <2>1, <2>2 DEF AuditTrue, Exists, IsCompleted
  <2>4. OriginalKept(o)' /\ StatusFollowsWorker(o)' /\ LoopMatchesCloud(o)'
    BY <1>1, <2>1 DEF OriginalKept, StatusFollowsWorker, LoopMatchesCloud, Settled,
                      Exists, loop, request, BeforeLoop, InLoop
  <2>5. ImagesResolve(o)'
    BY <1>1, <2>1 DEF ImagesResolve, Exists, loop, request
  <2>6. QED
    BY <1>2, <2>1, <2>3, <2>4, <2>5
<1>10. CASE MarkFailed(o)
  <2>1. PICK result \in WriteResults :
           /\ WorkerMoves(o, "fail", IF result = "ok" THEN "done" ELSE "gave_up")
           /\ UpdateStatus(o, "failed", result)
    BY <1>10 DEF MarkFailed
  <2>2. /\ worker[o] = "fail" /\ UNCHANGED << audits, files, loop >>
        /\ worker'[o] = IF result = "ok" THEN "done" ELSE "gave_up"
        /\ overlaps[o].status = "processing"
    BY <1>1, <1>10, <2>1 DEF MarkFailed, WorkerMoves, TypeOK, StatusFollowsWorker
  <2>3. /\ overlaps'[o].status \in { "processing", "failed" }
        /\ result = "ok" => overlaps'[o].status = "failed"
        /\ overlaps'[o].original = overlaps[o].original
        /\ overlaps'[o].separated = overlaps[o].separated
    BY <1>1, <2>1, <2>2 DEF UpdateStatus, Applied, TypeOK
  <2>4. OriginalKept(o)' /\ StatusFollowsWorker(o)' /\ LoopMatchesCloud(o)'
    BY <1>1, <2>2, <2>3
       DEF OriginalKept, StatusFollowsWorker, LoopMatchesCloud, BeforeLoop, InLoop, request,
           Exists, Settled
  <2>5. ImagesResolve(o)'
    BY <1>1, <2>2, <2>3 DEF ImagesResolve
  <2>6. AuditTrue(o)'
    <3>1. Exists(o)'
      BY <1>1, <2>1, StatusType DEF KeepsRecord, Exists, Status
    <3>2. QED
      BY <2>2, <3>1 DEF AuditTrue, IsCompleted, Exists
  <2>7. QED
    BY <1>2, <2>2, <2>4, <2>5, <2>6
<1>11. QED
  BY <1>3, <1>4, <1>5, <1>6, <1>7, <1>8, <1>9, <1>10 DEF WorkerStep

\* The steps of the process, and stuttering.
LEMMA ServerInv ==
    ASSUME TypeOK, ControlOK, NEW p \in Overlap, OInv(p), ServerStep \/ UNCHANGED vars
    PROVE  OInv(p)'
<1>1. CASE Exit \/ ShutdownTimesOut \/ Crash
  <2>1. Stop
    BY <1>1 DEF Exit, ShutdownTimesOut, Crash
  <2>2. UNCHANGED << stored, secureURL, loop >>
    BY <2>1 DEF Stop
  <2>3. CASE worker'[p] = worker[p]
    <3>1. Same(p)
      BY <2>2, <2>3 DEF stored, loop, Same
    <3>2. QED
      BY <3>1, Frame
  <2>4. CASE worker'[p] = "killed"
    BY <2>2, <2>4
       DEF OInv, OriginalKept, StatusFollowsWorker, LoopMatchesCloud, ImagesResolve,
           RejectionsAreFaults, AuditTrue, Exists, IsCompleted, stored, loop, BeforeLoop, InLoop
  <2>5. QED
    BY <2>1, <2>3, <2>4 DEF Stop
<1>2. CASE Signal \/ Disconnect \/ Start \/ UNCHANGED vars
  <2>1. Same(p)
    BY <1>2 DEF Signal, Disconnect, Start, vars, stored, request, loop, Same
  <2>2. QED
    BY <2>1, Frame
<1>3. QED
  BY <1>1, <1>2 DEF ServerStep

LEMMA StepInv == TypeOK /\ ControlOK /\ IInv /\ [Next]_vars => IInv'
<1> SUFFICES ASSUME TypeOK, ControlOK, IInv, [Next]_vars, NEW p \in Overlap
             PROVE  OInv(p)'
  BY DEF IInv
<1>1. OInv(p)
  BY DEF IInv
<1>2. ASSUME NEW o \in Overlap,
             ReceiveUpload(o) \/ HandlerStep(o)
               \/ WorkerStep(o) \/ Hang(o) \/ Unhang(o)
      PROVE  OInv(p)'
  <2>1. CASE p = o
    BY <1>1, <1>2, <2>1, HandlerInv, WorkerInv
  <2>2. CASE p # o
    BY <1>1, <1>2, <2>2, OthersSame, Frame
  <2>3. QED
    BY <2>1, <2>2
<1>3. CASE ServerStep \/ UNCHANGED vars
  BY <1>1, <1>3, ServerInv
<1>4. QED
  BY <1>2, <1>3 DEF Next

LEMMA Invariance == Spec => [](TypeOK /\ ControlOK /\ IInv)
<1>1. TypeOK /\ ControlOK /\ [Next]_vars => TypeOK' /\ ControlOK'
  BY HandlerType, WorkerType, ServerType DEF Next
<1>2. QED
  BY <1>1, InitType, InitInv, StepInv, PTL DEF Spec

-----------------------------------------------------------------------------
(***************************************************************************)
(* The safety properties.                                                  *)
(***************************************************************************)

\* Every URL of every record resolves to its own upload's file, whatever fails or dies.
THEOREM UrlsResolve == Spec => []RecordedUrlsResolve
<1>1. IInv => RecordedUrlsResolve
  BY DEF IInv, OInv, OriginalKept, ImagesResolve, RecordedUrlsResolve
<1>2. QED
  BY <1>1, Invariance, PTL

\* A completed record names its separated prints, but for those Cloudinary rejected, and
\* has its original on Cloudinary.
THEOREM CompletedWhole == Spec => []CompletedIsWhole
<1>1. IInv => CompletedIsWhole
  <2> SUFFICES ASSUME IInv, NEW o \in Overlap, IsCompleted(o)
               PROVE  /\ overlaps[o].original = "cloud"
                      /\ \A i \in Positions :
                            /\ << o, i >> \in cloud <=> overlaps[o].separated[i] = << o, i >>
                            /\ i <= answered[o] => << o, i >> \in cloud \cup rejected
    BY DEF CompletedIsWhole
  <2>1. OriginalKept(o) /\ ImagesResolve(o) /\ Exists(o)
    BY DEF IInv, OInv, IsCompleted
  <2>2. QED
    BY <2>1, AssetsAreImages DEF OriginalKept, ImagesResolve, IsCompleted, Positions
<1>2. QED
  BY <1>1, Invariance, PTL

\* An upload answered 201 has its record; once its goroutine has returned the record is
\* settled, unless the last status write returned an error or the process was killed.
THEOREM AcceptedAccountedFor == Spec => []AcceptedIsAccountedFor
<1>1. TypeOK /\ ControlOK /\ IInv => AcceptedIsAccountedFor
  <2> SUFFICES ASSUME TypeOK, ControlOK, IInv, NEW o \in Overlap, handler[o] = "created"
               PROVE  /\ Exists(o)
                      /\ IsSettled(o) \/ worker[o] \in WorkerActive \cup { "gave_up", "killed" }
    BY DEF AcceptedIsAccountedFor
  <2>1. Exists(o) /\ worker[o] # "none" /\ worker[o] \in WorkerState
    BY DEF ControlOK, TypeOK
  <2>2. worker[o] = "done" => IsSettled(o)
    BY <2>1 DEF IInv, OInv, StatusFollowsWorker, IsSettled
  <2>3. QED
    BY <2>1, <2>2 DEF WorkerState
<1>2. QED
  BY <1>1, Invariance, PTL

\* The audit log tells only of uploads that exist and separations that completed.
THEOREM AuditsTrue == Spec => []AuditsAreTrue
<1>1. IInv => AuditsAreTrue
  BY DEF IInv, OInv, AuditTrue, AuditsAreTrue
<1>2. QED
  BY <1>1, Invariance, PTL

-----------------------------------------------------------------------------
(***************************************************************************)
(* The steps that write a record, as a reader of the record sees them.     *)
(* The life cycle and the finality of a settled record both follow.        *)
(***************************************************************************)

LifeStatus(o) == IF Exists(o) THEN overlaps[o].status ELSE "absent"

LifeImages(o) ==
    IF Exists(o) THEN { i \in Positions : overlaps[o].separated[i] # NoImage } ELSE {}

\* One move of the life cycle, of the record of o.
LifeMove(o) ==
    \/ /\ LifeImages(o)' = LifeImages(o)
       /\ \/ LifeStatus(o) = "absent" /\ LifeStatus(o)' = "pending"
          \/ LifeStatus(o) = "pending" /\ LifeStatus(o)' = "processing"
          \/ LifeStatus(o) = "processing" /\ LifeStatus(o)' = "completed"
               /\ LifeImages(o) \in Gains
          \/ LifeStatus(o) = "processing" /\ LifeStatus(o)' = "failed"
    \/ /\ LifeStatus(o) = "processing" /\ LifeStatus(o)' = "processing"
       /\ LifeImages(o) = {} /\ LifeImages(o)' \in Gains

LEMMA WriteMoves ==
    ASSUME TypeOK, ControlOK, IInv, NEW o \in Overlap,
           ReceiveUpload(o) \/ HandlerStep(o)
             \/ WorkerStep(o) \/ Hang(o) \/ Unhang(o)
    PROVE  overlaps'[o] = overlaps[o] \/ LifeMove(o)
<1>1. OInv(o)
  BY DEF IInv
<1>2. CASE UNCHANGED overlaps
  BY <1>2
<1>3. CASE CreateRecord(o)
  <2>1. handler[o] = "create" /\ ~Exists(o)
    BY <1>3 DEF CreateRecord, HandlerMoves, ControlOK
  <2>2. overlaps'[o] = overlaps[o] \/ overlaps'[o] = NewRecord(o)
    BY <1>3 DEF CreateRecord, Create, TypeOK
  <2>3. ASSUME overlaps'[o] = NewRecord(o) PROVE LifeMove(o)
    <3>1. Exists(o)' /\ LifeStatus(o)' = "pending"
      BY <2>1, <2>3, NewRecordType DEF Exists, LifeStatus, NewRecord
    <3>2. LifeImages(o)' = {}
      BY <2>3, BlankImages DEF LifeImages, NewRecord
    <3>3. QED
      BY <2>1, <3>1, <3>2 DEF LifeMove, LifeStatus, LifeImages
  <2>4. QED
    BY <2>2, <2>3
<1>4. ASSUME NEW s \in Status, NEW result, UpdateStatus(o, s, result), Exists(o),
             LifeImages(o)' = LifeImages(o) => LifeMove(o) \/ LifeStatus(o)' # s
      PROVE  overlaps'[o] = overlaps[o] \/ LifeMove(o)
  <2>1. CASE Applied(result)
    <3>1. /\ overlaps'[o].status = s /\ overlaps'[o].separated = overlaps[o].separated
          /\ Exists(o)'
      BY <1>4, <2>1, StatusType DEF UpdateStatus, TypeOK, KeepsRecord, Exists
    <3>2. LifeImages(o)' = LifeImages(o) /\ LifeStatus(o)' = s
      BY <1>4, <3>1 DEF LifeImages, LifeStatus
    <3>3. QED
      BY <1>4, <3>2
  <2>2. QED
    BY <1>4, <2>1 DEF UpdateStatus
<1>5. CASE MarkProcessing(o)
  <2>1. Exists(o) /\ LifeStatus(o) = "pending"
    BY <1>1, <1>5 DEF MarkProcessing, WorkerMoves, OInv, StatusFollowsWorker, LifeStatus,
                      ControlOK
  <2>2. PICK result \in WriteResults : UpdateStatus(o, "processing", result)
    BY <1>5 DEF MarkProcessing
  <2>3. QED
    BY <1>4, <2>1, <2>2 DEF LifeMove, Status
<1>6. CASE MarkFailed(o)
  <2>1. Exists(o) /\ LifeStatus(o) = "processing"
    BY <1>1, <1>6 DEF MarkFailed, WorkerMoves, OInv, StatusFollowsWorker, LifeStatus, ControlOK
  <2>2. PICK result \in WriteResults : UpdateStatus(o, "failed", result)
    BY <1>6 DEF MarkFailed
  <2>3. QED
    BY <1>4, <2>1, <2>2 DEF LifeMove, Status
<1>7. ASSUME worker[o] \in { "upload", "complete" }, index[o] >= 2
      PROVE  { i \in Positions : paths[o][i] # NoImage } \in Gains
  <2>1. CASE "reject" \in Faults
    BY <2>1 DEF Gains
  <2>2. CASE "reject" \notin Faults
    <3>1. \A i \in Positions : paths[o][i] # NoImage <=> i < index[o]
      BY <1>1, <1>7, <2>2, AssetsAreImages
         DEF OInv, LoopMatchesCloud, RejectionsAreFaults, InLoop, Positions
    <3>2. index[o] \in { 2, 3 }
      BY <1>7 DEF TypeOK
    <3>3. { i \in Positions : paths[o][i] # NoImage } \in { {1}, {1, 2} }
      BY <3>1, <3>2 DEF Positions
    <3>4. QED
      BY <2>2, <3>3 DEF Gains
  <2>3. QED
    BY <2>1, <2>2
<1>8. CASE MarkCompleted(o)
  <2>1. /\ Exists(o) /\ LifeStatus(o) = "processing" /\ worker[o] = "complete"
        /\ index[o] >= 2 /\ overlaps[o].separated = paths[o]
    BY <1>1, <1>8 DEF MarkCompleted, WorkerMoves, OInv, StatusFollowsWorker,
                      LoopMatchesCloud, LifeStatus, ControlOK
  <2>2. LifeImages(o) \in Gains
    BY <1>7, <2>1 DEF LifeImages
  <2>3. PICK result \in WriteResults : UpdateStatus(o, "completed", result)
    BY <1>8 DEF MarkCompleted
  <2>4. QED
    BY <1>4, <2>1, <2>2, <2>3 DEF LifeMove, Status
<1>9. CASE RecordImages(o)
  <2>1. /\ Exists(o) /\ overlaps[o].status = "processing" /\ overlaps[o].separated = Blank
        /\ worker[o] = "upload" /\ index[o] >= 2
    BY <1>1, <1>9 DEF RecordImages, WorkerMoves, MoreImages, OInv, StatusFollowsWorker,
                      LoopMatchesCloud, ControlOK, TypeOK
  <2>2. PICK result \in WriteResults : UpdateSeparatedImages(o, result)
    BY <1>9 DEF RecordImages
  <2>3. CASE Applied(result)
    <3>1. /\ overlaps'[o].status = "processing" /\ overlaps'[o].separated = paths[o]
          /\ Exists(o)'
      BY <2>1, <2>2, <2>3, ImagesType DEF UpdateSeparatedImages, TypeOK, KeepsRecord, Exists
    <3>2. LifeImages(o) = {}
      BY <2>1, BlankImages DEF LifeImages
    <3>3. LifeImages(o)' \in Gains
      BY <1>7, <2>1, <3>1 DEF LifeImages
    <3>4. QED
      BY <2>1, <3>1, <3>2, <3>3 DEF LifeMove, LifeStatus
  <2>4. QED
    BY <2>2, <2>3 DEF UpdateSeparatedImages
<1>10. QED
  BY <1>2, <1>3, <1>5, <1>6, <1>8, <1>9
     DEF ReceiveUpload, HandlerStep, StoreOriginal, StoreLocally, AuditUpload, SpawnWorker,
         Respond, WorkerStep, LoadRecord, Download, Extract, StoreSeparated, Keeps,
         AuditProcessed, Hang, Unhang, stored

LEMMA ServerKeepsRecords == ServerStep => UNCHANGED overlaps
BY DEF ServerStep, Signal, Disconnect, Exit, ShutdownTimesOut, Crash, Start, Stop, stored

\* No step of a handler, a goroutine or the process changes a settled record.
THEOREM SettledFinal == Spec => SettledIsFinal
<1> DEFINE Final == \A o \in Overlap :
              IsSettled(o) => overlaps'[o] = overlaps[o]
<1>1. TypeOK /\ ControlOK /\ IInv /\ [Next]_vars => [Final]_vars
  <2> SUFFICES ASSUME TypeOK, ControlOK, IInv, Next,
                      NEW p \in Overlap, IsSettled(p)
               PROVE  overlaps'[p] = overlaps[p]
    OBVIOUS
  <2>1. ~LifeMove(p)
    BY DEF LifeMove, LifeStatus, Settled, IsSettled
  <2>2. ASSUME NEW o \in Overlap,
               ReceiveUpload(o) \/ HandlerStep(o)
                 \/ WorkerStep(o) \/ Hang(o) \/ Unhang(o)
        PROVE  overlaps'[p] = overlaps[p]
    <3>1. CASE p = o
      BY <2>1, <2>2, <3>1, WriteMoves
    <3>2. CASE p # o
      BY <2>2, <3>2, OthersSame DEF Same
    <3>3. QED
      BY <3>1, <3>2
  <2>3. QED
    BY <2>2, ServerKeepsRecords DEF Next
<1>2. QED
  BY <1>1, Invariance, PTL DEF Spec, SettledIsFinal

LEMMA LifecycleStep ==
    ASSUME TypeOK, ControlOK, IInv, [Next]_vars
    PROVE  [Lifecycle!Next]_(Lifecycle!vars)
<1> DEFINE st == [ o \in Overlap |-> IF Exists(o) THEN overlaps[o].status ELSE "absent" ]
           im == [ o \in Overlap |->
                     IF Exists(o) THEN { i \in Positions : overlaps[o].separated[i] # NoImage }
                                  ELSE {} ]
<1>1. ASSUME NEW p \in Overlap, overlaps'[p] = overlaps[p]
      PROVE  st'[p] = st[p] /\ im'[p] = im[p]
  BY <1>1 DEF Exists
<1>2. ASSUME \A p \in Overlap : overlaps'[p] = overlaps[p]
      PROVE  UNCHANGED Lifecycle!vars
  BY <1>1, <1>2 DEF Lifecycle!vars
<1>3. ASSUME NEW o \in Overlap, LifeMove(o),
             \A p \in Overlap \ {o} : overlaps'[p] = overlaps[p]
      PROVE  Lifecycle!Next
  <2>1. /\ st[o] = LifeStatus(o) /\ st'[o] = LifeStatus(o)'
        /\ im[o] = LifeImages(o) /\ im'[o] = LifeImages(o)'
    BY DEF LifeStatus, LifeImages
  <2>2. /\ st' = [ st EXCEPT ![o] = st'[o] ]
        /\ im' = [ im EXCEPT ![o] = im'[o] ]
    <3>1. \A p \in Overlap \ {o} : st'[p] = st[p] /\ im'[p] = im[p]
      BY <1>1, <1>3
    <3>2. QED
      BY <3>1
  <2>3. im'[o] = im[o] => im' = im
    BY <1>1, <1>3
  <2>4. st'[o] = st[o] => st' = st
    BY <1>1, <1>3
  <2> HIDE DEF st, im
  <2>5. \/ st[o] = "absent" /\ st' = [ st EXCEPT ![o] = "pending" ] /\ im' = im
        \/ st[o] = "pending" /\ st' = [ st EXCEPT ![o] = "processing" ] /\ im' = im
        \/ st[o] = "processing" /\ st' = [ st EXCEPT ![o] = "completed" ] /\ im' = im
             /\ im[o] \in Gains
        \/ st[o] = "processing" /\ st' = [ st EXCEPT ![o] = "failed" ] /\ im' = im
        \/ st[o] = "processing" /\ st' = st /\ im[o] = {}
             /\ \E s \in Gains : im' = [ im EXCEPT ![o] = s ]
    BY <1>3, <2>1, <2>2, <2>3, <2>4 DEF LifeMove
  <2> USE DEF st, im
  <2>6. \/ Lifecycle!Register(o) \/ Lifecycle!Begin(o) \/ Lifecycle!Attach(o)
        \/ Lifecycle!Complete(o) \/ Lifecycle!Fail(o)
    BY <2>5 DEF Lifecycle!Register, Lifecycle!Begin, Lifecycle!Attach, Lifecycle!Complete,
                Lifecycle!Fail, Lifecycle!Moves
  <2>7. QED
    BY <2>6 DEF Lifecycle!Next
<1>4. CASE ServerStep \/ UNCHANGED vars
  BY <1>2, <1>4, ServerKeepsRecords DEF vars, stored
<1>5. ASSUME NEW o \in Overlap,
             ReceiveUpload(o) \/ HandlerStep(o)
               \/ WorkerStep(o) \/ Hang(o) \/ Unhang(o)
      PROVE  [Lifecycle!Next]_(Lifecycle!vars)
  <2>1. \A p \in Overlap \ {o} : overlaps'[p] = overlaps[p]
    BY <1>5, OthersSame DEF Same
  <2>2. overlaps'[o] = overlaps[o] \/ LifeMove(o)
    BY <1>5, WriteMoves
  <2>3. QED
    BY <1>2, <1>3, <2>1, <2>2
<1>6. QED
  BY <1>4, <1>5 DEF Next

LEMMA LifecycleInit == Init => Lifecycle!Init
BY DEF Init, Lifecycle!Init, Exists

\* The record of every upload follows the abstract life cycle.
THEOREM Refinement == Spec => LifecycleSpec
<1>1. TypeOK /\ ControlOK /\ IInv /\ [Next]_vars => [Lifecycle!Next]_(Lifecycle!vars)
  BY LifecycleStep
<1>2. QED
  BY <1>1, LifecycleInit, Invariance, PTL DEF Spec, LifecycleSpec, Lifecycle!Spec

-----------------------------------------------------------------------------
(***************************************************************************)
(* While the process lives and the database takes every write, nothing is  *)
(* left behind.                                                            *)
(***************************************************************************)

Undisturbed == { "db_write", "crash", "shutdown" } \cap Faults = {}

Attended(o) ==
    /\ Exists(o) /\ worker[o] = "none" => handler[o] \in { "audit", "spawn" }
    /\ worker[o] \notin { "gave_up", "killed" }
    /\ worker[o] = "done" =>
          /\ overlaps[o].status \in Settled
          /\ overlaps[o].status = "completed" => << "overlap.processed", o >> \in audits
    /\ handler[o] = "spawn" \/ worker[o] # "none" => << "overlap.uploaded", o >> \in audits

AttendedInv == server = "up" /\ \A o \in Overlap : Attended(o)

LEMMA AttendedOwn ==
    ASSUME Undisturbed, TypeOK, ControlOK, IInv, AttendedInv, NEW o \in Overlap,
           ReceiveUpload(o) \/ HandlerStep(o)
             \/ WorkerStep(o) \/ Hang(o) \/ Unhang(o)
    PROVE  Attended(o)'
<1>1. Attended(o) /\ OInv(o)
  BY DEF AttendedInv, IInv
<1>2. WriteResults = { "ok" } /\ Connected
  BY DEF WriteResults, Connected, Undisturbed, AttendedInv
<1>3. CASE ReceiveUpload(o)
  BY <1>1, <1>3 DEF ReceiveUpload, HandlerMoves, stored, Attended, ControlOK, Exists, TypeOK
<1>4. CASE StoreOriginal(o) \/ StoreLocally(o)
  BY <1>1, <1>4 DEF StoreOriginal, StoreLocally, HandlerMoves, Attended, ControlOK, Exists, TypeOK
<1>5. CASE CreateRecord(o)
  BY <1>1, <1>2, <1>5 DEF CreateRecord, HandlerMoves, Attended, ControlOK, Exists, TypeOK
<1>6. CASE AuditUpload(o)
  <2>1. /\ << "overlap.uploaded", o >> \in audits' /\ worker[o] = "none"
        /\ handler'[o] = "spawn" /\ UNCHANGED << overlaps, worker >>
    BY <1>2, <1>6 DEF AuditUpload, HandlerMoves, WriteAudit, Applied, ControlOK, TypeOK
  <2>2. QED
    BY <2>1 DEF Attended
<1>7. CASE SpawnWorker(o)
  BY <1>1, <1>7 DEF SpawnWorker, HandlerMoves, stored, Attended, TypeOK
<1>8. CASE Respond(o)
  BY <1>1, <1>8 DEF Respond, HandlerMoves, stored, request, Attended,
                    ControlOK, Exists, TypeOK
<1>9. ASSUME NEW from \in WorkerActive, NEW to \in WorkerActive, WorkerMoves(o, from, to),
             audits' = audits
      PROVE  Attended(o)'
  BY <1>1, <1>9 DEF WorkerMoves, WorkerActive, request, Attended, TypeOK
<1>10. CASE LoadRecord(o) \/ Download(o) \/ Hang(o) \/ Unhang(o)
            \/ Extract(o) \/ StoreSeparated(o)
  BY <1>9, <1>10 DEF LoadRecord, Download, Hang, Unhang, Extract, StoreSeparated,
                     Keeps, WorkerActive, stored
<1>11. CASE MarkProcessing(o) \/ RecordImages(o) \/ MarkCompleted(o)
  BY <1>2, <1>9, <1>11 DEF MarkProcessing, RecordImages, MarkCompleted, WorkerActive
<1>12. CASE AuditProcessed(o)
  <2>1. /\ << "overlap.processed", o >> \in audits' /\ audits \subseteq audits'
        /\ worker[o] = "audit" /\ worker'[o] = "done" /\ UNCHANGED << overlaps, request >>
    BY <1>2, <1>12 DEF AuditProcessed, WorkerMoves, WriteAudit, Applied, TypeOK
  <2>2. overlaps[o].status = "completed"
    BY <1>1, <2>1 DEF OInv, StatusFollowsWorker, ControlOK
  <2>3. QED
    BY <1>1, <2>1, <2>2 DEF Attended, Settled, request
<1>13. CASE MarkFailed(o)
  <2>1. /\ worker[o] = "fail" /\ worker'[o] = "done" /\ UNCHANGED << audits, request >>
    BY <1>2, <1>13 DEF MarkFailed, WorkerMoves, TypeOK
  <2>2. PICK result \in WriteResults : UpdateStatus(o, "failed", result)
    BY <1>13 DEF MarkFailed
  <2>3. overlaps'[o].status = "failed"
    BY <1>2, <2>2 DEF UpdateStatus, Applied, TypeOK
  <2>4. QED
    BY <1>1, <2>1, <2>3 DEF Attended, Settled, request
<1>14. QED
  BY <1>3, <1>4, <1>5, <1>6, <1>7, <1>8, <1>10, <1>11, <1>12, <1>13 DEF HandlerStep, WorkerStep

LEMMA AttendedStep ==
    ASSUME Undisturbed, TypeOK, ControlOK, IInv, AttendedInv, [Next]_vars
    PROVE  AttendedInv'
<1>1. ASSUME NEW o \in Overlap,
             ReceiveUpload(o) \/ HandlerStep(o)
               \/ WorkerStep(o) \/ Hang(o) \/ Unhang(o)
      PROVE  AttendedInv'
  <2>1. server' = server /\ \A p \in Overlap \ {o} : handler'[p] = handler[p]
    <3>1. CASE ReceiveUpload(o) \/ HandlerStep(o)
      <4>1. \E from, to \in HandlerState : HandlerMoves(o, from, to)
        BY <3>1 DEF ReceiveUpload, HandlerStep, StoreOriginal, StoreLocally, CreateRecord,
                    AuditUpload, SpawnWorker, Respond, HandlerState, HandlerActive
      <4>2. QED
        BY <4>1 DEF HandlerMoves, TypeOK
    <3>2. CASE WorkerStep(o) \/ Hang(o) \/ Unhang(o)
      <4>1. \E from, to \in WorkerState : WorkerMoves(o, from, to)
        BY <3>2 DEF WorkerStep, MarkProcessing, LoadRecord, Download, Extract,
                    StoreSeparated, Keeps, RecordImages, MarkCompleted, AuditProcessed, MarkFailed,
                    Hang, Unhang, WorkerState, WorkerActive
      <4>2. QED
        BY <4>1 DEF WorkerMoves, request
    <3>3. QED
      BY <1>1, <3>1, <3>2
  <2>2. ASSUME NEW p \in Overlap \ {o} PROVE Attended(p)'
    BY <1>1, <2>1, <2>2, OthersSame DEF AttendedInv, Attended, Same, Exists
  <2>3. Attended(o)'
    BY <1>1, AttendedOwn
  <2>4. QED
    BY <2>1, <2>2, <2>3 DEF AttendedInv
<1>2. CASE ServerStep
  <2>1. "crash" \notin Faults /\ "shutdown" \notin Faults /\ server = "up"
    BY DEF Undisturbed, AttendedInv
  <2>2. QED
    BY <1>2, <2>1 DEF ServerStep, Signal, Disconnect, Exit, ShutdownTimesOut, Crash, Start
<1>3. CASE UNCHANGED vars
  BY <1>3 DEF vars, stored, request, AttendedInv, Attended, Exists
<1>4. QED
  BY <1>1, <1>2, <1>3 DEF Next

\* With a living process and a database that takes writes, whatever else fails, an
\* unsettled record has its handler or its goroutine, and a completed one has its
\* audit entries once its goroutine has ended.
THEOREM NothingLeftBehind ==
    ASSUME Undisturbed
    PROVE  Spec => [](NoOrphanedWork /\ AuditTrailComplete)
<1>1. Init => AttendedInv
  BY DEF Init, AttendedInv, Attended, Exists
<1>2. TypeOK /\ ControlOK /\ IInv /\ AttendedInv /\ [Next]_vars => AttendedInv'
  BY AttendedStep
<1>3. TypeOK /\ ControlOK /\ AttendedInv => NoOrphanedWork
  BY DEF AttendedInv, Attended, NoOrphanedWork, IsSettled, TypeOK, WorkerState, HandlerActive
<1>4. ControlOK /\ AttendedInv => AuditTrailComplete
  <2> SUFFICES ASSUME AttendedInv, NEW o \in Overlap, IsCompleted(o), worker[o] = "done"
               PROVE  { "overlap.uploaded", "overlap.processed" } \X { o } \subseteq audits
    BY DEF AuditTrailComplete
  <2>1. << "overlap.uploaded", o >> \in audits /\ << "overlap.processed", o >> \in audits
    BY DEF AttendedInv, Attended, IsCompleted
  <2>2. QED
    BY <2>1
<1>5. QED
  BY <1>1, <1>2, <1>3, <1>4, Invariance, PTL DEF Spec
==============================================================================
