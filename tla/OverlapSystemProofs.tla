------------------------- MODULE OverlapSystemProofs -------------------------
(***************************************************************************)
(* Theorems about OverlapSystem, for every set of uploads and every        *)
(* combination of faults and troubles: the pipeline with a real service    *)
(* under it is still the pipeline, and a record tells what its picture was.*)
(***************************************************************************)
EXTENDS OverlapSystem, OverlapPipelineProofs

USE DEF files

(***************************************************************************)
(* The service behind the step Extract.                                    *)
(***************************************************************************)

LEMMA ExtractImplements ==
    ASSUME NEW o \in Overlap, ReceivePrints(o) \/ ExtractFails(o)
    PROVE  Extract(o)
<1>1. CASE ReceivePrints(o)
  <2>1. PICK n \in 1..2 : answered' = [ answered EXCEPT ![o] = n ]
    BY <1>1 DEF ReceivePrints
  <2>2. n \in ImageCounts
    BY CompositionAssumption
  <2>3. QED
    BY <1>1, <2>1, <2>2 DEF ReceivePrints, Extract
<1>2. CASE ExtractFails(o)
  BY <1>2, CompositionAssumption DEF ExtractFails, Extract, loop
<1>3. QED
  BY <1>1, <1>2

LEMMA StepImplements == [SystemNext]_systemVars => [Next]_vars
<1> SUFFICES ASSUME [SystemNext]_systemVars PROVE [Next]_vars
  OBVIOUS
<1>1. ASSUME NEW o \in Overlap, LocalStep(o) PROVE Next
  BY <1>1 DEF LocalStep, Next, WorkerStep
<1>2. ASSUME NEW o \in Overlap, ExtractStep(o) PROVE [Next]_vars
  BY <1>2, ExtractImplements DEF ExtractStep, AskService, Next, WorkerStep
<1>3. ASSUME NEW o \in Overlap,
             ReceiveUpload(o) \/ HandlerStep(o) \/ Hang(o) \/ Unhang(o)
      PROVE  Next
  BY <1>3 DEF Next
<1>4. CASE UNCHANGED systemVars
  BY <1>4 DEF systemVars
<1>5. QED
  BY <1>1, <1>2, <1>3, <1>4 DEF SystemNext

\* Whatever the service does, its caller sees a step Extract of the pipeline.
THEOREM PipelineImplemented == SystemSpec => ImplementsPipeline
<1>1. SystemInit => Init
  BY DEF SystemInit
<1>2. QED
  BY <1>1, StepImplements, PTL DEF SystemSpec, ImplementsPipeline, Spec

\* So what is proved of the pipeline holds with the service under it.
THEOREM SystemRecordsTrue ==
    SystemSpec => [](RecordedUrlsResolve /\ CompletedIsWhole /\ AuditsAreTrue)
BY PipelineImplemented, UrlsResolve, CompletedWhole, AuditsTrue, PTL DEF ImplementsPipeline

\* ... and, with a database that takes writes, every unsettled record has someone at work on
\* it, and a completed one its audit entries, however the service dies.
THEOREM SystemLeavesNothingBehind ==
    ASSUME Undisturbed
    PROVE  SystemSpec => [](NoOrphanedWork /\ AuditTrailComplete)
BY PipelineImplemented, NothingLeftBehind, PTL DEF ImplementsPipeline

-----------------------------------------------------------------------------
(***************************************************************************)
(* The exchanges.                                                          *)
(***************************************************************************)

LEMMA ServiceTypeInit == ServiceInit => ServiceTypeOK
BY DEF ServiceInit, ServiceTypeOK, At, Heard, Unheard, Exchange

\* The caller's steps.
LEMMA CallerType ==
    ASSUME ServiceTypeOK, NEW c \in Call, Send(c) \/ NoConnection(c) \/ HangUp(c)
    PROVE  ServiceTypeOK'
<1> USE DEF At, Heard, Unheard, Exchange
<1>1. CASE Send(c)
  BY <1>1 DEF Send, Moves, ServiceTypeOK
<1>2. CASE NoConnection(c)
  BY <1>2 DEF NoConnection, Moves, ServiceTypeOK
<1>3. CASE HangUp(c)
  BY <1>3 DEF HangUp, Moves, ServiceTypeOK
<1>4. QED
  BY <1>1, <1>2, <1>3

\* The service's steps.
LEMMA AnswerType ==
    ASSUME ServiceTypeOK, NEW c \in Call, ServiceStep(c) \/ \E n \in Nat : Reply(c, n)
    PROVE  ServiceTypeOK'
<1> USE DEF At, Heard, Unheard, Exchange
<1>1. CASE TakeUp(c)
  BY <1>1 DEF TakeUp, Busy, Moves, ServiceTypeOK
<1>2. CASE Drop(c)
  BY <1>2 DEF Drop, Moves, ServiceTypeOK
<1>3. CASE Discard(c)
  BY <1>3 DEF Discard, Moves, ServiceTypeOK
<1>4. CASE \E n \in Nat : Reply(c, n)
  <2>1. Moves(c, "ended") /\ UNCHANGED model
    BY <1>4 DEF Reply
  <2>2. picture' \in [ Call -> Picture \cup { "unseen" } ]
    BY <1>4 DEF Reply, ServiceTypeOK
  <2>3. QED
    BY <2>1, <2>2 DEF Moves, ServiceTypeOK
<1>5. QED
  BY <1>1, <1>2, <1>3, <1>4 DEF ServiceStep

\* The service process, and steps of others.
LEMMA ProcessType ==
    ASSUME ServiceTypeOK, Die \/ Restart \/ UNCHANGED service
    PROVE  ServiceTypeOK'
<1> USE DEF At, Heard, Unheard, Exchange
<1>1. CASE Die
  BY <1>1 DEF Die, ServiceTypeOK
<1>2. CASE Restart
  BY <1>2 DEF Restart, ServiceTypeOK
<1>3. CASE UNCHANGED service
  BY <1>3 DEF service, ServiceTypeOK
<1>4. QED
  BY <1>1, <1>2, <1>3

\* The service's state keeps its types, its event loop is at one call at most, and a service
\* that died holds no call.
THEOREM ServiceTypeCorrect == SystemSpec => []ServiceTypeOK
<1>1. ServiceTypeOK /\ [SystemNext]_systemVars => ServiceTypeOK'
  <2> SUFFICES ASSUME ServiceTypeOK, [SystemNext]_systemVars PROVE ServiceTypeOK'
    OBVIOUS
  <2>1. ASSUME NEW o \in Overlap, ExtractStep(o) PROVE ServiceTypeOK'
    <3>1. o \in Call
      BY CompositionAssumption
    <3>2. (\E n \in 1..2 : Reply(o, n)) \/ Reply(o, 0) => \E n \in Nat : Reply(o, n)
      OBVIOUS
    <3>3. CASE AskService(o)
      BY <3>1, <3>3, CallerType DEF AskService
    <3>4. CASE ReceivePrints(o)
      <4>1. \E n \in 1..2 : Reply(o, n)
        BY <3>4 DEF ReceivePrints
      <4>2. QED
        BY <3>1, <3>2, <4>1, AnswerType
    <3>5. CASE ExtractFails(o)
      BY <3>1, <3>2, <3>5, CallerType, AnswerType DEF ExtractFails
    <3>6. QED
      BY <2>1, <3>3, <3>4, <3>5 DEF ExtractStep
  <2>2. ASSUME NEW o \in Overlap, ServiceStep(o) PROVE ServiceTypeOK'
    BY <2>2, AnswerType, CompositionAssumption
  <2>3. CASE Die \/ Restart \/ UNCHANGED service
    BY <2>3, ProcessType
  <2>4. QED
    BY <2>1, <2>2, <2>3 DEF SystemNext, LocalStep, systemVars
<1>2. QED
  BY <1>1, ServiceTypeInit, PTL DEF SystemSpec, SystemInit

-----------------------------------------------------------------------------
(***************************************************************************)
(* From the picture to the record: the answer counts the prints of the     *)
(* picture, the loop stores as many, and the record names those.           *)
(***************************************************************************)

Legible == { "single", "overlapped" }

PictureOK(o) ==
    /\ exchange[o] = "working" => worker[o] = "extract"
    /\ At(o, { "queued", "broken" }) => worker[o] = "extract"
    /\ worker[o] \in InLoop =>
          /\ picture[o] \in Legible
          /\ answered[o] = ImagesFor(picture[o])
          /\ index[o] <= answered[o] + 1
    /\ worker[o] = "complete" => index[o] = answered[o] + 1
    /\ IsCompleted(o) =>
          /\ picture[o] \in Legible
          /\ overlaps[o].separated[1] # NoImage <=> << o, 1 >> \notin rejected
          /\ overlaps[o].separated[2] # NoImage
                <=> picture[o] = "overlapped" /\ << o, 2 >> \notin rejected

PictureInv == \A o \in Overlap : PictureOK(o)

PipelineInv == TypeOK /\ ControlOK /\ IInv

LEMMA PictureInit == SystemInit => PictureInv
<1> SUFFICES ASSUME SystemInit, NEW o \in Overlap PROVE PictureOK(o)
  BY DEF PictureInv
<1>1. exchange[o] = "none" /\ worker[o] = "none" /\ ~IsCompleted(o)
  BY CompositionAssumption DEF SystemInit, Init, ServiceInit, IsCompleted, Exists
<1>2. QED
  BY <1>1 DEF PictureOK, At, InLoop

\* What PictureOK(p) reads of the pipeline, unchanged by a step.
SameRecord(p) ==
    /\ overlaps'[p] = overlaps[p] /\ worker'[p] = worker[p]
    /\ answered'[p] = answered[p] /\ index'[p] = index[p]
    /\ << p, 1 >> \in rejected' <=> << p, 1 >> \in rejected
    /\ << p, 2 >> \in rejected' <=> << p, 2 >> \in rejected

SameCall(p) == exchange'[p] = exchange[p] /\ picture'[p] = picture[p]

LEMMA PictureFrame ==
    ASSUME NEW p \in Overlap, PictureOK(p), SameRecord(p), SameCall(p)
    PROVE  PictureOK(p)'
<1>1. IsCompleted(p)' <=> IsCompleted(p)
  BY DEF SameRecord, IsCompleted, Exists
<1>2. QED
  BY <1>1 DEF PictureOK, SameRecord, SameCall, At, ImagesFor

\* Exchanges of other calls are left alone, and so is one's own picture but for the answer.
LEMMA OtherCalls ==
    ASSUME ServiceTypeOK, NEW o \in Call, NEW p \in Call, p # o,
           \/ Send(o) \/ NoConnection(o) \/ HangUp(o) \/ ServiceStep(o)
           \/ \E n \in Nat : Reply(o, n)
    PROVE  SameCall(p)
BY DEF Send, NoConnection, HangUp, ServiceStep, TakeUp, Drop, Discard, Reply, Moves,
       ServiceTypeOK, SameCall

\* A request does not touch the goroutine, nor a completed record.
LEMMA RequestPicture ==
    ASSUME PipelineInv, NEW o \in Overlap, PictureOK(o), UNCHANGED service,
           ReceiveUpload(o) \/ HandlerStep(o)
    PROVE  PictureOK(o)'
<1>1. SameCall(o) /\ UNCHANGED << answered, index >>
  BY DEF service, SameCall, ReceiveUpload, HandlerStep, StoreOriginal, StoreLocally,
         CreateRecord, AuditUpload, SpawnWorker, Respond, HandlerMoves, loop
<1>2. CASE CreateRecord(o)
  <2>1. handler[o] = "create" /\ worker[o] = "none" /\ UNCHANGED worker
    BY <1>2 DEF CreateRecord, HandlerMoves, PipelineInv, ControlOK
  <2>2. ~IsCompleted(o)'
    <3>1. ~Exists(o)
      BY <2>1 DEF PipelineInv, ControlOK
    <3>2. PICK result \in WriteResults : Create(o, result)
      BY <1>2 DEF CreateRecord
    <3>3. overlaps'[o] = NewRecord(o) \/ overlaps'[o] = NoRecord
      BY <3>1, <3>2 DEF Create, Exists, PipelineInv, TypeOK
    <3>4. QED
      BY <3>3 DEF IsCompleted, Exists, NewRecord
  <2>3. QED
    BY <1>1, <2>1, <2>2 DEF PictureOK, SameCall, At, InLoop
<1>3. CASE SpawnWorker(o)
  <2>1. worker[o] = "none" /\ worker'[o] = "start" /\ UNCHANGED << overlaps, rejected >>
    BY <1>3 DEF SpawnWorker, HandlerMoves, PipelineInv, ControlOK, TypeOK, stored
  <2>2. QED
    BY <1>1, <2>1 DEF PictureOK, SameCall, At, InLoop, IsCompleted, Exists
<1>4. CASE ReceiveUpload(o) \/ StoreOriginal(o) \/ StoreLocally(o) \/ AuditUpload(o) \/ Respond(o)
  <2>1. /\ UNCHANGED << overlaps, worker >>
        /\ << o, 1 >> \in rejected' <=> << o, 1 >> \in rejected
        /\ << o, 2 >> \in rejected' <=> << o, 2 >> \in rejected
    BY <1>4 DEF ReceiveUpload, StoreOriginal, StoreLocally, AuditUpload, Respond,
                HandlerMoves, Upload, GiveUp, Reject, stored
  <2>2. QED
    BY <1>1, <2>1, PictureFrame DEF SameRecord
<1>5. QED
  BY <1>2, <1>3, <1>4 DEF HandlerStep

\* The goroutine by itself: its loop stores as many prints as were answered, and only the
\* end of the loop completes the record.
LEMMA LocalPicture ==
    ASSUME PipelineInv, NEW o \in Overlap, PictureOK(o), SameCall(o),
           LocalStep(o) \/ Hang(o) \/ Unhang(o)
    PROVE  PictureOK(o)'
<1> DEFINE Completes == IsCompleted(o)'
<1>1. OInv(o)
  BY DEF PipelineInv, IInv
<1>2. CASE MarkProcessing(o)
  <2>1. worker[o] = "start" /\ worker'[o] \in { "load", "gave_up" }
    BY <1>2 DEF MarkProcessing, WorkerMoves, PipelineInv, TypeOK
  <2>2. ~Completes
    BY <1>1, <1>2, <2>1 DEF MarkProcessing, UpdateStatus, OInv, StatusFollowsWorker, IsCompleted,
       Exists, PipelineInv, ControlOK, TypeOK
  <2>3. QED
    BY <2>1, <2>2 DEF PictureOK, SameCall, At, InLoop
<1>3. CASE LoadRecord(o) \/ Download(o) \/ Hang(o) \/ Unhang(o)
  <2>1. /\ worker[o] \in { "load", "download", "hung" }
        /\ worker'[o] \in { "download", "hung", "extract", "fail" }
        /\ UNCHANGED << overlaps, rejected >>
    BY <1>3 DEF LoadRecord, Download, Hang, Unhang, WorkerMoves, stored, PipelineInv, TypeOK
  <2>2. QED
    BY <2>1 DEF PictureOK, SameCall, At, InLoop, IsCompleted, Exists
<1>4. CASE StoreSeparated(o)
  <2>1. /\ worker[o] = "upload" /\ UNCHANGED << overlaps, answered >>
        /\ index[o] <= answered[o] /\ index[o] \in 1..3 /\ answered[o] \in Nat
        /\ \/ worker'[o] = "upload" /\ index'[o] = index[o] + 1
           \/ worker'[o] = "fail"
    BY <1>4 DEF StoreSeparated, Keeps, MoreImages, WorkerMoves, PipelineInv, TypeOK
  <2>2. ~Completes
    BY <1>1, <2>1 DEF OInv, StatusFollowsWorker, IsCompleted, Exists
  <2>3. QED
    BY <2>1, <2>2 DEF PictureOK, SameCall, At, InLoop
<1>5. CASE RecordImages(o)
  <2>1. /\ worker[o] = "upload" /\ worker'[o] \in { "complete", "fail" }
        /\ UNCHANGED << answered, index >>
        /\ index[o] \in 1..3 /\ ~(index[o] <= answered[o] /\ index[o] <= 2)
    BY <1>5 DEF RecordImages, MoreImages, WorkerMoves, loop, PipelineInv, TypeOK
  <2>2. ~Completes
    BY <1>1, <1>5, <2>1 DEF RecordImages, UpdateSeparatedImages, OInv, StatusFollowsWorker,
       IsCompleted, Exists, PipelineInv, ControlOK, TypeOK
  <2>3. answered[o] \in 1..2 /\ index[o] <= answered[o] + 1
    BY <2>1 DEF PictureOK, InLoop, Legible, ImagesFor
  <2>4. index[o] = answered[o] + 1
    BY <2>1, <2>3
  <2>5. QED
    BY <2>1, <2>2, <2>3, <2>4 DEF PictureOK, SameCall, At, InLoop
<1>6. CASE MarkCompleted(o)
  <2>1. worker[o] = "complete" /\ worker'[o] \in { "audit", "gave_up" } /\ Exists(o)
        /\ UNCHANGED rejected
    BY <1>1, <1>6 DEF MarkCompleted, WorkerMoves, PipelineInv, TypeOK, ControlOK
  <2>2. overlaps'[o].separated = paths[o]
    BY <1>1, <1>6, <2>1 DEF MarkCompleted, UpdateStatus, OInv, StatusFollowsWorker, PipelineInv,
       TypeOK
  <2>3. picture[o] \in Legible /\ index[o] = ImagesFor(picture[o]) + 1
    BY <2>1 DEF PictureOK, InLoop
  <2>4. \A i \in Positions : paths[o][i] # NoImage <=> i < index[o] /\ << o, i >> \notin rejected
    BY <1>1, <2>1, AssetsAreImages DEF OInv, LoopMatchesCloud, InLoop, Positions
  <2>5. 1 < index[o] /\ (2 < index[o] <=> picture[o] = "overlapped")
    BY <2>3 DEF Legible, ImagesFor
  <2>6. QED
    BY <2>1, <2>2, <2>3, <2>4, <2>5 DEF PictureOK, SameCall, At, InLoop, Positions
<1>7. CASE AuditProcessed(o)
  <2>1. worker[o] = "audit" /\ worker'[o] = "done" /\ UNCHANGED << overlaps, rejected >>
    BY <1>7 DEF AuditProcessed, WorkerMoves, PipelineInv, TypeOK
  <2>2. IsCompleted(o)' <=> IsCompleted(o)
    BY <2>1 DEF IsCompleted, Exists
  <2>3. QED
    BY <2>1, <2>2 DEF PictureOK, SameCall, At, InLoop
<1>8. CASE MarkFailed(o)
  <2>1. worker[o] = "fail" /\ worker'[o] \in { "done", "gave_up" }
    BY <1>8 DEF MarkFailed, WorkerMoves, PipelineInv, TypeOK
  <2>2. ~Completes
    BY <1>1, <1>8, <2>1 DEF MarkFailed, UpdateStatus, OInv, StatusFollowsWorker, IsCompleted,
       Exists, PipelineInv, ControlOK, TypeOK
  <2>3. QED
    BY <2>1, <2>2 DEF PictureOK, SameCall, At, InLoop
<1>9. QED
  BY <1>2, <1>3, <1>4, <1>5, <1>6, <1>7, <1>8 DEF LocalStep

\* The exchange: an answer with prints is one about a legible picture, and counts them.
LEMMA ExtractPicture ==
    ASSUME PipelineInv, ServiceTypeOK, NEW o \in Overlap, PictureOK(o), ExtractStep(o)
    PROVE  PictureOK(o)'
<1>1. o \in Call /\ OInv(o)
  BY CompositionAssumption DEF PipelineInv, IInv
<1>2. worker[o] = "extract" /\ UNCHANGED overlaps
  BY DEF ExtractStep, AskService, ReceivePrints, ExtractFails, WorkerMoves, stored, vars
<1>3. ~IsCompleted(o)'
  BY <1>1, <1>2 DEF OInv, StatusFollowsWorker, IsCompleted, Exists
<1>4. CASE AskService(o)
  <2>1. exchange'[o] = "queued" /\ worker'[o] = "extract"
    BY <1>1, <1>2, <1>4 DEF AskService, Send, Moves, ServiceTypeOK, vars
  <2>2. QED
    BY <1>3, <2>1 DEF PictureOK, At, InLoop
<1>5. CASE ReceivePrints(o)
  <2>1. PICK n \in 1..2 : Reply(o, n) /\ answered' = [ answered EXCEPT ![o] = n ]
    BY <1>5 DEF ReceivePrints
  <2>2. exchange'[o] = "ended"
    BY <1>1, <2>1 DEF Reply, Moves, ServiceTypeOK
  <2>3. PICK kind \in Picture : n = ImagesFor(kind) /\ picture' = [ picture EXCEPT ![o] = kind ]
    BY <2>1 DEF Reply
  <2>4. picture'[o] = kind /\ answered'[o] = n /\ kind \in Legible
    BY <1>1, <2>1, <2>3 DEF ServiceTypeOK, PipelineInv, TypeOK, Picture, Legible, ImagesFor
  <2>5. worker'[o] = "upload" /\ index'[o] = 1
    BY <1>1, <1>2, <1>5 DEF ReceivePrints, WorkerMoves, OInv, LoopMatchesCloud, BeforeLoop,
       PipelineInv, TypeOK
  <2>6. answered'[o] = ImagesFor(picture'[o]) /\ index'[o] <= answered'[o] + 1
    BY <2>1, <2>3, <2>4, <2>5
  <2>7. QED
    BY <1>3, <2>2, <2>4, <2>5, <2>6 DEF PictureOK, At, InLoop, ImagesFor
<1>6. CASE ExtractFails(o)
  <2>1. exchange'[o] \in { "ended", "wasted", "abandoned" }
    BY <1>1, <1>6 DEF ExtractFails, NoConnection, HangUp, Reply, Moves, ServiceTypeOK
  <2>2. worker'[o] = "fail"
    BY <1>6 DEF ExtractFails, WorkerMoves, PipelineInv, TypeOK
  <2>3. QED
    BY <1>3, <2>1, <2>2 DEF PictureOK, At, InLoop
<1>7. QED
  BY <1>4, <1>5, <1>6 DEF ExtractStep

\* The service by itself.
LEMMA ServicePicture ==
    ASSUME ServiceTypeOK, NEW o \in Overlap, PictureOK(o), UNCHANGED vars,
           \/ \E c \in Call : ServiceStep(c)
           \/ Die \/ Restart
    PROVE  PictureOK(o)'
<1>1. o \in Call /\ SameRecord(o) /\ UNCHANGED picture
      /\ (IsCompleted(o)' <=> IsCompleted(o)) /\ UNCHANGED rejected
  BY CompositionAssumption DEF vars, stored, loop, SameRecord, IsCompleted, Exists, ServiceStep, TakeUp, Drop, Discard,
     Die, Restart
<1>2. At(o, { "working", "queued", "broken" })' => At(o, { "working", "queued", "broken" })
  BY <1>1 DEF ServiceStep, TakeUp, Drop, Discard, Moves, Die, Restart,
     At, Heard, Unheard, ServiceTypeOK
<1>3. At(o, { "working", "queued", "broken" }) => worker[o] = "extract"
  BY DEF PictureOK, At
<1>4. QED
  BY <1>1, <1>2, <1>3 DEF PictureOK, SameRecord, At, ImagesFor

LEMMA StepPicture ==
    ASSUME PipelineInv, ServiceTypeOK, PictureInv, [SystemNext]_systemVars
    PROVE  PictureInv'
<1> SUFFICES ASSUME NEW p \in Overlap PROVE PictureOK(p)'
  BY DEF PictureInv
<1>1. PictureOK(p)
  BY DEF PictureInv
<1>2. UNCHANGED service => SameCall(p)
  BY DEF service, SameCall
<1>3. ASSUME NEW o \in Overlap,
             \/ LocalStep(o)
             \/ /\ ReceiveUpload(o) \/ HandlerStep(o) \/ Hang(o) \/ Unhang(o)
                /\ UNCHANGED service
      PROVE  PictureOK(p)'
  <2>1. UNCHANGED service
    BY <1>3 DEF LocalStep
  <2>2. CASE p = o
    BY <1>1, <1>2, <1>3, <2>1, <2>2, LocalPicture, RequestPicture
  <2>3. CASE p # o
    <3>1. Same(p)
      BY <1>3, <2>3, OthersSame DEF PipelineInv, LocalStep, WorkerStep
    <3>2. QED
      BY <1>1, <1>2, <2>1, <3>1, PictureFrame DEF Same, SameRecord
  <2>4. QED
    BY <2>2, <2>3
<1>4. ASSUME NEW o \in Overlap, ExtractStep(o) PROVE PictureOK(p)'
  <2>1. CASE p = o
    BY <1>1, <1>4, <2>1, ExtractPicture
  <2>2. CASE p # o
    <3>1. SameCall(p)
      <4>1. o \in Call /\ p \in Call
        BY CompositionAssumption
      <4>2. Send(o) \/ NoConnection(o) \/ HangUp(o) \/ \E n \in Nat : Reply(o, n)
        <5>1. ReceivePrints(o) => \E n \in 1..2 : Reply(o, n)
          BY DEF ReceivePrints
        <5>2. QED
          BY <1>4, <5>1 DEF ExtractStep, AskService, ExtractFails
      <4>3. QED
        BY <2>2, <4>1, <4>2, OtherCalls
    <3>2. SameRecord(p)
      <4>1. CASE AskService(o)
        BY <4>1 DEF AskService, vars, stored, loop, SameRecord
      <4>2. CASE ReceivePrints(o) \/ ExtractFails(o)
        <5>1. Same(p)
          BY <2>2, <4>2, ExtractImplements, OthersSame DEF PipelineInv, WorkerStep
        <5>2. QED
          BY <5>1 DEF Same, SameRecord
      <4>3. QED
        BY <1>4, <4>1, <4>2 DEF ExtractStep
    <3>3. QED
      BY <1>1, <3>1, <3>2, PictureFrame
  <2>3. QED
    BY <2>1, <2>2
<1>5. CASE (Die \/ Restart \/ \E o \in Overlap : ServiceStep(o)) /\ UNCHANGED vars
  BY <1>1, <1>5, ServicePicture, CompositionAssumption
<1>6. CASE UNCHANGED systemVars
  BY <1>1, <1>2, <1>6, PictureFrame DEF systemVars, vars, stored, loop, SameRecord
<1>7. QED
  BY <1>3, <1>4, <1>5, <1>6 DEF SystemNext

\* A completed record has a second print exactly if its picture showed an overlap and
\* Cloudinary took the print, and there is none for a picture that cannot be read.
THEOREM RecordsTellThePicture == SystemSpec => []CompletedTellsThePicture
<1>1. SystemSpec => []PipelineInv
  BY PipelineImplemented, Invariance, PTL DEF ImplementsPipeline, PipelineInv
<1>2. SystemSpec => []PictureInv
  <2>1. PipelineInv /\ ServiceTypeOK /\ PictureInv /\ [SystemNext]_systemVars => PictureInv'
    BY StepPicture
  <2>2. QED
    BY <1>1, <2>1, PictureInit, ServiceTypeCorrect, PTL DEF SystemSpec
<1>3. PictureInv => CompletedTellsThePicture
  BY DEF PictureInv, PictureOK, Legible, CompletedTellsThePicture
<1>4. QED
  BY <1>2, <1>3, PTL

==============================================================================
