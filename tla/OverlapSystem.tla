----------------------------- MODULE OverlapSystem -----------------------------
(***************************************************************************)
(* The overlap pipeline together with the separation service.  The         *)
(* goroutine's step Extract becomes an exchange with the service, which    *)
(* has its own state and failures.  The server process stays alive here.   *)
(***************************************************************************)
EXTENDS OverlapPipeline, SeparationService

\* Each upload's goroutine makes one call, which may fail, and is answered as below.
ASSUME CompositionAssumption ==
    /\ Call = Overlap
    /\ { 1, 2 } \subseteq ImageCounts /\ "extract" \in Faults

systemVars == << vars, service >>

SystemInit == Init /\ ServiceInit

-----------------------------------------------------------------------------
(***************************************************************************)
(* The goroutine at its call of the service: client.Do and what follows.   *)
(***************************************************************************)

AskService(o) ==
    /\ worker[o] = "extract"
    /\ Send(o)
    /\ UNCHANGED vars

\* Faulty variant: the status of the answer is not looked at.
ReceivePrintsUnchecked(o) ==
    /\ \E n \in 0..2 :
          /\ Reply(o, n)
          /\ answered' = [ answered EXCEPT ![o] = n ]
    /\ WorkerMoves(o, "extract", "upload")
    /\ UNCHANGED << stored, index, paths >>

ReceivePrints(o) ==
    /\ \E n \in 1..2 :
          /\ Reply(o, n)
          /\ answered' = [ answered EXCEPT ![o] = n ]
    /\ WorkerMoves(o, "extract", "upload")
    /\ UNCHANGED << stored, index, paths >>

\* Faulty variant: the error of client.Do is returned like that of the first write.
ExtractFailsSilently(o) ==
    /\ \/ (NoConnection(o) \/ HangUp(o)) /\ WorkerMoves(o, "extract", "done")
       \/ Reply(o, 0) /\ WorkerMoves(o, "extract", "fail")
    /\ UNCHANGED << stored, loop >>

\* No connection, a limit that is over, or a status other than 200.
ExtractFails(o) ==
    /\ NoConnection(o) \/ HangUp(o) \/ Reply(o, 0)
    /\ WorkerMoves(o, "extract", "fail")
    /\ UNCHANGED << stored, loop >>

ExtractStep(o) == AskService(o) \/ ReceivePrints(o) \/ ExtractFails(o)

\* The rest of the goroutine.
LocalStep(o) ==
    /\ \/ MarkProcessing(o) \/ LoadRecord(o) \/ Download(o) \/ StoreSeparated(o)
       \/ RecordImages(o) \/ MarkCompleted(o) \/ AuditProcessed(o) \/ MarkFailed(o)
    /\ UNCHANGED service

-----------------------------------------------------------------------------
SystemNext ==
    \/ \E o \in Overlap :
          \/ LocalStep(o) \/ ExtractStep(o)
          \/ (ReceiveUpload(o) \/ HandlerStep(o) \/ Hang(o) \/ Unhang(o)) /\ UNCHANGED service
          \/ ServiceStep(o) /\ UNCHANGED vars
    \/ (Die \/ Restart) /\ UNCHANGED vars

SystemSpec == SystemInit /\ [][SystemNext]_systemVars

\* As for the pipeline: http.Client ends the call after 60 seconds at the latest.  Nothing is
\* asked of the service.
SystemFairness ==
    \A o \in Overlap :
        /\ WF_systemVars(HandlerStep(o) /\ UNCHANGED service)
        /\ WF_systemVars(LocalStep(o))
        /\ WF_systemVars(ExtractStep(o))

SystemFairSpec == SystemSpec /\ SystemFairness

-----------------------------------------------------------------------------
(***************************************************************************)
(* Properties.                                                             *)
(***************************************************************************)

\* Whatever the service does, and however late, its caller sees what Extract of the
\* pipeline allows: one or two images, or an error (main.py: 56-125).
ImplementsPipeline == Spec

\* The record of a finished upload says what the picture was: two prints for an overlap, one
\* where there is none, but for those Cloudinary rejected, and no record of a picture that
\* cannot be read is completed (ProcessOverlap against extract_fingerprint).
CompletedTellsThePicture ==
    \A o \in Overlap : IsCompleted(o) =>
        /\ picture[o] \in { "single", "overlapped" }
        /\ overlaps[o].separated[1] # NoImage <=> << o, 1 >> \notin rejected
        /\ overlaps[o].separated[2] # NoImage
              <=> picture[o] = "overlapped" /\ << o, 2 >> \notin rejected

\* Whatever fails outside the database, the record of an upload answered 201 eventually
\* settles, unless the download of its own image never ends (overlap_service.go:92).  No
\* upload's download or failures, and nothing the service does or fails to do, hold up
\* another's outcome.
AcceptedIsSettled ==
    \A o \in Overlap :
        []<>(worker[o] # "hung") => (handler[o] = "created" ~> IsSettled(o))
===============================================================================
