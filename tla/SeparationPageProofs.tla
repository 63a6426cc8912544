-------------------------- MODULE SeparationPageProofs --------------------------
(***************************************************************************)
(* Proofs about SeparationPage, for any files, uploads, polls and faults.  *)
(* The server below the page is the abstract life cycle, and stays it      *)
(* whatever the page does.  A completed record stays as it is, so that     *)
(* prints once shown, and queries about them, stay justified; and a page   *)
(* that says it is processing leaves that stage with every callback that   *)
(* could end the watching of its upload.                                   *)
(***************************************************************************)
EXTENDS SeparationPage, TLAPS

USE BoundsAssumption, NullAssumption, ImageSetsAssumption

Progress == { "absent", "pending", "processing", "completed", "failed" }

\* The records.
ServerOK ==
    /\ status \in [ Overlap -> Progress ]
    /\ images \in [ Overlap -> SUBSET Component ]

\* No step takes anything from a completed record.
KeepsCompleted ==
    \A o \in Overlap : status[o] = "completed" =>
        status'[o] = "completed" /\ images'[o] = images[o]

PageInv == ServerOK /\ TypeOK /\ ProcessingIsWatched /\ ShownIsCompleted

-----------------------------------------------------------------------------
(***************************************************************************)
(* The server.                                                             *)
(***************************************************************************)

LEMMA ServerMoves ==
    ASSUME ServerOK, NEW o \in Overlap, NEW from \in Progress, NEW to \in Progress,
           Server!Moves(o, from, to), from # "completed"
    PROVE  ServerOK' /\ KeepsCompleted
<1>1. /\ status[o] = from /\ status' = [ status EXCEPT ![o] = to ] /\ UNCHANGED images
      /\ status \in [ Overlap -> Progress ]
  BY DEF Server!Moves, ServerOK
<1>2. /\ status' \in [ Overlap -> Progress ] /\ status'[o] = to
      /\ \A q \in Overlap \ {o} : status'[q] = status[q]
  BY <1>1
<1> QED
  BY <1>1, <1>2 DEF ServerOK, KeepsCompleted

LEMMA ServerAttaches ==
    ASSUME ServerOK, NEW o \in Overlap, Server!Attach(o)
    PROVE  ServerOK' /\ KeepsCompleted
<1>1. PICK i \in ImageSets : images' = [ images EXCEPT ![o] = i ]
  BY DEF Server!Attach
<1>2. i \in SUBSET Component
  OBVIOUS
<1>3. status[o] = "processing" /\ UNCHANGED status /\ images \in [ Overlap -> SUBSET Component ]
  BY DEF Server!Attach, ServerOK
<1>4. /\ images' \in [ Overlap -> SUBSET Component ] /\ images'[o] = i
      /\ \A q \in Overlap \ {o} : images'[q] = images[q]
  BY <1>1, <1>2, <1>3
<1> QED
  BY <1>2, <1>3, <1>4 DEF ServerOK, KeepsCompleted

LEMMA ServerStepKeeps ==
    ASSUME ServerOK, NEW o \in Overlap, ServerStep(o)
    PROVE  ServerOK' /\ KeepsCompleted
<1>1. CASE Server!Register(o)
  BY <1>1, ServerMoves DEF Server!Register, Progress
<1>2. CASE Server!Begin(o)
  BY <1>2, ServerMoves DEF Server!Begin, Progress
<1>3. CASE Server!Attach(o)
  BY <1>3, ServerAttaches
<1>4. CASE Server!Complete(o)
  BY <1>4, ServerMoves DEF Server!Complete, Progress
<1>5. CASE Server!Fail(o)
  BY <1>5, ServerMoves DEF Server!Fail, Progress
<1> QED
  BY <1>1, <1>2, <1>3, <1>4, <1>5 DEF ServerStep

\* Every step of the page leaves the server alone.
LEMMA PageLeavesServer ==
    [Next]_vars => UNCHANGED server \/ \E o \in Overlap : ServerStep(o)
BY DEF Next, vars, OpenSeparate, Back, Leave, ScanDone, SelectFile, Verify, VerifyAnswered,
       Separate, UploadAnswered, Tick, PollAnswered, PollFailed, PollSucceeded, PollUnsettled

LEMMA NextKeepsServer ==
    ASSUME ServerOK, [Next]_vars
    PROVE  ServerOK' /\ KeepsCompleted
<1>1. CASE UNCHANGED server
  BY <1>1 DEF server, ServerOK, KeepsCompleted
<1> QED
  BY <1>1, PageLeavesServer, ServerStepKeeps

-----------------------------------------------------------------------------
(***************************************************************************)
(* The types.                                                              *)
(***************************************************************************)

LEMMA PageInitInv == Init => PageInv
<1> SUFFICES ASSUME Init PROVE PageInv
  OBVIOUS
<1>1. ServerOK
  BY DEF Init, Server!Init, ServerOK, Progress, Component
<1>2. TypeOK
  BY DEF Init, Server!Init, TypeOK, Nothing, Stage, Component
<1>3. ProcessingIsWatched /\ ShownIsCompleted
  BY DEF Init, ProcessingIsWatched, ShownIsCompleted, Nothing
<1> QED
  BY <1>1, <1>2, <1>3 DEF PageInv

LEMMA TypeKept ==
    ASSUME TypeOK, ServerOK', [Next]_vars
    PROVE  TypeOK'
<1>1. status' \in [ Overlap -> Progress ] /\ images' \in [ Overlap -> SUBSET Component ]
  BY DEF ServerOK
<1> USE DEF TypeOK, Progress, server, screen, pending, history, Stage, Show
<1>2. CASE OpenSeparate
  BY <1>1, <1>2 DEF OpenSeparate
<1>3. CASE Back
  BY <1>1, <1>3 DEF Back, Nothing
<1>4. CASE Leave
  BY <1>1, <1>4 DEF Leave, Nothing
<1>5. CASE ScanDone
  BY <1>1, <1>5 DEF ScanDone
<1>6. ASSUME NEW f \in File, SelectFile(f)
      PROVE  TypeOK'
  BY <1>1, <1>6 DEF SelectFile
<1>7. ASSUME NEW c \in Component, Verify(c)
      PROVE  TypeOK'
  BY <1>1, <1>7 DEF Verify
<1>8. ASSUME NEW c \in Component, VerifyAnswered(c)
      PROVE  TypeOK'
  BY <1>1, <1>8 DEF VerifyAnswered
<1>9. ASSUME NEW o \in Overlap, Separate(o)
      PROVE  TypeOK'
  BY <1>1, <1>9 DEF Separate
<1>10. ASSUME NEW o \in Overlap, UploadAnswered(o)
       PROVE  TypeOK'
  BY <1>1, <1>10 DEF UploadAnswered
<1>11. ASSUME NEW o \in Overlap, Tick(o)
       PROVE  TypeOK'
  BY <1>1, <1>11 DEF Tick
<1>12. ASSUME NEW o \in Overlap, PollAnswered(o)
       PROVE  TypeOK'
  BY <1>1, <1>12 DEF PollAnswered, PollFailed, PollSucceeded, PollUnsettled
<1>13. ASSUME NEW o \in Overlap, ServerStep(o)
       PROVE  TypeOK'
  BY <1>1, <1>13 DEF ServerStep
<1>14. CASE UNCHANGED vars
  BY <1>1, <1>14 DEF vars
<1> QED
  BY <1>2, <1>3, <1>4, <1>5, <1>6, <1>7, <1>8, <1>9, <1>10, <1>11, <1>12, <1>13, <1>14 DEF Next

-----------------------------------------------------------------------------
(***************************************************************************)
(* A page that is processing watches its last upload: it is on its way or  *)
(* an interval polls for it.  The callbacks that take away either of them  *)
(* move on to another stage, whichever upload they are about.              *)
(***************************************************************************)

LEMMA WatchKept ==
    ASSUME ProcessingIsWatched, [Next]_vars
    PROVE  ProcessingIsWatched'
<1> USE DEF ProcessingIsWatched, server, screen, pending, history, Show
<1>1. CASE OpenSeparate \/ Back \/ Leave \/ ScanDone
  BY <1>1 DEF OpenSeparate, Back, Leave, ScanDone
<1>2. ASSUME NEW f \in File, SelectFile(f)
      PROVE  ProcessingIsWatched'
  BY <1>2 DEF SelectFile
<1>3. ASSUME NEW c \in Component, Verify(c) \/ VerifyAnswered(c)
      PROVE  ProcessingIsWatched'
  BY <1>3 DEF Verify, VerifyAnswered
<1>4. ASSUME NEW o \in Overlap, Separate(o)
      PROVE  ProcessingIsWatched'
  BY <1>4 DEF Separate
<1>5. ASSUME NEW o \in Overlap, UploadAnswered(o)
      PROVE  ProcessingIsWatched'
  BY <1>5 DEF UploadAnswered
<1>6. ASSUME NEW o \in Overlap, Tick(o) \/ PollAnswered(o)
      PROVE  ProcessingIsWatched'
  BY <1>6 DEF Tick, PollAnswered, PollFailed, PollSucceeded, PollUnsettled
<1>7. ASSUME NEW o \in Overlap, ServerStep(o)
      PROVE  ProcessingIsWatched'
  BY <1>7 DEF ServerStep
<1>8. CASE UNCHANGED vars
  BY <1>8 DEF vars
<1> QED
  BY <1>1, <1>2, <1>3, <1>4, <1>5, <1>6, <1>7, <1>8 DEF Next

-----------------------------------------------------------------------------
(***************************************************************************)
(* What is shown, was found or is asked about is a completed record.       *)
(***************************************************************************)

\* The overlaps whose prints can be shown.
Ready == { o \in Overlap : status[o] = "completed" }

LEMMA ShownIsReady ==
    ASSUME TypeOK
    PROVE  ShownIsCompleted <=>
               /\ stage = "completed" => prints # NoOverlap
               /\ prints \in Ready \cup {NoOverlap}
               /\ \A c \in Component : verdict[c]   \in Ready \cup {NoOverlap}
               /\ \A c \in Component : searching[c] \in Ready \cup {NoOverlap}
BY DEF TypeOK, ShownIsCompleted, Ready

LEMMA ReadyStays ==
    ASSUME ServerOK, KeepsCompleted
    PROVE  /\ Ready \subseteq Ready'
           /\ \A o \in Overlap : SeesCompleted(o) => o \in Ready
BY DEF ServerOK, KeepsCompleted, SeesCompleted, Ready

LEMMA ShownKept ==
    ASSUME PageInv, TypeOK', KeepsCompleted, [Next]_vars
    PROVE  ShownIsCompleted'
<1> DEFINE Shows ==
               /\ stage' = "completed" => prints' # NoOverlap
               /\ prints' \in Ready \cup {NoOverlap}
               /\ \A c \in Component : verdict'[c]   \in Ready \cup {NoOverlap}
               /\ \A c \in Component : searching'[c] \in Ready \cup {NoOverlap}
<1>1. /\ stage = "completed" => prints # NoOverlap
      /\ prints \in Ready \cup {NoOverlap}
      /\ \A c \in Component : verdict[c]   \in Ready \cup {NoOverlap}
      /\ \A c \in Component : searching[c] \in Ready \cup {NoOverlap}
      /\ verdict   \in [ Component -> Overlap \cup {NoOverlap} ]
      /\ searching \in [ Component -> Overlap \cup {NoOverlap} ]
  BY ShownIsReady DEF PageInv, TypeOK
<1>2. Ready \subseteq Ready' /\ \A o \in Overlap : SeesCompleted(o) => o \in Ready
  BY ReadyStays DEF PageInv
<1>3. Shows => ShownIsCompleted'
  <2>1. SUFFICES ASSUME Shows PROVE ShownIsCompleted'
    OBVIOUS
  <2>2. /\ prints' \in Ready' \cup {NoOverlap}
        /\ \A c \in Component : verdict'[c]   \in Ready' \cup {NoOverlap}
        /\ \A c \in Component : searching'[c] \in Ready' \cup {NoOverlap}
    BY <1>2, <2>1
  <2> QED
    BY <2>1, <2>2 DEF ShownIsCompleted, Ready
<1> USE DEF server, screen, pending, history, Show, Nothing, At
<1>4. CASE OpenSeparate \/ Back \/ Leave \/ ScanDone
  BY <1>1, <1>3, <1>4 DEF OpenSeparate, Back, Leave, ScanDone
<1>5. ASSUME NEW f \in File, SelectFile(f)
      PROVE  ShownIsCompleted'
  BY <1>1, <1>3, <1>5 DEF SelectFile
<1>6. ASSUME NEW c \in Component, Verify(c)
      PROVE  ShownIsCompleted'
  BY <1>1, <1>3, <1>6 DEF Verify
<1>7. ASSUME NEW c \in Component, VerifyAnswered(c)
      PROVE  ShownIsCompleted'
  BY <1>1, <1>3, <1>7 DEF VerifyAnswered
<1>8. ASSUME NEW o \in Overlap, Separate(o) \/ UploadAnswered(o) \/ Tick(o)
      PROVE  ShownIsCompleted'
  BY <1>1, <1>3, <1>8 DEF Separate, UploadAnswered, Tick
<1>9. ASSUME NEW o \in Overlap, PollAnswered(o)
      PROVE  ShownIsCompleted'
  BY <1>1, <1>2, <1>3, <1>9 DEF PollAnswered, PollFailed, PollSucceeded, PollUnsettled
<1>10. ASSUME NEW o \in Overlap, ServerStep(o)
       PROVE  ShownIsCompleted'
  BY <1>1, <1>3, <1>10 DEF ServerStep
<1>11. CASE UNCHANGED vars
  BY <1>1, <1>3, <1>11 DEF vars
<1> QED
  BY <1>4, <1>5, <1>6, <1>7, <1>8, <1>9, <1>10, <1>11 DEF Next

-----------------------------------------------------------------------------
(***************************************************************************)
(* The theorems.                                                           *)
(***************************************************************************)

\* The invariant of page and server together holds of every state they reach
\* (SeparationPage.jsx).
THEOREM PageInvariant == Spec => []PageInv
<1>1. PageInv /\ [Next]_vars => PageInv'
  <2> SUFFICES ASSUME PageInv, [Next]_vars PROVE PageInv'
    OBVIOUS
  <2>1. ServerOK' /\ KeepsCompleted
    BY NextKeepsServer DEF PageInv
  <2>2. TypeOK'
    BY <2>1, TypeKept DEF PageInv
  <2>3. ProcessingIsWatched'
    BY WatchKept DEF PageInv
  <2>4. ShownIsCompleted'
    BY <2>1, <2>2, ShownKept
  <2> QED
    BY <2>1, <2>2, <2>3, <2>4 DEF PageInv
<1> QED
  BY <1>1, PageInitInv, PTL DEF Spec

\* Every variable has its type, and every upload and interval is of a file that was chosen.
THEOREM PageTypeCorrect == Spec => []TypeOK
<1>1. PageInv => TypeOK
  BY DEF PageInv
<1> QED
  BY <1>1, PageInvariant, PTL

\* However many uploads, intervals and late answers there are, a page that says it is
\* processing has its last upload on its way or polls its record (handleSeparate).
THEOREM ProcessingWatched == Spec => []ProcessingIsWatched
<1>1. PageInv => ProcessingIsWatched
  BY DEF PageInv
<1> QED
  BY <1>1, PageInvariant, PTL

\* Prints on the screen, verdicts and queries on their way are about completed records
\* (handleSeparate, handleVerifyComponent).
THEOREM ShownCompleted == Spec => []ShownIsCompleted
<1>1. PageInv => ShownIsCompleted
  BY DEF PageInv
<1> QED
  BY <1>1, PageInvariant, PTL

\* Below the page the server is the life cycle that the pipeline implements, for all that
\* users, timers and answers do: the page only asks.
THEOREM ServerIsLifecycle == Spec => Server!Spec
<1>1. Init => Server!Init
  BY DEF Init
<1>2. [Next]_vars => [Server!Next]_(Server!vars)
  BY PageLeavesServer DEF ServerStep, Server!Next, Server!vars, server
<1> QED
  BY <1>1, <1>2, PTL DEF Spec, Server!Spec
===============================================================================
