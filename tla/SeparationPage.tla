---------------------------- MODULE SeparationPage ----------------------------
(***************************************************************************)
(* The browser's side of a separation: the page on which a user chooses a  *)
(* file, sends it, watches the overlap record until it settles and then    *)
(* queries the registry for each of the two prints.  JavaScript runs one   *)
(* callback at a time, so an action is what happens from one await to the  *)
(* next; timers, answers and the user's clicks come in any order.  The     *)
(* server is the abstract life cycle that OverlapPipeline implements.      *)
(***************************************************************************)
EXTENDS Integers

CONSTANTS
    File,        \* what a user may choose
    Overlap,     \* the uploads, by the id the server gives each
    ImageSets,   \* the sets of separated prints with which a record may be completed
    Faults,      \* the requests that may fail: "upload", "poll", "match"
    MaxPolls,    \* bound: polls of one interval on their way at a time
    MaxTimers,   \* bound: scan animations pending at a time
    NoFile, NoOverlap

ASSUME FaultsAssumption == Faults \subseteq { "upload", "poll", "match" }
ASSUME BoundsAssumption == MaxPolls \in Nat \ {0} /\ MaxTimers \in Nat \ {0}
ASSUME NullAssumption   == NoFile \notin File /\ NoOverlap \notin Overlap

Stage     == { "upload", "scanning", "detected", "processing", "completed" }
Component == 1 .. 2

ASSUME ImageSetsAssumption == ImageSets \subseteq SUBSET Component

VARIABLES
    \* the server
    status, images,
    \* the page
    mounted,     \* FALSE once the user has left it
    mode,        \* "menu" or "separate"
    stage,
    file,
    prints,      \* separatedPrints: the overlap whose prints are shown
    verdict,     \* matchResultA and B: the overlap each was found for
    \* the browser: what is pending
    timers,      \* scan animations
    sending,     \* uploads
    intervals,   \* running intervals, by the overlap each polls
    pollingRef,  \* pollingRef.current
    polls,       \* polls, per overlap
    searching,   \* the overlap each component's query is for; isMatchingA and B
    \* history
    fileOf,      \* the file of each upload
    latest       \* the last upload

server  == << status, images >>
screen  == << mounted, mode, stage, file, prints, verdict >>
pending == << timers, sending, intervals, pollingRef, polls, searching >>
history == << fileOf, latest >>
vars    == << server, screen, pending, history >>

Server == INSTANCE OverlapLifecycle

TypeOK ==
    /\ status     \in [ Overlap -> { "absent", "pending", "processing", "completed", "failed" } ]
    /\ images     \in [ Overlap -> SUBSET Component ]
    /\ mounted    \in BOOLEAN
    /\ mode       \in { "menu", "separate" }
    /\ stage      \in Stage
    /\ file       \in File \cup {NoFile}
    /\ prints     \in Overlap \cup {NoOverlap}
    /\ verdict    \in [ Component -> Overlap \cup {NoOverlap} ]
    /\ timers     \in 0 .. MaxTimers
    /\ sending    \subseteq Overlap
    /\ intervals  \subseteq Overlap
    /\ pollingRef \in Overlap \cup {NoOverlap}
    /\ polls      \in [ Overlap -> 0 .. MaxPolls ]
    /\ searching  \in [ Component -> Overlap \cup {NoOverlap} ]
    /\ fileOf     \in [ Overlap -> File \cup {NoFile} ]
    /\ latest     \in Overlap \cup {NoOverlap}
    /\ \A o \in sending \cup intervals : fileOf[o] # NoFile

Nothing == [ c \in Component |-> NoOverlap ]

Init ==
    /\ Server!Init
    /\ mounted = TRUE /\ mode = "menu" /\ stage = "upload" /\ file = NoFile
    /\ prints = NoOverlap /\ verdict = Nothing
    /\ timers = 0 /\ sending = {} /\ intervals = {} /\ pollingRef = NoOverlap
    /\ polls = [ o \in Overlap |-> 0 ] /\ searching = Nothing
    /\ fileOf = [ o \in Overlap |-> NoFile ] /\ latest = NoOverlap

-----------------------------------------------------------------------------
\* A page that the user has left shows nothing any more.
Show(s) == stage' = IF mounted THEN s ELSE stage

\* The record appears once the upload has been sent, and then goes its way.
ServerStep(o) ==
    /\ \/ fileOf[o] # NoFile /\ Server!Register(o)
       \/ Server!Begin(o) \/ Server!Attach(o) \/ Server!Complete(o) \/ Server!Fail(o)
    /\ UNCHANGED << screen, pending, history >>

-----------------------------------------------------------------------------
(***************************************************************************)
(* The user.  The buttons of a stage are there in mode "separate" only.    *)
(***************************************************************************)

At(s) == mounted /\ mode = "separate" /\ stage = s

OpenSeparate ==
    /\ mounted /\ mode = "menu"
    /\ mode' = "separate"
    /\ UNCHANGED << server, mounted, stage, file, prints, verdict, pending, history >>

\* resetToMenu: neither a timer nor an interval nor a request ends with it.
Back ==
    /\ mounted /\ mode = "separate"
    /\ mode' = "menu" /\ stage' = "upload" /\ file' = NoFile /\ verdict' = Nothing
    /\ UNCHANGED << server, mounted, prints, pending, history >>

\* Another page: what was on this one is gone, and the effect's clean-up clears the one
\* interval it knows.
Leave ==
    /\ mounted
    /\ mounted' = FALSE
    /\ mode' = "menu" /\ stage' = "upload" /\ file' = NoFile
    /\ prints' = NoOverlap /\ verdict' = Nothing
    /\ intervals' = intervals \ { pollingRef }
    /\ UNCHANGED << server, timers, sending, pollingRef, polls, searching, history >>

SelectFile(f) ==
    /\ At("upload")
    /\ timers < MaxTimers
    /\ file' = f
    /\ stage' = "scanning"
    /\ timers' = timers + 1
    /\ UNCHANGED << server, mounted, mode, prints, verdict, sending, intervals, pollingRef,
                    polls, searching, history >>

\* Faulty variant: the button does not look whether there is a file.
SeparateUnchecked(o) ==
    /\ At("detected")
    /\ fileOf[o] = NoFile
    /\ stage' = "processing"
    /\ sending' = sending \cup { o }
    /\ fileOf' = [ fileOf EXCEPT ![o] = file ]
    /\ latest' = o
    /\ UNCHANGED << server, mounted, mode, file, prints, verdict, timers, intervals, pollingRef,
                    polls, searching >>

\* Without a file, which a late timer can lead to, the button does nothing.
Separate(o) ==
    /\ At("detected")
    /\ file # NoFile
    /\ fileOf[o] = NoFile
    /\ stage' = "processing"
    /\ sending' = sending \cup { o }
    /\ fileOf' = [ fileOf EXCEPT ![o] = file ]
    /\ latest' = o
    /\ UNCHANGED << server, mounted, mode, file, prints, verdict, timers, intervals, pollingRef,
                    polls, searching >>

\* The query names the overlap shown when the button was pressed.
Verify(c) ==
    /\ At("completed")
    /\ verdict[c] = NoOverlap /\ searching[c] = NoOverlap
    /\ searching' = [ searching EXCEPT ![c] = prints ]
    /\ UNCHANGED << server, screen, timers, sending, intervals, pollingRef, polls, history >>

-----------------------------------------------------------------------------
(***************************************************************************)
(* The browser.                                                            *)
(***************************************************************************)

ScanDone ==
    /\ timers > 0
    /\ timers' = timers - 1
    /\ Show("detected")
    /\ UNCHANGED << server, mounted, mode, file, prints, verdict, sending, intervals, pollingRef,
                    polls, searching, history >>

\* Faulty variant: only the first upload of the page is polled.
UploadAnsweredOnce(o) ==
    /\ o \in sending
    /\ sending' = sending \ { o }
    /\ \/ /\ status[o] # "absent"
          /\ intervals' = IF pollingRef = NoOverlap THEN { o } ELSE intervals
          /\ pollingRef' = IF pollingRef = NoOverlap THEN o ELSE pollingRef
          /\ UNCHANGED stage
       \/ /\ "upload" \in Faults
          /\ Show("upload")
          /\ UNCHANGED << intervals, pollingRef >>
    /\ UNCHANGED << server, mounted, mode, file, prints, verdict, timers, polls, searching, history >>

\* The upload is answered, or its token, the network or the server fails it.
UploadAnswered(o) ==
    /\ o \in sending
    /\ sending' = sending \ { o }
    /\ \/ /\ status[o] # "absent"
          /\ intervals' = intervals \cup { o }
          /\ pollingRef' = o
          /\ UNCHANGED stage
       \/ /\ "upload" \in Faults
          /\ Show("upload")
          /\ UNCHANGED << intervals, pollingRef >>
    /\ UNCHANGED << server, mounted, mode, file, prints, verdict, timers, polls, searching, history >>

\* Every two seconds, whether the last poll was answered or not.
Tick(o) ==
    /\ o \in intervals
    /\ polls[o] < MaxPolls
    /\ polls' = [ polls EXCEPT ![o] = @ + 1 ]
    /\ UNCHANGED << server, screen, timers, sending, intervals, pollingRef, searching, history >>

\* Faulty variant: anything but "processing" is taken for success.
SeesOther(o) == status[o] \notin { "absent", "processing" }

SeesCompleted(o) == status[o] = "completed"
SeesFailed(o)    == status[o] = "failed"

\* Faulty variant: the interval is cleared for an error, and the stage left alone.
PollFailedQuietly(o) ==
    /\ polls[o] > 0
    /\ SeesFailed(o) \/ "poll" \in Faults
    /\ polls' = [ polls EXCEPT ![o] = @ - 1 ]
    /\ intervals' = intervals \ { pollingRef }
    /\ UNCHANGED << server, screen, timers, sending, pollingRef, searching, history >>

\* The record is settled, or the request has failed.  Whichever interval sent the poll, the
\* one in pollingRef is cleared.
PollFailed(o) ==
    /\ polls[o] > 0
    /\ SeesFailed(o) \/ "poll" \in Faults
    /\ polls' = [ polls EXCEPT ![o] = @ - 1 ]
    /\ intervals' = intervals \ { pollingRef }
    /\ Show("upload")
    /\ UNCHANGED << server, mounted, mode, file, prints, verdict, timers, sending, pollingRef,
                    searching, history >>

\* Faulty variant: a completed record ends the processing, and not the interval.
PollSucceededGoesOn(o) ==
    /\ polls[o] > 0
    /\ SeesCompleted(o)
    /\ polls' = [ polls EXCEPT ![o] = @ - 1 ]
    /\ Show("completed")
    /\ prints' = IF mounted THEN o ELSE prints
    /\ UNCHANGED << server, mounted, mode, file, verdict, timers, sending, intervals, pollingRef,
                    searching, history >>

PollSucceeded(o) ==
    /\ polls[o] > 0
    /\ SeesCompleted(o)
    /\ polls' = [ polls EXCEPT ![o] = @ - 1 ]
    /\ intervals' = intervals \ { pollingRef }
    /\ Show("completed")
    /\ prints' = IF mounted THEN o ELSE prints
    /\ UNCHANGED << server, mounted, mode, file, verdict, timers, sending, pollingRef, searching,
                    history >>

\* A record that is not settled changes nothing; nor does an old answer that says so.
PollUnsettled(o) ==
    /\ polls[o] > 0
    /\ ~SeesCompleted(o) /\ ~SeesFailed(o)
    /\ polls' = [ polls EXCEPT ![o] = @ - 1 ]
    /\ UNCHANGED << server, screen, timers, sending, intervals, pollingRef, searching, history >>

PollAnswered(o) == PollFailed(o) \/ PollSucceeded(o) \/ PollUnsettled(o)

VerifyAnswered(c) ==
    /\ searching[c] # NoOverlap
    /\ searching' = [ searching EXCEPT ![c] = NoOverlap ]
    /\ \/ verdict' = IF mounted THEN [ verdict EXCEPT ![c] = searching[c] ] ELSE verdict
       \/ "match" \in Faults /\ UNCHANGED verdict
    /\ UNCHANGED << server, mounted, mode, stage, file, prints, timers, sending, intervals,
                    pollingRef, polls, history >>

-----------------------------------------------------------------------------
Next ==
    \/ OpenSeparate \/ Back \/ Leave \/ ScanDone
    \/ \E f \in File : SelectFile(f)
    \/ \E c \in Component : Verify(c) \/ VerifyAnswered(c)
    \/ \E o \in Overlap :
          Separate(o) \/ UploadAnswered(o) \/ Tick(o) \/ PollAnswered(o) \/ ServerStep(o)

Spec == Init /\ [][Next]_vars

(***************************************************************************)
(* Timers fire, and requests are answered or fail.  The user owes nothing, *)
(* and neither does the server: a record may stay as it is for ever, which *)
(* a hung download, a failed write or the end of the process may cause.    *)
(***************************************************************************)
Fairness ==
    \A o \in Overlap :
        /\ WF_vars(UploadAnswered(o))
        /\ WF_vars(Tick(o))
        /\ WF_vars(PollAnswered(o))

FairSpec == Spec /\ Fairness

-----------------------------------------------------------------------------
(***************************************************************************)
(* Properties.                                                             *)
(***************************************************************************)

\* However many uploads, intervals and late answers there are, a page that says it is
\* processing has the last upload on its way or polls its record (handleSeparate).
ProcessingIsWatched == mounted /\ stage = "processing" => latest \in sending \cup intervals

\* The prints on the screen are those of a completed record, and a completed record is what
\* every query was or is about (handleSeparate, handleVerifyComponent).
ShownIsCompleted ==
    /\ stage = "completed" => prints # NoOverlap
    /\ \A o \in { prints } \cup { verdict[c] : c \in Component } \cup { searching[c] : c \in Component } :
          o # NoOverlap => status[o] = "completed"

Settled(o) == o \in Overlap /\ status[o] \in { "completed", "failed" }

\* Once the record of its last upload has settled, a page does not say for ever that it is
\* processing, whatever other uploads, intervals and late answers are about, unless the user
\* leaves first.  While the record does not settle it may (handleSeparate sets no limit).
ProcessingEnds ==
    mounted /\ stage = "processing" /\ Settled(latest) ~> ~mounted \/ stage # "processing"

\* The interval that pollingRef names does not poll a settled record for ever, on the page or
\* after the user has left it, whichever poll's answer clears it.  An older one, whose
\* reference was overwritten, may (SeparationPage.jsx:101).
PollingEnds == pollingRef \in intervals /\ Settled(pollingRef) ~> pollingRef \notin intervals

\* "Upload a fingerprint image [...] The system will [...] display [...] the successfully
\* separated fingerprint images" (README.md:99): the prints shown are those of the file
\* chosen.
ShownIsOfTheFile ==
    mode = "separate" /\ stage = "completed" /\ file # NoFile => fileOf[prints] = file
===============================================================================
