-------------------------- MODULE SeparationService --------------------------
(***************************************************************************)
(* The Python separation service and its HTTP exchanges with the           *)
(* goroutines that call it.  extract_fingerprint is an async function that *)
(* never awaits, so the event loop works on one call at a time while the   *)
(* other calls wait in their connections, and it may go on with a call     *)
(* whose caller is gone.                                                   *)
(*                                                                         *)
(* There is no clock.  A caller's 60 seconds cover connecting, sending,    *)
(* the work on other calls, the work on its own, stalls of the network and *)
(* reading the reply, none of which has a bound of its own: the limit may  *)
(* be over at any moment of an exchange.                                   *)
(***************************************************************************)

CONSTANTS
    Call,      \* the calls; a goroutine makes one
    Troubles   \* "death" of the service, an "exception" while it separates

ASSUME TroublesAssumption == Troubles \subseteq { "death", "exception" }

\* What the decoder and the detector make of an upload.
Picture == { "unreadable", "single", "overlapped" }

\* An exchange whose caller still listens, one whose caller has given up.
Heard    == { "queued", "working" }
Unheard  == { "abandoned", "wasted" }
Exchange == { "none", "broken", "ended" } \cup Heard \cup Unheard

VARIABLES
    model,     \* the service process: "down", up without a model ("absent"), "loaded"
    picture,   \* what the service has found each call's image to be
    exchange   \* each call's HTTP exchange

service == << model, picture, exchange >>

At(c, states) == exchange[c] \in states

\* Types; besides, the event loop is at one call at most, and a service that is down holds
\* none (extract_fingerprint is an async function that never awaits, main.py:57).
ServiceTypeOK ==
    /\ model    \in { "down", "absent", "loaded" }
    /\ picture  \in [ Call -> Picture \cup { "unseen" } ]
    /\ exchange \in [ Call -> Exchange ]
    /\ \A c, d \in Call :
          At(c, { "working", "wasted" }) /\ At(d, { "working", "wasted" }) => c = d
    /\ model = "down" => \A c \in Call : ~At(c, Heard \cup Unheard)

\* load_model either loads the model or leaves None, and the service starts all the same.
ServiceInit ==
    /\ model    \in { "absent", "loaded" }
    /\ picture  = [ c \in Call |-> "unseen" ]
    /\ exchange = [ c \in Call |-> "none" ]

Moves(c, state) == exchange' = [ exchange EXCEPT ![c] = state ]

-----------------------------------------------------------------------------
(***************************************************************************)
(* The caller.                                                             *)
(***************************************************************************)

Send(c) ==
    /\ exchange[c] = "none" /\ model # "down"
    /\ Moves(c, "queued")
    /\ UNCHANGED << model, picture >>

\* The connection is refused, or was cut by the death of the service.
NoConnection(c) ==
    /\ \/ exchange[c] = "none" /\ model = "down"
       \/ exchange[c] = "broken"
    /\ Moves(c, "ended")
    /\ UNCHANGED << model, picture >>

\* The limit is over; the service does not know.
HangUp(c) ==
    /\ At(c, Heard)
    /\ Moves(c, IF exchange[c] = "working" THEN "wasted" ELSE "abandoned")
    /\ UNCHANGED << model, picture >>

-----------------------------------------------------------------------------
(***************************************************************************)
(* The service.                                                            *)
(***************************************************************************)

\* Faulty variant: a plain function, which the framework runs in threads.
BusyNever == FALSE

Busy == \E c \in Call : At(c, { "working", "wasted" })

\* The loop takes up some call that has arrived.
TakeUp(c) ==
    /\ ~Busy
    /\ \/ exchange[c] = "queued"    /\ Moves(c, "working")
       \/ exchange[c] = "abandoned" /\ Moves(c, "wasted")
    /\ UNCHANGED << model, picture >>

\* ... unless it sees in time that the caller has hung up.
Drop(c) ==
    /\ ~Busy
    /\ exchange[c] = "abandoned"
    /\ Moves(c, "ended")
    /\ UNCHANGED << model, picture >>

\* Faulty variant: an image that cannot be decoded is taken for one without an overlap.
ImagesForLenient(kind) == IF kind = "overlapped" THEN 2 ELSE 1

\* The number of images in the reply, 0 for an error: an image that cannot be decoded is
\* answered 500 (the 400 it raises is caught and raised again); where no overlap is
\* detected the upload itself comes back; else two prints, from the clusters of ridges or,
\* where there are no two clusters, from the two halves.
ImagesFor(kind) ==
    CASE kind = "unreadable" -> 0
      [] kind = "single"     -> 1
      [] kind = "overlapped" -> 2

\* 503 without a model, 500 for any exception.
Reply(c, images) ==
    /\ exchange[c] = "working"
    /\ \/ /\ model = "loaded"
          /\ \E kind \in Picture :
                /\ images = ImagesFor(kind)
                /\ picture' = [ picture EXCEPT ![c] = kind ]
       \/ /\ model = "absent" \/ "exception" \in Troubles
          /\ images = 0
          /\ UNCHANGED picture
    /\ Moves(c, "ended")
    /\ UNCHANGED model

\* The reply finds nobody.
Discard(c) ==
    /\ exchange[c] = "wasted"
    /\ Moves(c, "ended")
    /\ UNCHANGED << model, picture >>

\* The process dies with the calls it had, and is started again.
Die ==
    /\ "death" \in Troubles
    /\ model # "down"
    /\ model' = "down"
    /\ exchange' = [ c \in Call |-> IF At(c, Heard) THEN "broken"
                                    ELSE IF At(c, Unheard) THEN "ended" ELSE exchange[c] ]
    /\ UNCHANGED picture

Restart ==
    /\ model = "down"
    /\ model' \in { "absent", "loaded" }
    /\ UNCHANGED << picture, exchange >>

\* What the service does by itself.
ServiceStep(c) == TakeUp(c) \/ Drop(c) \/ Discard(c)
===============================================================================
