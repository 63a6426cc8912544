--------------------------- MODULE OverlapLifecycle ---------------------------
(***************************************************************************)
(* What an overlap record promises to everyone who reads it: it appears as *)
(* "pending", is processed once, gains its separated prints in one step    *)
(* and only while it is being processed, and then settles for good, as     *)
(* "completed" only with a set of prints a separation may end with.        *)
(***************************************************************************)
CONSTANTS
    Overlap,
    ImageSets  \* the sets of positions a separation may end with

VARIABLES
    status,  \* "absent" or the record's processing_status
    images   \* the positions of the separated prints the record names

vars == << status, images >>

Init ==
    /\ status = [ o \in Overlap |-> "absent" ]
    /\ images = [ o \in Overlap |-> {} ]

Moves(o, from, to) ==
    /\ status[o] = from
    /\ status' = [ status EXCEPT ![o] = to ]
    /\ UNCHANGED images

Register(o) == Moves(o, "absent", "pending")

Begin(o) == Moves(o, "pending", "processing")

Attach(o) ==
    /\ status[o] = "processing"
    /\ images[o] = {}
    /\ \E s \in ImageSets : images' = [ images EXCEPT ![o] = s ]
    /\ UNCHANGED status

Complete(o) == images[o] \in ImageSets /\ Moves(o, "processing", "completed")

Fail(o) == Moves(o, "processing", "failed")

Next ==
    \E o \in Overlap :
        Register(o) \/ Begin(o) \/ Attach(o) \/ Complete(o) \/ Fail(o)

Spec == Init /\ [][Next]_vars
===============================================================================
