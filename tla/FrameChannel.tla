---------------------------- MODULE FrameChannel ----------------------------
(***************************************************************************)
(* What a stream promises the two blocks it joins: a channel with one place. *)
(* A frame that swap accepted stays in the place, unchanged, until the       *)
(* reader has taken it, used it and given the place back; only then is the   *)
(* next frame accepted.  So every accepted frame is used exactly once, in    *)
(* order, whatever starts and stops of either end come in between.           *)
(***************************************************************************)
CONSTANTS Frames, NoFrame

VARIABLES
  phase,   \* whose turn the place is
  frame,   \* the accepted frame, NoFrame while the place is empty
  used     \* the frame the reader used last

vars == <<phase, frame, used>>

Phases == {"empty", "full", "taken", "used"}

Init == /\ phase = "empty"
        /\ frame = NoFrame
        /\ used  = NoFrame

Accept(f) == /\ phase = "empty"
             /\ phase' = "full"
             /\ frame' = f
             /\ UNCHANGED used

Take == /\ phase = "full"
        /\ phase' = "taken"
        /\ UNCHANGED <<frame, used>>

Use == /\ phase = "taken"
       /\ phase' = "used"
       /\ used'  = frame
       /\ UNCHANGED frame

Release == /\ phase = "used"
           /\ phase' = "empty"
           /\ frame' = NoFrame
           /\ UNCHANGED used

Next == (\E f \in Frames : Accept(f)) \/ Take \/ Use \/ Release

SafetySpec == Init /\ [][Next]_vars

(* A reader that has taken a frame finishes with it: no stop interrupts it. *)
Spec == SafetySpec /\ WF_vars(Use) /\ WF_vars(Release)
=============================================================================
