------------------------------ MODULE FrontEnd ------------------------------
(***************************************************************************)
(* The receive path of IQFrontEnd (src/core/src/signal_path/iq_frontend.cpp) *)
(* from the input buffer through the splitter to the VFOs, while the thread  *)
(* of the user interface starts and stops it, selects its source, flushes its *)
(* buffer, changes its sample rate and adds and removes VFOs.                *)
(*                                                                          *)
(* The streams between the blocks are used as FrameChannel has them: a place *)
(* for one frame, whose writer and reader can each be stopped.  The frames   *)
(* are numbered by the source, which is the SampleFrameBuffer at the input:  *)
(* one worker pushes the device's frames into a ring, another takes them out *)
(* (the bypass mode of the file source is left out).  Each operation of the  *)
(* front end is the list of the block operations its body performs, done one *)
(* at a time.                                                                *)
(***************************************************************************)
EXTENDS Naturals, Sequences, SequencesExt

CONSTANTS Vfos,       \* the names VFOs may be given
          RingSize,   \* TEST_BUFFER_SIZE, the places of the ring
          MaxFrames   \* bound: how many frames the device delivers

ASSUME FrontEndAssumption == /\ IsFiniteSet(Vfos)
                             /\ Vfos \cap {"src", "split"} = {}
                             /\ RingSize \in Nat \ {0}
                             /\ MaxFrames \in Nat

VARIABLES
  chan,      \* the frame in each stream, NoFrame if its place is free
  rstop,     \* the streams whose reader is told to stop
  wstop,     \* the streams whose writer is told to stop
  streams,   \* Splitter::streams, the VFO inputs it feeds, in order
  vfos,      \* the VFOs there are
  running,   \* the blocks whose running flag is set
  wpc,       \* where each block's worker is
  cur,       \* the frame each worker has in hand
  target,    \* the splitter's place in streams
  pushing,   \* the buffer's first worker is in its loop
  produced,  \* the device's last frame
  taken,     \* the ring holds the frames taken + 1 .. produced
  last,      \* the last frame each VFO has delivered
  disturbed, \* the last frame taken out of the ring when a block on a VFO's
             \* path was last stopped, the VFO bound, or the ring emptied
  todo,      \* what is left of the operation under way
  joining    \* the operation at the head of todo has set the stop flags

vars == <<chan, rstop, wstop, streams, vfos, running, wpc, cur, target,
          pushing, produced, taken, last, disturbed, todo, joining>>

NoFrame == 0
Frames  == 1..MaxFrames
Blocks  == {"src", "split"} \cup Vfos
Into(b)  == <<"into", b>>   \* the stream a block reads
OutOf(v) == <<"out", v>>    \* the stream a VFO's demodulator reads
In       == Into("split")
Streams  == {In} \cup {Into(v) : v \in Vfos}

SlipOutputsOf(b) == IF b = "src" THEN {In} ELSE IF b = "split" THEN {} ELSE {OutOf(b)}

InputsOf(b)  == {Into(b)}
OutputsOf(b) == IF b = "src" THEN {In}
                ELSE IF b = "split" THEN {Into(v) : v \in ToSet(streams)}
                ELSE {OutOf(b)}

Pcs == {"off", "test", "doze", "asleep", "missed", "swap", "read", "copy", "out", "done"}
Entry(b) == IF b = "src" THEN "test" ELSE "read"

TypeOK == /\ chan \in [Streams -> Frames \cup {NoFrame}]
          /\ rstop \subseteq Streams \cup {Into("src")}
          /\ wstop \subseteq Streams \cup {OutOf(v) : v \in Vfos}
          /\ streams \in Seq(Vfos)
          /\ vfos \subseteq Vfos
          /\ running \subseteq Blocks
          /\ wpc \in [Blocks -> Pcs]
          /\ cur \in [Blocks -> Frames \cup {NoFrame}]
          /\ target \in 1..(Len(streams) + 1)
          /\ pushing \in BOOLEAN
          /\ produced \in 0..MaxFrames
          /\ taken \in 0..produced /\ produced - taken < RingSize
          /\ last \in [Vfos -> 0..MaxFrames]
          /\ disturbed \in [Vfos -> 0..MaxFrames]
          /\ joining \in BOOLEAN

Init == /\ chan = [s \in Streams |-> NoFrame]
        /\ rstop = {} /\ wstop = {}
        /\ streams = <<>> /\ vfos = {} /\ running = {}
        /\ wpc = [b \in Blocks |-> "off"]
        /\ cur = [b \in Blocks |-> NoFrame]
        /\ target = 1
        /\ pushing = FALSE
        /\ produced = 0 /\ taken = 0
        /\ last = [v \in Vfos |-> 0]
        /\ disturbed = [v \in Vfos |-> 0]
        /\ todo = <<>> /\ joining = FALSE

-----------------------------------------------------------------------------
(* The workers                                                              *)

control == <<rstop, wstop, streams, vfos, running, todo, joining>>
ring == <<pushing, produced, taken>>

Goto(b, p) == wpc' = [wpc EXCEPT ![b] = p]

Drop(b) == cur' = [cur EXCEPT ![b] = NoFrame]

(* Slips: actions with one mistake each, taken by nobody.                   *)
SlipSplitKeepsFrame ==
  /\ wpc["split"] = "copy" /\ target <= Len(streams)
  /\ Into(streams[target]) \in wstop
  /\ target' = 1
  /\ Drop("split")
  /\ Goto("split", "done")
  /\ UNCHANGED <<chan, ring, last, disturbed, control>>

SlipSplitResumesLoop ==
  /\ wpc["split"] = "copy" /\ target <= Len(streams)
  /\ Into(streams[target]) \in wstop
  /\ chan' = [chan EXCEPT ![In] = NoFrame]
  /\ Drop("split")
  /\ Goto("split", "done")
  /\ UNCHANGED <<target, ring, last, disturbed, control>>

(* Frames up to the last one taken may miss the VFOs in V.                  *)
Disturb(V, f) == disturbed' = [v \in Vfos |-> IF v \in V THEN f ELSE disturbed[v]]

(* bufMtx is held by a worker that has tested the ring and is about to wait. *)
RingIsFree == wpc["src"] # "doze"
NotifyRing == wpc' = [wpc EXCEPT !["src"] = IF @ \in {"asleep", "missed"} THEN "test" ELSE @]

(* The first worker pushes a frame of the device; the cursors meet when the  *)
(* ring is full, and it then counts as empty.                                *)
SourcePushes ==
  /\ pushing /\ RingIsFree
  /\ produced < MaxFrames
  /\ produced' = produced + 1
  /\ IF produced' - taken = RingSize
       THEN taken' = produced' /\ Disturb(Vfos, produced')
       ELSE UNCHANGED <<taken, disturbed>>
  /\ NotifyRing
  /\ UNCHANGED <<chan, cur, target, pushing, last, control>>

SourceReadEnds ==
  /\ pushing /\ Into("src") \in rstop
  /\ pushing' = FALSE
  /\ UNCHANGED <<chan, wpc, cur, target, produced, taken, last, disturbed, control>>

(* The second worker ends, takes the oldest frame out, or waits for one; the *)
(* stop flag is set without bufMtx, also between the test and the wait.      *)
SourceTests ==
  /\ wpc["src"] = "test"
  /\ \/ Into("src") \in rstop /\ Goto("src", "done") /\ UNCHANGED <<taken, cur>>
     \/ /\ Into("src") \notin rstop /\ taken < produced
        /\ taken' = taken + 1
        /\ cur' = [cur EXCEPT !["src"] = taken + 1]
        /\ Goto("src", "swap")
     \/ /\ Into("src") \notin rstop /\ taken = produced
        /\ Goto("src", "doze") /\ UNCHANGED <<taken, cur>>
  /\ UNCHANGED <<chan, target, pushing, produced, last, disturbed, control>>

SourceWaits ==
  /\ wpc["src"] = "doze"
  /\ Goto("src", IF Into("src") \in rstop THEN "missed" ELSE "asleep")
  /\ UNCHANGED <<chan, cur, target, ring, last, disturbed, control>>

SourceSwaps ==
  /\ wpc["src"] = "swap" /\ In \notin wstop
  /\ chan[In] = NoFrame
  /\ chan' = [chan EXCEPT ![In] = cur["src"]]
  /\ Drop("src")
  /\ Goto("src", "test")
  /\ UNCHANGED <<target, ring, last, disturbed, control>>

SourceStops ==
  /\ wpc["src"] = "swap" /\ In \in wstop
  /\ Drop("src")
  /\ Goto("src", "done")
  /\ UNCHANGED <<chan, target, ring, last, disturbed, control>>

(* The splitter copies the frame it reads to each bound stream in turn and  *)
(* flushes its input after the last, or at once if a swap is abandoned.     *)
SplitReads ==
  /\ wpc["split"] = "read" /\ In \notin rstop
  /\ chan[In] # NoFrame
  /\ cur' = [cur EXCEPT !["split"] = chan[In]]
  /\ Goto("split", "copy")
  /\ UNCHANGED <<chan, target, ring, last, disturbed, control>>

SplitSwaps ==
  /\ wpc["split"] = "copy" /\ target <= Len(streams)
  /\ Into(streams[target]) \notin wstop
  /\ chan[Into(streams[target])] = NoFrame
  /\ chan' = [chan EXCEPT ![Into(streams[target])] = cur["split"]]
  /\ target' = target + 1
  /\ UNCHANGED <<wpc, cur, ring, last, disturbed, control>>

SplitFlushes ==
  /\ wpc["split"] = "copy" /\ target > Len(streams)
  /\ chan' = [chan EXCEPT ![In] = NoFrame]
  /\ target' = 1
  /\ Drop("split")
  /\ Goto("split", "read")
  /\ UNCHANGED <<ring, last, disturbed, control>>

SplitAbandons ==
  /\ wpc["split"] = "copy" /\ target <= Len(streams)
  /\ Into(streams[target]) \in wstop
  /\ chan' = [chan EXCEPT ![In] = NoFrame]
  /\ target' = 1
  /\ Drop("split")
  /\ Goto("split", "done")
  /\ UNCHANGED <<ring, last, disturbed, control>>

SplitStops ==
  /\ wpc["split"] = "read" /\ In \in rstop
  /\ Goto("split", "done")
  /\ UNCHANGED <<chan, cur, target, ring, last, disturbed, control>>

(* A VFO processes a frame and swaps its output; whether that goes through   *)
(* depends on the demodulator, which may be slow or not yet there.           *)
VfoReads(v) ==
  /\ wpc[v] = "read" /\ Into(v) \notin rstop
  /\ chan[Into(v)] # NoFrame
  /\ cur' = [cur EXCEPT ![v] = chan[Into(v)]]
  /\ Goto(v, "out")
  /\ UNCHANGED <<chan, target, ring, last, disturbed, control>>

VfoDelivers(v) ==
  /\ wpc[v] = "out" /\ OutOf(v) \notin wstop
  /\ last' = [last EXCEPT ![v] = cur[v]]
  /\ chan' = [chan EXCEPT ![Into(v)] = NoFrame]
  /\ Drop(v)
  /\ Goto(v, "read")
  /\ UNCHANGED <<target, ring, disturbed, control>>

VfoAbandons(v) ==
  /\ wpc[v] = "out" /\ OutOf(v) \in wstop
  /\ chan' = [chan EXCEPT ![Into(v)] = NoFrame]
  /\ Drop(v)
  /\ Goto(v, "done")
  /\ UNCHANGED <<target, ring, last, disturbed, control>>

VfoStops(v) ==
  /\ wpc[v] = "read" /\ Into(v) \in rstop
  /\ Goto(v, "done")
  /\ UNCHANGED <<chan, cur, target, ring, last, disturbed, control>>

-----------------------------------------------------------------------------
(* The operations of the front end, as the block operations they consist of. *)

ForEach(kind, s) == [i \in DOMAIN s |-> <<kind, s[i]>>]

Call(ops) == todo = <<>> /\ todo' = ops

idle == <<chan, rstop, wstop, streams, vfos, running, wpc, cur, target, ring,
          last, disturbed, joining>>

(* The order of the VFO map.                                                *)
VfoOrder == SetToSeq(vfos)

SlipAddWhileRunning(v) ==
  /\ v \notin vfos
  /\ Call(<<<<"new", v>>, <<"bind", v>>, <<"start", v>>>>)
  /\ UNCHANGED idle

SlipDeleteFirst(v) ==
  /\ v \in vfos
  /\ Call(<<<<"stop", v>>, <<"delete", v>>, <<"pause", "split">>, <<"unbind", v>>,
            <<"resume", "split">>>>)
  /\ UNCHANGED idle

StartAll == /\ Call(<<<<"start", "src">>, <<"start", "split">>>> \o ForEach("start", VfoOrder))
            /\ UNCHANGED idle

StopAll == /\ Call(<<<<"stop", "src">>, <<"stop", "split">>>> \o ForEach("stop", VfoOrder))
           /\ UNCHANGED idle

AddVFO(v) == /\ v \notin vfos
             /\ Call(<<<<"new", v>>, <<"pause", "split">>, <<"bind", v>>,
                       <<"resume", "split">>, <<"start", v>>>>)
             /\ UNCHANGED idle

RemoveVFO(v) == /\ v \in vfos
                /\ Call(<<<<"stop", v>>, <<"stop", v>>, <<"pause", "split">>, <<"unbind", v>>,
                          <<"resume", "split">>, <<"delete", v>>>>)
                /\ UNCHANGED idle

SetSampleRate == /\ vfos # {}
                 /\ Call(ForEach("pause", VfoOrder) \o ForEach("resume", VfoOrder))
                 /\ UNCHANGED idle

(* Another source is selected.                                              *)
SetInput == Call(<<<<"pause", "src">>, <<"resume", "src">>>>) /\ UNCHANGED idle

FlushInputBuffer == Call(<<<<"flush", "src">>>>) /\ UNCHANGED idle

Doing(kind, b) == todo # <<>> /\ Head(todo) = <<kind, b>>
Done == todo' = Tail(todo)

StartBlock(b) ==
  /\ Doing("start", b) /\ Done
  /\ running' = running \cup {b}
  /\ wpc' = IF b \in running THEN wpc ELSE [wpc EXCEPT ![b] = Entry(b)]
  /\ pushing' = (pushing \/ b = "src")
  /\ UNCHANGED <<chan, rstop, wstop, streams, vfos, cur, target, produced, taken, last,
                 disturbed, joining>>

SlipStopWithoutNotify(b) ==
  /\ Doing("stop", b) \/ Doing("pause", b)
  /\ b \in running /\ ~joining
  /\ rstop' = rstop \cup InputsOf(b)
  /\ wstop' = wstop \cup OutputsOf(b)
  /\ Disturb(IF b \in Vfos THEN {b} ELSE Vfos, taken)
  /\ joining' = TRUE
  /\ UNCHANGED wpc
  /\ UNCHANGED <<chan, streams, vfos, running, cur, target, ring, last, todo>>

(* doStop, up to the join: tell the reader of each input and the writer of   *)
(* each output to stop.  Frames in flight may be lost to any VFO downstream. *)
TellToStop(b) ==
  /\ Doing("stop", b) \/ Doing("pause", b)
  /\ b \in running /\ ~joining
  /\ rstop' = rstop \cup InputsOf(b)
  /\ wstop' = wstop \cup OutputsOf(b)
  /\ Disturb(IF b \in Vfos THEN {b} ELSE Vfos, taken)
  /\ joining' = TRUE
  /\ IF b = "src" THEN NotifyRing ELSE UNCHANGED wpc
  /\ UNCHANGED <<chan, streams, vfos, running, cur, target, ring, last, todo>>

SkipStop(b) ==
  /\ Doing("stop", b) \/ Doing("pause", b)
  /\ b \notin running
  /\ Done
  /\ UNCHANGED idle

(* doStop, the rest: join the worker and take the stop flags back.          *)
JoinBlock(b) ==
  /\ Doing("stop", b) \/ Doing("pause", b)
  /\ joining /\ wpc[b] = "done" /\ (b = "src" => ~pushing)
  /\ Done
  /\ joining' = FALSE
  /\ rstop' = rstop \ InputsOf(b)
  /\ wstop' = wstop \ OutputsOf(b)
  /\ running' = IF Doing("stop", b) THEN running \ {b} ELSE running
  /\ Goto(b, "off")
  /\ Disturb(IF b \in Vfos THEN {b} ELSE Vfos, taken)
  /\ UNCHANGED <<chan, streams, vfos, cur, target, ring, last>>

ResumeBlock(b) ==
  /\ Doing("resume", b) /\ Done
  /\ wpc' = IF b \in running THEN [wpc EXCEPT ![b] = Entry(b)] ELSE wpc
  /\ pushing' = (pushing \/ (b = "src" /\ b \in running))
  /\ UNCHANGED <<chan, rstop, wstop, streams, vfos, running, cur, target, produced, taken,
                 last, disturbed, joining>>

(* IQFrontEnd::flushInputBuffer: what is in the ring is dropped.             *)
FlushRing ==
  /\ Doing("flush", "src") /\ Done
  /\ RingIsFree
  /\ taken' = produced
  /\ Disturb(Vfos, produced)
  /\ UNCHANGED <<chan, rstop, wstop, streams, vfos, running, wpc, cur, target, pushing,
                 produced, last, joining>>

(* A new VFO comes with a new input stream.                                 *)
NewVFO(v) ==
  /\ Doing("new", v) /\ Done
  /\ vfos' = vfos \cup {v}
  /\ chan' = [chan EXCEPT ![Into(v)] = NoFrame]
  /\ UNCHANGED <<rstop, wstop, streams, running, wpc, cur, target, ring, last,
                 disturbed, joining>>

BindStream(v) ==
  /\ Doing("bind", v) /\ Done
  /\ streams' = Append(streams, v)
  /\ Disturb({v}, taken)
  /\ UNCHANGED <<chan, rstop, wstop, vfos, running, wpc, cur, target, ring, last,
                 joining>>

UnbindStream(v) ==
  /\ Doing("unbind", v) /\ Done
  /\ \E i \in DOMAIN streams : streams[i] = v /\ streams' = RemoveAt(streams, i)
  /\ UNCHANGED <<chan, rstop, wstop, vfos, running, wpc, cur, target, ring, last,
                 disturbed, joining>>

DeleteVFO(v) ==
  /\ Doing("delete", v) /\ Done
  /\ vfos' = vfos \ {v}
  /\ UNCHANGED <<chan, rstop, wstop, streams, running, wpc, cur, target, ring, last,
                 disturbed, joining>>

-----------------------------------------------------------------------------
CallSomething == StartAll \/ StopAll \/ SetSampleRate \/ SetInput \/ FlushInputBuffer
                 \/ \E v \in Vfos : AddVFO(v) \/ RemoveVFO(v)

Perform ==
  \/ \E b \in Blocks : \/ StartBlock(b) \/ TellToStop(b) \/ SkipStop(b)
                       \/ JoinBlock(b) \/ ResumeBlock(b)
  \/ FlushRing
  \/ \E v \in Vfos : NewVFO(v) \/ BindStream(v) \/ UnbindStream(v) \/ DeleteVFO(v)

SourceStep == SourceTests \/ SourceWaits \/ SourceSwaps \/ SourceStops
SplitStep  == SplitReads \/ SplitSwaps \/ SplitFlushes \/ SplitAbandons \/ SplitStops
VfoEnds(v) == VfoReads(v) \/ VfoAbandons(v) \/ VfoStops(v)

Next == \/ CallSomething \/ Perform
        \/ SourcePushes \/ SourceReadEnds \/ SourceStep \/ SplitStep
        \/ \E v \in Vfos : VfoEnds(v) \/ VfoDelivers(v)

(* The workers are threads the system schedules, and the user interface goes *)
(* through with an operation it has begun.  No demodulator is obliged to     *)
(* take what a VFO has for it, and the device need not have a frame.         *)
Fairness == /\ WF_vars(Perform)
            /\ WF_vars(SourceReadEnds) /\ WF_vars(SourceStep) /\ WF_vars(SplitStep)
            /\ \A v \in Vfos : WF_vars(VfoEnds(v))

Spec == Init /\ [][Next]_vars /\ Fairness

-----------------------------------------------------------------------------
(* Properties                                                               *)

(* The splitter walks over its list of streams only while nobody changes it: *)
(* bindStream and unbindStream stop the worker first.                        *)
ListStable == [][streams' # streams => wpc["split"] = "off"]_vars

(* What removeVFO deletes is not in use: a stream is fed by the splitter and *)
(* a VFO's worker is there only while the VFO exists.                        *)
NothingDangles == /\ ToSet(streams) \subseteq vfos
                  /\ \A v \in Vfos : wpc[v] # "off" => v \in vfos

(* A VFO delivers frames in order, none twice, and skips only frames that    *)
(* had left the ring before a block on the VFO's path was last stopped, or    *)
(* that were in it when it was flushed or overrun by the device: a            *)
(* splitter that cannot finish handing out a frame drops it, and does not    *)
(* hand it out again to the VFOs that have it (splitter.h:77-80).            *)
FramesInOrder ==
  [][\A v \in Vfos : wpc[v] = "out" /\ wpc'[v] = "read" =>
       /\ cur[v] > last[v]
       /\ \A f \in (last[v] + 1)..(cur[v] - 1) : f <= disturbed[v]]_vars

(* Every operation returns, even while a VFO is stuck with a frame that its  *)
(* demodulator does not take and the splitter is stuck behind it.  The one   *)
(* exception: the buffer's second worker was between its test of the ring    *)
(* and its wait when the stop flag was set (frame_buffer.h:112), has missed  *)
(* the notification, and nothing is pushed any more.                         *)
StopMissed == wpc["src"] = "missed" /\ ~pushing
OperationsReturn == (todo # <<>>) ~> (todo = <<>> \/ StopMissed)
=============================================================================
