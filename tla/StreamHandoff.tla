---------------------------- MODULE StreamHandoff ----------------------------
(***************************************************************************)
(* Two blocks joined by one stream: a block that fills it (dsp::Source) and  *)
(* one that uses what it reads (dsp::Sink, in the form of sink::Handler).    *)
(* Each block has its worker thread, running the loop of block::workerLoop,  *)
(* and a controlling thread that starts and stops it (block::start and       *)
(* block::stop, serialised by the block's own ctrlMtx).  Four threads meet   *)
(* on the stream's two mutexes and two condition variables.                  *)
(***************************************************************************)
EXTENDS Stream

CONSTANTS Frames,   \* the payloads a frame may carry
          NoFrame   \* what an untouched buffer holds

ASSUME FramesAssumption == NoFrame \notin Frames

VARIABLES
  s,      \* the stream
  wpc,    \* where the writing worker is
  rpc,    \* where the reading worker is
  wctl,   \* where the thread that controls the writing block is
  rctl,   \* where the thread that controls the reading block is
  held,   \* the buffer whose address run() passed to the handler
  used    \* the frame the handler was given last

vars == <<s, wpc, rpc, wctl, rctl, held, used>>

Workers == {"writer", "reader"}
Content == Frames \cup {NoFrame}

WriterPcs == {"off", "fill", "swap", "ready", "notify", "done"}
ReaderPcs == {"off", "read", "wait", "got", "process", "clear", "free",
              "notify", "done"}
WriterControl == {"stopped", "running", "notify", "join", "clear"}
ReaderControl == {"stopped", "running", "notify", "poll", "join", "clear"}

TypeOK == /\ s \in StreamType(Workers, Content)
          /\ wpc \in WriterPcs
          /\ rpc \in ReaderPcs
          /\ wctl \in WriterControl
          /\ rctl \in ReaderControl
          /\ held \in Buffers
          /\ used \in Content

Init == /\ s = NewStream(NoFrame)
        /\ wpc = "off"  /\ wctl = "stopped"
        /\ rpc = "off"  /\ rctl = "stopped"
        /\ held = 1
        /\ used = NoFrame

-----------------------------------------------------------------------------
(* The writing worker: run() fills out.writeBuf and calls out.swap.         *)

Fill(f) ==
  /\ wpc = "fill"
  /\ s' = FillWriteBuf(s, f)
  /\ wpc' = "swap"
  /\ UNCHANGED <<rpc, wctl, rctl, held, used>>

SwapWaits ==
  /\ wpc = "swap" /\ "writer" \notin s.swapCV
  /\ ~SwapPred(s)
  /\ s' = SleepOnSwap(s, "writer")
  /\ UNCHANGED <<wpc, rpc, wctl, rctl, held, used>>

(* A stopped writer abandons its frame and the worker loop ends.            *)
SwapAbandons ==
  /\ wpc = "swap" /\ "writer" \notin s.swapCV
  /\ s.writerStop
  /\ wpc' = "done"
  /\ UNCHANGED <<s, rpc, wctl, rctl, held, used>>

Swap ==
  /\ wpc = "swap" /\ "writer" \notin s.swapCV
  /\ MaySwap(s)
  /\ s' = SwapBuffers(s)
  /\ wpc' = "ready"
  /\ UNCHANGED <<rpc, wctl, rctl, held, used>>

SwapPublishes ==
  /\ wpc = "ready"
  /\ s' = PublishReady(s)
  /\ wpc' = "notify"
  /\ UNCHANGED <<rpc, wctl, rctl, held, used>>

SwapNotifies ==
  /\ wpc = "notify"
  /\ s' = NotifyReady(s)
  /\ wpc' = "fill"
  /\ UNCHANGED <<rpc, wctl, rctl, held, used>>

-----------------------------------------------------------------------------
(* The reading worker: read, hand readBuf to the handler, flush.            *)

ReadWaits ==
  /\ rpc = "read"
  /\ ~ReadPred(s)
  /\ s' = EnterReadAndSleep(s, "reader")
  /\ rpc' = "wait"
  /\ UNCHANGED <<wpc, wctl, rctl, held, used>>

(* The predicate is true at once: the reader is counted in and out within   *)
(* one hold of rdyMtx.                                                      *)
ReadReturns ==
  /\ rpc = "read"
  /\ ReadPred(s)
  /\ rpc' = IF ReadGetsData(s) THEN "got" ELSE "done"
  /\ UNCHANGED <<s, wpc, wctl, rctl, held, used>>

ReadSleepsAgain ==
  /\ rpc = "wait" /\ "reader" \notin s.rdyCV
  /\ ~ReadPred(s)
  /\ s' = SleepOnReady(s, "reader")
  /\ UNCHANGED <<wpc, rpc, wctl, rctl, held, used>>

ReadWakes ==
  /\ rpc = "wait" /\ "reader" \notin s.rdyCV
  /\ ReadPred(s)
  /\ s' = LeaveRead(s)
  /\ rpc' = IF ReadGetsData(s) THEN "got" ELSE "done"
  /\ UNCHANGED <<wpc, wctl, rctl, held, used>>

TakeReadBuf ==
  /\ rpc = "got"
  /\ held' = s.readBuf
  /\ rpc' = "process"
  /\ UNCHANGED <<s, wpc, wctl, rctl, used>>

Handle ==
  /\ rpc = "process"
  /\ used' = s.data[held]
  /\ rpc' = "clear"
  /\ UNCHANGED <<s, wpc, wctl, rctl, held>>

FlushClears ==
  /\ rpc = "clear"
  /\ s' = ClearReady(s)
  /\ rpc' = "free"
  /\ UNCHANGED <<wpc, wctl, rctl, held, used>>

FlushFrees ==
  /\ rpc = "free"
  /\ s' = AllowSwap(s)
  /\ rpc' = "notify"
  /\ UNCHANGED <<wpc, wctl, rctl, held, used>>

FlushNotifies ==
  /\ rpc = "notify"
  /\ s' = NotifySwap(s)
  /\ rpc' = "read"
  /\ UNCHANGED <<wpc, wctl, rctl, held, used>>

-----------------------------------------------------------------------------
(* Control of the writing block: start() starts the worker; stop() is       *)
(* doStop() over its one output: stopWriter, join, clearWriteStop.          *)

StartWriting ==
  /\ wctl = "stopped"
  /\ wctl' = "running"
  /\ wpc' = "fill"
  /\ UNCHANGED <<s, rpc, rctl, held, used>>

StopWriterSets ==
  /\ wctl = "running"
  /\ s' = SetWriterStop(s)
  /\ wctl' = "notify"
  /\ UNCHANGED <<wpc, rpc, rctl, held, used>>

StopWriterNotifies ==
  /\ wctl = "notify"
  /\ s' = NotifySwap(s)
  /\ wctl' = "join"
  /\ UNCHANGED <<wpc, rpc, rctl, held, used>>

JoinWriter ==
  /\ wctl = "join" /\ wpc = "done"
  /\ wpc' = "off"
  /\ wctl' = "clear"
  /\ UNCHANGED <<s, rpc, rctl, held, used>>

ClearWriter ==
  /\ wctl = "clear"
  /\ s' = ClearWriteStop(s)
  /\ wctl' = "stopped"
  /\ UNCHANGED <<wpc, rpc, rctl, held, used>>

-----------------------------------------------------------------------------
(* Control of the reading block: doStop() over its one input: stopReader    *)
(* (set, notify, poll until no reader is inside read), join, clearReadStop. *)

StartReading ==
  /\ rctl = "stopped"
  /\ rctl' = "running"
  /\ rpc' = "read"
  /\ UNCHANGED <<s, wpc, wctl, held, used>>

StopReaderSets ==
  /\ rctl = "running"
  /\ s' = SetReaderStop(s)
  /\ rctl' = "notify"
  /\ UNCHANGED <<wpc, rpc, wctl, held, used>>

StopReaderNotifies ==
  /\ rctl = "notify"
  /\ s' = NotifyReady(s)
  /\ rctl' = "poll"
  /\ UNCHANGED <<wpc, rpc, wctl, held, used>>

StopReaderPolls ==
  /\ rctl = "poll" /\ ReaderGone(s)
  /\ rctl' = "join"
  /\ UNCHANGED <<s, wpc, rpc, wctl, held, used>>

JoinReader ==
  /\ rctl = "join" /\ rpc = "done"
  /\ rpc' = "off"
  /\ rctl' = "clear"
  /\ UNCHANGED <<s, wpc, wctl, held, used>>

ClearReader ==
  /\ rctl = "clear"
  /\ s' = ClearReadStop(s)
  /\ rctl' = "stopped"
  /\ UNCHANGED <<wpc, rpc, wctl, held, used>>

-----------------------------------------------------------------------------
WriterStep == \/ \E f \in Frames : Fill(f)
              \/ SwapWaits \/ SwapAbandons \/ Swap
              \/ SwapPublishes \/ SwapNotifies

ReaderStep == \/ ReadWaits \/ ReadReturns \/ ReadSleepsAgain \/ ReadWakes
              \/ TakeReadBuf \/ Handle
              \/ FlushClears \/ FlushFrees \/ FlushNotifies

(* The rest of a stop that has begun.                                       *)
FinishStopWriting == StopWriterNotifies \/ JoinWriter \/ ClearWriter
FinishStopReading ==
  StopReaderNotifies \/ StopReaderPolls \/ JoinReader \/ ClearReader

Next == \/ WriterStep \/ ReaderStep
        \/ StartWriting \/ StopWriterSets \/ FinishStopWriting
        \/ StartReading \/ StopReaderSets \/ FinishStopReading

SafetySpec == Init /\ [][Next]_vars

(* Every worker is a thread the system schedules, and stop() runs to its    *)
(* end once called.  Nothing obliges anyone to call start() or stop().      *)
Fairness == /\ WF_vars(WriterStep)
            /\ WF_vars(ReaderStep)
            /\ WF_vars(FinishStopWriting)
            /\ WF_vars(FinishStopReading)

Spec == SafetySpec /\ Fairness

-----------------------------------------------------------------------------
(* Properties                                                               *)

(* The reader is using a buffer: between the return of read and flush.      *)
Using == rpc \in {"got", "process", "clear", "free"}

(* While the handler works on a buffer (processor.h, the use of readBuf      *)
(* between read and flush), the writer fills the other one: swap cannot      *)
(* exchange the buffers until flush has allowed it.                          *)
BufferExclusion == rpc = "process" => held # s.writeBuf

(* The two flags are never both up: a buffer announced by dataReady is not   *)
(* one the writer may take back.  It rests on flush clearing dataReady       *)
(* before it sets canSwap, and on swap clearing canSwap before dataReady.    *)
FlagsExclude == ~(s.dataReady /\ s.canSwap)

(* When stopReader has returned, no thread is inside read and none enters to *)
(* stay: what stream.h's polling of nReaders is there to ensure before       *)
(* doStop goes on.                                                           *)
NoReaderInside == rctl \in {"join", "clear"} => s.nReaders = 0

(* block::stop always returns, wherever the worker is: asleep in swap or in  *)
(* read, about to sleep, or between the two halves of a hand-off.            *)
StopReturns == /\ (wctl = "notify") ~> (wctl = "stopped")
               /\ (rctl = "notify") ~> (rctl = "stopped")

(* While nobody stops either block, frames keep being used: no wake-up of    *)
(* either worker is lost.                                                    *)
FramesFlow ==
  <>[](wctl = "running" /\ rctl = "running") => []<>(rpc = "process")

-----------------------------------------------------------------------------
(* The stream implements the one-place channel.                             *)

ChannelPhase ==
  IF rpc \in {"got", "process"} THEN "taken"
  ELSE IF rpc \in {"clear", "free"} THEN "used"
  ELSE IF s.canSwap THEN "empty" ELSE "full"

ChannelFrame == IF s.canSwap THEN NoFrame ELSE s.data[s.readBuf]

Channel == INSTANCE FrameChannel
             WITH phase <- ChannelPhase, frame <- ChannelFrame

(* Every step of the four threads is a step of the channel or invisible in   *)
(* it, and a frame taken is used and its place given back (FrameChannel).    *)
ImplementsChannel == Channel!Spec
=============================================================================
