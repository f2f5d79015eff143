------------------------------ MODULE Reshaper ------------------------------
(***************************************************************************)
(* dsp::buffer::Reshaper on its RingBuffer (src/core/src/dsp/buffer): one     *)
(* worker writes the samples that come in to the ring, the other takes        *)
(* frames of keep samples from it and skips some between them, and a control  *)
(* thread starts and stops both and changes the sizes while they are stopped. *)
(*                                                                          *)
(* Samples are numbered as they come in.  A negative skip makes a frame begin *)
(* with the end of the one before it; only the samples a frame takes from     *)
(* the ring are modelled.  The two mutexes of the ring are held for single    *)
(* steps, but for a thread that has found nothing to do and is about to       *)
(* sleep ("dozing"): it holds its mutex until it is asleep.                   *)
(***************************************************************************)
EXTENDS Integers, Sequences, FiniteSetsExt

CONSTANTS Size,        \* cells of the ring (RING_BUF_SZ)
          Shapes,      \* the pairs <<keep, skip>> in use
          MaxFrame,    \* bound: samples in a frame that comes in
          MaxSamples,  \* bound: samples that come in
          MaxStops     \* bound: stops

ASSUME ReshaperAssumption ==
  /\ Size \in Nat \ {0} /\ MaxFrame \in Nat \ {0}
  /\ MaxSamples \in Nat /\ MaxStops \in Nat
  /\ \A s \in Shapes : s \in (Nat \ {0}) \X Int /\ s[1] + s[2] > 0

VARIABLES
  ring,    \* RingBuffer
  w,       \* the writing worker: pc, the samples first..last it has to write,
           \* the writable count it has read, the room it has been given
  r,       \* the reading worker: pc, samples still to take and to skip for
           \* this frame, the number it has been given
  shape,   \* <<_keep, _skip>>
  control, \* where the control thread is
  stops,   \* stops begun
  written, \* the samples written to the ring
  taken,   \* how many of them the reader has been through
  copied   \* the samples the reader copied last, while it has them in hand

vars == <<ring, w, r, shape, control, stops, written, taken, copied>>

Cells == 0..(Size - 1)
WPcs == {"off", "fetch", "ask", "weigh", "test", "dozing", "asleep", "copy", "announce",
         "charge", "notify", "done"}
RPcs == {"off", "begin", "ask", "test", "dozing", "asleep", "copy", "forget", "credit",
         "notify", "swap", "done"}

TypeOK ==
  /\ ring \in [cells : [Cells -> 0..MaxSamples], readc : Cells, writec : Cells,
               readable : 0..Size, writable : 0..(2 * Size), maxLatency : Nat,
               stopReader : BOOLEAN, stopWriter : BOOLEAN]
  /\ w \in [pc : WPcs, first : Nat, last : Nat, seen : Nat, room : 0..Size]
  /\ r \in [pc : RPcs, keep : Nat, skip : Nat, given : 0..Size]
  /\ shape \in Shapes
  /\ control \in {"off", "on", "notifyReader", "stopWriter", "notifyWriter", "join"}
  /\ stops \in 0..MaxStops
  /\ taken \in 0..Len(written)

Init == /\ shape \in Shapes
        /\ ring = [cells |-> [i \in Cells |-> 0], readc |-> 0, writec |-> 0,
                   readable |-> 0, writable |-> Size, maxLatency |-> 2 * shape[1],
                   stopReader |-> FALSE, stopWriter |-> FALSE]
        /\ w = [pc |-> "off", first |-> 1, last |-> 0, seen |-> 0, room |-> 0]
        /\ r = [pc |-> "off", keep |-> 0, skip |-> 0, given |-> 0]
        /\ control = "off" /\ stops = 0
        /\ written = <<>> /\ taken = 0 /\ copied = <<>>

-----------------------------------------------------------------------------
(* The writing worker: Reshaper::run, RingBuffer::write                     *)

AtW(p) == w.pc = p
AtR(p) == r.pc = p
ReaderSide == UNCHANGED <<r, shape, control, stops, taken, copied>>

(* Slips: operators with one mistake each, used by no step.                 *)
SlipRoom(writable, readable) == writable
SlipWoken(pc) == pc

(* getWritable: what the ring has free, within the latency allowed.         *)
Room(writable, readable) ==
  Max({Min({writable, ring.maxLatency - readable}), 0})

(* What a notification does: it wakes a thread that is asleep.              *)
Woken(pc) == IF pc = "asleep" THEN "test" ELSE pc

(* A frame comes in, or the stop of the input ends the worker.              *)
Fetch ==
  /\ AtW("fetch") /\ control = "on"
  /\ \E n \in 1..MaxFrame :
       /\ w.last + n <= MaxSamples
       /\ w' = [w EXCEPT !.first = w.last + 1, !.last = w.last + n, !.pc = "ask"]
  /\ UNCHANGED <<ring, written>> /\ ReaderSide

FetchStops ==
  /\ AtW("fetch") /\ control \notin {"on", "off"}
  /\ w' = [w EXCEPT !.pc = "done"]
  /\ UNCHANGED <<ring, written>> /\ ReaderSide

(* A stopped write gives up the rest of the frame; run takes no notice.     *)
GiveUp == [w EXCEPT !.first = w.last + 1, !.pc = "fetch"]
Grant(n) == [w EXCEPT !.room = Min({n, w.last - w.first + 1}), !.pc = "copy"]

AskWritable ==
  /\ AtW("ask")
  /\ w' = IF ring.stopWriter THEN GiveUp
          ELSE [w EXCEPT !.seen = ring.writable, !.pc = "weigh"]
  /\ UNCHANGED <<ring, written>> /\ ReaderSide

WeighReadable ==
  /\ AtW("weigh") /\ ~AtR("dozing")
  /\ w' = LET n == Room(w.seen, ring.readable)
          IN  IF n # 0 THEN Grant(n) ELSE [w EXCEPT !.pc = "test"]
  /\ UNCHANGED <<ring, written>> /\ ReaderSide

TestWritable ==
  /\ AtW("test")
  /\ w' = LET n == Room(ring.writable, ring.readable)
          IN  IF ring.stopWriter THEN GiveUp
              ELSE IF n > 0 THEN Grant(n) ELSE [w EXCEPT !.pc = "dozing"]
  /\ UNCHANGED <<ring, written>> /\ ReaderSide

WriterSleeps ==
  /\ AtW("dozing")
  /\ w' = [w EXCEPT !.pc = "asleep"]
  /\ UNCHANGED <<ring, written>> /\ ReaderSide

(* A slip: the copy does not go on at the beginning of the ring.            *)
SlipCopyIn ==
  /\ AtW("copy")
  /\ ring' = [ring EXCEPT !.cells =
       [c \in Cells |-> LET i == c - ring.writec
                        IN  IF i \in 0..(w.room - 1) THEN w.first + i ELSE ring.cells[c]]]
  /\ written' = written \o [i \in 1..w.room |-> w.first + i - 1]
  /\ w' = [w EXCEPT !.pc = "announce"]
  /\ ReaderSide

CopyIn ==
  /\ AtW("copy")
  /\ ring' = [ring EXCEPT !.cells =
       [c \in Cells |-> LET i == (c - ring.writec) % Size
                        IN  IF i < w.room THEN w.first + i ELSE ring.cells[c]]]
  /\ written' = written \o [i \in 1..w.room |-> w.first + i - 1]
  /\ w' = [w EXCEPT !.pc = "announce"]
  /\ ReaderSide

Announce ==
  /\ AtW("announce") /\ ~AtR("dozing")
  /\ ring' = [ring EXCEPT !.readable = @ + w.room]
  /\ w' = [w EXCEPT !.pc = "charge"]
  /\ UNCHANGED written /\ ReaderSide

Charge ==
  /\ AtW("charge")
  /\ ring' = [ring EXCEPT !.writable = @ - w.room, !.writec = (@ + w.room) % Size]
  /\ w' = [w EXCEPT !.pc = "notify"]
  /\ UNCHANGED written /\ ReaderSide

NotifyReader ==
  /\ AtW("notify")
  /\ r' = [r EXCEPT !.pc = Woken(r.pc)]
  /\ w' = [w EXCEPT !.first = @ + w.room,
                    !.pc = IF w.first + w.room > w.last THEN "fetch" ELSE "ask"]
  /\ UNCHANGED <<ring, shape, control, stops, written, taken, copied>>

-----------------------------------------------------------------------------
(* The reading worker: Reshaper::bufferWorker, RingBuffer::readAndSkip      *)

WriterSide == UNCHANGED <<w, shape, control, stops, written>>

Begin ==
  /\ AtR("begin")
  /\ r' = [r EXCEPT !.keep = Min({shape[1] + shape[2], shape[1]}),
                    !.skip = Max({shape[2], 0}), !.pc = "ask"]
  /\ UNCHANGED <<ring, taken, copied>> /\ WriterSide

(* The least of what there is and what is still wanted (the slip forgets the *)
(* first).                                                                   *)
Wanted == IF r.keep > 0 THEN r.keep ELSE r.skip
SlipGive(n) == [r EXCEPT !.given = Min({Wanted, Size}), !.pc = "copy"]
Give(n) == [r EXCEPT !.given = Min({n, Wanted}), !.pc = "copy"]
ReaderEnds == [r EXCEPT !.pc = "done"]

AskReadable ==
  /\ AtR("ask")
  /\ r' = IF ring.stopReader THEN ReaderEnds
          ELSE IF ring.readable # 0 THEN Give(ring.readable) ELSE [r EXCEPT !.pc = "test"]
  /\ UNCHANGED <<ring, taken, copied>> /\ WriterSide

TestReadable ==
  /\ AtR("test")
  /\ r' = IF ring.stopReader THEN ReaderEnds
          ELSE IF ring.readable > 0 THEN Give(ring.readable) ELSE [r EXCEPT !.pc = "dozing"]
  /\ UNCHANGED <<ring, taken, copied>> /\ WriterSide

ReaderSleeps ==
  /\ AtR("dozing")
  /\ r' = [r EXCEPT !.pc = "asleep"]
  /\ UNCHANGED <<ring, taken, copied>> /\ WriterSide

(* Samples that are skipped are not copied.                                 *)
CopyOut ==
  /\ AtR("copy")
  /\ copied' = IF r.keep > 0
               THEN [i \in 1..r.given |-> ring.cells[(ring.readc + i - 1) % Size]]
               ELSE <<>>
  /\ r' = [r EXCEPT !.pc = "forget"]
  /\ UNCHANGED <<ring, taken>> /\ WriterSide

Forget ==
  /\ AtR("forget")
  /\ ring' = [ring EXCEPT !.readable = @ - r.given]
  /\ taken' = taken + r.given
  /\ copied' = <<>>
  /\ r' = [r EXCEPT !.pc = "credit"]
  /\ WriterSide

Credit ==
  /\ AtR("credit") /\ ~AtW("dozing")
  /\ ring' = [ring EXCEPT !.writable = @ + r.given, !.readc = (@ + r.given) % Size]
  /\ r' = [r EXCEPT !.pc = "notify"]
  /\ UNCHANGED <<taken, copied>> /\ WriterSide

NotifyWriter ==
  /\ AtR("notify")
  /\ w' = [w EXCEPT !.pc = Woken(w.pc)]
  /\ r' = LET k == IF r.keep > 0 THEN r.keep - r.given ELSE 0
              s == IF r.keep > 0 THEN r.skip ELSE r.skip - r.given
          IN  [r EXCEPT !.keep = k, !.skip = s, !.pc = IF k + s = 0 THEN "swap" ELSE "ask"]
  /\ UNCHANGED <<ring, shape, control, stops, written, taken, copied>>

(* The frame goes to the output, or its writer has been stopped.            *)
SwapFrame ==
  /\ AtR("swap")
  /\ r' = IF control \in {"notifyWriter", "join"} THEN ReaderEnds ELSE [r EXCEPT !.pc = "begin"]
  /\ UNCHANGED <<ring, taken, copied>> /\ WriterSide

-----------------------------------------------------------------------------
(* The control thread: doStart, doStop, setKeep and setSkip                 *)

Workers == UNCHANGED <<written, taken, copied>>

Start ==
  /\ control = "off"
  /\ control' = "on"
  /\ w' = [w EXCEPT !.pc = "fetch"]
  /\ r' = [r EXCEPT !.pc = "begin"]
  /\ UNCHANGED <<ring, shape, stops>> /\ Workers

(* The input's reader is stopped, then the ring's: flag first, then notify,  *)
(* without the mutex.                                                        *)
StopReaderSets ==
  /\ control = "on" /\ stops < MaxStops
  /\ stops' = stops + 1
  /\ ring' = [ring EXCEPT !.stopReader = TRUE]
  /\ control' = "notifyReader"
  /\ UNCHANGED <<w, r, shape>> /\ Workers

StopReaderNotifies ==
  /\ control = "notifyReader"
  /\ r' = [r EXCEPT !.pc = Woken(r.pc)]
  /\ control' = "stopWriter"
  /\ UNCHANGED <<ring, w, shape, stops>> /\ Workers

StopWriterSets ==
  /\ control = "stopWriter"
  /\ ring' = [ring EXCEPT !.stopWriter = TRUE]
  /\ control' = "notifyWriter"
  /\ UNCHANGED <<w, r, shape, stops>> /\ Workers

StopWriterNotifies ==
  /\ control = "notifyWriter"
  /\ w' = [w EXCEPT !.pc = Woken(w.pc)]
  /\ control' = "join"
  /\ UNCHANGED <<ring, r, shape, stops>> /\ Workers

Join ==
  /\ control = "join" /\ AtW("done") /\ AtR("done")
  /\ control' = "off"
  /\ w' = [w EXCEPT !.pc = "off"]
  /\ r' = [r EXCEPT !.pc = "off"]
  /\ ring' = [ring EXCEPT !.stopReader = FALSE, !.stopWriter = FALSE]
  /\ UNCHANGED <<shape, stops>> /\ Workers

SetShape(s) ==
  /\ control = "off"
  /\ shape' = s
  /\ ring' = [ring EXCEPT !.maxLatency = 2 * s[1]]
  /\ UNCHANGED <<w, r, control, stops>> /\ Workers

-----------------------------------------------------------------------------
Write == \/ FetchStops \/ AskWritable \/ WeighReadable \/ TestWritable \/ WriterSleeps
         \/ CopyIn \/ Announce \/ Charge \/ NotifyReader
Read  == \/ Begin \/ AskReadable \/ TestReadable \/ ReaderSleeps
         \/ CopyOut \/ Forget \/ Credit \/ NotifyWriter \/ SwapFrame
Stop  == StopReaderNotifies \/ StopWriterSets \/ StopWriterNotifies \/ Join

Next == \/ Fetch \/ Write \/ Read
        \/ Start \/ StopReaderSets \/ Stop \/ \E s \in Shapes : SetShape(s)

(* The threads run, and a stop once begun goes on.                          *)
Spec == /\ Init /\ [][Next]_vars
        /\ WF_vars(Write) /\ WF_vars(Read) /\ WF_vars(Stop)

-----------------------------------------------------------------------------
(* Properties                                                               *)

(* The reader copies exactly the samples that were written next: none is     *)
(* overwritten before it is read, read before it is written, read twice or   *)
(* skipped over, across stops and changes of size too.                       *)
ReadsWhatWasWritten ==
  /\ taken + Len(copied) <= Len(written)
  /\ copied = SubSeq(written, taken + 1, taken + Len(copied))

(* The writer never lets more samples pile up than the latency allows, even   *)
(* after the latency has been made smaller (getWritable).                     *)
LatencyBounded ==
  [][ring'.readable > ring.readable => ring'.readable <= ring'.maxLatency]_vars

(* Nobody sleeps on work: the reader does not sleep on samples nor the       *)
(* writer on room, whichever of the two mutexes its notifier had.            *)
NobodySleepsOnWork ==
  /\ (AtR("asleep") /\ ring.readable > 0) ~> ~AtR("asleep")
  /\ (AtW("asleep") /\ Room(ring.writable, ring.readable) > 0) ~> ~AtW("asleep")

(* Reshaper::doStop returns.                                                *)
StopReturns == (control # "on") ~> (control \in {"on", "off"})
=============================================================================
