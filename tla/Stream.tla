------------------------------- MODULE Stream -------------------------------
(***************************************************************************)
(* dsp::stream<T> (src/core/src/dsp/stream.h): the double-buffered hand-off *)
(* between the worker thread of one DSP block and that of the next.         *)
(*                                                                          *)
(* A stream is a record, and every operator below is one critical section   *)
(* of the class: what a member function does between taking swapMtx or      *)
(* rdyMtx and releasing it, or one notify_all.  The modules that use        *)
(* streams keep one record per stream and decide which thread is about to   *)
(* run which section, so the order of the sections inside a member function *)
(* is theirs to state and the interleavings of several threads are theirs   *)
(* to explore.                                                              *)
(*                                                                          *)
(* A condition variable is the set of the threads asleep on it: a thread    *)
(* joins the set when its predicate is false, in the same critical section, *)
(* and leaves it only when some thread notifies.                            *)
(***************************************************************************)
EXTENDS Naturals

Buffers == {0, 1}

(* What the members of a stream may hold, for threads T and payloads F.     *)
StreamType(T, F) ==
  [canSwap : BOOLEAN, writerStop : BOOLEAN, dataReady : BOOLEAN,
   readerStop : BOOLEAN, nReaders : Nat,
   writeBuf : Buffers, readBuf : Buffers, data : [Buffers -> F],
   swapCV : SUBSET T, rdyCV : SUBSET T]

(* A stream as its constructor leaves it, with f as the buffers' content.   *)
NewStream(f) ==
  [canSwap |-> TRUE, writerStop |-> FALSE, dataReady |-> FALSE,
   readerStop |-> FALSE, nReaders |-> 0,
   writeBuf |-> 0, readBuf |-> 1, data |-> [b \in Buffers |-> f],
   swapCV |-> {}, rdyCV |-> {}]

-----------------------------------------------------------------------------
(* Slips: variants of the sections below with one mistake each.  No action   *)
(* uses them; a property that holds of the sections and fails of a slip is   *)
(* one the code could have broken.                                           *)

SlipNoNotify(s)        == s
SlipKeepReady(s)       == s
SlipSwapKeepsFlag(s)   ==
  [s EXCEPT !.writeBuf = s.readBuf, !.readBuf = s.writeBuf]
SlipSwapUnasked(s)     == ~s.writerStop
SlipReadIgnoresStop(s) == s.dataReady
SlipReaderNotPolled(s) == TRUE
SlipReaderUncounted(s, t) == [s EXCEPT !.rdyCV = @ \cup {t}]

-----------------------------------------------------------------------------
(* The writer's side.                                                       *)

(* The worker fills writeBuf before it calls swap.                          *)
FillWriteBuf(s, f) == [s EXCEPT !.data = [@ EXCEPT ![s.writeBuf] = f]]

(* The predicate swap waits for under swapMtx.                              *)
SwapPred(s) == s.canSwap \/ s.writerStop

(* swap goes on, rather than abandon, when the wait is over.                *)
MaySwap(s) == s.canSwap /\ ~s.writerStop

SleepOnSwap(s, t) == [s EXCEPT !.swapCV = @ \cup {t}]

(* swap, the section under swapMtx once the wait is over and the writer is  *)
(* not stopped.                                                             *)
SwapBuffers(s) ==
  [s EXCEPT !.writeBuf = s.readBuf, !.readBuf = s.writeBuf, !.canSwap = FALSE]

(* swap, the section under rdyMtx, and the notification that follows it.    *)
PublishReady(s) == [s EXCEPT !.dataReady = TRUE]
NotifyReady(s)  == [s EXCEPT !.rdyCV = {}]

-----------------------------------------------------------------------------
(* The reader's side.                                                       *)

(* The predicate read waits for under rdyMtx.                               *)
ReadPred(s) == s.dataReady \/ s.readerStop

(* read returns -1 when the reader is stopped, even if data is ready.       *)
ReadGetsData(s) == s.dataReady /\ ~s.readerStop

(* read, from its entry to the wait: the reader is counted and sleeps.      *)
EnterReadAndSleep(s, t) ==
  [s EXCEPT !.nReaders = @ + 1, !.rdyCV = @ \cup {t}]

SleepOnReady(s, t) == [s EXCEPT !.rdyCV = @ \cup {t}]

(* read, from the end of a wait that slept to its return.                   *)
LeaveRead(s) == [s EXCEPT !.nReaders = @ - 1]

(* flush: its two critical sections and its notification, in this order.    *)
ClearReady(s)  == [s EXCEPT !.dataReady = FALSE]
AllowSwap(s)   == [s EXCEPT !.canSwap = TRUE]
NotifySwap(s)  == [s EXCEPT !.swapCV = {}]

-----------------------------------------------------------------------------
(* The controlling thread's side: stopping one end, and clearing the flag   *)
(* once the worker has been joined.  stopWriter and stopReader notify after *)
(* the section that sets the flag; stopReader then polls ReaderGone.        *)

SetWriterStop(s)  == [s EXCEPT !.writerStop = TRUE]
ClearWriteStop(s) == [s EXCEPT !.writerStop = FALSE]
SetReaderStop(s)  == [s EXCEPT !.readerStop = TRUE]
ClearReadStop(s)  == [s EXCEPT !.readerStop = FALSE]
ReaderGone(s)     == s.nReaders = 0
=============================================================================
