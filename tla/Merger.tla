------------------------------- MODULE Merger -------------------------------
(***************************************************************************)
(* dsp::routing::Merger (src/core/src/dsp/routing/merger.h), the head of     *)
(* every audio stream of the sink manager: a reader thread per bound stream   *)
(* collects its samples, and the merger's worker chooses one stream at a time  *)
(* by priority (the lower number is the more important), sends a batch of its  *)
(* samples on and drops what the others have.                                  *)
(*                                                                          *)
(* The samples of a stream are numbered as they come in.  The clock is known   *)
(* only by whether SWITCH_DELAY has passed since the last choice ("recent").   *)
(* bindStream and unbindStream change the list of streams without the mutex    *)
(* the worker goes through it under; what a program does that is caught in     *)
(* this is undefined, and the list changes here between two rounds only.       *)
(***************************************************************************)
EXTENDS Integers, Sequences, SequencesExt

CONSTANTS Streams, Default,  \* the streams; the one bound at the beginning
          Priority,          \* the priority each is bound with
          None,              \* no stream
          Batch,             \* samples a batch may have (1024)
          MaxSamples,        \* bound: samples that come in on each stream
          MaxStarts          \* bound: starts

ASSUME MergerAssumption ==
  /\ Default \in Streams /\ None \notin Streams
  /\ Priority \in [Streams -> Int]
  /\ Batch \in Nat \ {0} /\ MaxSamples \in [Streams -> Nat] /\ MaxStarts \in Nat

VARIABLES
  list,    \* secondaryStreams
  data,    \* receivedData of each
  reader,  \* each reader thread: pc, and the samples first..last in its hands
  stopped, \* the streams whose reader has been stopped
  worker,  \* the worker: pc, place in the list, bestStream, and whether the
           \* delay had not passed when the round began
  flags,   \* running, proceedWithoutWait, lastSeenBestPriority, recent
  out,     \* the batch that waits in the output, and whether it is stopped
  control, \* where the control thread is
  starts,  \* starts so far
  sent     \* of each stream, the last sample sent on, and the stream of the
           \* latest batch

vars == <<list, data, reader, stopped, worker, flags, out, control, starts, sent>>

Samples == Nat \ {0}
NoBatch == [stream |-> None, samples |-> <<>>]

TypeOK ==
  /\ list \in Seq(Streams) /\ IsInjective(list)
  /\ data \in [Streams -> Seq(Samples)]
  /\ reader \in [Streams -> [pc : {"none", "read", "append", "notify", "gone"},
                             first : Nat, last : Nat]]
  /\ stopped \subseteq Streams
  /\ worker \in [pc : {"off", "top", "wait", "asleep", "woken", "pick", "pour", "swap", "done"},
                 at : 1..(Len(list) + 1), best : Streams \cup {None}, young : BOOLEAN]
  /\ flags \in [running : BOOLEAN, proceed : BOOLEAN, lastPriority : Int, recent : BOOLEAN]
  /\ out \in [batch : [stream : Streams \cup {None}, samples : Seq(Samples)], stop : BOOLEAN]
  /\ Len(out.batch.samples) <= Batch
  /\ control \in {"off", "on", "clear", "proceed", "notify", "stopOut", "join"}
  /\ starts \in 0..MaxStarts
  /\ sent \in [last : [Streams -> Nat], from : Streams]

Init ==
  /\ list = <<Default>>
  /\ data = [s \in Streams |-> <<>>]
  /\ reader = [s \in Streams |-> [pc |-> IF s = Default THEN "read" ELSE "none",
                                  first |-> 1, last |-> 0]]
  /\ stopped = {}
  /\ worker = [pc |-> "off", at |-> 1, best |-> None, young |-> FALSE]
  /\ flags = [running |-> TRUE, proceed |-> FALSE, lastPriority |-> 0, recent |-> FALSE]
  /\ out = [batch |-> NoBatch, stop |-> FALSE]
  /\ control = "off" /\ starts = 0
  /\ sent = [last |-> [s \in Streams |-> 0], from |-> Default]

-----------------------------------------------------------------------------
(* The reader threads (bindStream's lambda)                                 *)

AtR(s, p) == reader[s].pc = p
AtW(p) == worker.pc = p
Rest == UNCHANGED <<list, stopped, flags, out, control, starts, sent>>

(* read returns a block of the stream, or that it has been stopped.         *)
ReadBlock(s) ==
  /\ AtR(s, "read") /\ s \notin stopped
  /\ \E l \in (reader[s].last + 1)..MaxSamples[s] :
       reader' = [reader EXCEPT ![s] = [pc |-> "append", first |-> @.last + 1, last |-> l]]
  /\ UNCHANGED <<data, worker>> /\ Rest

ReadStops(s) ==
  /\ AtR(s, "read") /\ s \in stopped
  /\ reader' = [reader EXCEPT ![s].pc = "gone"]
  /\ UNCHANGED <<data, worker>> /\ Rest

(* The worker holds the dataLock of the stream it sends from until the       *)
(* output has taken the batch.                                              *)
Collect(s) ==
  /\ AtR(s, "append")
  /\ ~(AtW("swap") /\ worker.best = s)
  /\ data' = [data EXCEPT ![s] =
                @ \o [i \in 1..(reader[s].last - reader[s].first + 1) |-> reader[s].first + i - 1]]
  /\ reader' = [reader EXCEPT ![s].pc = "notify"]
  /\ UNCHANGED worker /\ Rest

Awake == [worker EXCEPT !.pc = IF AtW("asleep") THEN "woken" ELSE @]

NotifyWorker(s) ==
  /\ AtR(s, "notify")
  /\ worker' = Awake
  /\ reader' = [reader EXCEPT ![s].pc = "read"]
  /\ UNCHANGED data /\ Rest

-----------------------------------------------------------------------------
(* The worker (run)                                                         *)

Go(p) == worker' = [worker EXCEPT !.pc = p]
Aside == UNCHANGED <<list, reader, stopped, control, starts>>

NewRound == [pc |-> "pick", at |-> 1, best |-> None, young |-> flags.recent]

(* running and proceedWithoutWait are read without the mutex, and the wait    *)
(* has no predicate.                                                         *)
Top ==
  /\ AtW("top")
  /\ worker' = CASE ~flags.running                  -> [worker EXCEPT !.pc = "done"]
                 [] flags.running /\ flags.proceed  -> NewRound
                 [] flags.running /\ ~flags.proceed -> [worker EXCEPT !.pc = "wait"]
  /\ UNCHANGED <<data, flags, out, sent>> /\ Aside

WaitForData ==
  /\ AtW("wait")
  /\ Go("asleep")
  /\ UNCHANGED <<data, flags, out, sent>> /\ Aside

Wake ==
  /\ AtW("woken")
  /\ worker' = IF flags.running THEN NewRound ELSE [worker EXCEPT !.pc = "done"]
  /\ UNCHANGED <<data, flags, out, sent>> /\ Aside

(* A slip: within the delay any stream will do.                             *)
SlipConsider(best, s) ==
  IF worker.young THEN s
  ELSE IF data[s] # <<>> /\ (best = None \/ Priority[s] < Priority[best]) THEN s ELSE best

(* What the round makes of a stream, given the best of those before it.      *)
Consider(best, s) ==
  IF worker.young
  THEN IF Priority[s] <= flags.lastPriority THEN s ELSE best
  ELSE IF data[s] # <<>> /\ (best = None \/ Priority[s] < Priority[best]) THEN s ELSE best

Here == list[worker.at]
InList == worker.at <= Len(list)

Pick ==
  /\ AtW("pick") /\ InList
  /\ worker' = [worker EXCEPT !.best = Consider(@, Here), !.at = @ + 1]
  /\ UNCHANGED <<data, flags, out, sent>> /\ Aside

Found == \E s \in Streams : s = worker.best /\ data[s] # <<>>

NothingToSend ==
  /\ AtW("pick") /\ ~InList /\ ~Found
  /\ flags' = [flags EXCEPT !.proceed = FALSE]
  /\ worker' = [worker EXCEPT !.pc = "top", !.at = 1, !.best = None]
  /\ UNCHANGED <<data, out, sent>> /\ Aside

Choose ==
  /\ AtW("pick") /\ ~InList /\ Found
  /\ flags' = [flags EXCEPT !.lastPriority = Priority[worker.best], !.recent = TRUE]
  /\ worker' = [worker EXCEPT !.pc = "pour", !.at = 1]
  /\ UNCHANGED <<data, out, sent>> /\ Aside

DropOther ==
  /\ AtW("pour") /\ InList /\ Here # worker.best
  /\ data' = [data EXCEPT ![Here] = <<>>]
  /\ worker' = [worker EXCEPT !.at = @ + 1]
  /\ UNCHANGED <<flags, out, sent>> /\ Aside

FillBatch ==
  /\ AtW("pour") /\ InList /\ Here = worker.best
  /\ Go("swap")
  /\ UNCHANGED <<data, flags, out, sent>> /\ Aside

Least(a, b) == IF a < b THEN a ELSE b
(* Slips: a batch of any size, and samples that stay after they are sent.   *)
SlipTaken(s) == data[s]
SlipLeft(s) == data[s]

Taken(s) == SubSeq(data[s], 1, Least(Batch, Len(data[s])))
Left(s) == SubSeq(data[s], Len(Taken(s)) + 1, Len(data[s]))

SwapBatch ==
  /\ AtW("swap") /\ out.batch = NoBatch /\ ~out.stop
  /\ LET s == worker.best
     IN  /\ out' = [out EXCEPT !.batch = [stream |-> s, samples |-> Taken(s)]]
         /\ data' = [data EXCEPT ![s] = Left(s)]
         /\ flags' = [flags EXCEPT !.proceed = Left(s) # <<>>]
         /\ sent' = [sent EXCEPT !.last[s] = Last(Taken(s)), !.from = s]
  /\ worker' = [worker EXCEPT !.pc = "pour", !.at = @ + 1]
  /\ Aside

SwapAbandoned ==
  /\ AtW("swap") /\ out.stop
  /\ worker' = [worker EXCEPT !.pc = "done", !.at = 1]
  /\ UNCHANGED <<data, flags, out, sent>> /\ Aside

EndRound ==
  /\ AtW("pour") /\ ~InList
  /\ worker' = [worker EXCEPT !.pc = "top", !.at = 1, !.best = None]
  /\ UNCHANGED <<data, flags, out, sent>> /\ Aside

-----------------------------------------------------------------------------
(* Those around it: the output's reader, the clock, the binding of streams   *)
(* and the control thread (start, doStop).                                  *)

Take ==
  /\ out.batch # NoBatch
  /\ out' = [out EXCEPT !.batch = NoBatch]
  /\ UNCHANGED <<data, worker, flags, sent>> /\ Aside

DelayPasses ==
  /\ flags.recent
  /\ flags' = [flags EXCEPT !.recent = FALSE]
  /\ UNCHANGED <<data, worker, out, sent>> /\ Aside

BetweenRounds == worker.pc \notin {"pick", "pour", "swap"}

BindStream(s) ==
  /\ BetweenRounds /\ AtR(s, "none")
  /\ list' = Append(list, s)
  /\ reader' = [reader EXCEPT ![s].pc = "read"]
  /\ UNCHANGED <<data, stopped, worker, flags, out, control, starts, sent>>

UnbindStream(s) ==
  /\ BetweenRounds
  /\ \E i \in DOMAIN list : list[i] = s /\ list' = RemoveAt(list, i)
  /\ stopped' = stopped \cup {s}
  /\ UNCHANGED <<data, reader, worker, flags, out, control, starts, sent>>

Start ==
  /\ control = "off" /\ starts < MaxStarts
  /\ control' = "on" /\ starts' = starts + 1
  /\ worker' = [worker EXCEPT !.pc = "top", !.at = 1, !.best = None]
  /\ UNCHANGED <<list, data, reader, stopped, flags, out, sent>>

Phase(from, to) == control = from /\ control' = to
Others == UNCHANGED <<list, data, reader, starts, sent>>

StopReaders ==
  /\ Phase("on", "clear")
  /\ stopped' = stopped \cup ToSet(list)
  /\ UNCHANGED <<worker, flags, out>> /\ Others

ClearRunning ==
  /\ Phase("clear", "proceed")
  /\ flags' = [flags EXCEPT !.running = FALSE]
  /\ UNCHANGED <<stopped, worker, out>> /\ Others

SetProceed ==
  /\ Phase("proceed", "notify")
  /\ flags' = [flags EXCEPT !.proceed = TRUE]
  /\ UNCHANGED <<stopped, worker, out>> /\ Others

NotifyStop ==
  /\ Phase("notify", "stopOut")
  /\ worker' = Awake
  /\ UNCHANGED <<stopped, flags, out>> /\ Others

(* A slip: a worker with a batch nobody takes is not told to give it up.     *)
SlipStopOut ==
  /\ Phase("stopOut", "join")
  /\ UNCHANGED <<stopped, worker, flags, out>> /\ Others

StopOut ==
  /\ Phase("stopOut", "join")
  /\ out' = [out EXCEPT !.stop = TRUE]
  /\ UNCHANGED <<stopped, worker, flags>> /\ Others

Join ==
  /\ Phase("join", "off") /\ AtW("done")
  /\ out' = [out EXCEPT !.stop = FALSE]
  /\ worker' = [worker EXCEPT !.pc = "off", !.at = 1, !.best = None]
  /\ UNCHANGED <<stopped, flags>> /\ Others

-----------------------------------------------------------------------------
ReaderGoesOn(s) == ReadStops(s) \/ Collect(s) \/ NotifyWorker(s)

WorkerStep ==
  \/ Top \/ WaitForData \/ Wake \/ Pick \/ NothingToSend \/ Choose
  \/ DropOther \/ FillBatch \/ SwapBatch \/ SwapAbandoned \/ EndRound

StopGoesOn == ClearRunning \/ SetProceed \/ NotifyStop \/ StopOut \/ Join

Next ==
  \/ \E s \in Streams : \/ ReadBlock(s) \/ ReaderGoesOn(s)
                        \/ BindStream(s) \/ UnbindStream(s)
  \/ WorkerStep
  \/ Take \/ DelayPasses
  \/ Start \/ StopReaders \/ StopGoesOn

(* The threads run, and a stop once begun goes on; nothing is assumed of     *)
(* those who write the streams and who read the output.                      *)
Fairness == /\ \A s \in Streams : WF_vars(ReaderGoesOn(s))
            /\ WF_vars(WorkerStep) /\ WF_vars(StopGoesOn)

Spec == Init /\ [][Next]_vars /\ Fairness

-----------------------------------------------------------------------------
(* Properties                                                               *)

Sends(b) == out'.batch = b /\ b # out.batch /\ b # NoBatch

(* Every batch is a run of its stream's samples in the order they came in,    *)
(* later than all sent before; and as long as the output stays with a stream   *)
(* none of its samples is missing, however batches are cut and blocks come in. *)
InOrder ==
  [][\A s \in Streams : out'.batch.stream = s /\ Sends(out'.batch) =>
       LET b == out'.batch.samples
       IN  /\ b # <<>> /\ b[1] > sent.last[s]
           /\ s = sent.from => b[1] = sent.last[s] + 1
           /\ \A i \in 1..(Len(b) - 1) : b[i] < b[i + 1]]_vars

(* The output does not fall back to a less important stream than that of the   *)
(* batch before unless SWITCH_DELAY had passed since that was chosen.          *)
NoQuickFallback ==
  [][Sends(out'.batch) /\ worker.young
       => Priority[out'.batch.stream] <= Priority[sent.from]]_vars

(* doStop returns, whether or not anybody takes what the merger has; but a     *)
(* worker that has read the flags and not yet begun to wait for dataReady when *)
(* it is notified sleeps on (merger.h:126), and is joined for ever.            *)
StopMissed == control = "join" /\ AtW("asleep")
StopReturns == control \notin {"on", "off"} ~> control = "off" \/ StopMissed

(* merger.h:11, "if any secondary streams have no data, default input is     *)
(* used", and merger.h:140, "If SWITCH_DELAY has not passed, using old         *)
(* stream": a round within the delay, with the default stream the old one and   *)
(* the only one that has samples, does not end with nothing sent.             *)
DefaultUsed ==
  [][~(/\ NothingToSend /\ worker.young
       /\ flags.lastPriority = Priority[Default] /\ data[Default] # <<>>
       /\ \A s \in Streams \ {Default} : data[s] = <<>>)]_vars
=============================================================================
