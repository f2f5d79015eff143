---------------------------- MODULE MergerProofs ----------------------------
(***************************************************************************)
(* Proofs about Merger for any streams, priorities, batches and blocks.      *)
(***************************************************************************)
EXTENDS Merger, SequenceTheorems, TLAPS

-----------------------------------------------------------------------------
(* The list of streams: std::vector's push_back and erase                   *)

(* erase takes one stream out of a list that has no stream twice.           *)
LEMMA EraseOne ==
  ASSUME NEW S, NEW s \in Seq(S), NEW i \in DOMAIN s, IsInjective(s)
  PROVE  /\ RemoveAt(s, i) \in Seq(S) /\ IsInjective(RemoveAt(s, i))
         /\ ToSet(RemoveAt(s, i)) = ToSet(s) \ {s[i]}
<1>1. i \in 1..Len(s) /\ DOMAIN s = 1..Len(s) /\ Len(s) \in Nat
  OBVIOUS
<1> DEFINE a == SubSeq(s, 1, i - 1)
           b == SubSeq(s, i + 1, Len(s))
           t == RemoveAt(s, i)
<1>2. a \in Seq(S) /\ Len(a) = i - 1 /\ \A j \in 1..(i - 1) : a[j] = s[j]
  BY <1>1, SubSeqProperties
<1>3. b \in Seq(S) /\ Len(b) = Len(s) - i /\ \A j \in 1..(Len(s) - i) : b[j] = s[i + j]
  BY <1>1, SubSeqProperties
<1>4. t = a \o b
  BY DEF RemoveAt
<1> HIDE DEF a, b, t
<1>5. t \in Seq(S) /\ Len(t) = Len(s) - 1
  <2>1. t \in Seq(S) /\ Len(t) = Len(a) + Len(b)
    BY <1>2, <1>3, <1>4, ConcatProperties
  <2> QED
    BY <1>1, <1>2, <1>3, <2>1
<1>6. ASSUME NEW j \in 1..(Len(s) - 1) PROVE t[j] = IF j < i THEN s[j] ELSE s[j + 1]
  <2>1. t[j] = IF j <= Len(a) THEN a[j] ELSE b[j - Len(a)]
    BY <1>1, <1>2, <1>3, <1>4, ConcatProperties
  <2>2. CASE j < i
    BY <1>1, <1>2, <2>1, <2>2
  <2>3. CASE ~(j < i)
    <3>1. j - Len(a) \in 1..(Len(s) - i) /\ i + (j - Len(a)) = j + 1
      BY <1>1, <1>2, <2>3
    <3> QED
      BY <1>1, <1>2, <1>3, <2>1, <2>3, <3>1
  <2> QED
    BY <2>2, <2>3
<1>7. DOMAIN t = 1..(Len(s) - 1)
  BY <1>5
<1>8. IsInjective(t)
  <2> SUFFICES ASSUME NEW j \in 1..(Len(s) - 1), NEW k \in 1..(Len(s) - 1), t[j] = t[k]
               PROVE  j = k
    BY <1>7 DEF IsInjective
  <2> DEFINE From(m) == IF m < i THEN m ELSE m + 1
  <2>1. From(j) \in DOMAIN s /\ From(k) \in DOMAIN s
    BY <1>1
  <2>2. t[j] = s[From(j)] /\ t[k] = s[From(k)]
    BY <1>6
  <2> HIDE DEF From
  <2>3. From(j) = From(k)
    BY <2>1, <2>2 DEF IsInjective
  <2> QED
    BY <1>1, <2>3 DEF From
<1>9. ASSUME NEW x \in ToSet(t) PROVE x \in ToSet(s) \ {s[i]}
  BY <1>1, <1>6, <1>7 DEF ToSet, IsInjective
<1>10. ASSUME NEW x \in ToSet(s), x # s[i] PROVE x \in ToSet(t)
  <2>1. PICK k \in 1..Len(s) : x = s[k]
    BY <1>1 DEF ToSet
  <2>2. CASE k < i
    <3>1. k \in 1..(Len(s) - 1) /\ t[k] = x
      BY <1>1, <1>6, <2>1, <2>2
    <3> QED
      BY <1>7, <3>1 DEF ToSet
  <2>3. CASE k > i
    <3>1. k - 1 \in 1..(Len(s) - 1) /\ t[k - 1] = x
      BY <1>1, <1>6, <2>1, <2>3
    <3> QED
      BY <1>7, <3>1 DEF ToSet
  <2> QED
    BY <1>1, <1>10, <2>1, <2>2, <2>3
<1> QED
  BY <1>5, <1>8, <1>9, <1>10 DEF t

(* push_back adds one that is not in the list.                              *)
LEMMA PushBack ==
  ASSUME NEW S, NEW s \in Seq(S), NEW x \in S, IsInjective(s), x \notin ToSet(s)
  PROVE  /\ Append(s, x) \in Seq(S) /\ IsInjective(Append(s, x))
         /\ ToSet(Append(s, x)) = ToSet(s) \cup {x}
<1>1. DOMAIN s = 1..Len(s) /\ Len(s) \in Nat
  OBVIOUS
<1>2. /\ Append(s, x) \in Seq(S) /\ Len(Append(s, x)) = Len(s) + 1
      /\ \A j \in 1..Len(s) : Append(s, x)[j] = s[j]
      /\ Append(s, x)[Len(s) + 1] = x
  BY AppendProperties
<1>3. DOMAIN Append(s, x) = 1..(Len(s) + 1)
  BY <1>2
<1> DEFINE t == Append(s, x)
<1> HIDE DEF t
<1>4. t \in Seq(S) /\ DOMAIN t = 1..(Len(s) + 1) /\ t[Len(s) + 1] = x
  BY <1>2, <1>3 DEF t
<1>5. \A j \in 1..Len(s) : t[j] = s[j]
  BY <1>2 DEF t
<1>6. IsInjective(t)
  BY <1>1, <1>4, <1>5 DEF IsInjective, ToSet
<1>7. ToSet(t) = ToSet(s) \cup {x}
  <2>1. ASSUME NEW y \in ToSet(t) PROVE y \in ToSet(s) \cup {x}
    BY <1>1, <1>4, <1>5 DEF ToSet
  <2>2. ASSUME NEW y \in ToSet(s) PROVE y \in ToSet(t)
    BY <1>1, <1>4, <1>5 DEF ToSet
  <2>3. x \in ToSet(t)
    BY <1>1, <1>4 DEF ToSet
  <2> QED
    BY <2>1, <2>2, <2>3
<1> QED
  BY <1>4, <1>6, <1>7 DEF t

-----------------------------------------------------------------------------
(* Streams in the list have a reader thread, and none is there twice.        *)
Bound == /\ list \in Seq(Streams) /\ IsInjective(list)
         /\ \A i \in DOMAIN list : reader[list[i]].pc # "none"

Readers == /\ reader \in [Streams -> [pc : {"none", "read", "append", "notify", "gone"},
                                     first : Nat, last : Nat]]
           /\ \A s \in Streams : reader[s].first > 0 /\ reader[s].first <= reader[s].last + 1

Received == data \in [Streams -> Seq(Samples)]

(* The worker goes through the list only in a round.                         *)
InRound == worker.pc \in {"pick", "pour", "swap"}
Pcs == {"off", "top", "wait", "asleep", "woken", "pick", "pour", "swap", "done"}
AtWork ==
  /\ worker \in [pc : Pcs, at : 1..(Len(list) + 1),
                    best : Streams \cup {None}, young : BOOLEAN]
  /\ ~InRound => worker.at = 1

Flagged ==
  flags \in [running : BOOLEAN, proceed : BOOLEAN, lastPriority : Int, recent : BOOLEAN]

Output ==
  /\ out \in [batch : [stream : Streams \cup {None}, samples : Seq(Samples)], stop : BOOLEAN]
  /\ Len(out.batch.samples) <= Batch

Counted ==
  /\ stopped \subseteq Streams
  /\ control \in {"off", "on", "clear", "proceed", "notify", "stopOut", "join"}
  /\ starts \in 0..MaxStarts
  /\ sent \in [last : [Streams -> Nat], from : Streams]

Types == Bound /\ Readers /\ Received /\ AtWork /\ Flagged /\ Output /\ Counted

(* A round: what has been chosen is in the list and has samples until they    *)
(* are sent.                                                                *)
Round ==
  /\ worker.pc = "pick" =>
       worker.best = None \/ \E j \in 1..(worker.at - 1) : list[j] = worker.best
  /\ worker.pc \in {"pour", "swap"} =>
       \E k \in DOMAIN list : /\ list[k] = worker.best
                              /\ IF k < worker.at THEN sent.from = worker.best
                                 ELSE data[worker.best] # <<>>
  /\ worker.pc = "swap" => worker.at <= Len(list) /\ list[worker.at] = worker.best

(* The samples of a stream that wait follow one another up to the last one    *)
(* that was collected, and come after all that were sent.                    *)
Collected(s) == IF reader[s].pc = "append" THEN reader[s].first - 1 ELSE reader[s].last
NextOf(s) == Collected(s) - Len(data[s]) + 1
Waiting(s) == /\ NextOf(s) > sent.last[s]
              /\ \A i \in 1..Len(data[s]) : data[s][i] = NextOf(s) + i - 1

(* A stop is for ever: running is never set again.                          *)
Ending == /\ out.stop \/ control \in {"proceed", "notify", "stopOut", "join"} => ~flags.running
          /\ control = "off" => worker.pc = "off"

(* Of the stream that was sent last nothing is missing, until another one     *)
(* takes its place or the merger has ended.                                  *)
Replacing == worker.pc \in {"pour", "swap"} /\ worker.best # sent.from
Ended == ~InRound /\ ~flags.running
NoHole == Replacing \/ Ended \/ NextOf(sent.from) = sent.last[sent.from] + 1

(* The priority that counts within the delay is that of the stream sent last. *)
Delayed ==
  /\ worker.pc = "pick" /\ (flags.recent \/ worker.young)
       => flags.lastPriority = Priority[sent.from]
  /\ ~InRound /\ flags.recent /\ flags.running => flags.lastPriority = Priority[sent.from]
  /\ worker.pc = "pick" /\ worker.young /\ worker.best # None
       => Priority[worker.best] <= flags.lastPriority
  /\ worker.pc \in {"pour", "swap"}
       => /\ flags.lastPriority = Priority[worker.best]
          /\ worker.young => Priority[worker.best] <= Priority[sent.from]

IInv == /\ Types /\ Round /\ Ending /\ NoHole /\ Delayed
        /\ \A s \in Streams : Waiting(s)

(* All that is ever sent is sent before the first stop has ended:               *)
(* doStop clears running, which no start sets again, so that a merger that is  *)
(* started once more ends its worker at once.                                *)
SentBeforeFirstStop == [][Sends(out'.batch) => starts = 1 /\ control # "off"]_vars

(* The lives of the merger.                                                 *)
Lives == /\ starts = 0 => control = "off"
         /\ starts > 0 /\ control = "off" => ~flags.running
         /\ starts > 1 => ~flags.running /\ worker.pc \in {"off", "top", "done"}

-----------------------------------------------------------------------------
(* The worker's local variables keep their types.                           *)
LEMMA WorkerGoes ==
  ASSUME Types, UNCHANGED list, NEW p \in Pcs, NEW a \in 1..(Len(list) + 1),
         NEW b \in Streams \cup {None}, NEW y \in BOOLEAN,
         \/ worker' = [worker EXCEPT !.pc = p, !.at = a, !.best = b]
         \/ worker' = [worker EXCEPT !.pc = p, !.at = a]
         \/ worker' = [worker EXCEPT !.pc = p] /\ a = worker.at
         \/ worker' = [worker EXCEPT !.best = b, !.at = a] /\ p = worker.pc
         \/ worker' = [worker EXCEPT !.at = a] /\ p = worker.pc
         \/ worker' = [pc |-> p, at |-> a, best |-> b, young |-> y],
         p \in {"pick", "pour", "swap"} \/ a = 1
  PROVE  AtWork'
<1> DEFINE W == [pc : Pcs, at : 1..(Len(list) + 1), best : Streams \cup {None}, young : BOOLEAN]
<1>1. worker \in W
  BY DEF Types, AtWork
<1>2. worker' \in W /\ worker'.pc = p /\ worker'.at = a
  <2>1. CASE worker' = [worker EXCEPT !.pc = p, !.at = a, !.best = b]
    BY <1>1, <2>1
  <2>2. CASE worker' = [worker EXCEPT !.pc = p, !.at = a]
    BY <1>1, <2>2
  <2>4. CASE worker' = [worker EXCEPT !.pc = p] /\ a = worker.at
    BY <1>1, <2>4
  <2>5. CASE worker' = [worker EXCEPT !.best = b, !.at = a] /\ p = worker.pc
    BY <1>1, <2>5
  <2>6. CASE worker' = [worker EXCEPT !.at = a] /\ p = worker.pc
    BY <1>1, <2>6
  <2>3. CASE worker' = [pc |-> p, at |-> a, best |-> b, young |-> y]
    BY <2>3
  <2> QED
    BY <2>1, <2>2, <2>3, <2>4, <2>5, <2>6
<1> QED
  BY <1>2 DEF AtWork, InRound

(* The places of the worker.                                                *)
LEMMA PcsAre ==
  /\ "off" \in Pcs /\ "top" \in Pcs /\ "wait" \in Pcs /\ "asleep" \in Pcs /\ "woken" \in Pcs
  /\ "pick" \in Pcs /\ "pour" \in Pcs /\ "swap" \in Pcs /\ "done" \in Pcs
  BY DEF Pcs

(* What Taken and Left cut out of a stream's samples.                       *)
LEMMA Cut ==
  ASSUME Types, NEW s \in Streams
  PROVE  /\ Taken(s) \in Seq(Samples) /\ Left(s) \in Seq(Samples)
         /\ Len(Taken(s)) \in Nat /\ Len(Taken(s)) <= Batch
         /\ Len(Left(s)) = Len(data[s]) - Len(Taken(s))
         /\ data[s] # <<>> => Len(Taken(s)) > 0
         /\ \A i \in 1..Len(Taken(s)) : Taken(s)[i] = data[s][i]
         /\ \A i \in 1..Len(Left(s)) : Left(s)[i] = data[s][Len(Taken(s)) + i]
<1>1. data[s] \in Seq(Samples) /\ Len(data[s]) \in Nat /\ Batch \in Nat \ {0}
  BY MergerAssumption DEF Types, Received
<1>2. \A i \in 1..Len(data[s]) : data[s][i] \in Samples
  BY <1>1
<1> DEFINE n == Least(Batch, Len(data[s]))
<1>3. n \in 0..Len(data[s]) /\ n <= Batch /\ (Len(data[s]) > 0 => n > 0)
  BY <1>1 DEF Least
<1> HIDE DEF n
<1>4. /\ Taken(s) \in Seq(Samples) /\ Len(Taken(s)) = n
      /\ \A i \in 1..n : Taken(s)[i] = data[s][i]
  BY <1>1, <1>2, <1>3, SubSeqProperties DEF Taken, n
<1>5. /\ Left(s) \in Seq(Samples) /\ Len(Left(s)) = Len(data[s]) - n
      /\ \A i \in 1..(Len(data[s]) - n) : Left(s)[i] = data[s][n + i]
  <2>1. Left(s) = SubSeq(data[s], n + 1, Len(data[s]))
    BY <1>4 DEF Left
  <2>2. \A i \in (n + 1)..Len(data[s]) : data[s][i] \in Samples
    BY <1>2, <1>3
  <2> QED
    BY <1>1, <1>3, <2>1, <2>2, SubSeqProperties
<1>6. data[s] # <<>> => Len(data[s]) > 0
  BY <1>1
<1> QED
  BY <1>3, <1>4, <1>5, <1>6

(* What is swapped is not empty.                                            *)
LEMMA RoundAtSwap ==
  ASSUME Types, Round, AtW("swap")
  PROVE  /\ worker.best \in Streams /\ data[worker.best] # <<>> /\ worker.at \in DOMAIN list
         /\ list[worker.at] = worker.best
<1>1. PICK k \in DOMAIN list : /\ list[k] = worker.best
                               /\ IF k < worker.at THEN sent.from = worker.best
                                  ELSE data[worker.best] # <<>>
  BY DEF Round, AtW
<1>2. /\ list \in Seq(Streams) /\ IsInjective(list) /\ Len(list) \in Nat
      /\ worker.at \in 1..(Len(list) + 1)
  BY DEF Types, Bound, AtWork
<1>3. worker.at \in DOMAIN list /\ list[worker.at] = worker.best
  BY <1>2 DEF Round, AtW
<1>4. k = worker.at
  BY <1>1, <1>2, <1>3 DEF IsInjective
<1> QED
  BY <1>1, <1>2, <1>3, <1>4

(* The output holds a batch of the right size.                              *)
LEMMA BatchIs ==
  ASSUME NEW s \in Streams \cup {None}, NEW q \in Seq(Samples), Len(q) <= Batch, NEW t \in BOOLEAN,
         out' = [batch |-> [stream |-> s, samples |-> q], stop |-> t]
  PROVE  Output'
<1> DEFINE b == [stream |-> s, samples |-> q]
<1>1. b \in [stream : Streams \cup {None}, samples : Seq(Samples)] /\ b.samples = q
  OBVIOUS
<1> HIDE DEF b
<1>2. out' = [batch |-> b, stop |-> t]
  BY DEF b
<1> QED
  BY <1>1, <1>2 DEF Output

(* A block read is of samples that follow the last.                         *)
LEMMA ReadBlockKeeps == ASSUME Types, NEW s \in Streams, ReadBlock(s) PROVE Types'
<1> USE MergerAssumption DEF ReadBlock, AtR, Rest
<1>1. UNCHANGED <<list, data, stopped, worker, flags, out, control, starts, sent>>
  OBVIOUS
<1>2. Received' /\ AtWork' /\ Flagged' /\ Output' /\ Counted'
  <2>1. Received' /\ AtWork'
    BY <1>1 DEF Types, Received, AtWork, InRound
  <2>2. Flagged' /\ Output' /\ Counted'
    BY <1>1 DEF Types, Flagged, Output, Counted
  <2> QED
    BY <2>1, <2>2
<1>3. Bound'
  BY <1>1 DEF Types, Bound, Readers
<1>4. Readers'
  BY <1>1 DEF Types, Readers
<1> QED
  BY <1>2, <1>3, <1>4 DEF Types

(* A reader that is stopped is gone.                                        *)
LEMMA ReadStopsKeeps == ASSUME Types, NEW s \in Streams, ReadStops(s) PROVE Types'
<1> USE MergerAssumption DEF ReadStops, AtR, Rest
<1>1. UNCHANGED <<list, data, stopped, worker, flags, out, control, starts, sent>>
  OBVIOUS
<1>2. Received' /\ AtWork' /\ Flagged' /\ Output' /\ Counted'
  <2>1. Received' /\ AtWork'
    BY <1>1 DEF Types, Received, AtWork, InRound
  <2>2. Flagged' /\ Output' /\ Counted'
    BY <1>1 DEF Types, Flagged, Output, Counted
  <2> QED
    BY <2>1, <2>2
<1>3. Bound'
  BY <1>1 DEF Types, Bound, Readers
<1>4. Readers'
  BY <1>1 DEF Types, Readers
<1> QED
  BY <1>2, <1>3, <1>4 DEF Types

(* Samples are collected as samples.                                        *)
LEMMA CollectKeeps == ASSUME Types, NEW s \in Streams, Collect(s) PROVE Types'
<1>0. \A a, i \in Nat : a > 0 /\ i > 0 => a + i - 1 \in Samples
  BY DEF Samples
<1>1. UNCHANGED <<list, stopped, worker, flags, out, control, starts, sent>>
  BY DEF Collect, Rest
<1>2. AtWork' /\ Flagged' /\ Output' /\ Counted'
  <2>1. AtWork'
    BY <1>1 DEF Types, AtWork, InRound
  <2>2. Flagged' /\ Output'
    BY <1>1 DEF Types, Flagged, Output
  <2>3. Counted'
    BY <1>1 DEF Types, Counted
  <2> QED
    BY <2>1, <2>2, <2>3
<1> USE MergerAssumption DEF Collect, AtR, AtW, Rest
<1>3. Bound'
  BY <1>1 DEF Types, Bound, Readers
<1>4. Readers'
  BY <1>1 DEF Types, Readers
<1>5. Received'
  <2> DEFINE n == reader[s].last - reader[s].first + 1
             q == [i \in 1..n |-> reader[s].first + i - 1]
  <2>1. n \in Nat /\ \A i \in 1..n : reader[s].first + i - 1 \in Samples
    <3>1. /\ reader[s].first \in Nat /\ reader[s].last \in Nat
          /\ reader[s].first > 0 /\ reader[s].first <= reader[s].last + 1
      BY DEF Types, Readers
    <3>2. n \in Nat
      BY <3>1
    <3>3. ASSUME NEW i \in 1..n PROVE reader[s].first + i - 1 \in Samples
      <4>1. i \in Nat /\ i > 0
        BY <3>2
      <4> HIDE DEF n
      <4> QED
        BY <1>0, <3>1, <4>1
    <3> QED
      BY <3>2, <3>3
  <2>2. q \in Seq(Samples)
    <3>1. q \in [1..n -> Samples]
      BY <2>1
    <3> HIDE DEF q, n
    <3> QED
      BY <2>1, <3>1, SeqDef
  <2> HIDE DEF q
  <2>3. data[s] \o q \in Seq(Samples)
    BY <2>2, ConcatProperties DEF Types, Received
  <2>4. data' = [data EXCEPT ![s] = data[s] \o q]
    BY DEF q, Types, Received
  <2> QED
    BY <2>3, <2>4 DEF Types, Received
<1> QED
  BY <1>2, <1>3, <1>4, <1>5 DEF Types

(* A reader wakes the worker out of its wait only.                          *)
LEMMA NotifyWorkerKeeps == ASSUME Types, NEW s \in Streams, NotifyWorker(s) PROVE Types'
<1> USE MergerAssumption DEF NotifyWorker, AtR, AtW, Awake, Rest
<1>0. Len(list) \in Nat
  BY DEF Types, Bound
<1>1. UNCHANGED <<list, data, stopped, flags, out, control, starts, sent>>
  OBVIOUS
<1>2. Received' /\ Flagged' /\ Output' /\ Counted'
  BY <1>1 DEF Types, Received, Flagged, Output, Counted
<1>3. Bound'
  BY <1>1 DEF Types, Bound, Readers
<1>4. Readers'
  BY <1>1 DEF Types, Readers
<1>5. AtWork'
  <2>1. worker \in [pc : Pcs, at : 1..(Len(list) + 1),
                    best : Streams \cup {None}, young : BOOLEAN]
    BY DEF Types, AtWork
  <2>2. 1 \in 1..(Len(list) + 1)
    BY <1>0
  <2> QED
    BY <1>0, <1>1, <2>1, <2>2, PcsAre, WorkerGoes DEF Types, AtWork, InRound
<1> QED
  BY <1>2, <1>3, <1>4, <1>5 DEF Types

(* A round begins at the head of the list.                                  *)
LEMMA TopKeeps == ASSUME Types, Top PROVE Types'
<1> USE MergerAssumption DEF Top, AtW, NewRound, Aside
<1>0. Len(list) \in Nat
  BY DEF Types, Bound
<1>1. UNCHANGED <<list, data, reader, stopped, flags, out, control, starts, sent>>
  OBVIOUS
<1>2. Bound' /\ Readers' /\ Received' /\ Flagged' /\ Output' /\ Counted'
  BY <1>1 DEF Types, Bound, Readers, Received, Flagged, Output, Counted
<1>3. AtWork'
  <2>1. worker \in [pc : Pcs, at : 1..(Len(list) + 1),
                    best : Streams \cup {None}, young : BOOLEAN]
    BY DEF Types, AtWork
  <2>2. 1 \in 1..(Len(list) + 1)
    BY <1>0
  <2>3. ASSUME worker' = NewRound PROVE AtWork'
    <3>1. flags.recent \in BOOLEAN
      BY DEF Types, Flagged
    <3> QED
      BY <1>0, <1>1, <2>2, <2>3, <3>1, PcsAre, WorkerGoes
  <2>4. ASSUME worker' = [worker EXCEPT !.pc = "done"] \/ worker' = [worker EXCEPT !.pc = "wait"]
        PROVE  AtWork'
    <3>1. worker.at = 1
      BY DEF Types, AtWork, InRound
    <3> QED
      BY <1>1, <2>1, <2>2, <2>4, <3>1, PcsAre, WorkerGoes
  <2> QED
    BY <2>3, <2>4
<1> QED
  BY <1>2, <1>3 DEF Types

(* The worker waits outside a round.                                        *)
LEMMA WaitForDataKeeps == ASSUME Types, WaitForData PROVE Types'
<1> USE MergerAssumption DEF WaitForData, AtW, Go, Aside
<1>0. Len(list) \in Nat
  BY DEF Types, Bound
<1>1. UNCHANGED <<list, data, reader, stopped, flags, out, control, starts, sent>>
  OBVIOUS
<1>2. Bound' /\ Readers' /\ Received' /\ Flagged' /\ Output' /\ Counted'
  BY <1>1 DEF Types, Bound, Readers, Received, Flagged, Output, Counted
<1>3. AtWork'
  <2>1. worker \in [pc : Pcs, at : 1..(Len(list) + 1),
                    best : Streams \cup {None}, young : BOOLEAN]
    BY DEF Types, AtWork
  <2>2. 1 \in 1..(Len(list) + 1)
    BY <1>0
  <2> QED
    BY <1>0, <1>1, <2>1, <2>2, PcsAre, WorkerGoes DEF Types, AtWork, InRound
<1> QED
  BY <1>2, <1>3 DEF Types

(* A wait ends in a round, or in the end of the worker.                     *)
LEMMA WakeKeeps == ASSUME Types, Wake PROVE Types'
<1> USE MergerAssumption DEF Wake, AtW, NewRound, Aside
<1>0. Len(list) \in Nat
  BY DEF Types, Bound
<1>1. UNCHANGED <<list, data, reader, stopped, flags, out, control, starts, sent>>
  OBVIOUS
<1>2. Bound' /\ Readers' /\ Received' /\ Flagged' /\ Output' /\ Counted'
  BY <1>1 DEF Types, Bound, Readers, Received, Flagged, Output, Counted
<1>3. AtWork'
  <2>1. worker \in [pc : Pcs, at : 1..(Len(list) + 1),
                    best : Streams \cup {None}, young : BOOLEAN]
    BY DEF Types, AtWork
  <2>2. 1 \in 1..(Len(list) + 1)
    BY <1>0
  <2>3. ASSUME worker' = NewRound PROVE AtWork'
    <3>1. flags.recent \in BOOLEAN
      BY DEF Types, Flagged
    <3> QED
      BY <1>0, <1>1, <2>2, <2>3, <3>1, PcsAre, WorkerGoes
  <2>4. ASSUME worker' = [worker EXCEPT !.pc = "done"] \/ worker' = [worker EXCEPT !.pc = "wait"]
        PROVE  AtWork'
    <3>1. worker.at = 1
      BY DEF Types, AtWork, InRound
    <3> QED
      BY <1>1, <2>1, <2>2, <2>4, <3>1, PcsAre, WorkerGoes
  <2> QED
    BY <2>3, <2>4
<1> QED
  BY <1>2, <1>3 DEF Types

(* A round chooses out of the list and stays in it.                         *)
LEMMA PickKeeps == ASSUME Types, Pick PROVE Types'
<1> USE MergerAssumption DEF Pick, AtW, InList, Here, Consider, Aside
<1>0. Len(list) \in Nat
  BY DEF Types, Bound
<1>1. UNCHANGED <<list, data, reader, stopped, flags, out, control, starts, sent>>
  OBVIOUS
<1>2. Bound' /\ Readers' /\ Received' /\ Flagged' /\ Output' /\ Counted'
  BY <1>1 DEF Types, Bound, Readers, Received, Flagged, Output, Counted
<1>3. AtWork'
  <2>1. worker \in [pc : Pcs, at : 1..(Len(list) + 1),
                    best : Streams \cup {None}, young : BOOLEAN]
    BY DEF Types, AtWork
  <2>2. 1 \in 1..(Len(list) + 1)
    BY <1>0
  <2>3. worker.at + 1 \in 1..(Len(list) + 1) /\ worker.pc \in {"pick", "pour", "swap"}
    BY <1>0, <2>1
  <2> DEFINE c == Consider(worker.best, Here)
  <2>4. c \in Streams \cup {None}
    BY <2>1 DEF Types, Bound
  <2>5. worker' = [worker EXCEPT !.best = c, !.at = worker.at + 1]
    OBVIOUS
  <2>6. UNCHANGED list /\ worker.pc \in Pcs
    BY <1>1, <2>1
  <2> HIDE DEF c, Pick
  <2> QED
    BY <1>1, <2>1, <2>3, <2>4, <2>5, <2>6, WorkerGoes
<1> QED
  BY <1>2, <1>3 DEF Types

(* A round without samples ends.                                            *)
LEMMA NothingToSendKeeps == ASSUME Types, NothingToSend PROVE Types'
<1> USE MergerAssumption DEF NothingToSend, AtW, Found, InList, Aside
<1>0. Len(list) \in Nat
  BY DEF Types, Bound
<1>1. UNCHANGED <<list, data, reader, stopped, out, control, starts, sent>>
  OBVIOUS
<1>2. Bound' /\ Readers' /\ Received' /\ Output' /\ Counted'
  BY <1>1 DEF Types, Bound, Readers, Received, Output, Counted
<1>3. AtWork'
  <2>1. worker \in [pc : Pcs, at : 1..(Len(list) + 1),
                    best : Streams \cup {None}, young : BOOLEAN]
    BY DEF Types, AtWork
  <2>2. 1 \in 1..(Len(list) + 1)
    BY <1>0
  <2> QED
    BY <1>0, <1>1, <2>1, <2>2, PcsAre, WorkerGoes
<1>4. Flagged'
  BY <1>1 DEF Types, Flagged
<1> QED
  BY <1>2, <1>3, <1>4 DEF Types

(* What is chosen is a stream.                                              *)
LEMMA ChooseKeeps == ASSUME Types, Choose PROVE Types'
<1> USE MergerAssumption DEF Choose, AtW, Found, InList, Aside
<1>0. Len(list) \in Nat
  BY DEF Types, Bound
<1>1. UNCHANGED <<list, data, reader, stopped, out, control, starts, sent>>
  OBVIOUS
<1>2. Bound' /\ Readers' /\ Received' /\ Output' /\ Counted'
  BY <1>1 DEF Types, Bound, Readers, Received, Output, Counted
<1>3. AtWork'
  <2>1. worker \in [pc : Pcs, at : 1..(Len(list) + 1),
                    best : Streams \cup {None}, young : BOOLEAN]
    BY DEF Types, AtWork
  <2>2. 1 \in 1..(Len(list) + 1)
    BY <1>0
  <2> QED
    BY <1>0, <1>1, <2>1, <2>2, PcsAre, WorkerGoes
<1>4. Flagged'
  BY <1>1 DEF Types, Flagged
<1> QED
  BY <1>2, <1>3, <1>4 DEF Types

(* To drop samples leaves the rest as it is.                                *)
LEMMA DropOtherKeeps == ASSUME Types, DropOther PROVE Types'
<1> USE MergerAssumption DEF DropOther, AtW, Here, InList, Aside
<1>0. Len(list) \in Nat
  BY DEF Types, Bound
<1>1. UNCHANGED <<list, reader, stopped, flags, out, control, starts, sent>>
  OBVIOUS
<1>2. Bound' /\ Readers' /\ Flagged' /\ Output' /\ Counted'
  BY <1>1 DEF Types, Bound, Readers, Flagged, Output, Counted
<1>3. Received'
  <2>1. <<>> \in Seq(Samples)
    OBVIOUS
  <2> QED
    BY <2>1 DEF Types, Received
<1>4. AtWork'
  <2>1. worker \in [pc : Pcs, at : 1..(Len(list) + 1),
                    best : Streams \cup {None}, young : BOOLEAN]
    BY DEF Types, AtWork
  <2>2. 1 \in 1..(Len(list) + 1)
    BY <1>0
  <2>3. worker.at + 1 \in 1..(Len(list) + 1) /\ worker.pc \in {"pick", "pour", "swap"}
    BY <1>0, <2>1
  <2> QED
    BY <1>1, <2>1, <2>3, WorkerGoes
<1> QED
  BY <1>2, <1>3, <1>4 DEF Types

(* The batch is filled at the place of the chosen stream.                   *)
LEMMA FillBatchKeeps == ASSUME Types, FillBatch PROVE Types'
<1> USE MergerAssumption DEF FillBatch, AtW, Go, Here, InList, Aside
<1>0. Len(list) \in Nat
  BY DEF Types, Bound
<1>1. UNCHANGED <<list, data, reader, stopped, flags, out, control, starts, sent>>
  OBVIOUS
<1>2. Bound' /\ Readers' /\ Received' /\ Flagged' /\ Output' /\ Counted'
  <2>1. Bound' /\ Readers' /\ Received'
    BY <1>1 DEF Types, Bound, Readers, Received
  <2>2. Flagged' /\ Output' /\ Counted'
    BY <1>1 DEF Types, Flagged, Output, Counted
  <2> QED
    BY <2>1, <2>2
<1>3. AtWork'
  <2>1. worker \in [pc : Pcs, at : 1..(Len(list) + 1),
                    best : Streams \cup {None}, young : BOOLEAN]
    BY DEF Types, AtWork
  <2>2. 1 \in 1..(Len(list) + 1)
    BY <1>0
  <2> QED
    BY <1>0, <1>1, <2>1, <2>2, PcsAre, WorkerGoes DEF Types, AtWork, InRound
<1> QED
  BY <1>2, <1>3 DEF Types

(* A batch is no longer than it may be, and there is a sample to end it.    *)
LEMMA SwapBatchKeeps == ASSUME Types, Round, SwapBatch PROVE Types'
<1> USE MergerAssumption DEF SwapBatch, AtW, Aside
<1>0. Len(list) \in Nat
  BY DEF Types, Bound
<1>1. UNCHANGED <<list, reader, stopped, control, starts>>
  OBVIOUS
<1>2. Bound' /\ Readers'
  BY <1>1 DEF Types, Bound, Readers
<1>3. Received'
  <2>1. worker.best \in Streams /\ data[worker.best] # <<>>
    BY RoundAtSwap
  <2> QED
    BY <2>1, Cut DEF Types, Received
<1>4. AtWork'
  <2>1. worker \in [pc : Pcs, at : 1..(Len(list) + 1),
                    best : Streams \cup {None}, young : BOOLEAN]
    BY DEF Types, AtWork
  <2>2. 1 \in 1..(Len(list) + 1)
    BY <1>0
  <2>3. worker.at + 1 \in 1..(Len(list) + 1)
    BY <1>0, <2>1 DEF Round, InList
  <2> QED
    BY <1>1, <2>1, <2>3, PcsAre, WorkerGoes
<1>5. Flagged'
  BY <1>1 DEF Types, Flagged
<1>6. Output'
  <2>1. worker.best \in Streams /\ data[worker.best] # <<>>
    BY RoundAtSwap
  <2>2. out.stop \in BOOLEAN
    BY DEF Types, Output
  <2>3. out' = [batch |-> [stream |-> worker.best, samples |-> Taken(worker.best)],
                stop |-> out.stop]
    BY DEF Types, Output
  <2>4. Taken(worker.best) \in Seq(Samples) /\ Len(Taken(worker.best)) <= Batch
    BY <2>1, Cut
  <2> QED
    BY <2>1, <2>2, <2>3, <2>4, BatchIs
<1>7. Counted'
  <2>1. worker.best \in Streams /\ data[worker.best] # <<>>
    BY RoundAtSwap
  <2>2. Last(Taken(worker.best)) \in Nat
    BY <2>1, Cut DEF Last, Samples
  <2>3. sent' = [last |-> [sent.last EXCEPT ![worker.best] = Last(Taken(worker.best))],
                 from |-> worker.best]
    BY DEF Types, Counted
  <2>4. [sent.last EXCEPT ![worker.best] = Last(Taken(worker.best))] \in [Streams -> Nat]
    BY <2>1, <2>2 DEF Types, Counted
  <2>5. sent' \in [last : [Streams -> Nat], from : Streams]
    BY <2>1, <2>3, <2>4
  <2> QED
    BY <1>1, <2>5 DEF Types, Counted
<1> QED
  BY <1>2, <1>3, <1>4, <1>5, <1>6, <1>7 DEF Types

(* A worker whose output is stopped is done.                                *)
LEMMA SwapAbandonedKeeps == ASSUME Types, SwapAbandoned PROVE Types'
<1> USE MergerAssumption DEF SwapAbandoned, AtW, Aside
<1>0. Len(list) \in Nat
  BY DEF Types, Bound
<1>1. UNCHANGED <<list, data, reader, stopped, flags, out, control, starts, sent>>
  OBVIOUS
<1>2. Bound' /\ Readers' /\ Received' /\ Flagged' /\ Output' /\ Counted'
  BY <1>1 DEF Types, Bound, Readers, Received, Flagged, Output, Counted
<1>3. AtWork'
  <2>1. worker \in [pc : Pcs, at : 1..(Len(list) + 1),
                    best : Streams \cup {None}, young : BOOLEAN]
    BY DEF Types, AtWork
  <2>2. 1 \in 1..(Len(list) + 1)
    BY <1>0
  <2> QED
    BY <1>0, <1>1, <2>1, <2>2, PcsAre, WorkerGoes
<1> QED
  BY <1>2, <1>3 DEF Types

(* A round ends at the end of the list.                                     *)
LEMMA EndRoundKeeps == ASSUME Types, EndRound PROVE Types'
<1> USE MergerAssumption DEF EndRound, AtW, InList, Aside
<1>0. Len(list) \in Nat
  BY DEF Types, Bound
<1>1. UNCHANGED <<list, data, reader, stopped, flags, out, control, starts, sent>>
  OBVIOUS
<1>2. Bound' /\ Readers' /\ Received' /\ Flagged' /\ Output' /\ Counted'
  BY <1>1 DEF Types, Bound, Readers, Received, Flagged, Output, Counted
<1>3. AtWork'
  <2>1. worker \in [pc : Pcs, at : 1..(Len(list) + 1),
                    best : Streams \cup {None}, young : BOOLEAN]
    BY DEF Types, AtWork
  <2>2. 1 \in 1..(Len(list) + 1)
    BY <1>0
  <2> QED
    BY <1>0, <1>1, <2>1, <2>2, PcsAre, WorkerGoes
<1> QED
  BY <1>2, <1>3 DEF Types

(* A batch is taken whole.                                                  *)
LEMMA TakeKeeps == ASSUME Types, Take PROVE Types'
<1> USE MergerAssumption DEF Take, Aside
<1>1. UNCHANGED <<list, data, reader, stopped, worker, flags, control, starts, sent>>
  OBVIOUS
<1>2. Bound' /\ Readers' /\ Received' /\ AtWork' /\ Flagged' /\ Counted'
  BY <1>1 DEF Types, Bound, Readers, Received, AtWork, Flagged, Counted, InRound
<1>3. Output'
  <2>1. <<>> \in Seq(Samples) /\ Len(<<>>) = 0 /\ out.stop \in BOOLEAN
    BY DEF Types, Output
  <2>2. out' = [batch |-> [stream |-> None, samples |-> <<>>], stop |-> out.stop]
    BY DEF Types, Output, NoBatch
  <2>3. None \in Streams \cup {None} /\ Len(<<>>) <= Batch
    BY <2>1
  <2> HIDE DEF Take, Aside
  <2> QED
    BY <2>1, <2>2, <2>3, BatchIs
<1> QED
  BY <1>2, <1>3 DEF Types

(* The delay passes.                                                        *)
LEMMA DelayPassesKeeps == ASSUME Types, DelayPasses PROVE Types'
<1> USE MergerAssumption DEF DelayPasses, Aside
<1>1. UNCHANGED <<list, data, reader, stopped, worker, out, control, starts, sent>>
  OBVIOUS
<1>2. Bound' /\ Readers' /\ Received' /\ AtWork' /\ Output' /\ Counted'
  BY <1>1 DEF Types, Bound, Readers, Received, AtWork, Output, Counted, InRound
<1>3. Flagged'
  BY <1>1 DEF Types, Flagged
<1> QED
  BY <1>2, <1>3 DEF Types

(* Only a stream that is not in the list is bound.                          *)
LEMMA BindStreamKeeps == ASSUME Types, NEW s \in Streams, BindStream(s) PROVE Types'
<1> USE MergerAssumption DEF BindStream, AtR, BetweenRounds
<1>0. Len(list) \in Nat
  BY DEF Types, Bound
<1>1. UNCHANGED <<data, stopped, worker, flags, out, control, starts, sent>>
  OBVIOUS
<1>2. Received' /\ Flagged' /\ Output' /\ Counted'
  BY <1>1 DEF Types, Received, Flagged, Output, Counted
<1>3. Bound'
  <2>1. s \notin ToSet(list)
    BY DEF Types, Bound, ToSet
  <2>2. list' \in Seq(Streams) /\ IsInjective(list') /\ ToSet(list') = ToSet(list) \cup {s}
    BY <2>1, PushBack DEF Types, Bound
  <2>3. \A t \in Streams : reader'[t].pc = IF t = s THEN "read" ELSE reader[t].pc
    BY DEF Types, Readers
  <2>4. ASSUME NEW i \in DOMAIN list' PROVE reader'[list'[i]].pc # "none"
    <3>1. list'[i] \in ToSet(list) \cup {s}
      BY <2>2, <2>4 DEF ToSet
    <3>2. CASE list'[i] = s
      BY <2>3, <3>2
    <3>3. CASE list'[i] \in ToSet(list)
      <4>1. PICK k \in DOMAIN list : list'[i] = list[k]
        BY <3>3 DEF ToSet
      <4>2. list[k] \in Streams /\ list[k] # s /\ reader[list[k]].pc # "none"
        BY <2>1 DEF Types, Bound, ToSet
      <4> QED
        BY <2>3, <4>1, <4>2
    <3> QED
      BY <3>1, <3>2, <3>3
  <2> QED
    BY <2>2, <2>4 DEF Bound
<1>4. Readers'
  BY <1>1 DEF Types, Readers
<1>5. AtWork'
  BY <1>1, <1>0 DEF Types, AtWork, InRound
<1> QED
  BY <1>2, <1>3, <1>4, <1>5 DEF Types

(* A stream is taken out of the list between rounds.                        *)
LEMMA UnbindStreamKeeps == ASSUME Types, NEW s \in Streams, UnbindStream(s) PROVE Types'
<1> USE MergerAssumption DEF UnbindStream, BetweenRounds
<1>0. Len(list) \in Nat
  BY DEF Types, Bound
<1>1. UNCHANGED <<data, reader, worker, flags, out, control, starts, sent>>
  OBVIOUS
<1>2. Readers' /\ Received' /\ Flagged' /\ Output'
  BY <1>1 DEF Types, Readers, Received, Flagged, Output
<1>3. Bound'
  <2>1. PICK k \in DOMAIN list : list[k] = s /\ list' = RemoveAt(list, k)
    OBVIOUS
  <2>2. /\ list' \in Seq(Streams) /\ IsInjective(list')
        /\ ToSet(list') \subseteq ToSet(list)
    BY <2>1, EraseOne DEF Types, Bound
  <2>3. ASSUME NEW i \in DOMAIN list' PROVE reader[list'[i]].pc # "none"
    <3>1. list'[i] \in ToSet(list)
      BY <2>2, <2>3 DEF ToSet
    <3> QED
      BY <3>1 DEF Types, Bound, ToSet
  <2> QED
    BY <1>1, <2>2, <2>3 DEF Bound
<1>4. AtWork'
  BY <1>1, <1>0 DEF Types, AtWork, InRound
<1>5. Counted'
  BY <1>1 DEF Types, Counted
<1> QED
  BY <1>2, <1>3, <1>4, <1>5 DEF Types

(* A start puts the worker before its first round.                          *)
LEMMA StartKeeps == ASSUME Types, Start PROVE Types'
<1> USE MergerAssumption DEF Start, AtW
<1>0. Len(list) \in Nat
  BY DEF Types, Bound
<1>1. UNCHANGED <<list, data, reader, stopped, flags, out, sent>>
  OBVIOUS
<1>2. Bound' /\ Readers' /\ Received' /\ Flagged' /\ Output'
  BY <1>1 DEF Types, Bound, Readers, Received, Flagged, Output
<1>3. AtWork'
  <2>1. worker \in [pc : Pcs, at : 1..(Len(list) + 1),
                    best : Streams \cup {None}, young : BOOLEAN]
    BY DEF Types, AtWork
  <2>2. 1 \in 1..(Len(list) + 1)
    BY <1>0
  <2> QED
    BY <1>0, <1>1, <2>1, <2>2, PcsAre, WorkerGoes
<1>4. Counted'
  BY <1>1 DEF Types, Counted
<1> QED
  BY <1>2, <1>3, <1>4 DEF Types

(* The readers that are stopped are those of the list.                      *)
LEMMA StopReadersKeeps == ASSUME Types, StopReaders PROVE Types'
<1> USE MergerAssumption DEF StopReaders, Phase, Others
<1>1. UNCHANGED <<list, data, reader, worker, flags, out, starts, sent>>
  OBVIOUS
<1>2. Bound' /\ Readers' /\ Received' /\ AtWork' /\ Flagged' /\ Output'
  BY <1>1 DEF Types, Bound, Readers, Received, AtWork, Flagged, Output, InRound
<1>3. Counted'
  <2>1. ToSet(list) \subseteq Streams
    BY DEF Types, Bound, ToSet
  <2> QED
    BY <1>1, <2>1 DEF Types, Counted
<1> QED
  BY <1>2, <1>3 DEF Types

(* A stop clears running.                                                   *)
LEMMA ClearRunningKeeps == ASSUME Types, ClearRunning PROVE Types'
<1> USE MergerAssumption DEF ClearRunning, Phase, Others
<1>1. UNCHANGED <<list, data, reader, stopped, worker, out, starts, sent>>
  OBVIOUS
<1>2. Bound' /\ Readers' /\ Received' /\ AtWork' /\ Output'
  BY <1>1 DEF Types, Bound, Readers, Received, AtWork, Output, InRound
<1>3. Flagged'
  BY <1>1 DEF Types, Flagged
<1>4. Counted'
  BY <1>1 DEF Types, Counted
<1> QED
  BY <1>2, <1>3, <1>4 DEF Types

(* A stop sets proceedWithoutWait.                                          *)
LEMMA SetProceedKeeps == ASSUME Types, SetProceed PROVE Types'
<1> USE MergerAssumption DEF SetProceed, Phase, Others
<1>1. UNCHANGED <<list, data, reader, stopped, worker, out, starts, sent>>
  OBVIOUS
<1>2. Bound' /\ Readers' /\ Received' /\ AtWork' /\ Output'
  BY <1>1 DEF Types, Bound, Readers, Received, AtWork, Output, InRound
<1>3. Flagged'
  BY <1>1 DEF Types, Flagged
<1>4. Counted'
  BY <1>1 DEF Types, Counted
<1> QED
  BY <1>2, <1>3, <1>4 DEF Types

(* A stop wakes the worker out of its wait only.                            *)
LEMMA NotifyStopKeeps == ASSUME Types, NotifyStop PROVE Types'
<1> USE MergerAssumption DEF NotifyStop, Phase, Others, AtW, Awake
<1>0. Len(list) \in Nat
  BY DEF Types, Bound
<1>1. UNCHANGED <<list, data, reader, stopped, flags, out, starts, sent>>
  OBVIOUS
<1>2. Bound' /\ Readers' /\ Received' /\ Flagged' /\ Output'
  BY <1>1 DEF Types, Bound, Readers, Received, Flagged, Output
<1>3. AtWork'
  <2>1. worker \in [pc : Pcs, at : 1..(Len(list) + 1),
                    best : Streams \cup {None}, young : BOOLEAN]
    BY DEF Types, AtWork
  <2>2. 1 \in 1..(Len(list) + 1)
    BY <1>0
  <2> QED
    BY <1>0, <1>1, <2>1, <2>2, PcsAre, WorkerGoes DEF Types, AtWork, InRound
<1>4. Counted'
  BY <1>1 DEF Types, Counted
<1> QED
  BY <1>2, <1>3, <1>4 DEF Types

(* A stop ends the wait for the output.                                     *)
LEMMA StopOutKeeps == ASSUME Types, StopOut PROVE Types'
<1> USE MergerAssumption DEF StopOut, Phase, Others
<1>1. UNCHANGED <<list, data, reader, stopped, worker, flags, starts, sent>>
  OBVIOUS
<1>2. Bound' /\ Readers' /\ Received' /\ AtWork' /\ Flagged'
  BY <1>1 DEF Types, Bound, Readers, Received, AtWork, Flagged, InRound
<1>3. Output'
  BY <1>1 DEF Types, Output, NoBatch, Samples
<1>4. Counted'
  BY <1>1 DEF Types, Counted
<1> QED
  BY <1>2, <1>3, <1>4 DEF Types

(* A joined worker is off.                                                  *)
LEMMA JoinKeeps == ASSUME Types, Join PROVE Types'
<1> USE MergerAssumption DEF Join, Phase, Others, AtW
<1>0. Len(list) \in Nat
  BY DEF Types, Bound
<1>1. UNCHANGED <<list, data, reader, stopped, flags, starts, sent>>
  OBVIOUS
<1>2. Bound' /\ Readers' /\ Received' /\ Flagged'
  BY <1>1 DEF Types, Bound, Readers, Received, Flagged
<1>3. AtWork'
  <2>1. worker \in [pc : Pcs, at : 1..(Len(list) + 1),
                    best : Streams \cup {None}, young : BOOLEAN]
    BY DEF Types, AtWork
  <2>2. 1 \in 1..(Len(list) + 1)
    BY <1>0
  <2> QED
    BY <1>0, <1>1, <2>1, <2>2, PcsAre, WorkerGoes
<1>4. Output'
  BY <1>1 DEF Types, Output, NoBatch, Samples
<1>5. Counted'
  BY <1>1 DEF Types, Counted
<1> QED
  BY <1>2, <1>3, <1>4, <1>5 DEF Types

-----------------------------------------------------------------------------
(* Steps of the readers                                                     *)
ReaderStep(s) == ReadBlock(s) \/ ReaderGoesOn(s) \/ BindStream(s)

(* A reader adds what follows, and sends nothing.                           *)
LEMMA ReaderAdds ==
  ASSUME Types, NEW s \in Streams, ReaderStep(s), NEW t \in Streams, Waiting(t)
  PROVE  /\ NextOf(t)' = NextOf(t) /\ Waiting(t)'
         /\ data[t] # <<>> => data'[t] # <<>>
         /\ UNCHANGED sent
<1>1. /\ reader[t].first \in Nat /\ reader[t].last \in Nat /\ reader[t].first > 0
      /\ reader[t].first <= reader[t].last + 1
      /\ data[t] \in Seq(Samples) /\ Len(data[t]) \in Nat
  BY DEF Types, Readers, Received
<1>2. UNCHANGED sent
  BY DEF ReaderStep, ReaderGoesOn, ReadBlock, ReadStops, Collect, NotifyWorker, BindStream, Rest
<1>3. CASE t # s \/ ReadStops(s) \/ NotifyWorker(s) \/ BindStream(s)
  <2>1. UNCHANGED data[t] /\ Collected(t)' = Collected(t)
    BY <1>3 DEF ReaderStep, ReaderGoesOn, ReadBlock, ReadStops, Collect, NotifyWorker, BindStream,
                Rest, AtR, Collected, Types, Readers, Received
  <2> QED
    BY <1>2, <2>1 DEF NextOf, Waiting
<1>4. CASE t = s /\ ReadBlock(s)
  <2>1. UNCHANGED data[t] /\ Collected(t)' = Collected(t)
    BY <1>1, <1>4 DEF ReadBlock, AtR, Collected, Types, Readers
  <2> QED
    BY <1>2, <2>1 DEF NextOf, Waiting
<1>5. CASE t = s /\ Collect(s)
  <2> DEFINE n == reader[s].last - reader[s].first + 1
             q == [i \in 1..n |-> reader[s].first + i - 1]
  <2>0. /\ reader[s].first \in Nat /\ reader[s].last \in Nat /\ reader[s].first > 0
        /\ data[s] \in Seq(Samples) /\ Len(data[s]) \in Nat
    BY <1>1, <1>5
  <2>1. n \in Nat /\ reader[s].pc = "append" /\ Collected(s) = reader[s].first - 1
    BY <1>1, <1>5 DEF Collect, AtR, Collected
  <2>2. Collected(s)' = reader[s].last
    BY <1>5 DEF Collect, Collected, Types, Readers
  <2>3. q \in Seq(Samples) /\ Len(q) = n /\ \A i \in 1..n : q[i] = reader[s].first + i - 1
    <3>1. q \in [1..n -> Samples]
      BY <1>1, <1>5, <2>1 DEF Samples
    <3>2. DOMAIN q = 1..n /\ \A i \in 1..n : q[i] = reader[s].first + i - 1
      OBVIOUS
    <3> HIDE DEF q, n
    <3>3. q \in Seq(Samples)
      BY <2>1, <3>1, SeqDef
    <3>4. Len(q) = n
      BY <2>1, <3>2, <3>3
    <3> QED
      BY <3>2, <3>3, <3>4
  <2>4. data'[s] = data[s] \o q
    BY <1>5 DEF Collect, Types, Received
  <2>5. n = reader[s].last - reader[s].first + 1
    OBVIOUS
  <2> HIDE DEF q, n
  <2>6. /\ Len(data'[s]) = Len(data[s]) + n
        /\ \A i \in 1..(Len(data[s]) + n) :
             data'[s][i] = IF i <= Len(data[s]) THEN data[s][i]
                           ELSE reader[s].first + (i - Len(data[s])) - 1
    <3>1. /\ Len(data'[s]) = Len(data[s]) + Len(q)
          /\ \A i \in 1..(Len(data[s]) + Len(q)) :
               data'[s][i] = IF i <= Len(data[s]) THEN data[s][i] ELSE q[i - Len(data[s])]
      <4>1. /\ Len(data[s] \o q) = Len(data[s]) + Len(q)
            /\ \A i \in 1..(Len(data[s]) + Len(q)) :
                 (data[s] \o q)[i] = IF i <= Len(data[s]) THEN data[s][i]
                                     ELSE q[i - Len(data[s])]
        BY <2>0, <2>3, ConcatProperties
      <4> QED
        BY <2>4, <4>1
    <3>2. ASSUME NEW i \in 1..(Len(data[s]) + n), ~(i <= Len(data[s]))
          PROVE  q[i - Len(data[s])] = reader[s].first + (i - Len(data[s])) - 1
      <4>1. i - Len(data[s]) \in 1..n
        BY <2>0, <2>1, <3>2
      <4> QED
        BY <2>3, <4>1
    <3> QED
      BY <2>3, <3>1, <3>2
  <2>7. NextOf(s)' = NextOf(s)
    <3>1. NextOf(s)' = reader[s].last - Len(data'[s]) + 1
      BY <2>2 DEF NextOf
    <3>2. NextOf(s) = reader[s].first - 1 - Len(data[s]) + 1
      BY <2>1 DEF NextOf
    <3>3. Len(data'[s]) = Len(data[s]) + (reader[s].last - reader[s].first + 1)
      BY <2>5, <2>6
    <3> QED
      BY <2>0, <3>1, <3>2, <3>3
  <2>8. \A i \in 1..Len(data'[s]) : data'[s][i] = NextOf(s) + i - 1
    BY <1>1, <1>5, <2>1, <2>6 DEF NextOf, Waiting
  <2>9. Waiting(s)'
    BY <1>2, <1>5, <2>7, <2>8 DEF Waiting
  <2> QED
    BY <1>1, <1>2, <1>5, <2>1, <2>6, <2>7, <2>9
<1> QED
  BY <1>2, <1>3, <1>4, <1>5 DEF ReaderStep, ReaderGoesOn

-----------------------------------------------------------------------------
(* Steps of the worker                                                      *)

(* What is sent is the first of what waits, in order, and nothing is left out. *)
LEMMA Sent ==
  ASSUME Types, Round, SwapBatch, NEW b, b = worker.best, \A s \in Streams : Waiting(s)
  PROVE  /\ b \in Streams /\ Len(Taken(b)) \in Nat /\ Len(Taken(b)) > 0
         /\ NextOf(b) \in Int
         /\ \A i \in 1..Len(Taken(b)) : Taken(b)[i] = NextOf(b) + i - 1
         /\ NextOf(b)' = sent'.last[b] + 1
         /\ \A t \in Streams : Waiting(t)'
<1> DEFINE n == Len(Taken(b))
<1>1. b \in Streams /\ data[b] # <<>>
  BY RoundAtSwap DEF SwapBatch
<1>2. /\ data[b] \in Seq(Samples) /\ Len(data[b]) \in Nat /\ sent.last[b] \in Nat
      /\ Collected(b) \in Int
  BY <1>1 DEF Types, Received, Readers, Counted, Collected
<1>3. /\ UNCHANGED reader /\ data' = [data EXCEPT ![b] = Left(b)]
      /\ sent'.last = [sent.last EXCEPT ![b] = Last(Taken(b))]
  BY DEF SwapBatch, Aside, Types, Counted
<1>4. /\ n \in Nat /\ n > 0 /\ Len(Left(b)) = Len(data[b]) - n /\ Len(Left(b)) \in Nat
      /\ \A i \in 1..n : Taken(b)[i] = data[b][i]
      /\ \A i \in 1..Len(Left(b)) : Left(b)[i] = data[b][n + i]
  BY <1>1, Cut
<1>5. /\ data'[b] = Left(b)
      /\ sent'.last[b] = Taken(b)[n]
      /\ \A t \in Streams : Collected(t)' = Collected(t)
      /\ \A t \in Streams \ {b} : data'[t] = data[t] /\ sent'.last[t] = sent.last[t]
  <2>1. data'[b] = Left(b) /\ \A t \in Streams \ {b} : data'[t] = data[t]
    BY <1>1, <1>3 DEF Types, Received
  <2>2. Last(Taken(b)) = Taken(b)[n]
    BY DEF Last
  <2>3. sent.last \in [Streams -> Nat]
    BY DEF Types, Counted
  <2>4. /\ sent'.last[b] = Last(Taken(b))
        /\ \A t \in Streams \ {b} : sent'.last[t] = sent.last[t]
    BY <1>1, <1>3, <2>3
  <2>5. \A t \in Streams : Collected(t)' = Collected(t)
    BY <1>3 DEF Collected
  <2> QED
    BY <2>1, <2>2, <2>4, <2>5
<1> HIDE DEF n
<1>6. NextOf(b) \in Int /\ \A i \in 1..Len(data[b]) : data[b][i] = NextOf(b) + i - 1
  BY <1>1, <1>2 DEF NextOf, Waiting
<1>7. /\ n \in 1..Len(data[b]) /\ sent'.last[b] = NextOf(b) + n - 1
      /\ \A i \in 1..n : Taken(b)[i] = NextOf(b) + i - 1
  BY <1>2, <1>4, <1>5, <1>6
<1>8. NextOf(b)' = NextOf(b) + n
  <2>1. NextOf(b)' = Collected(b) - Len(Left(b)) + 1
    BY <1>1, <1>5 DEF NextOf
  <2> QED
    BY <1>2, <1>4, <2>1 DEF NextOf
<1>9. Waiting(b)'
  <2>1. NextOf(b)' > sent'.last[b]
    BY <1>4, <1>6, <1>7, <1>8
  <2>2. ASSUME NEW i \in 1..Len(Left(b)) PROVE Left(b)[i] = NextOf(b) + n + i - 1
    <3>1. n + i \in 1..Len(data[b])
      BY <1>2, <1>4
    <3>2. Left(b)[i] = data[b][n + i] /\ data[b][n + i] = NextOf(b) + (n + i) - 1
      BY <1>4, <1>6, <3>1
    <3> QED
      BY <1>4, <1>6, <3>2
  <2>3. \A i \in 1..Len(data'[b]) : data'[b][i] = NextOf(b)' + i - 1
    BY <1>5, <1>8, <2>2
  <2> QED
    BY <2>1, <2>3 DEF Waiting
<1>10. ASSUME NEW t \in Streams \ {b} PROVE Waiting(t)'
  <2>1. data'[t] = data[t] /\ sent'.last[t] = sent.last[t] /\ Collected(t)' = Collected(t)
    BY <1>5, <1>10
  <2> QED
    BY <1>10, <2>1 DEF Waiting, NextOf
<1>11. NextOf(b)' = sent'.last[b] + 1
  BY <1>4, <1>6, <1>7, <1>8
<1> QED
  BY <1>1, <1>4, <1>6, <1>7, <1>9, <1>10, <1>11 DEF n

(* What waits of a stream, whatever the worker and the others do.           *)
LEMMA WaitingKept ==
  ASSUME IInv, [Next]_vars, NEW t \in Streams PROVE Waiting(t)'
<1> USE DEF IInv
<1>1. ASSUME NEW s \in Streams, ReaderStep(s) PROVE Waiting(t)'
  BY <1>1, ReaderAdds
<1>2. CASE SwapBatch
  <2>1. PICK b : b = worker.best
    OBVIOUS
  <2> QED
    BY <1>2, <2>1, Sent
<1>3. CASE DropOther
  <2>1. UNCHANGED <<reader, sent>> /\ Collected(t)' = Collected(t)
    BY <1>3 DEF DropOther, Aside, Collected
  <2>2. data'[t] = data[t] \/ data'[t] = <<>>
    BY <1>3 DEF DropOther, Types, Received
  <2>3. Len(data[t]) \in Nat /\ Collected(t) \in Int /\ sent.last[t] \in Nat
    BY DEF Types, Received, Readers, Counted, Collected
  <2>4. CASE data'[t] = data[t]
    BY <2>1, <2>4 DEF Waiting, NextOf
  <2>5. CASE data'[t] = <<>>
    <3>1. Len(data'[t]) = 0
      BY <2>5
    <3>2. NextOf(t)' >= NextOf(t) /\ NextOf(t)' \in Int /\ NextOf(t) \in Int
      BY <2>1, <2>3, <3>1 DEF NextOf
    <3> QED
      BY <2>1, <2>3, <3>1, <3>2 DEF Waiting
  <2> QED
    BY <2>2, <2>4, <2>5
<1>4. CASE UNCHANGED <<reader, data, sent>>
  BY <1>4 DEF Waiting, NextOf, Collected
<1> QED
  BY <1>1, <1>2, <1>3, <1>4
     DEF Next, ReaderStep, WorkerStep, StopGoesOn, vars, Aside, Rest, Others, Top, WaitForData,
         Wake, Pick, NothingToSend, Choose, FillBatch, SwapAbandoned, EndRound, Take,
         DelayPasses, UnbindStream, Start, StopReaders, ClearRunning, SetProceed, NotifyStop,
         StopOut, Join

(* A chosen stream stays chosen, and has samples, until they are sent.      *)
LEMMA RoundKept == ASSUME IInv, [Next]_vars PROVE Round'
<1> USE DEF IInv
<1>0. /\ list \in Seq(Streams) /\ Len(list) \in Nat /\ DOMAIN list = 1..Len(list)
      /\ worker.at \in 1..(Len(list) + 1) /\ worker.pc \in Pcs
      /\ worker.best \in Streams \cup {None} /\ None \notin Streams
      /\ worker \in [pc : Pcs, at : 1..(Len(list) + 1),
                    best : Streams \cup {None}, young : BOOLEAN]
  BY MergerAssumption DEF Types, Bound, AtWork
<1>1. ASSUME NEW s \in Streams, ReadBlock(s) \/ ReaderGoesOn(s) PROVE Round'
  <2>1. \A t \in Streams : data[t] # <<>> => data'[t] # <<>>
    BY <1>1, ReaderAdds DEF ReaderStep
  <2>2. UNCHANGED <<list, sent>>
    BY <1>1 DEF ReadBlock, ReaderGoesOn, ReadStops, Collect, NotifyWorker, Rest
  <2>3. worker' = worker \/ (worker'.pc = "woken" /\ worker'.at = worker.at)
    BY <1>0, <1>1 DEF ReadBlock, ReaderGoesOn, ReadStops, Collect, NotifyWorker, Awake, AtW
  <2>4. CASE worker'.pc = "woken"
    BY <2>4 DEF Round
  <2>5. CASE worker' = worker
    BY <1>0, <2>1, <2>2, <2>5 DEF Round
  <2> QED
    BY <2>3, <2>4, <2>5
<1>2. CASE Top \/ Wake
  BY <1>2 DEF Top, Wake, NewRound, Round, Types, AtWork
<1>3. CASE Pick
  <2>1. /\ UNCHANGED list /\ worker.pc = "pick" /\ worker'.pc = "pick"
        /\ worker'.at = worker.at + 1 /\ worker'.best = Consider(worker.best, Here)
        /\ worker.at \in DOMAIN list
    BY <1>0, <1>3 DEF Pick, AtW, InList, Aside
  <2>2. worker'.best = Here \/ worker'.best = worker.best
    BY <2>1 DEF Consider
  <2>3. worker'.best = None \/ \E j \in 1..worker.at : list[j] = worker'.best
    BY <1>0, <2>1, <2>2 DEF Here, Round
  <2> QED
    BY <1>0, <2>1, <2>3 DEF Round
<1>4. CASE Choose
  <2>1. /\ UNCHANGED <<list, data>> /\ worker'.pc = "pour" /\ worker'.at = 1
        /\ worker'.best = worker.best /\ worker.pc = "pick"
        /\ worker.best \in Streams /\ data[worker.best] # <<>>
    BY <1>0, <1>4 DEF Choose, AtW, Found, Aside
  <2>2. PICK j \in 1..(worker.at - 1) : list[j] = worker.best
    BY <1>0, <2>1 DEF Round
  <2>3. j \in DOMAIN list /\ ~(j < 1)
    BY <1>0, <2>2
  <2> QED
    BY <2>1, <2>2, <2>3 DEF Round
<1>5. CASE DropOther
  <2>1. /\ UNCHANGED <<list, sent>> /\ worker.pc = "pour" /\ worker'.pc = "pour"
        /\ worker'.best = worker.best /\ worker'.at = worker.at + 1
        /\ worker.at \in DOMAIN list /\ list[worker.at] # worker.best
        /\ data' = [data EXCEPT ![list[worker.at]] = <<>>]
    BY <1>0, <1>5 DEF DropOther, AtW, InList, Here, Aside
  <2>2. PICK k \in DOMAIN list : /\ list[k] = worker.best
                                 /\ IF k < worker.at THEN sent.from = worker.best
                                    ELSE data[worker.best] # <<>>
    BY <2>1 DEF Round
  <2>3. list[worker.at] \in Streams /\ worker.best \in Streams
    BY <1>0, <2>1, <2>2
  <2>4. data'[worker.best] = data[worker.best]
    BY <2>1, <2>3 DEF Types, Received
  <2>5. k < worker.at + 1 => k < worker.at
    BY <1>0, <2>1, <2>2
  <2>6. IF k < worker'.at THEN sent'.from = worker'.best ELSE data'[worker'.best] # <<>>
    <3>1. CASE k < worker.at
      BY <1>0, <2>1, <2>2, <3>1
    <3>2. CASE ~(k < worker.at)
      BY <2>1, <2>2, <2>4, <2>5, <3>2
    <3> QED
      BY <3>1, <3>2
  <2>7. k \in DOMAIN list' /\ list'[k] = worker'.best
    BY <2>1, <2>2
  <2> QED
    BY <2>1, <2>6, <2>7 DEF Round
<1>6. CASE FillBatch
  <2>1. /\ UNCHANGED <<list, sent, data>> /\ worker.pc = "pour" /\ worker'.pc = "swap"
        /\ worker'.best = worker.best /\ worker'.at = worker.at
        /\ worker.at <= Len(list) /\ list[worker.at] = worker.best
    BY <1>0, <1>6 DEF FillBatch, AtW, InList, Here, Aside, Go
  <2> QED
    BY <2>1 DEF Round
<1>7. CASE SwapBatch
  <2>1. worker.at \in DOMAIN list /\ list[worker.at] = worker.best /\ worker.best \in Streams
    BY <1>7, RoundAtSwap DEF SwapBatch
  <2>2. /\ UNCHANGED list /\ worker'.pc = "pour" /\ worker'.at = worker.at + 1
        /\ worker'.best = worker.best /\ sent'.from = worker.best
    BY <1>0, <1>7, <2>1 DEF SwapBatch, Aside, Types, Counted
  <2>3. worker.at < worker.at + 1
    BY <1>0
  <2> QED
    BY <2>1, <2>2, <2>3 DEF Round
<1>8. CASE \/ WaitForData \/ NothingToSend \/ SwapAbandoned \/ EndRound \/ Start \/ NotifyStop
           \/ Join
  BY <1>0, <1>8 DEF WaitForData, NothingToSend, SwapAbandoned, EndRound, Start, NotifyStop, Join,
                    Go, Awake, AtW, Phase, Others, Aside, Round
<1>9. CASE UNCHANGED <<list, data, worker, sent>>
  BY <1>9 DEF Round
<1>10. ASSUME NEW s \in Streams, BindStream(s) \/ UnbindStream(s) PROVE Round'
  BY <1>10 DEF BindStream, UnbindStream, BetweenRounds, Round
<1> QED
  BY <1>1, <1>2, <1>3, <1>4, <1>5, <1>6, <1>7, <1>8, <1>9, <1>10
     DEF Next, WorkerStep, StopGoesOn, vars, Aside, Others, Take, DelayPasses, StopReaders,
         ClearRunning, SetProceed, StopOut

(* Once a stop has cleared running it stays cleared.                        *)
LEMMA EndingKept == ASSUME IInv, [Next]_vars PROVE Ending'
<1> USE DEF IInv, Ending
<1>0. /\ worker \in [pc : Pcs, at : 1..(Len(list) + 1),
                    best : Streams \cup {None}, young : BOOLEAN]
      /\ out.stop \in BOOLEAN
      /\ flags \in [running : BOOLEAN, proceed : BOOLEAN, lastPriority : Int, recent : BOOLEAN]
      /\ out \in [batch : [stream : Streams \cup {None}, samples : Seq(Samples)], stop : BOOLEAN]
  BY DEF Types, AtWork, Output, Flagged
<1>1. ASSUME NEW s \in Streams,
             ReadBlock(s) \/ ReaderGoesOn(s) \/ BindStream(s) \/ UnbindStream(s)
      PROVE  Ending'
  BY <1>0, <1>1 DEF ReadBlock, ReaderGoesOn, ReadStops, Collect, NotifyWorker, BindStream,
                    UnbindStream, Rest, Awake, AtW
<1>2. CASE WorkerStep \/ Take \/ DelayPasses
  <2>1. out'.stop = out.stop /\ control' = control
    BY <1>0, <1>2 DEF WorkerStep, Top, WaitForData, Wake, Pick, NothingToSend, Choose, DropOther,
                      FillBatch, SwapBatch, SwapAbandoned, EndRound, Take, DelayPasses, Aside
  <2>2. flags'.running = flags.running
    BY <1>0, <1>2 DEF WorkerStep, Top, WaitForData, Wake, Pick, NothingToSend, Choose, DropOther,
                      FillBatch, SwapBatch, SwapAbandoned, EndRound, Take, DelayPasses, Aside
  <2>3. worker.pc # "off" \/ worker' = worker
    BY <1>0, <1>2 DEF WorkerStep, Top, WaitForData, Wake, Pick, NothingToSend, Choose, DropOther,
                      FillBatch, SwapBatch, SwapAbandoned, EndRound, Take, DelayPasses, AtW
  <2> QED
    BY <2>1, <2>2, <2>3
<1>3. CASE Start \/ StopReaders \/ StopGoesOn
  BY <1>0, <1>3 DEF Start, StopReaders, StopGoesOn, ClearRunning, SetProceed, NotifyStop, StopOut,
                    Join, Phase, Others
<1>4. CASE UNCHANGED vars
  BY <1>4 DEF vars
<1> QED
  BY <1>1, <1>2, <1>3, <1>4 DEF Next

(* Every state is of the types, whatever the step.                          *)
LEMMA TypesKept == ASSUME Types, Round, [Next]_vars PROVE Types'
<1>1. CASE Next
  BY <1>1, ReadBlockKeeps, ReadStopsKeeps, CollectKeeps, NotifyWorkerKeeps, TopKeeps,
     WaitForDataKeeps, WakeKeeps, PickKeeps, NothingToSendKeeps, ChooseKeeps, DropOtherKeeps,
     FillBatchKeeps, SwapBatchKeeps, SwapAbandonedKeeps, EndRoundKeeps, TakeKeeps,
     DelayPassesKeeps, BindStreamKeeps, UnbindStreamKeeps, StartKeeps, StopReadersKeeps,
     ClearRunningKeeps, SetProceedKeeps, NotifyStopKeeps, StopOutKeeps, JoinKeeps
     DEF Next, ReaderGoesOn, WorkerStep, StopGoesOn
<1>2. CASE UNCHANGED vars
  <2> USE <1>2 DEF vars
  <2>1. Bound'
    BY DEF Types, Bound
  <2>2. Readers' /\ Received'
    BY DEF Types, Readers, Received
  <2>3. AtWork'
    BY DEF Types, AtWork, InRound
  <2>4. Flagged' /\ Output' /\ Counted'
    BY DEF Types, Flagged, Output, Counted
  <2> QED
    BY <2>1, <2>2, <2>3, <2>4 DEF Types
<1> QED
  BY <1>1, <1>2

(* At the end of a round the stream that was chosen has been sent from.      *)
LEMMA SentAtEnd ==
  ASSUME IInv, AtW("pour"), ~InList PROVE sent.from = worker.best
<1>1. PICK k \in DOMAIN list : /\ list[k] = worker.best
                               /\ IF k < worker.at THEN sent.from = worker.best
                                  ELSE data[worker.best] # <<>>
  BY DEF IInv, Round, AtW
<1>2. k \in 1..Len(list) /\ Len(list) \in Nat /\ worker.at \in 1..(Len(list) + 1)
  BY <1>1 DEF IInv, Types, Bound, AtWork
<1> QED
  BY <1>1, <1>2 DEF InList

(* Nothing is missing of the stream sent last, whatever the step.            *)
LEMMA NoHoleKept == ASSUME IInv, [Next]_vars PROVE NoHole'
<1> USE DEF IInv
<1> DEFINE f == sent.from
           Follows == NextOf(f) = sent.last[f] + 1
<1>0. /\ worker \in [pc : Pcs, at : 1..(Len(list) + 1),
                    best : Streams \cup {None}, young : BOOLEAN]
      /\ f \in Streams /\ flags.running \in BOOLEAN
      /\ flags \in [running : BOOLEAN, proceed : BOOLEAN, lastPriority : Int, recent : BOOLEAN]
  BY DEF Types, AtWork, Counted, Flagged
<1>1. ASSUME NEW s \in Streams, ReaderStep(s) PROVE NoHole'
  <2>1. NextOf(f)' = NextOf(f) /\ UNCHANGED sent
    BY <1>0, <1>1, ReaderAdds
  <2>2. UNCHANGED flags
    BY <1>1 DEF ReaderStep, ReaderGoesOn, ReadBlock, ReadStops, Collect, NotifyWorker,
                BindStream, Rest
  <2>3. worker' = worker \/ (~InRound /\ ~InRound')
    BY <1>0, <1>1 DEF ReaderStep, ReaderGoesOn, ReadBlock, ReadStops, Collect, NotifyWorker,
                BindStream, Awake, AtW, InRound
  <2>4. CASE Follows
    BY <2>1, <2>4 DEF NoHole, NextOf
  <2>5. CASE ~Follows
    BY <2>1, <2>2, <2>3, <2>5 DEF NoHole, Replacing, Ended, InRound
  <2> QED
    BY <2>4, <2>5
<1>2. CASE SwapBatch
  <2>1. PICK b : b = worker.best
    OBVIOUS
  <2>2. NextOf(b)' = sent'.last[b] + 1
    BY <1>2, <2>1, Sent
  <2>3. sent'.from = b
    BY <1>2, <2>1 DEF SwapBatch, Types, Counted
  <2> QED
    BY <2>2, <2>3 DEF NoHole, NextOf, Collected
<1>3. CASE DropOther
  <2>1. /\ UNCHANGED <<reader, sent, flags, list>> /\ worker'.pc = "pour" /\ worker.pc = "pour"
        /\ worker'.best = worker.best /\ list[worker.at] # worker.best
        /\ data' = [data EXCEPT ![list[worker.at]] = <<>>]
    BY <1>0, <1>3 DEF DropOther, AtW, Here, Aside
  <2>2. CASE worker.best # f
    BY <2>1, <2>2 DEF NoHole, Replacing
  <2>3. CASE worker.best = f
    <3>1. Follows
      BY <2>1, <2>3 DEF NoHole, Replacing, Ended, InRound
    <3>2. data'[f] = data[f]
      BY <1>0, <2>1, <2>3 DEF Types, Received
    <3> QED
      BY <2>1, <3>1, <3>2 DEF NoHole, NextOf, Collected
  <2> QED
    BY <2>2, <2>3
<1>4. CASE UNCHANGED <<reader, data, sent>> /\ Follows
  BY <1>4 DEF NoHole, NextOf, Collected
<1>5. ASSUME UNCHANGED <<reader, data, sent>>, ~Follows PROVE NoHole' \/ ~Next
  <2>1. (InRound /\ Replacing) \/ Ended
    BY <1>5 DEF NoHole, Replacing, InRound
  <2>2. CASE Top \/ Wake \/ WaitForData
    BY <1>0, <1>5, <2>1, <2>2
       DEF Top, Wake, WaitForData, Go, Aside, AtW, InRound, Replacing, Ended, NoHole
  <2>3. CASE Pick \/ NothingToSend \/ Choose
    BY <1>0, <2>1, <2>3 DEF Pick, NothingToSend, Choose, AtW, InRound, Replacing, Ended
  <2>4. CASE FillBatch
    BY <1>0, <1>5, <2>1, <2>4 DEF FillBatch, Go, AtW, Replacing, Ended, InRound, NoHole
  <2>5. CASE SwapAbandoned
    BY <1>0, <1>5, <2>5 DEF SwapAbandoned, Ending, Ended, InRound, NoHole
  <2>6. CASE EndRound
    BY <1>0, <2>1, <2>6, SentAtEnd DEF EndRound, AtW, Ended, InRound, Replacing
  <2>7. CASE Start
    BY <1>0, <1>5, <2>1, <2>7 DEF Start, Ending, Replacing, Ended, InRound, NoHole
  <2>8. CASE UNCHANGED <<worker, flags>>
    BY <1>5, <2>1, <2>8 DEF Replacing, Ended, InRound, NoHole
  <2>9. CASE ClearRunning \/ SetProceed \/ DelayPasses
    BY <1>0, <1>5, <2>1, <2>9
       DEF ClearRunning, SetProceed, DelayPasses, Others, Replacing, Ended, InRound, NoHole
  <2>10. CASE NotifyStop \/ Join
    BY <1>0, <1>5, <2>1, <2>10
       DEF NotifyStop, Join, Awake, AtW, Others, Replacing, Ended, InRound, NoHole
  <2>11. ASSUME NEW s \in Streams, UnbindStream(s) PROVE NoHole' \/ ~Next
    <3>1. UNCHANGED <<worker, flags>>
      BY <2>11 DEF UnbindStream
    <3> QED
      BY <3>1, <2>8
  <2> QED
    BY <1>1, <1>2, <1>3, <2>2, <2>3, <2>4, <2>5, <2>6, <2>7, <2>8, <2>9, <2>10, <2>11
       DEF Next, ReaderStep, WorkerStep, StopGoesOn, Aside, Others, Take, StopReaders, StopOut
<1>6. Next => \/ \E s \in Streams : ReaderStep(s)
              \/ SwapBatch \/ DropOther \/ UNCHANGED <<reader, data, sent>>
  BY DEF Next, ReaderStep, ReaderGoesOn, WorkerStep, StopGoesOn, Aside, Others, Top, WaitForData,
         Wake, Pick, NothingToSend, Choose, FillBatch, SwapAbandoned, EndRound, Take,
         DelayPasses, UnbindStream, Start, StopReaders, ClearRunning, SetProceed, NotifyStop,
         StopOut, Join
<1>7. CASE UNCHANGED vars
  BY <1>7 DEF vars, NoHole, NextOf, Collected, Replacing, Ended, InRound
<1> QED
  BY <1>1, <1>2, <1>3, <1>4, <1>5, <1>6, <1>7

(* The priority that counts is the right one, whatever the step.            *)
LEMMA DelayedKept == ASSUME IInv, [Next]_vars PROVE Delayed'
<1> USE DEF IInv
<1> DEFINE last == flags.lastPriority
<1>0. /\ worker \in [pc : Pcs, at : 1..(Len(list) + 1),
                    best : Streams \cup {None}, young : BOOLEAN]
      /\ flags \in [running : BOOLEAN, proceed : BOOLEAN, lastPriority : Int, recent : BOOLEAN]
      /\ sent.from \in Streams
      /\ \A s \in Streams : Priority[s] \in Int
  BY MergerAssumption DEF Types, AtWork, Counted, Flagged
<1>1. ASSUME NEW s \in Streams,
             ReadBlock(s) \/ ReaderGoesOn(s) \/ BindStream(s) \/ UnbindStream(s)
      PROVE  Delayed'
  <2>1. UNCHANGED <<flags, sent>>
    BY <1>1 DEF ReadBlock, ReaderGoesOn, ReadStops, Collect, NotifyWorker, BindStream,
                UnbindStream, Rest
  <2>2. worker' = worker \/ (worker.pc = "asleep" /\ worker'.pc = "woken")
    BY <1>0, <1>1 DEF ReadBlock, ReaderGoesOn, ReadStops, Collect, NotifyWorker, BindStream,
                UnbindStream, Awake, AtW
  <2>3. CASE worker' = worker
    BY <2>1, <2>3 DEF Delayed, InRound
  <2>4. CASE worker.pc = "asleep" /\ worker'.pc = "woken"
    BY <2>1, <2>4 DEF Delayed, InRound
  <2> QED
    BY <2>2, <2>3, <2>4
<1>2. CASE Top \/ Wake
  <2>1. UNCHANGED <<flags, sent>> /\ ~InRound
    BY <1>2 DEF Top, Wake, AtW, Aside, InRound
  <2>2. \/ worker' = NewRound /\ flags.running
        \/ worker'.pc \in {"done", "wait"}
    BY <1>0, <1>2 DEF Top, Wake
  <2>3. CASE worker' = NewRound /\ flags.running
    BY <1>0, <2>1, <2>3 DEF NewRound, Delayed, InRound
  <2>4. CASE worker'.pc \in {"done", "wait"}
    BY <2>1, <2>4 DEF Delayed, InRound
  <2> QED
    BY <2>2, <2>3, <2>4
<1>3. CASE Pick
  <2>1. /\ UNCHANGED <<flags, sent, list>> /\ worker.pc = "pick" /\ worker'.pc = "pick"
        /\ worker'.best = Consider(worker.best, Here) /\ worker'.young = worker.young
    BY <1>0, <1>3 DEF Pick, AtW, Aside
  <2>2. worker.young => worker'.best = worker.best
                        \/ Priority[worker'.best] <= flags.lastPriority
    BY <2>1 DEF Consider
  <2> QED
    BY <2>1, <2>2 DEF Delayed, InRound
<1>4. CASE Choose
  <2>1. /\ UNCHANGED sent /\ worker.pc = "pick" /\ worker'.pc = "pour"
        /\ worker'.best = worker.best /\ worker'.young = worker.young
        /\ flags'.lastPriority = Priority[worker.best] /\ worker.best \in Streams
        /\ worker.best # None
    BY <1>0, <1>4, MergerAssumption DEF Choose, AtW, Aside, Found
  <2>2. worker.young => Priority[worker.best] <= Priority[sent.from]
    BY <1>0, <2>1 DEF Delayed
  <2> QED
    BY <2>1, <2>2 DEF Delayed, InRound
<1>5. CASE NothingToSend
  BY <1>0, <1>5 DEF NothingToSend, AtW, Aside, Delayed, InRound
<1>6. CASE DropOther \/ FillBatch
  <2>1. /\ UNCHANGED <<flags, sent>> /\ worker.pc = "pour" /\ worker'.pc \in {"pour", "swap"}
        /\ worker'.best = worker.best /\ worker'.young = worker.young
    BY <1>0, <1>6 DEF DropOther, FillBatch, Go, AtW, Aside
  <2> QED
    BY <2>1 DEF Delayed, InRound
<1>7. CASE SwapBatch
  <2>1. worker.best \in Streams
    BY <1>7, RoundAtSwap DEF SwapBatch
  <2>2. /\ worker.pc = "swap" /\ worker'.pc = "pour"
        /\ worker'.best = worker.best /\ worker'.young = worker.young
        /\ sent'.from = worker.best /\ flags'.lastPriority = flags.lastPriority
    BY <1>0, <1>7 DEF SwapBatch, AtW, Types, Counted
  <2> QED
    BY <1>0, <2>1, <2>2 DEF Delayed, InRound
<1>8. CASE SwapAbandoned
  BY <1>0, <1>8 DEF SwapAbandoned, Aside, Ending, Delayed, InRound
<1>9. CASE EndRound
  <2>1. sent.from = worker.best
    BY <1>9, SentAtEnd DEF EndRound
  <2>2. /\ UNCHANGED <<flags, sent>> /\ worker.pc = "pour" /\ worker'.pc = "top"
    BY <1>0, <1>9 DEF EndRound, AtW, Aside
  <2> QED
    BY <2>1, <2>2 DEF Delayed, InRound
<1>10. CASE WaitForData \/ Start \/ NotifyStop \/ Join
  <2>1. UNCHANGED <<flags, sent>>
    BY <1>10 DEF WaitForData, Start, NotifyStop, Join, Aside, Others
  <2>2. worker' = worker \/ (~InRound /\ worker'.pc \in {"asleep", "top", "woken", "off"})
    BY <1>0, <1>10
       DEF WaitForData, Start, NotifyStop, Join, Go, AtW, Awake, Ending, InRound
  <2> QED
    BY <2>1, <2>2 DEF Delayed, InRound
<1>11. CASE ClearRunning \/ SetProceed \/ DelayPasses
  <2>1. /\ UNCHANGED <<worker, sent>> /\ flags'.lastPriority = flags.lastPriority
        /\ flags'.recent => flags.recent
        /\ flags'.running => flags.running
    BY <1>0, <1>11 DEF ClearRunning, SetProceed, DelayPasses, Others, Aside
  <2> QED
    BY <1>0, <2>1 DEF Delayed, InRound
<1>12. CASE UNCHANGED <<worker, flags, sent>>
  BY <1>12 DEF Delayed, InRound
<1> QED
  BY <1>1, <1>2, <1>3, <1>4, <1>5, <1>6, <1>7, <1>8, <1>9, <1>10, <1>11, <1>12
     DEF Next, WorkerStep, StopGoesOn, vars, Aside, Others, Take, StopReaders, StopOut

(* The invariant holds at the beginning.                                    *)
LEMMA InvariantAtFirst == Init => IInv
<1> SUFFICES ASSUME Init PROVE IInv
  OBVIOUS
<1> USE MergerAssumption DEF Init
<1>1. /\ list \in Seq(Streams) /\ Len(list) = 1 /\ DOMAIN list = {1} /\ list[1] = Default
  OBVIOUS
<1>2. Bound /\ Readers /\ Received
  BY <1>1 DEF Bound, Readers, Received, IsInjective
<1>3. AtWork /\ Flagged /\ Counted
  BY <1>1 DEF AtWork, Flagged, Counted, InRound, Pcs
<1>4. Output
  BY DEF Output, NoBatch
<1>5. \A s \in Streams : Collected(s) = 0 /\ Len(data[s]) = 0 /\ sent.last[s] = 0
  BY DEF Collected
<1>6. \A s \in Streams : NextOf(s) = 1 /\ Waiting(s)
  BY <1>5 DEF NextOf, Waiting
<1>7. Round /\ Ending /\ NoHole /\ Delayed
  BY <1>5, <1>6 DEF Round, Ending, NoHole, Delayed, InRound
<1> QED
  BY <1>2, <1>3, <1>4, <1>6, <1>7 DEF IInv, Types

(* The invariant holds throughout.                                          *)
THEOREM Invariant == Spec => []IInv
<1>1. ASSUME IInv, [Next]_vars PROVE IInv'
  BY <1>1, TypesKept, RoundKept, EndingKept, NoHoleKept, DelayedKept, WaitingKept DEF IInv
<1> QED
  BY <1>1, InvariantAtFirst, PTL DEF Spec

(* Whatever the streams, their priorities and blocks, the merger's state is of *)
(* its types: above all no batch is longer than one may be, no stream is bound  *)
(* twice, and the worker's place is in the list or just after it.             *)
THEOREM TypeCorrect == Spec => []TypeOK
<1>1. IInv => TypeOK
  BY DEF IInv, Types, Bound, Readers, Received, AtWork, Pcs, Flagged, Output, Counted, TypeOK
<1> QED
  BY <1>1, Invariant, PTL

(* Only the worker's swap puts a batch into the output.                     *)
LEMMA OnlySwapSends ==
  ASSUME IInv, [Next]_vars, Sends(out'.batch)
  PROVE  /\ SwapBatch /\ worker.best \in Streams
         /\ out'.batch = [stream |-> worker.best, samples |-> Taken(worker.best)]
<1>1. out'.batch # out.batch /\ out'.batch # NoBatch
  BY DEF Sends
<1>2. out \in [batch : [stream : Streams \cup {None}, samples : Seq(Samples)], stop : BOOLEAN]
  BY DEF IInv, Types, Output
<1>3. SwapBatch
  BY <1>1, <1>2
     DEF Next, ReaderGoesOn, WorkerStep, StopGoesOn, vars, Aside, Rest, Others, ReadBlock,
         ReadStops, Collect, NotifyWorker, BindStream, Top, WaitForData,
         Wake, Pick, NothingToSend, Choose, DropOther, FillBatch, SwapAbandoned, EndRound, Take,
         DelayPasses, UnbindStream, Start, StopReaders, ClearRunning, SetProceed, NotifyStop,
         StopOut, Join
<1>4. worker.best \in Streams
  BY <1>3, RoundAtSwap DEF IInv, SwapBatch
<1>5. out'.batch = [stream |-> worker.best, samples |-> Taken(worker.best)]
  BY <1>2, <1>3 DEF SwapBatch
<1> QED
  BY <1>3, <1>4, <1>5

(* What the output gets of a stream comes in the order it came in, later than  *)
(* all that was sent of it before, and without a hole as long as the output    *)
(* stays with the stream.                                                   *)
THEOREM SentInOrder == Spec => InOrder
<1>1. ASSUME IInv, [Next]_vars, NEW s \in Streams, out'.batch.stream = s, Sends(out'.batch)
      PROVE  LET b == out'.batch.samples
             IN  /\ b # <<>> /\ b[1] > sent.last[s]
                 /\ s = sent.from => b[1] = sent.last[s] + 1
                 /\ \A i \in 1..(Len(b) - 1) : b[i] < b[i + 1]
  <2>1. /\ SwapBatch /\ s = worker.best /\ out'.batch.samples = Taken(s)
    BY <1>1, OnlySwapSends
  <2>2. /\ Len(Taken(s)) \in Nat /\ Len(Taken(s)) > 0 /\ NextOf(s) \in Int
        /\ \A i \in 1..Len(Taken(s)) : Taken(s)[i] = NextOf(s) + i - 1
    BY <1>1, <2>1, Sent DEF IInv
  <2>3. NextOf(s) > sent.last[s]
    BY <1>1 DEF IInv, Waiting
  <2>4. ASSUME s = sent.from PROVE NextOf(s) = sent.last[s] + 1
    BY <1>1, <2>1, <2>4 DEF IInv, NoHole, Replacing, Ended, InRound, SwapBatch, AtW
  <2>5. Taken(s) # <<>> /\ Taken(s)[1] = NextOf(s)
    BY <2>2
  <2>6. ASSUME NEW i \in 1..(Len(Taken(s)) - 1) PROVE Taken(s)[i] < Taken(s)[i + 1]
    <3>1. i \in 1..Len(Taken(s)) /\ i + 1 \in 1..Len(Taken(s))
      BY <2>2
    <3>2. Taken(s)[i] = NextOf(s) + i - 1 /\ Taken(s)[i + 1] = NextOf(s) + (i + 1) - 1
      BY <2>2, <3>1
    <3> QED
      BY <2>2, <3>2
  <2> QED
    BY <2>1, <2>3, <2>4, <2>5, <2>6
<1>2. IInv /\ [Next]_vars =>
        [\A s \in Streams : out'.batch.stream = s /\ Sends(out'.batch) =>
           LET b == out'.batch.samples
           IN  /\ b # <<>> /\ b[1] > sent.last[s]
               /\ s = sent.from => b[1] = sent.last[s] + 1
               /\ \A i \in 1..(Len(b) - 1) : b[i] < b[i + 1]]_vars
  BY <1>1
<1> QED
  BY <1>2, Invariant, PTL DEF Spec, InOrder

(* Within SWITCH_DELAY of the last choice nothing of a less important stream is *)
(* sent.                                                                    *)
THEOREM NoFallback == Spec => NoQuickFallback
<1>1. ASSUME IInv, [Next]_vars, Sends(out'.batch), worker.young
      PROVE  Priority[out'.batch.stream] <= Priority[sent.from]
  <2>1. SwapBatch /\ out'.batch.stream = worker.best
    BY <1>1, OnlySwapSends
  <2> QED
    BY <1>1, <2>1 DEF IInv, Delayed, SwapBatch, AtW
<1>2. IInv /\ [Next]_vars =>
        [Sends(out'.batch) /\ worker.young
           => Priority[out'.batch.stream] <= Priority[sent.from]]_vars
  BY <1>1
<1> QED
  BY <1>2, Invariant, PTL DEF Spec, NoQuickFallback

(* A merger begins its first life when it is started.                       *)
LEMMA LivesAtFirst == Init => Lives
BY DEF Init, Lives

(* A step that starts nothing and does not leave the end of a life.         *)
LEMMA LivesLeft ==
  ASSUME IInv, Lives, starts' = starts,
         flags'.running => flags.running,
         control = "off" <=> control' = "off",
         starts > 1 => worker'.pc \in {"off", "top", "done"}
  PROVE  Lives'
BY DEF Lives

(* Each step keeps the lives apart.                                         *)
LEMMA LivesKept ==
  ASSUME IInv, Lives, [Next]_vars
  PROVE  Lives'
<1>0. /\ worker \in [pc : Pcs, at : 1..(Len(list) + 1),
                      best : Streams \cup {None}, young : BOOLEAN]
      /\ flags \in [running : BOOLEAN, proceed : BOOLEAN, lastPriority : Int, recent : BOOLEAN]
      /\ starts \in Nat
  BY MergerAssumption DEF IInv, Types, AtWork, Flagged, Counted
<1>1. CASE Top
  BY <1>0, <1>1, LivesLeft DEF Top, AtW, Aside, Lives, NewRound
<1>2. CASE Start
  <2>1. starts' = starts + 1 /\ control = "off" /\ control' = "on" /\ flags' = flags
    BY <1>2 DEF Start
  <2>2. worker'.pc = "top"
    BY <1>0, <1>2 DEF Start
  <2> QED
    BY <1>0, <2>1, <2>2 DEF Lives
<1>3. CASE Join
  <2>1. starts' = starts /\ control = "join" /\ control' = "off" /\ flags' = flags
    BY <1>3 DEF Join, Phase, Others
  <2>2. worker'.pc = "off"
    BY <1>0, <1>3 DEF Join
  <2>3. ~flags.running
    BY <2>1 DEF IInv, Ending
  <2> QED
    BY <1>0, <2>1, <2>2, <2>3 DEF Lives
<1>4. CASE WaitForData \/ Wake \/ Pick \/ NothingToSend \/ Choose \/ DropOther \/ FillBatch
           \/ SwapBatch \/ SwapAbandoned \/ EndRound
  <2>1. worker.pc \in {"wait", "woken", "pick", "pour", "swap"}
    BY <1>4 DEF WaitForData, Wake, Pick, NothingToSend, Choose, DropOther, FillBatch,
                SwapBatch, SwapAbandoned, EndRound, AtW
  <2>2. ~(starts > 1)
    BY <2>1 DEF Lives
  <2>3. UNCHANGED <<starts, control>>
    BY <1>4 DEF WaitForData, Wake, Pick, NothingToSend, Choose, DropOther, FillBatch,
                SwapBatch, SwapAbandoned, EndRound, Aside
  <2>4. flags'.running = flags.running
    BY <1>0, <1>4 DEF WaitForData, Wake, Pick, NothingToSend, Choose, DropOther, FillBatch,
                      SwapBatch, SwapAbandoned, EndRound
  <2> QED
    BY <2>2, <2>3, <2>4, LivesLeft
<1>5. CASE \/ \E s \in Streams : \/ ReadBlock(s) \/ ReaderGoesOn(s)
                                 \/ BindStream(s) \/ UnbindStream(s)
           \/ NotifyStop
  <2>1. starts' = starts /\ flags' = flags /\ (control = "off" <=> control' = "off")
    BY <1>5 DEF ReadBlock, ReaderGoesOn, ReadStops, Collect, NotifyWorker, BindStream,
                UnbindStream, NotifyStop, Phase, Others, Rest
  <2>2. worker' \in {worker, Awake}
    BY <1>5 DEF ReadBlock, ReaderGoesOn, ReadStops, Collect, NotifyWorker, BindStream,
                UnbindStream, NotifyStop
  <2>3. starts > 1 => worker' = worker
    BY <1>0, <2>2 DEF Awake, Lives, AtW
  <2> QED
    BY <2>1, <2>3, LivesLeft DEF Lives
<1>6. CASE Take \/ DelayPasses \/ StopReaders \/ ClearRunning \/ SetProceed \/ StopOut
  <2>1. starts' = starts /\ worker' = worker /\ (control = "off" <=> control' = "off")
    BY <1>6 DEF Take, DelayPasses, StopReaders, ClearRunning, SetProceed, StopOut,
                Phase, Others, Aside
  <2>2. flags'.running => flags.running
    BY <1>0, <1>6 DEF Take, DelayPasses, StopReaders, ClearRunning, SetProceed, StopOut
  <2> QED
    BY <2>1, <2>2, LivesLeft DEF Lives
<1>7. CASE UNCHANGED vars
  BY <1>7 DEF vars, Lives
<1> QED
  BY <1>1, <1>2, <1>3, <1>4, <1>5, <1>6, <1>7 DEF Next, WorkerStep, StopGoesOn

(* SentBeforeFirstStop: nothing comes out of a merger that has been stopped    *)
(* and started again (run, which tests the running of its own).              *)
THEOREM NothingAfterStop == Spec => SentBeforeFirstStop
<1>1. Lives /\ IInv /\ [Next]_vars => Lives'
  BY LivesKept
<1>2. ASSUME IInv, Lives, [Next]_vars, Sends(out'.batch)
      PROVE  starts = 1 /\ control # "off"
  <2>1. worker.pc = "swap"
    BY <1>2, OnlySwapSends DEF SwapBatch, AtW
  <2>2. control # "off"
    BY <1>2, <2>1 DEF IInv, Ending
  <2>3. starts \in Nat
    BY <1>2, MergerAssumption DEF IInv, Types, Counted
  <2> QED
    BY <1>2, <2>1, <2>2, <2>3 DEF Lives
<1>3. IInv /\ Lives /\ [Next]_vars =>
        [Sends(out'.batch) => starts = 1 /\ control # "off"]_vars
  BY <1>2
<1> QED
  BY <1>1, <1>3, LivesAtFirst, Invariant, PTL DEF Spec, SentBeforeFirstStop
=============================================================================
