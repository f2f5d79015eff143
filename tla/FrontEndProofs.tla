---------------------------- MODULE FrontEndProofs ----------------------------
(***************************************************************************)
(* Proofs about FrontEnd for any set of VFOs, any ring and any number of     *)
(* frames: an operation that has begun is one of a few lists of block        *)
(* operations, and where it has come to tells what is stopped by then; every *)
(* VFO delivers its frames in order; and every operation joins only workers  *)
(* that are there and have been told.                                        *)
(***************************************************************************)
EXTENDS FrontEnd, FiniteSetTheorems, SequenceTheorems, TLAPS

-----------------------------------------------------------------------------
(* The lists of streams: std::vector's push_back and erase                  *)

(* erase takes one stream out of a list that has no stream twice.           *)
LEMMA EraseOne ==
  ASSUME NEW S, NEW s \in Seq(S), NEW i \in DOMAIN s, IsInjective(s)
  PROVE  /\ RemoveAt(s, i) \in Seq(S) /\ IsInjective(RemoveAt(s, i))
         /\ ToSet(RemoveAt(s, i)) = ToSet(s) \ {s[i]}
<1>1. i \in 1..Len(s) /\ DOMAIN s = 1..Len(s) /\ Len(s) \in Nat
  OBVIOUS
<1> DEFINE a == SubSeq(s, 1, i - 1)
           b == SubSeq(s, i + 1, Len(s))
           t == RemoveAt(s, i)
<1>2. a \in Seq(S) /\ Len(a) = i - 1 /\ \A j \in 1..(i - 1) : a[j] = s[j]
  BY <1>1, SubSeqProperties
<1>3. b \in Seq(S) /\ Len(b) = Len(s) - i /\ \A j \in 1..(Len(s) - i) : b[j] = s[i + j]
  BY <1>1, SubSeqProperties
<1>4. t = a \o b
  BY DEF RemoveAt
<1> HIDE DEF a, b, t
<1>5. t \in Seq(S) /\ Len(t) = Len(s) - 1
  <2>1. t \in Seq(S) /\ Len(t) = Len(a) + Len(b)
    BY <1>2, <1>3, <1>4, ConcatProperties
  <2> QED
    BY <1>1, <1>2, <1>3, <2>1
<1>6. ASSUME NEW j \in 1..(Len(s) - 1) PROVE t[j] = IF j < i THEN s[j] ELSE s[j + 1]
  <2>1. t[j] = IF j <= Len(a) THEN a[j] ELSE b[j - Len(a)]
    BY <1>1, <1>2, <1>3, <1>4, ConcatProperties
  <2>2. CASE j < i
    BY <1>1, <1>2, <2>1, <2>2
  <2>3. CASE ~(j < i)
    <3>1. j - Len(a) \in 1..(Len(s) - i) /\ i + (j - Len(a)) = j + 1
      BY <1>1, <1>2, <2>3
    <3> QED
      BY <1>1, <1>2, <1>3, <2>1, <2>3, <3>1
  <2> QED
    BY <2>2, <2>3
<1>7. DOMAIN t = 1..(Len(s) - 1)
  BY <1>5
<1>8. IsInjective(t)
  <2> SUFFICES ASSUME NEW j \in 1..(Len(s) - 1), NEW k \in 1..(Len(s) - 1), t[j] = t[k]
               PROVE  j = k
    BY <1>7 DEF IsInjective
  <2> DEFINE From(m) == IF m < i THEN m ELSE m + 1
  <2>1. From(j) \in DOMAIN s /\ From(k) \in DOMAIN s
    BY <1>1
  <2>2. t[j] = s[From(j)] /\ t[k] = s[From(k)]
    BY <1>6
  <2> HIDE DEF From
  <2>3. From(j) = From(k)
    BY <2>1, <2>2 DEF IsInjective
  <2> QED
    BY <1>1, <2>3 DEF From
<1>9. ASSUME NEW x \in ToSet(t) PROVE x \in ToSet(s) \ {s[i]}
  BY <1>1, <1>6, <1>7 DEF ToSet, IsInjective
<1>10. ASSUME NEW x \in ToSet(s), x # s[i] PROVE x \in ToSet(t)
  <2>1. PICK k \in 1..Len(s) : x = s[k]
    BY <1>1 DEF ToSet
  <2>2. CASE k < i
    <3>1. k \in 1..(Len(s) - 1) /\ t[k] = x
      BY <1>1, <1>6, <2>1, <2>2
    <3> QED
      BY <1>7, <3>1 DEF ToSet
  <2>3. CASE k > i
    <3>1. k - 1 \in 1..(Len(s) - 1) /\ t[k - 1] = x
      BY <1>1, <1>6, <2>1, <2>3
    <3> QED
      BY <1>7, <3>1 DEF ToSet
  <2> QED
    BY <1>1, <1>10, <2>1, <2>2, <2>3
<1> QED
  BY <1>5, <1>8, <1>9, <1>10 DEF t

(* push_back adds one that is not in the list.                              *)
LEMMA PushBack ==
  ASSUME NEW S, NEW s \in Seq(S), NEW x \in S, IsInjective(s), x \notin ToSet(s)
  PROVE  /\ Append(s, x) \in Seq(S) /\ IsInjective(Append(s, x))
         /\ ToSet(Append(s, x)) = ToSet(s) \cup {x}
<1>1. DOMAIN s = 1..Len(s) /\ Len(s) \in Nat
  OBVIOUS
<1>2. /\ Append(s, x) \in Seq(S) /\ Len(Append(s, x)) = Len(s) + 1
      /\ \A j \in 1..Len(s) : Append(s, x)[j] = s[j]
      /\ Append(s, x)[Len(s) + 1] = x
  BY AppendProperties
<1>3. DOMAIN Append(s, x) = 1..(Len(s) + 1)
  BY <1>2
<1> DEFINE t == Append(s, x)
<1> HIDE DEF t
<1>4. t \in Seq(S) /\ DOMAIN t = 1..(Len(s) + 1) /\ t[Len(s) + 1] = x
  BY <1>2, <1>3 DEF t
<1>5. \A j \in 1..Len(s) : t[j] = s[j]
  BY <1>2 DEF t
<1>6. IsInjective(t)
  BY <1>1, <1>4, <1>5 DEF IsInjective, ToSet
<1>7. ToSet(t) = ToSet(s) \cup {x}
  <2>1. ASSUME NEW y \in ToSet(t) PROVE y \in ToSet(s) \cup {x}
    BY <1>1, <1>4, <1>5 DEF ToSet
  <2>2. ASSUME NEW y \in ToSet(s) PROVE y \in ToSet(t)
    BY <1>1, <1>4, <1>5 DEF ToSet
  <2>3. x \in ToSet(t)
    BY <1>1, <1>4 DEF ToSet
  <2> QED
    BY <2>1, <2>2, <2>3
<1> QED
  BY <1>4, <1>6, <1>7 DEF t

(* Lists written out.                                                       *)
LEMMA Lists ==
  ASSUME NEW S, NEW a \in S, NEW b \in S, NEW c \in S, NEW d \in S, NEW e \in S, NEW f \in S
  PROVE  /\ <<a>> \in Seq(S) /\ <<a, b>> \in Seq(S) /\ <<a, b, c>> \in Seq(S)
         /\ <<a, b, c, d>> \in Seq(S) /\ <<a, b, c, d, e>> \in Seq(S)
         /\ <<a, b, c, d, e, f>> \in Seq(S)
  OBVIOUS

-----------------------------------------------------------------------------
(* Block operations that may be done at any time.                           *)
Plain == ({"start", "stop"} \X ({"src", "split"} \cup vfos))
         \cup ({"pause", "resume"} \X ({"src"} \cup vfos))
         \cup {<<"flush", "src">>}

(* addVFO, until the splitter works again.                                  *)
Adding(v) ==
  \/ /\ todo = <<<<"new", v>>, <<"pause", "split">>, <<"bind", v>>, <<"resume", "split">>,
                 <<"start", v>>>>
     /\ v \notin vfos
  \/ /\ todo = <<<<"pause", "split">>, <<"bind", v>>, <<"resume", "split">>, <<"start", v>>>>
     /\ v \in vfos /\ v \notin ToSet(streams)
  \/ /\ todo = <<<<"bind", v>>, <<"resume", "split">>, <<"start", v>>>>
     /\ v \in vfos /\ v \notin ToSet(streams) /\ wpc["split"] = "off"
  \/ /\ todo = <<<<"resume", "split">>, <<"start", v>>>>
     /\ v \in vfos /\ wpc["split"] = "off"

(* removeVFO.                                                               *)
Removing(v) ==
  /\ v \in vfos
  /\ \/ todo = <<<<"stop", v>>, <<"stop", v>>, <<"pause", "split">>, <<"unbind", v>>,
                 <<"resume", "split">>, <<"delete", v>>>>
     \/ /\ wpc[v] = "off"
        /\ \/ todo = <<<<"stop", v>>, <<"pause", "split">>, <<"unbind", v>>,
                       <<"resume", "split">>, <<"delete", v>>>>
           \/ todo = <<<<"pause", "split">>, <<"unbind", v>>, <<"resume", "split">>,
                       <<"delete", v>>>>
           \/ /\ todo = <<<<"unbind", v>>, <<"resume", "split">>, <<"delete", v>>>>
              /\ wpc["split"] = "off"
           \/ /\ todo = <<<<"resume", "split">>, <<"delete", v>>>>
              /\ v \notin ToSet(streams) /\ wpc["split"] = "off"
           \/ /\ todo = <<<<"delete", v>>>>
              /\ v \notin ToSet(streams)

UnderWay == todo \in Seq(Plain) \/ \E v \in Vfos : Adding(v) \/ Removing(v)

(* What is stopped, bound and fed.                                          *)
Attached == /\ NothingDangles
            /\ IsInjective(streams)
            /\ \A b \in Blocks : b \notin running => wpc[b] = "off"
            /\ wpc["split"] # "copy" => target = 1

IInv == TypeOK /\ UnderWay /\ Attached

-----------------------------------------------------------------------------
(* The VFOs can be listed, and one block operation on each is plain.        *)
LEMMA EachPlain ==
  ASSUME TypeOK, NEW k \in {"start", "stop", "pause", "resume"}
  PROVE  ForEach(k, VfoOrder) \in Seq(Plain)
<1>1. IsFiniteSet(vfos)
  BY FrontEndAssumption, FS_Subset DEF TypeOK
<1>2. \E f \in [1..Cardinality(vfos) -> vfos] : IsInjective(f)
  BY <1>1, FS_CardinalityType DEF ExistsBijection, Bijection, Injection, IsInjective
<1>3. VfoOrder \in [1..Cardinality(vfos) -> vfos]
  BY <1>2 DEF VfoOrder, SetToSeq
<1>4. ForEach(k, VfoOrder) \in [1..Cardinality(vfos) -> Plain]
  BY <1>3 DEF ForEach, Plain
<1>5. Cardinality(vfos) \in Nat
  BY <1>1, FS_CardinalityType
<1> QED
  BY <1>4, <1>5, SeqDef

(* What stands at the head of an operation under way, and what it leaves.   *)
LEMMA PlainAdvances ==
  ASSUME todo \in Seq(Plain), NEW k, NEW b, Doing(k, b), Done
  PROVE  /\ <<k, b>> \in Plain
         /\ todo' \in Seq(Plain)
  BY HeadTailProperties DEF Doing, Done

(* The operations only addVFO and removeVFO contain.                        *)
LEMMA NotPlain ==
  ASSUME NEW k \in {"new", "bind", "unbind", "delete"}, NEW v, Doing(k, v)
  PROVE  todo \notin Seq(Plain)
<1> SUFFICES ASSUME todo \in Seq(Plain) PROVE FALSE
  OBVIOUS
<1>1. Head(todo) \in Plain
  BY HeadTailProperties DEF Doing
<1> QED
  BY <1>1 DEF Plain, Doing

(* A start: the block is there.                                             *)
LEMMA StartAdvances ==
  ASSUME IInv, NEW b \in Blocks, Doing("start", b), Done, UNCHANGED <<vfos, streams>>
  PROVE  b \in {"src", "split"} \cup vfos /\ UnderWay'
<1>1. todo \in Seq(Plain)
  BY DEF IInv, UnderWay, Adding, Removing, Doing
<1>2. <<"start", b>> \in Plain /\ todo' \in Seq(Plain)
  BY <1>1, PlainAdvances
<1> QED
  BY <1>2 DEF UnderWay, Plain

(* A stop, or a pause, that is over: the block is off.                      *)
LEMMA StopAdvances ==
  ASSUME IInv, NEW b \in Blocks, Doing("stop", b) \/ Doing("pause", b), Done,
         UNCHANGED <<vfos, streams>>, wpc' = [wpc EXCEPT ![b] = "off"]
  PROVE  UnderWay'
<1>1. CASE todo \in Seq(Plain)
  BY <1>1, PlainAdvances DEF UnderWay, Plain
<1>2. ASSUME NEW v \in Vfos, Adding(v) PROVE UnderWay'
  <2>1. b = "split" /\ todo' = <<<<"bind", v>>, <<"resume", "split">>, <<"start", v>>>>
    <3>1. todo = <<<<"pause", "split">>, <<"bind", v>>, <<"resume", "split">>, <<"start", v>>>>
      BY <1>2 DEF Adding, Doing
    <3> QED
      BY <3>1 DEF Doing, Done
  <2>2. v \in vfos /\ v \notin ToSet(streams)
    BY <1>2 DEF Adding, Doing
  <2> QED
    BY <2>1, <2>2 DEF IInv, TypeOK, UnderWay, Adding, Blocks
<1>3. ASSUME NEW v \in Vfos, Removing(v) PROVE UnderWay'
  <2>1. v \in vfos /\ v \in Blocks
    BY <1>3 DEF Removing, Blocks
  <2>2. CASE todo = <<<<"stop", v>>, <<"stop", v>>, <<"pause", "split">>, <<"unbind", v>>,
                      <<"resume", "split">>, <<"delete", v>>>>
    <3>1. b = v /\ todo' = <<<<"stop", v>>, <<"pause", "split">>, <<"unbind", v>>,
                             <<"resume", "split">>, <<"delete", v>>>>
      BY <2>2 DEF Doing, Done
    <3> QED
      BY <2>1, <3>1 DEF IInv, TypeOK, UnderWay, Removing
  <2>3. CASE /\ wpc[v] = "off"
             /\ todo = <<<<"stop", v>>, <<"pause", "split">>, <<"unbind", v>>,
                         <<"resume", "split">>, <<"delete", v>>>>
    <3>1. todo' = <<<<"pause", "split">>, <<"unbind", v>>, <<"resume", "split">>,
                    <<"delete", v>>>>
      BY <2>3 DEF Done
    <3> QED
      BY <2>1, <2>3, <3>1 DEF IInv, TypeOK, UnderWay, Removing
  <2>4. CASE /\ wpc[v] = "off"
             /\ todo = <<<<"pause", "split">>, <<"unbind", v>>, <<"resume", "split">>,
                         <<"delete", v>>>>
    <3>1. b = "split" /\ todo' = <<<<"unbind", v>>, <<"resume", "split">>, <<"delete", v>>>>
      BY <2>4 DEF Doing, Done
    <3> QED
      BY <2>1, <2>4, <3>1 DEF IInv, TypeOK, UnderWay, Removing, Blocks
  <2> QED
    BY <1>3, <2>2, <2>3, <2>4 DEF Removing, Doing
<1> QED
  BY <1>1, <1>2, <1>3 DEF IInv, UnderWay

(* A resume: the block is there, and the splitter was paused.               *)
LEMMA ResumeAdvances ==
  ASSUME IInv, NEW b \in Blocks, Doing("resume", b), Done, UNCHANGED <<vfos, streams>>,
         \A c \in Blocks \ {b} : wpc'[c] = wpc[c]
  PROVE  /\ b \in {"src", "split"} \cup vfos
         /\ b = "split" => wpc["split"] = "off"
         /\ UnderWay'
<1> DEFINE Goal == /\ b \in {"src", "split"} \cup vfos
                   /\ b = "split" => wpc["split"] = "off"
                   /\ UnderWay'
<1>1. CASE todo \in Seq(Plain)
  <2>1. <<"resume", b>> \in Plain /\ todo' \in Seq(Plain)
    BY <1>1, PlainAdvances
  <2>2. b \in {"src"} \cup vfos
    BY <2>1 DEF Plain
  <2>3. b # "split"
    BY <2>2, FrontEndAssumption DEF IInv, TypeOK
  <2> QED
    BY <2>1, <2>2, <2>3 DEF UnderWay, Plain
<1>2. ASSUME NEW v \in Vfos, Adding(v) PROVE Goal
  <2>1. /\ todo = <<<<"resume", "split">>, <<"start", v>>>>
        /\ v \in vfos /\ wpc["split"] = "off"
    BY <1>2 DEF Adding, Doing
  <2>2. b = "split" /\ todo' = <<<<"start", v>>>>
    BY <2>1 DEF Doing, Done
  <2>3. todo' \in Seq(Plain')
    BY <2>1, <2>2 DEF Plain
  <2> QED
    BY <2>1, <2>2, <2>3 DEF UnderWay
<1>3. ASSUME NEW v \in Vfos, Removing(v) PROVE Goal
  <2>1. /\ todo = <<<<"resume", "split">>, <<"delete", v>>>>
        /\ v \in vfos /\ v \notin ToSet(streams) /\ wpc[v] = "off" /\ wpc["split"] = "off"
    BY <1>3 DEF Removing, Doing
  <2>2. b = "split" /\ todo' = <<<<"delete", v>>>>
    BY <2>1 DEF Doing, Done
  <2>3. v # "split" /\ wpc'[v] = "off"
    BY <2>1, <2>2, FrontEndAssumption DEF Blocks
  <2> QED
    BY <2>1, <2>2, <2>3 DEF UnderWay, Removing
<1> QED
  BY <1>1, <1>2, <1>3 DEF IInv, UnderWay

(* A worker that goes on leaves the operation under way alone.              *)
LEMMA WorkerGoesOn ==
  ASSUME IInv, UNCHANGED control, \A b \in Blocks : wpc'[b] = "off" <=> wpc[b] = "off",
         wpc'["split"] # "copy" => target' = 1
  PROVE  UnderWay' /\ Attached'
<1>1. UnderWay'
  BY FrontEndAssumption DEF IInv, control, UnderWay, Plain, Adding, Removing, Blocks
<1>2. Attached'
  BY DEF IInv, control, Attached, NothingDangles, Blocks
<1> QED
  BY <1>1, <1>2

-----------------------------------------------------------------------------
(* A front end with no VFOs.                                                *)
LEMMA InitIInv == Init => IInv
<1> SUFFICES ASSUME Init PROVE IInv
  OBVIOUS
<1> USE FrontEndAssumption DEF Init
<1>1. TypeOK
  <2>1. streams \in Seq(Vfos) /\ target \in 1..(Len(streams) + 1)
    OBVIOUS
  <2>2. /\ chan \in [Streams -> Frames \cup {NoFrame}] /\ cur \in [Blocks -> Frames \cup {NoFrame}]
        /\ wpc \in [Blocks -> Pcs]
    BY DEF Pcs
  <2>3. /\ produced \in 0..MaxFrames /\ taken \in 0..produced /\ produced - taken < RingSize
        /\ last \in [Vfos -> 0..MaxFrames] /\ disturbed \in [Vfos -> 0..MaxFrames]
    OBVIOUS
  <2> QED
    BY <2>1, <2>2, <2>3 DEF TypeOK
<1>2. UnderWay
  BY DEF UnderWay
<1>3. Attached
  BY DEF Attached, NothingDangles, ToSet, IsInjective, Blocks
<1> QED
  BY <1>1, <1>2, <1>3 DEF IInv

(* The ring gets a frame, and counts as empty if it is full then.           *)
LEMMA SourcePushesKeeps == ASSUME IInv, SourcePushes PROVE IInv'
<1> USE FrontEndAssumption DEF IInv, SourcePushes, RingIsFree, Disturb, NotifyRing, control,
     ring
<1>1. TypeOK'
    BY DEF TypeOK, Attached, Blocks, Streams, Frames, NoFrame, Into, In, Pcs
<1>2. \A b \in Blocks : wpc'[b] = "off" <=> wpc[b] = "off"
  BY DEF TypeOK, Blocks
<1>3. wpc'["split"] # "copy" => target' = 1
  BY DEF TypeOK, Attached, Blocks
<1> QED
  BY <1>1, <1>2, <1>3, WorkerGoesOn

(* The first worker of the buffer ends.                                     *)
LEMMA SourceReadEndsKeeps == ASSUME IInv, SourceReadEnds PROVE IInv'
<1> USE FrontEndAssumption DEF IInv, SourceReadEnds, control, ring
<1>1. TypeOK'
    BY DEF TypeOK, Attached, Blocks, Streams, Frames, NoFrame, Into, In, Pcs
<1>2. \A b \in Blocks : wpc'[b] = "off" <=> wpc[b] = "off"
  BY DEF TypeOK, Blocks
<1>3. wpc'["split"] # "copy" => target' = 1
  BY DEF TypeOK, Attached, Blocks
<1> QED
  BY <1>1, <1>2, <1>3, WorkerGoesOn

(* The second takes a frame out, ends or is about to wait,                  *)
LEMMA SourceTestsKeeps == ASSUME IInv, SourceTests PROVE IInv'
<1> USE FrontEndAssumption DEF IInv, SourceTests, Goto, control, ring
<1>1. TypeOK'
  <2>1. taken' \in 0..produced /\ produced - taken' < RingSize
    BY DEF TypeOK
  <2>2. cur' \in [Blocks -> Frames \cup {NoFrame}]
    <3>1. taken < produced => taken + 1 \in Frames
      BY DEF TypeOK, Frames
    <3> QED
      BY <3>1 DEF TypeOK
  <2>3. wpc' \in [Blocks -> Pcs]
    BY DEF TypeOK, Pcs
  <2> QED
    BY <2>1, <2>2, <2>3 DEF TypeOK
<1>2. \A b \in Blocks : wpc'[b] = "off" <=> wpc[b] = "off"
  BY DEF TypeOK, Blocks
<1>3. wpc'["split"] # "copy" => target' = 1
  BY DEF TypeOK, Attached, Blocks
<1> QED
  BY <1>1, <1>2, <1>3, WorkerGoesOn

(* waits,                                                                   *)
LEMMA SourceWaitsKeeps == ASSUME IInv, SourceWaits PROVE IInv'
<1> USE FrontEndAssumption DEF IInv, SourceWaits, Goto, control, ring
<1>1. TypeOK'
    BY DEF TypeOK, Attached, Blocks, Streams, Frames, NoFrame, Into, In, Pcs
<1>2. \A b \in Blocks : wpc'[b] = "off" <=> wpc[b] = "off"
  BY DEF TypeOK, Blocks
<1>3. wpc'["split"] # "copy" => target' = 1
  BY DEF TypeOK, Attached, Blocks
<1> QED
  BY <1>1, <1>2, <1>3, WorkerGoesOn

(* hands the frame on,                                                      *)
LEMMA SourceSwapsKeeps == ASSUME IInv, SourceSwaps PROVE IInv'
<1> USE FrontEndAssumption DEF IInv, SourceSwaps, Goto, Drop, control, ring
<1>1. TypeOK'
    BY DEF TypeOK, Attached, Blocks, Streams, Frames, NoFrame, Into, In, Pcs
<1>2. \A b \in Blocks : wpc'[b] = "off" <=> wpc[b] = "off"
  BY DEF TypeOK, Blocks
<1>3. wpc'["split"] # "copy" => target' = 1
  BY DEF TypeOK, Attached, Blocks
<1> QED
  BY <1>1, <1>2, <1>3, WorkerGoesOn

(* or gives it up.                                                          *)
LEMMA SourceStopsKeeps == ASSUME IInv, SourceStops PROVE IInv'
<1> USE FrontEndAssumption DEF IInv, SourceStops, Goto, Drop, control, ring
<1>1. TypeOK'
    BY DEF TypeOK, Attached, Blocks, Streams, Frames, NoFrame, Into, In, Pcs
<1>2. \A b \in Blocks : wpc'[b] = "off" <=> wpc[b] = "off"
  BY DEF TypeOK, Blocks
<1>3. wpc'["split"] # "copy" => target' = 1
  BY DEF TypeOK, Attached, Blocks
<1> QED
  BY <1>1, <1>2, <1>3, WorkerGoesOn

(* The splitter begins with a frame,                                        *)
LEMMA SplitReadsKeeps == ASSUME IInv, SplitReads PROVE IInv'
<1> USE FrontEndAssumption DEF IInv, SplitReads, Goto, control, ring
<1>1. TypeOK'
    BY DEF TypeOK, Attached, Blocks, Streams, Frames, NoFrame, Into, In, Pcs
<1>2. \A b \in Blocks : wpc'[b] = "off" <=> wpc[b] = "off"
  BY DEF TypeOK, Blocks
<1>3. wpc'["split"] # "copy" => target' = 1
  BY DEF TypeOK, Attached, Blocks
<1> QED
  BY <1>1, <1>2, <1>3, WorkerGoesOn

(* hands it to one stream after the other,                                  *)
LEMMA SplitSwapsKeeps == ASSUME IInv, SplitSwaps PROVE IInv'
<1> USE FrontEndAssumption DEF IInv, SplitSwaps, control, ring
<1>1. TypeOK'
    BY DEF TypeOK, Attached, Blocks, Streams, Frames, NoFrame, Into, In, Pcs
<1>2. \A b \in Blocks : wpc'[b] = "off" <=> wpc[b] = "off"
  BY DEF TypeOK, Blocks
<1>3. wpc'["split"] # "copy" => target' = 1
  BY DEF TypeOK, Attached, Blocks
<1> QED
  BY <1>1, <1>2, <1>3, WorkerGoesOn

(* and lets go of it,                                                       *)
LEMMA SplitFlushesKeeps == ASSUME IInv, SplitFlushes PROVE IInv'
<1> USE FrontEndAssumption DEF IInv, SplitFlushes, Goto, Drop, control, ring
<1>1. TypeOK'
    BY DEF TypeOK, Attached, Blocks, Streams, Frames, NoFrame, Into, In, Pcs
<1>2. \A b \in Blocks : wpc'[b] = "off" <=> wpc[b] = "off"
  BY DEF TypeOK, Blocks
<1>3. wpc'["split"] # "copy" => target' = 1
  BY DEF TypeOK, Attached, Blocks
<1> QED
  BY <1>1, <1>2, <1>3, WorkerGoesOn

(* or gives it up.                                                          *)
LEMMA SplitAbandonsKeeps == ASSUME IInv, SplitAbandons PROVE IInv'
<1> USE FrontEndAssumption DEF IInv, SplitAbandons, Goto, Drop, control, ring
<1>1. TypeOK'
    BY DEF TypeOK, Attached, Blocks, Streams, Frames, NoFrame, Into, In, Pcs
<1>2. \A b \in Blocks : wpc'[b] = "off" <=> wpc[b] = "off"
  BY DEF TypeOK, Blocks
<1>3. wpc'["split"] # "copy" => target' = 1
  BY DEF TypeOK, Attached, Blocks
<1> QED
  BY <1>1, <1>2, <1>3, WorkerGoesOn

(* The splitter ends.                                                       *)
LEMMA SplitStopsKeeps == ASSUME IInv, SplitStops PROVE IInv'
<1> USE FrontEndAssumption DEF IInv, SplitStops, Goto, control, ring
<1>1. TypeOK'
    BY DEF TypeOK, Attached, Blocks, Streams, Frames, NoFrame, Into, In, Pcs
<1>2. \A b \in Blocks : wpc'[b] = "off" <=> wpc[b] = "off"
  BY DEF TypeOK, Blocks
<1>3. wpc'["split"] # "copy" => target' = 1
  BY DEF TypeOK, Attached, Blocks
<1> QED
  BY <1>1, <1>2, <1>3, WorkerGoesOn

(* A VFO takes a frame,                                                     *)
LEMMA VfoReadsKeeps == ASSUME IInv, NEW v \in Vfos, VfoReads(v) PROVE IInv'
<1> USE FrontEndAssumption DEF IInv, VfoReads, Goto, control, ring
<1>1. TypeOK'
    BY DEF TypeOK, Attached, Blocks, Streams, Frames, NoFrame, Into, In, Pcs
<1>2. \A b \in Blocks : wpc'[b] = "off" <=> wpc[b] = "off"
  BY DEF TypeOK, Blocks
<1>3. wpc'["split"] # "copy" => target' = 1
  BY DEF TypeOK, Attached, Blocks
<1> QED
  BY <1>1, <1>2, <1>3, WorkerGoesOn

(* delivers it,                                                             *)
LEMMA VfoDeliversKeeps == ASSUME IInv, NEW v \in Vfos, VfoDelivers(v) PROVE IInv'
<1> USE FrontEndAssumption DEF IInv, VfoDelivers, Goto, Drop, control, ring
<1>1. TypeOK'
    BY DEF TypeOK, Attached, Blocks, Streams, Frames, NoFrame, Into, In, Pcs
<1>2. \A b \in Blocks : wpc'[b] = "off" <=> wpc[b] = "off"
  BY DEF TypeOK, Blocks
<1>3. wpc'["split"] # "copy" => target' = 1
  BY DEF TypeOK, Attached, Blocks
<1> QED
  BY <1>1, <1>2, <1>3, WorkerGoesOn

(* or gives it up.                                                          *)
LEMMA VfoAbandonsKeeps == ASSUME IInv, NEW v \in Vfos, VfoAbandons(v) PROVE IInv'
<1> USE FrontEndAssumption DEF IInv, VfoAbandons, Goto, Drop, control, ring
<1>1. TypeOK'
    BY DEF TypeOK, Attached, Blocks, Streams, Frames, NoFrame, Into, In, Pcs
<1>2. \A b \in Blocks : wpc'[b] = "off" <=> wpc[b] = "off"
  BY DEF TypeOK, Blocks
<1>3. wpc'["split"] # "copy" => target' = 1
  BY DEF TypeOK, Attached, Blocks
<1> QED
  BY <1>1, <1>2, <1>3, WorkerGoesOn

(* A VFO ends.                                                              *)
LEMMA VfoStopsKeeps == ASSUME IInv, NEW v \in Vfos, VfoStops(v) PROVE IInv'
<1> USE FrontEndAssumption DEF IInv, VfoStops, Goto, control, ring
<1>1. TypeOK'
    BY DEF TypeOK, Attached, Blocks, Streams, Frames, NoFrame, Into, In, Pcs
<1>2. \A b \in Blocks : wpc'[b] = "off" <=> wpc[b] = "off"
  BY DEF TypeOK, Blocks
<1>3. wpc'["split"] # "copy" => target' = 1
  BY DEF TypeOK, Attached, Blocks
<1> QED
  BY <1>1, <1>2, <1>3, WorkerGoesOn

-----------------------------------------------------------------------------
(* A call puts plain operations, or the beginning of one of the two lists,   *)
(* where there was nothing to do.                                            *)
LEMMA CallKeeps == ASSUME IInv, UNCHANGED idle, UnderWay' PROVE IInv'
<1>1. TypeOK'
  BY DEF IInv, TypeOK, idle, ring
<1>2. Attached'
  BY DEF IInv, Attached, NothingDangles, idle
<1> QED
  BY <1>1, <1>2 DEF IInv

(* A call of plain operations.                                              *)
LEMMA PlainCall == ASSUME UNCHANGED idle, todo' \in Seq(Plain) PROVE UnderWay'
BY DEF UnderWay, Plain, idle

(* IQFrontEnd::start.                                                       *)
LEMMA StartAllKeeps == ASSUME IInv, StartAll PROVE IInv'
<1>1. ForEach("start", VfoOrder) \in Seq(Plain)
  BY EachPlain DEF IInv
<1>2. <<<<"start", "src">>, <<"start", "split">>>> \in Seq(Plain)
  BY DEF Plain
<1>3. todo' \in Seq(Plain)
  BY <1>1, <1>2, ConcatProperties DEF StartAll, Call
<1> QED
  BY <1>3, PlainCall, CallKeeps DEF StartAll

(* IQFrontEnd::stop.                                                        *)
LEMMA StopAllKeeps == ASSUME IInv, StopAll PROVE IInv'
<1>1. ForEach("stop", VfoOrder) \in Seq(Plain)
  BY EachPlain DEF IInv
<1>2. <<<<"stop", "src">>, <<"stop", "split">>>> \in Seq(Plain)
  BY DEF Plain
<1>3. todo' \in Seq(Plain)
  BY <1>1, <1>2, ConcatProperties DEF StopAll, Call
<1> QED
  BY <1>3, PlainCall, CallKeeps DEF StopAll

(* IQFrontEnd::setSampleRate.                                               *)
LEMMA SetSampleRateKeeps == ASSUME IInv, SetSampleRate PROVE IInv'
<1>1. ForEach("pause", VfoOrder) \in Seq(Plain) /\ ForEach("resume", VfoOrder) \in Seq(Plain)
  BY EachPlain DEF IInv
<1>2. todo' \in Seq(Plain)
  BY <1>1, ConcatProperties DEF SetSampleRate, Call
<1> QED
  BY <1>2, PlainCall, CallKeeps DEF SetSampleRate

(* IQFrontEnd::setInput.                                                    *)
LEMMA SetInputKeeps == ASSUME IInv, SetInput PROVE IInv'
<1>1. todo' \in Seq(Plain)
  BY DEF SetInput, Call, Plain
<1> QED
  BY <1>1, PlainCall, CallKeeps DEF SetInput

(* IQFrontEnd::flushInputBuffer.                                            *)
LEMMA FlushInputBufferKeeps == ASSUME IInv, FlushInputBuffer PROVE IInv'
<1>1. todo' \in Seq(Plain)
  BY DEF FlushInputBuffer, Call, Plain
<1> QED
  BY <1>1, PlainCall, CallKeeps DEF FlushInputBuffer

(* IQFrontEnd::addVFO: nothing else is under way.                           *)
LEMMA AddVFOKeeps == ASSUME IInv, NEW v \in Vfos, AddVFO(v) PROVE IInv'
<1>1. UnderWay'
  BY DEF AddVFO, Call, UnderWay, Adding, idle
<1> QED
  BY <1>1, CallKeeps DEF AddVFO

(* IQFrontEnd::removeVFO.                                                   *)
LEMMA RemoveVFOKeeps == ASSUME IInv, NEW v \in Vfos, RemoveVFO(v) PROVE IInv'
<1>1. UnderWay'
  BY DEF RemoveVFO, Call, UnderWay, Removing, idle
<1> QED
  BY <1>1, CallKeeps DEF RemoveVFO

-----------------------------------------------------------------------------
(* A block is started: if it is a VFO, it exists.                           *)
LEMMA StartBlockKeeps == ASSUME IInv, NEW b \in Blocks, StartBlock(b) PROVE IInv'
<1> USE DEF IInv, StartBlock
<1>1. b \in {"src", "split"} \cup vfos /\ UnderWay'
  BY StartAdvances
<1>2. TypeOK'
  BY DEF TypeOK, Entry, Pcs
<1>3. Attached'
  BY <1>1, FrontEndAssumption DEF TypeOK, Attached, NothingDangles, Entry, Blocks
<1> QED
  BY <1>1, <1>2, <1>3

(* A block is told to stop: nobody is off yet.                              *)
LEMMA TellToStopKeeps == ASSUME IInv, NEW b \in Blocks, TellToStop(b) PROVE IInv'
<1> USE DEF IInv, TellToStop, ring, NotifyRing
<1>1. \A c \in Blocks : wpc'[c] = "off" <=> wpc[c] = "off"
  BY DEF TypeOK
<1>2. wpc'["split"] # "copy" => target' = 1
  <2>1. wpc'["split"] = wpc["split"]
    BY DEF TypeOK, Blocks
  <2> QED
    BY <2>1 DEF Attached
<1>3. UnderWay'
  BY <1>1, FrontEndAssumption DEF UnderWay, Plain, Adding, Removing, Blocks
<1>4. Attached'
  BY <1>1, <1>2 DEF Attached, NothingDangles, Blocks
<1>5. TypeOK'
  <2>1. rstop' \subseteq Streams \cup {Into("src")}
    BY DEF TypeOK, InputsOf, Streams, Blocks, In
  <2>2. wstop' \subseteq Streams \cup {OutOf(v) : v \in Vfos}
    <3>1. ToSet(streams) \subseteq Vfos
      BY DEF TypeOK, ToSet
    <3>2. OutputsOf(b) \subseteq Streams \cup {OutOf(v) : v \in Vfos}
      BY <3>1 DEF OutputsOf, Streams, Blocks
    <3> QED
      BY <3>2 DEF TypeOK
  <2>3. wpc' \in [Blocks -> Pcs]
    BY DEF TypeOK, Pcs
  <2>4. disturbed' \in [Vfos -> 0..MaxFrames]
    <3>1. taken \in 0..MaxFrames
      BY FrontEndAssumption DEF TypeOK
    <3> QED
      BY <3>1 DEF TypeOK, Disturb
  <2> QED
    BY <2>1, <2>2, <2>3, <2>4 DEF TypeOK
<1> QED
  BY <1>3, <1>4, <1>5

(* A block that does not run is off already.                                *)
LEMMA SkipStopKeeps == ASSUME IInv, NEW b \in Blocks, SkipStop(b) PROVE IInv'
<1> USE DEF IInv, SkipStop, idle
<1>1. wpc' = [wpc EXCEPT ![b] = "off"]
  BY DEF TypeOK, Attached
<1>2. UnderWay'
  BY <1>1, StopAdvances
<1> QED
  BY <1>2, CallKeeps

(* A block is joined.                                                       *)
LEMMA JoinBlockKeeps == ASSUME IInv, NEW b \in Blocks, JoinBlock(b) PROVE IInv'
<1> USE DEF IInv, JoinBlock, Goto, ring
<1>1. UnderWay'
  BY StopAdvances
<1>2. TypeOK'
  <2>1. disturbed' \in [Vfos -> 0..MaxFrames]
    <3>1. taken \in 0..MaxFrames
      BY FrontEndAssumption DEF TypeOK
    <3> QED
      BY <3>1 DEF TypeOK, Disturb
  <2>2. wpc' \in [Blocks -> Pcs]
    BY DEF TypeOK, Pcs
  <2> QED
    BY <2>1, <2>2 DEF TypeOK
<1>3. Attached'
  BY FrontEndAssumption DEF TypeOK, Attached, NothingDangles, Blocks
<1> QED
  BY <1>1, <1>2, <1>3

(* A block that was paused goes on.                                         *)
LEMMA ResumeBlockKeeps == ASSUME IInv, NEW b \in Blocks, ResumeBlock(b) PROVE IInv'
<1> USE DEF IInv, ResumeBlock
<1>1. \A c \in Blocks \ {b} : wpc'[c] = wpc[c]
  BY DEF TypeOK
<1>2. /\ b \in {"src", "split"} \cup vfos
      /\ b = "split" => wpc["split"] = "off"
      /\ UnderWay'
  BY <1>1, ResumeAdvances
<1>3. TypeOK'
  BY DEF TypeOK, Entry, Pcs
<1>4. Attached'
  <2>1. NothingDangles'
    BY <1>1, <1>2, FrontEndAssumption DEF Attached, NothingDangles, Blocks
  <2>2. \A c \in Blocks : c \notin running => wpc'[c] = "off"
    BY <1>1 DEF Attached
  <2>3. wpc'["split"] # "copy" => target' = 1
    BY <1>1, <1>2 DEF Attached, Blocks
  <2> QED
    BY <2>1, <2>2, <2>3 DEF Attached
<1> QED
  BY <1>2, <1>3, <1>4

(* The ring is emptied.                                                     *)
LEMMA FlushRingKeeps == ASSUME IInv, FlushRing PROVE IInv'
<1> USE DEF IInv, FlushRing
<1>1. todo \in Seq(Plain)
  BY DEF UnderWay, Adding, Removing, Doing
<1>2. UnderWay'
  BY <1>1, PlainAdvances DEF UnderWay, Plain
<1>3. TypeOK'
  BY FrontEndAssumption DEF TypeOK, Disturb
<1>4. Attached'
  BY DEF Attached, NothingDangles
<1> QED
  BY <1>2, <1>3, <1>4

(* A VFO is made; its stream is not bound.                                  *)
LEMMA NewVFOKeeps == ASSUME IInv, NEW v \in Vfos, NewVFO(v) PROVE IInv'
<1> USE DEF IInv, NewVFO, ring
<1>1. /\ todo = <<<<"new", v>>, <<"pause", "split">>, <<"bind", v>>, <<"resume", "split">>,
                  <<"start", v>>>>
      /\ v \notin vfos
  <2>1. todo \notin Seq(Plain)
    BY NotPlain
  <2>2. PICK w \in Vfos : Adding(w) \/ Removing(w)
    BY <2>1 DEF UnderWay
  <2>3. w = v /\ Adding(v)
    BY <2>2 DEF Adding, Removing, Doing
  <2> QED
    BY <2>3 DEF Adding, Doing
<1>2. UnderWay'
  BY <1>1 DEF UnderWay, Adding, Attached, NothingDangles, Done
<1>3. TypeOK'
  BY DEF TypeOK, NoFrame
<1>4. Attached'
  BY DEF Attached, NothingDangles
<1> QED
  BY <1>2, <1>3, <1>4

(* Its stream is bound, while the splitter is off.                          *)
LEMMA BindStreamKeeps == ASSUME IInv, NEW v \in Vfos, BindStream(v) PROVE IInv'
<1> USE DEF IInv, BindStream, ring
<1>1. /\ todo = <<<<"bind", v>>, <<"resume", "split">>, <<"start", v>>>>
      /\ v \in vfos /\ v \notin ToSet(streams) /\ wpc["split"] = "off"
  <2>1. todo \notin Seq(Plain)
    BY NotPlain
  <2>2. PICK w \in Vfos : Adding(w) \/ Removing(w)
    BY <2>1 DEF UnderWay
  <2>3. w = v /\ Adding(v)
    BY <2>2 DEF Adding, Removing, Doing
  <2> QED
    BY <2>3 DEF Adding, Doing
<1>2. /\ streams' \in Seq(Vfos) /\ IsInjective(streams')
      /\ ToSet(streams') = ToSet(streams) \cup {v}
  BY <1>1, PushBack DEF TypeOK, Attached
<1>3. todo' = <<<<"resume", "split">>, <<"start", v>>>>
  BY <1>1 DEF Done
<1>4. UnderWay'
  BY <1>1, <1>3 DEF UnderWay, Adding
<1>5. TypeOK'
  <2>1. target' = 1 /\ Len(streams') \in Nat
    BY <1>1, <1>2 DEF Attached
  <2>2. disturbed' \in [Vfos -> 0..MaxFrames]
    <3>1. taken \in 0..MaxFrames
      BY FrontEndAssumption DEF TypeOK
    <3> QED
      BY <3>1 DEF TypeOK, Disturb
  <2> QED
    BY <1>2, <2>1, <2>2 DEF TypeOK
<1>6. Attached'
  BY <1>1, <1>2 DEF Attached, NothingDangles
<1> QED
  BY <1>4, <1>5, <1>6

(* A stream is unbound, while the splitter is off and the VFO is joined.    *)
LEMMA UnbindStreamKeeps == ASSUME IInv, NEW v \in Vfos, UnbindStream(v) PROVE IInv'
<1> USE DEF IInv, UnbindStream, ring
<1>1. /\ todo = <<<<"unbind", v>>, <<"resume", "split">>, <<"delete", v>>>>
      /\ v \in vfos /\ wpc[v] = "off" /\ wpc["split"] = "off"
  <2>1. todo \notin Seq(Plain)
    BY NotPlain
  <2>2. PICK w \in Vfos : Adding(w) \/ Removing(w)
    BY <2>1 DEF UnderWay
  <2>3. w = v /\ Removing(v)
    BY <2>2 DEF Adding, Removing, Doing
  <2> QED
    BY <2>3 DEF Removing, Doing
<1>2. /\ streams' \in Seq(Vfos) /\ IsInjective(streams')
      /\ ToSet(streams') = ToSet(streams) \ {v}
  <2>1. PICK i \in DOMAIN streams : streams[i] = v /\ streams' = RemoveAt(streams, i)
    OBVIOUS
  <2> QED
    BY <2>1, EraseOne DEF TypeOK, Attached
<1>3. todo' = <<<<"resume", "split">>, <<"delete", v>>>>
  BY <1>1 DEF Done
<1>4. UnderWay'
  BY <1>1, <1>2, <1>3 DEF UnderWay, Removing
<1>5. TypeOK'
  <2>1. target' = 1 /\ Len(streams') \in Nat
    BY <1>1, <1>2 DEF Attached
  <2> QED
    BY <1>2, <2>1 DEF TypeOK
<1>6. Attached'
  BY <1>1, <1>2 DEF Attached, NothingDangles
<1> QED
  BY <1>4, <1>5, <1>6

(* The VFO is deleted: it is off and nobody feeds it.                       *)
LEMMA DeleteVFOKeeps == ASSUME IInv, NEW v \in Vfos, DeleteVFO(v) PROVE IInv'
<1> USE DEF IInv, DeleteVFO, ring
<1>1. /\ todo = <<<<"delete", v>>>>
      /\ wpc[v] = "off" /\ v \notin ToSet(streams)
  <2>1. todo \notin Seq(Plain)
    BY NotPlain
  <2>2. PICK w \in Vfos : Adding(w) \/ Removing(w)
    BY <2>1 DEF UnderWay
  <2>3. w = v /\ Removing(v)
    BY <2>2 DEF Adding, Removing, Doing
  <2> QED
    BY <2>3 DEF Removing, Doing
<1>2. UnderWay'
  <2>1. todo' = <<>>
    BY <1>1 DEF Done
  <2> QED
    BY <2>1 DEF UnderWay
<1>3. TypeOK'
  BY DEF TypeOK
<1>4. Attached'
  BY <1>1 DEF Attached, NothingDangles
<1> QED
  BY <1>2, <1>3, <1>4

(* A step that changes nothing.                                             *)
LEMMA StutterKeeps == ASSUME IInv, UNCHANGED vars PROVE IInv'
<1> USE DEF vars, IInv
<1>1. TypeOK'
  BY DEF TypeOK
<1>2. UnderWay'
  BY DEF UnderWay, Plain, Adding, Removing
<1>3. Attached'
  BY DEF Attached, NothingDangles
<1> QED
  BY <1>1, <1>2, <1>3

(* Every step.                                                              *)
LEMMA StepKeeps == IInv /\ [Next]_vars => IInv'
<1> SUFFICES ASSUME IInv, [Next]_vars PROVE IInv'
  OBVIOUS
<1>1. CASE CallSomething
  BY <1>1, StartAllKeeps, StopAllKeeps, SetSampleRateKeeps, SetInputKeeps,
     FlushInputBufferKeeps, AddVFOKeeps, RemoveVFOKeeps DEF CallSomething
<1>2. CASE Perform
  BY <1>2, StartBlockKeeps, TellToStopKeeps, SkipStopKeeps, JoinBlockKeeps, ResumeBlockKeeps,
     FlushRingKeeps, NewVFOKeeps, BindStreamKeeps, UnbindStreamKeeps, DeleteVFOKeeps
     DEF Perform
<1>3. CASE SourcePushes \/ SourceReadEnds \/ SourceStep
  BY <1>3, SourcePushesKeeps, SourceReadEndsKeeps, SourceTestsKeeps, SourceWaitsKeeps,
     SourceSwapsKeeps, SourceStopsKeeps DEF SourceStep
<1>4. CASE SplitStep
  BY <1>4, SplitReadsKeeps, SplitSwapsKeeps, SplitFlushesKeeps, SplitAbandonsKeeps,
     SplitStopsKeeps DEF SplitStep
<1>5. CASE \E v \in Vfos : VfoEnds(v) \/ VfoDelivers(v)
  BY <1>5, VfoReadsKeeps, VfoDeliversKeeps, VfoAbandonsKeeps, VfoStopsKeeps DEF VfoEnds
<1>6. CASE UNCHANGED vars
  BY <1>6, StutterKeeps
<1> QED
  BY <1>1, <1>2, <1>3, <1>4, <1>5, <1>6 DEF Next

(* The strengthening holds in every reachable state.                        *)
THEOREM Invariant == Spec => []IInv
<1>1. Init => IInv
  BY InitIInv
<1>2. IInv /\ [Next]_vars => IInv'
  BY StepKeeps
<1> QED
  BY <1>1, <1>2, PTL DEF Spec

(* Type correctness; that the splitter's place is never beyond its list, and *)
(* that the ring never holds as many frames as it has places, are part of it. *)
THEOREM TypeCorrect == Spec => []TypeOK
<1>1. IInv => TypeOK
  BY DEF IInv
<1> QED
  BY <1>1, Invariant, PTL

(* removeVFO stops and unbinds what it deletes, whatever the workers do      *)
(* meanwhile.                                                               *)
THEOREM NothingEverDangles == Spec => []NothingDangles
<1>1. IInv => NothingDangles
  BY DEF IInv, Attached
<1> QED
  BY <1>1, Invariant, PTL

(* bindStream and unbindStream change the list only while the splitter's     *)
(* worker is joined.                                                         *)
THEOREM ListChangedWhileOff == Spec => ListStable
<1>1. ASSUME IInv, [Next]_vars
      PROVE  [streams' # streams => wpc["split"] = "off"]_vars
  <2>1. ASSUME NEW v \in Vfos, BindStream(v) \/ UnbindStream(v) PROVE wpc["split"] = "off"
    <3>1. todo \notin Seq(Plain)
      BY <2>1, NotPlain DEF BindStream, UnbindStream
    <3> QED
      BY <1>1, <2>1, <3>1 DEF IInv, UnderWay, Adding, Removing, Doing, BindStream, UnbindStream
  <2>2. CASE ~ \E v \in Vfos : BindStream(v) \/ UnbindStream(v)
    <3>1. UNCHANGED streams
      BY <1>1, <2>2
         DEF Next, CallSomething, Perform, SourceStep, SplitStep, VfoEnds, vars, idle, control,
             StartAll, StopAll, SetSampleRate, SetInput, FlushInputBuffer, AddVFO, RemoveVFO,
             StartBlock, TellToStop, SkipStop, JoinBlock, ResumeBlock, FlushRing, NewVFO,
             DeleteVFO, SourcePushes, SourceReadEnds, SourceTests, SourceWaits, SourceSwaps,
             SourceStops, SplitReads, SplitSwaps, SplitFlushes, SplitAbandons, SplitStops,
             VfoReads, VfoDelivers, VfoAbandons, VfoStops
    <3> QED
      BY <3>1
  <2> QED
    BY <2>1, <2>2
<1> QED
  BY <1>1, Invariant, PTL DEF Spec, ListStable

-----------------------------------------------------------------------------
(***************************************************************************)
(* Proof about FrontEnd that every VFO delivers its frames in order, none    *)
(* twice and none missing without a cause.  A frame on its way to a VFO is    *)
(* in the ring, in the hands of the input buffer, at the splitter or in the   *)
(* VFO's own stream, in this order; what left the ring and is nowhere on the   *)
(* way was lost when something was stopped.                                  *)
(***************************************************************************)

Stopping(b) == Doing("stop", b) \/ Doing("pause", b)

(* Only the streams of the one block being stopped have a flag set.          *)
Flags == IF joining
         THEN \E b \in running : /\ Stopping(b)
                                 /\ rstop = InputsOf(b) /\ wstop = OutputsOf(b)
         ELSE rstop = {} /\ wstop = {}

(* setInput resumes a buffer whose worker is gone.                          *)
BufferResumed ==
  \/ todo = <<<<"pause", "src">>, <<"resume", "src">>>>
  \/ todo = <<<<"resume", "src">>>> /\ wpc["src"] = "off"
  \/ \A i \in DOMAIN todo : todo[i] # <<"resume", "src">>

(* What the workers have in hand.                                           *)
Hands == /\ wpc["src"] # "swap" => cur["src"] = NoFrame
         /\ wpc["split"] = "copy" => cur["split"] = chan[In] /\ chan[In] # NoFrame
         /\ \A v \in Vfos : wpc[v] = "out" => cur[v] = chan[Into(v)] /\ chan[Into(v)] # NoFrame

(* The last frame a VFO was given, and whether it is the one the splitter is  *)
(* handing out.                                                             *)
Given(v) == IF chan[Into(v)] # NoFrame THEN chan[Into(v)] ELSE last[v]
HasIt(v) == wpc["split"] = "copy" /\ \E j \in 1..(target - 1) : streams[j] = v

InLine(v) ==
  /\ disturbed[v] <= taken /\ cur["src"] <= taken /\ chan[In] <= taken /\ Given(v) <= taken
  /\ chan[Into(v)] # NoFrame => last[v] < chan[Into(v)]
  /\ cur["src"] # NoFrame => Given(v) < cur["src"] /\ chan[In] < cur["src"]
  /\ chan[In] # NoFrame => Given(v) < chan[In] \/ (HasIt(v) /\ Given(v) = chan[In])

NoGap(v) ==
  chan[Into(v)] # NoFrame => \A f \in (last[v] + 1)..(chan[Into(v)] - 1) : f <= disturbed[v]

NoLoss(v) ==
  v \in ToSet(streams) =>
    \A f \in (Given(v) + 1)..taken : f <= disturbed[v] \/ f = cur["src"] \/ f = chan[In]

Served(v) == HasIt(v) => Given(v) = chan[In] \/ chan[In] <= disturbed[v]

Line(v) == InLine(v) /\ NoGap(v) /\ NoLoss(v) /\ Served(v)

(* What a block that is being stopped may have to give up is accounted for.  *)
Told(v) ==
  joining => /\ Stopping("src") => cur["src"] <= disturbed[v]
             /\ Stopping("split") /\ wpc["split"] = "copy" => chan[In] <= disturbed[v]
             /\ Stopping(v) /\ wpc[v] = "out" => chan[Into(v)] <= disturbed[v]

OInv == /\ IInv /\ Flags /\ BufferResumed /\ Hands
        /\ \A v \in Vfos : Line(v) /\ Told(v)

-----------------------------------------------------------------------------
(* Names of blocks and streams are different.                               *)
LEMMA Names ==
  ASSUME NEW v \in Vfos, NEW w \in Vfos
  PROVE  /\ In \in Streams /\ Into(v) \in Streams /\ In # Into(v)
         /\ v # w => Into(v) # Into(w) /\ OutOf(v) # OutOf(w)
         /\ v # "src" /\ v # "split" /\ v \in Blocks /\ "src" \in Blocks /\ "split" \in Blocks
         /\ OutOf(v) # In /\ OutOf(v) # Into(w) /\ Into("src") # In /\ Into("src") # Into(v)
<1>1. v # "src" /\ v # "split"
  BY FrontEndAssumption
<1> QED
  BY <1>1 DEF In, Into, OutOf, Streams, Blocks

(* The numbers of the frames.                                               *)
LEMMA Numbers ==
  ASSUME TypeOK, NEW v \in Vfos
  PROVE  /\ chan[In] \in Nat /\ chan[Into(v)] \in Nat
         /\ cur["src"] \in Nat /\ cur["split"] \in Nat /\ cur[v] \in Nat
         /\ last[v] \in Nat /\ disturbed[v] \in Nat
         /\ taken \in Nat /\ produced \in Nat /\ taken <= produced
         /\ Given(v) \in Nat
<1>1. chan[In] \in Nat /\ chan[Into(v)] \in Nat
  BY Names, FrontEndAssumption DEF TypeOK, Frames, NoFrame
<1>2. cur["src"] \in Nat /\ cur["split"] \in Nat /\ cur[v] \in Nat
  BY Names, FrontEndAssumption DEF TypeOK, Frames, NoFrame
<1>3. last[v] \in Nat /\ disturbed[v] \in Nat
  BY FrontEndAssumption DEF TypeOK
<1>4. taken \in Nat /\ produced \in Nat /\ taken <= produced
  BY FrontEndAssumption DEF TypeOK
<1> QED
  BY <1>1, <1>2, <1>3, <1>4 DEF Given

(* A set flag tells which block is being stopped, and the other way round.   *)
LEMMA FlagsMean ==
  ASSUME TypeOK, Flags, NEW v \in Vfos
  PROVE  /\ In \in wstop => joining /\ Stopping("src")
         /\ Into(v) \in wstop => joining /\ Stopping("split")
         /\ OutOf(v) \in wstop => joining /\ Stopping(v)
         /\ joining /\ Stopping("src") => Into("src") \in rstop
         /\ joining /\ Stopping("split") => In \in rstop
         /\ joining /\ Stopping(v) => Into(v) \in rstop
<1>1. CASE ~joining
  BY <1>1 DEF Flags
<1>2. CASE joining
  <2>1. PICK b \in running : Stopping(b) /\ rstop = InputsOf(b) /\ wstop = OutputsOf(b)
    BY <1>2 DEF Flags
  <2>2. b \in Blocks /\ \A c : Stopping(c) => c = b
    BY <2>1 DEF TypeOK, Stopping, Doing
  <2>3. joining /\ Stopping("src") => Into("src") \in rstop
    BY <2>1, <2>2 DEF InputsOf
  <2>4. joining /\ Stopping("split") => In \in rstop
    BY <2>1, <2>2 DEF InputsOf, In
  <2>5. joining /\ Stopping(v) => Into(v) \in rstop
    BY <2>1, <2>2 DEF InputsOf
  <2>6. ToSet(streams) \subseteq Vfos
    BY DEF TypeOK, ToSet
  <2>7. In \in wstop => b = "src"
    BY <2>1, <2>2, <2>6, Names DEF OutputsOf, Blocks
  <2>8. Into(v) \in wstop => b = "split"
    BY <2>1, <2>2, <2>6, Names DEF OutputsOf, Blocks
  <2>9. OutOf(v) \in wstop => b = v
    BY <2>1, <2>2, <2>6, Names DEF OutputsOf, Blocks
  <2> QED
    BY <1>2, <2>1, <2>3, <2>4, <2>5, <2>7, <2>8, <2>9
<1> QED
  BY <1>1, <1>2

-----------------------------------------------------------------------------
(* An operation's steps                                                     *)

WorkerMoves == \/ SourcePushes \/ SourceReadEnds \/ SourceStep \/ SplitStep
               \/ \E v \in Vfos : VfoEnds(v) \/ VfoDelivers(v)

(* The workers leave the user interface's state alone.                      *)
LEMMA WorkersLeave == ASSUME WorkerMoves PROVE UNCHANGED control
  BY DEF WorkerMoves, SourceStep, SplitStep, VfoEnds, SourcePushes, SourceReadEnds,
         SourceTests, SourceWaits, SourceSwaps, SourceStops, SplitReads, SplitSwaps,
         SplitFlushes, SplitAbandons, SplitStops, VfoReads, VfoDelivers, VfoAbandons, VfoStops

(* A call only says what is to be done.                                     *)
LEMMA CallsLeave == ASSUME CallSomething PROVE todo = <<>> /\ UNCHANGED idle
  BY DEF CallSomething, StartAll, StopAll, SetSampleRate, SetInput, FlushInputBuffer, AddVFO,
         RemoveVFO, Call

(* While a block is being joined the operation does nothing else, and it     *)
(* comes to that only by telling the block.                                 *)
LEMMA OnlyStops ==
  ASSUME TypeOK, Flags, Perform
  PROVE  \/ \E b \in Blocks : TellToStop(b) \/ JoinBlock(b)
         \/ ~joining /\ ~joining' /\ UNCHANGED <<rstop, wstop>>
<1> SUFFICES ASSUME ~ \E b \in Blocks : TellToStop(b) \/ JoinBlock(b)
             PROVE  ~joining /\ ~joining' /\ UNCHANGED <<rstop, wstop>>
  OBVIOUS
<1>1. UNCHANGED <<joining, rstop, wstop>>
  BY DEF Perform, StartBlock, SkipStop, ResumeBlock, FlushRing, NewVFO, BindStream,
         UnbindStream, DeleteVFO, idle
<1>2. SUFFICES ASSUME joining PROVE FALSE
  BY <1>1
<1>3. PICK b \in running : Stopping(b)
  BY <1>2 DEF Flags
<1>4. Head(todo)[1] \in {"stop", "pause"}
  BY <1>3 DEF Stopping, Doing
<1>5. ~FlushRing /\ \A c : ~StartBlock(c) /\ ~ResumeBlock(c)
  BY <1>4 DEF FlushRing, StartBlock, ResumeBlock, Doing
<1>6. \A v : ~NewVFO(v) /\ ~BindStream(v) /\ ~UnbindStream(v) /\ ~DeleteVFO(v)
  BY <1>4 DEF NewVFO, BindStream, UnbindStream, DeleteVFO, Doing
<1>7. PICK c \in Blocks : SkipStop(c)
  BY <1>5, <1>6 DEF Perform
<1> QED
  BY <1>3, <1>7 DEF SkipStop, Stopping, Doing

(* The stop flags are those of the block being stopped.                     *)
LEMMA FlagsKept == ASSUME TypeOK, Flags, [Next]_vars PROVE Flags'
<1>1. CASE WorkerMoves \/ UNCHANGED vars
  <2>1. UNCHANGED control
    BY <1>1, WorkersLeave DEF vars, control
  <2> QED
    BY <2>1 DEF control, Flags, Stopping, Doing, InputsOf, OutputsOf
<1>2. CASE CallSomething
  <2>1. ~joining
    BY <1>2, CallsLeave DEF Flags, Stopping, Doing
  <2> QED
    BY <1>2, <2>1, CallsLeave DEF Flags, idle
<1>3. ASSUME NEW b \in Blocks, TellToStop(b) PROVE Flags'
  <2>1. /\ b \in running' /\ joining' /\ UNCHANGED <<todo, streams>>
        /\ rstop' = InputsOf(b) /\ wstop' = OutputsOf(b)
    BY <1>3 DEF TellToStop, Flags
  <2>2. InputsOf(b)' = InputsOf(b) /\ OutputsOf(b)' = OutputsOf(b) /\ Stopping(b)'
    BY <1>3, <2>1 DEF InputsOf, OutputsOf, Stopping, Doing, TellToStop
  <2> QED
    BY <2>1, <2>2 DEF Flags
<1>4. ASSUME NEW b \in Blocks, JoinBlock(b) PROVE Flags'
  <2>1. PICK c \in running : Stopping(c) /\ rstop = InputsOf(c) /\ wstop = OutputsOf(c)
    BY <1>4 DEF JoinBlock, Flags
  <2>2. c = b
    BY <1>4, <2>1 DEF JoinBlock, Stopping, Doing
  <2>3. ~joining' /\ rstop' = {} /\ wstop' = {}
    BY <1>4, <2>1, <2>2 DEF JoinBlock
  <2> QED
    BY <2>3 DEF Flags
<1>5. CASE Perform
  BY <1>3, <1>4, <1>5, OnlyStops DEF Flags
<1> QED
  BY <1>1, <1>2, <1>5 DEF Next, WorkerMoves

(* No call but setInput resumes the buffer.                                 *)
LEMMA EachIsAVfo ==
  ASSUME TypeOK, NEW k \in {"start", "stop", "pause", "resume"}
  PROVE  ForEach(k, VfoOrder) \in Seq({"start", "stop", "pause", "resume"} \X Vfos)
<1>1. vfos \subseteq Vfos /\ IsFiniteSet(vfos)
  BY FrontEndAssumption, FS_Subset DEF TypeOK
<1>2. \E f \in [1..Cardinality(vfos) -> vfos] : IsInjective(f)
  BY <1>1, FS_CardinalityType DEF ExistsBijection, Bijection, Injection, IsInjective
<1>3. VfoOrder \in [1..Cardinality(vfos) -> vfos]
  BY <1>2 DEF VfoOrder, SetToSeq
<1>4. ForEach(k, VfoOrder)
        \in [1..Cardinality(vfos) -> {"start", "stop", "pause", "resume"} \X Vfos]
  BY <1>1, <1>3 DEF ForEach
<1>5. Cardinality(vfos) \in Nat
  BY <1>1, FS_CardinalityType
<1> QED
  BY <1>4, <1>5, SeqDef

(* What is left of an operation is a list.                                  *)
LEMMA IsAList ==
  ASSUME IInv
  PROVE  todo \in Seq({"start", "stop", "pause", "resume", "flush", "new", "bind", "unbind",
                       "delete"} \X Blocks)
<1> DEFINE Ops == {"start", "stop", "pause", "resume", "flush", "new", "bind", "unbind",
                   "delete"} \X Blocks
<1>1. CASE todo \in Seq(Plain)
  <2>1. Plain \subseteq Ops
    BY DEF IInv, TypeOK, Plain, Blocks
  <2> QED
    BY <1>1, <2>1
<1>2. ASSUME NEW v \in Vfos, Adding(v) PROVE todo \in Seq(Ops)
  <2>1. /\ <<"new", v>> \in Ops /\ <<"pause", "split">> \in Ops /\ <<"bind", v>> \in Ops
        /\ <<"resume", "split">> \in Ops /\ <<"start", v>> \in Ops
    BY DEF Blocks
  <2> DEFINE a == <<"new", v>>
             b == <<"pause", "split">>
             c == <<"bind", v>>
             d == <<"resume", "split">>
             e == <<"start", v>>
  <2>2. \/ todo = <<a, b, c, d, e>> \/ todo = <<b, c, d, e>> \/ todo = <<c, d, e>>
        \/ todo = <<d, e>>
    BY <1>2 DEF Adding
  <2> HIDE DEF Ops, a, b, c, d, e
  <2>3. /\ <<a, b, c, d, e>> \in Seq(Ops) /\ <<b, c, d, e>> \in Seq(Ops)
        /\ <<c, d, e>> \in Seq(Ops) /\ <<d, e>> \in Seq(Ops)
    BY <2>1, Lists DEF a, b, c, d, e
  <2> QED
    BY <2>2, <2>3
<1>3. ASSUME NEW v \in Vfos, Removing(v) PROVE todo \in Seq(Ops)
  <2>1. /\ <<"stop", v>> \in Ops /\ <<"pause", "split">> \in Ops /\ <<"unbind", v>> \in Ops
        /\ <<"resume", "split">> \in Ops /\ <<"delete", v>> \in Ops
    BY DEF Blocks
  <2> DEFINE a == <<"stop", v>>
             b == <<"pause", "split">>
             c == <<"unbind", v>>
             d == <<"resume", "split">>
             e == <<"delete", v>>
  <2>2. \/ todo = <<a, a, b, c, d, e>> \/ todo = <<a, b, c, d, e>> \/ todo = <<b, c, d, e>>
        \/ todo = <<c, d, e>> \/ todo = <<d, e>> \/ todo = <<e>>
    BY <1>3 DEF Removing
  <2> HIDE DEF Ops, a, b, c, d, e
  <2>3. /\ <<a, a, b, c, d, e>> \in Seq(Ops) /\ <<a, b, c, d, e>> \in Seq(Ops)
        /\ <<b, c, d, e>> \in Seq(Ops) /\ <<c, d, e>> \in Seq(Ops)
        /\ <<d, e>> \in Seq(Ops) /\ <<e>> \in Seq(Ops)
    BY <2>1, Lists DEF a, b, c, d, e
  <2> QED
    BY <2>2, <2>3
<1> QED
  BY <1>1, <1>2, <1>3 DEF IInv, UnderWay

(* When the buffer is resumed its worker has been joined.                   *)
LEMMA BufferResumedKept == ASSUME IInv, BufferResumed, [Next]_vars PROVE BufferResumed'
<1> USE DEF BufferResumed
<1> DEFINE NoResume == \A i \in DOMAIN todo' : todo'[i] # <<"resume", "src">>
           Calls == ({"start", "stop", "pause", "resume"} \X Vfos)
                    \cup {<<"start", "src">>, <<"start", "split">>, <<"stop", "src">>,
                          <<"stop", "split">>}
<1>1. CASE WorkerMoves \/ UNCHANGED vars
  <2>1. UNCHANGED todo
    BY <1>1, WorkersLeave DEF vars, control
  <2>2. wpc["src"] = "off" => wpc'["src"] = "off"
    BY <1>1, Names, FrontEndAssumption
       DEF WorkerMoves, vars, SourceStep, SplitStep, VfoEnds, SourcePushes, SourceReadEnds,
           SourceTests, SourceWaits, SourceSwaps, SourceStops, SplitReads, SplitSwaps,
           SplitFlushes, SplitAbandons, SplitStops, VfoReads, VfoDelivers, VfoAbandons,
           VfoStops, Goto, NotifyRing, IInv, TypeOK, Blocks
  <2> QED
    BY <2>1, <2>2
<1>2. CASE CallSomething
  <2>1. ASSUME todo' \in Seq(Calls) PROVE NoResume
    <3>1. \A i \in DOMAIN todo' : todo'[i] \in Calls
      BY <2>1, ElementOfSeq
    <3>2. <<"resume", "src">> \notin Calls
      BY FrontEndAssumption
    <3> QED
      BY <3>1, <3>2
  <2>2. \A k \in {"start", "stop", "pause", "resume"} : ForEach(k, VfoOrder) \in Seq(Calls)
    BY EachIsAVfo DEF IInv
  <2>3. CASE StartAll
    <3>1. <<<<"start", "src">>, <<"start", "split">>>> \in Seq(Calls)
      OBVIOUS
    <3>2. todo' \in Seq(Calls)
      BY <2>2, <2>3, <3>1, ConcatProperties DEF StartAll, Call
    <3> QED
      BY <2>1, <3>2
  <2>4. CASE StopAll
    <3>1. <<<<"stop", "src">>, <<"stop", "split">>>> \in Seq(Calls)
      OBVIOUS
    <3>2. todo' \in Seq(Calls)
      BY <2>2, <2>4, <3>1, ConcatProperties DEF StopAll, Call
    <3> QED
      BY <2>1, <3>2
  <2>5. CASE SetSampleRate
    <3>1. todo' \in Seq(Calls)
      BY <2>2, <2>5, ConcatProperties DEF SetSampleRate, Call
    <3> QED
      BY <2>1, <3>1
  <2>6. CASE SetInput
    BY <2>6 DEF SetInput, Call
  <2>7. CASE FlushInputBuffer
    BY <2>7 DEF FlushInputBuffer, Call
  <2>8. ASSUME NEW v \in Vfos, AddVFO(v) PROVE NoResume
    <3>1. todo' = <<<<"new", v>>, <<"pause", "split">>, <<"bind", v>>, <<"resume", "split">>,
                    <<"start", v>>>>
      BY <2>8 DEF AddVFO, Call
    <3> QED
      BY <3>1
  <2>9. ASSUME NEW v \in Vfos, RemoveVFO(v) PROVE NoResume
    <3>1. todo' = <<<<"stop", v>>, <<"stop", v>>, <<"pause", "split">>, <<"unbind", v>>,
                    <<"resume", "split">>, <<"delete", v>>>>
      BY <2>9 DEF RemoveVFO, Call
    <3> QED
      BY <3>1
  <2> QED
    BY <1>2, <2>3, <2>4, <2>5, <2>6, <2>7, <2>8, <2>9 DEF CallSomething
<1>3. ASSUME NEW b \in Blocks, TellToStop(b) PROVE BufferResumed'
  BY <1>3, FrontEndAssumption
     DEF TellToStop, NotifyRing, Stopping, Doing, IInv, TypeOK, Blocks, Attached
<1>4. CASE Perform /\ ~ \E b \in Blocks : TellToStop(b)
  <2>1. todo # <<>> /\ Done
    BY <1>4 DEF Perform, StartBlock, SkipStop, JoinBlock, ResumeBlock, FlushRing, NewVFO,
                BindStream, UnbindStream, DeleteVFO, Doing
  <2>2. CASE todo = <<<<"pause", "src">>, <<"resume", "src">>>>
    <3>1. todo' = <<<<"resume", "src">>>>
      BY <2>1, <2>2 DEF Done
    <3>2. SkipStop("src") \/ JoinBlock("src")
      <4>1. Head(todo) = <<"pause", "src">>
        BY <2>2
      <4>2. ~FlushRing /\ \A c : ~StartBlock(c) /\ ~ResumeBlock(c)
        BY <4>1 DEF FlushRing, StartBlock, ResumeBlock, Doing
      <4>3. \A v : ~NewVFO(v) /\ ~BindStream(v) /\ ~UnbindStream(v) /\ ~DeleteVFO(v)
        BY <4>1 DEF NewVFO, BindStream, UnbindStream, DeleteVFO, Doing
      <4>4. PICK b \in Blocks : SkipStop(b) \/ JoinBlock(b)
        BY <1>4, <4>2, <4>3 DEF Perform
      <4>5. b = "src"
        BY <4>1, <4>4 DEF SkipStop, JoinBlock, Doing
      <4> QED
        BY <4>4, <4>5
    <3>3. wpc'["src"] = "off"
      BY <3>2 DEF SkipStop, JoinBlock, Goto, idle, IInv, Attached, TypeOK, Blocks
    <3> QED
      BY <3>1, <3>3
  <2>3. CASE todo = <<<<"resume", "src">>>>
    BY <2>1, <2>3 DEF Done
  <2>4. CASE \A i \in DOMAIN todo : todo[i] # <<"resume", "src">>
    <3>1. /\ Len(todo') = Len(todo) - 1 /\ DOMAIN todo' = 1..Len(todo')
          /\ DOMAIN todo = 1..Len(todo) /\ Len(todo) \in Nat
          /\ \A i \in 1..Len(todo') : todo'[i] = todo[i + 1]
      BY <2>1, IsAList, HeadTailProperties DEF Done
    <3> QED
      BY <2>4, <3>1
  <2> QED
    BY <2>2, <2>3, <2>4
<1> QED
  BY <1>1, <1>2, <1>3, <1>4 DEF Next, WorkerMoves

-----------------------------------------------------------------------------
(* What an operation's step may do to the frames on their way: nothing but    *)
(* to empty the ring, with everybody told, and to give a new VFO an empty     *)
(* stream.                                                                  *)
LEMMA ControlMoves ==
  ASSUME IInv, Flags, BufferResumed, CallSomething \/ Perform
  PROVE  /\ UNCHANGED <<cur, last, target>> /\ chan'[In] = chan[In]
         /\ wpc'["split"] = "copy" <=> wpc["split"] = "copy"
         /\ wpc["split"] = "copy" => UNCHANGED streams
         /\ wpc["src"] = "swap" => wpc'["src"] = "swap"
         /\ \A v \in Vfos :
              /\ wpc'[v] = "out" => wpc[v] = "out" /\ chan'[Into(v)] = chan[Into(v)]
              /\ \/ UNCHANGED taken /\ disturbed'[v] \in {disturbed[v], taken}
                 \/ taken' = produced /\ disturbed'[v] = produced
              /\ \/ chan'[Into(v)] = chan[Into(v)]
                 \/ /\ chan'[Into(v)] = NoFrame /\ v \notin ToSet(streams)
                    /\ UNCHANGED <<streams, taken, disturbed>>
              /\ v \in ToSet(streams') => v \in ToSet(streams) \/ disturbed'[v] = taken'
<1> DEFINE Same == /\ UNCHANGED <<cur, last, target>> /\ chan'[In] = chan[In]
                   /\ wpc'["split"] = "copy" <=> wpc["split"] = "copy"
                   /\ wpc["split"] = "copy" => UNCHANGED streams
                   /\ wpc["src"] = "swap" => wpc'["src"] = "swap"
           Mine(v) ==
              /\ wpc'[v] = "out" => wpc[v] = "out" /\ chan'[Into(v)] = chan[Into(v)]
              /\ \/ UNCHANGED taken /\ disturbed'[v] \in {disturbed[v], taken}
                 \/ taken' = produced /\ disturbed'[v] = produced
              /\ \/ chan'[Into(v)] = chan[Into(v)]
                 \/ /\ chan'[Into(v)] = NoFrame /\ v \notin ToSet(streams)
                    /\ UNCHANGED <<streams, taken, disturbed>>
              /\ v \in ToSet(streams') => v \in ToSet(streams) \/ disturbed'[v] = taken'
           Goal == Same /\ \A v \in Vfos : Mine(v)
<1>0. /\ wpc \in [Blocks -> Pcs] /\ chan \in [Streams -> Frames \cup {NoFrame}]
      /\ \A b \in Blocks : b \notin running => wpc[b] = "off"
  BY DEF IInv, TypeOK, Attached
<1>1. CASE CallSomething
  BY <1>1, CallsLeave DEF idle, ring
<1>2. ASSUME NEW b \in Blocks, StartBlock(b) PROVE Goal
  BY <1>0, <1>2, Names, FrontEndAssumption DEF StartBlock, Entry
<1>3. ASSUME NEW b \in Blocks, TellToStop(b) PROVE Goal
  <2>1. Same
    BY <1>0, <1>3 DEF TellToStop, NotifyRing, ring, Blocks
  <2>2. ASSUME NEW v \in Vfos PROVE Mine(v)
    <3>1. v # "src" /\ wpc'[v] = wpc[v]
      BY <1>0, <1>3, Names DEF TellToStop, NotifyRing
    <3>2. UNCHANGED <<taken, chan, streams>> /\ disturbed'[v] \in {disturbed[v], taken}
      BY <1>3 DEF TellToStop, Disturb, ring
    <3> QED
      BY <3>1, <3>2
  <2> QED
    BY <2>1, <2>2
<1>4. ASSUME NEW b \in Blocks, SkipStop(b) PROVE Goal
  BY <1>4 DEF SkipStop, idle, ring
<1>5. ASSUME NEW b \in Blocks, JoinBlock(b) PROVE Goal
  BY <1>0, <1>5, Names, FrontEndAssumption DEF JoinBlock, Goto, Disturb, ring
<1>6. ASSUME NEW b \in Blocks, ResumeBlock(b) PROVE Goal
  <2>1. b = "split" => wpc["split"] = "off"
    BY <1>0, <1>6, ResumeAdvances DEF ResumeBlock
  <2>2. b = "src" => wpc["src"] = "off"
    BY <1>6, IsAList DEF ResumeBlock, BufferResumed, Doing
  <2> QED
    BY <1>0, <1>6, <2>1, <2>2, Names, FrontEndAssumption DEF ResumeBlock, Entry
<1>7. CASE FlushRing
  BY <1>7 DEF FlushRing, Disturb
<1>8. ASSUME NEW w \in Vfos, NewVFO(w) PROVE Goal
  <2>1. w \notin vfos
    <3>1. todo \notin Seq(Plain)
      BY <1>8, NotPlain DEF NewVFO
    <3> QED
      BY <1>8, <3>1 DEF IInv, UnderWay, Adding, Removing, Doing, NewVFO
  <2>2. wpc[w] = "off" /\ w \notin ToSet(streams)
    BY <2>1 DEF IInv, Attached, NothingDangles
  <2> QED
    BY <1>0, <1>8, <2>2, Names DEF NewVFO, ring
<1>9. ASSUME NEW w \in Vfos, BindStream(w) \/ UnbindStream(w) PROVE Goal
  <2>1. /\ wpc["split"] = "off"
        /\ BindStream(w) => ToSet(streams') = ToSet(streams) \cup {w}
        /\ UnbindStream(w) => ToSet(streams') \subseteq ToSet(streams)
    <3>1. todo \notin Seq(Plain)
      BY <1>9, NotPlain DEF BindStream, UnbindStream
    <3>2. wpc["split"] = "off" /\ (BindStream(w) => w \notin ToSet(streams))
      BY <1>9, <3>1 DEF IInv, UnderWay, Adding, Removing, Doing, BindStream, UnbindStream
    <3>3. streams \in Seq(Vfos) /\ IsInjective(streams)
      BY DEF IInv, TypeOK, Attached
    <3>4. BindStream(w) => ToSet(streams') = ToSet(streams) \cup {w}
      BY <3>2, <3>3, PushBack DEF BindStream
    <3>5. UnbindStream(w) => ToSet(streams') \subseteq ToSet(streams)
      BY <3>3, EraseOne DEF UnbindStream
    <3> QED
      BY <3>2, <3>4, <3>5
  <2> QED
    BY <1>0, <1>9, <2>1 DEF BindStream, UnbindStream, Disturb, ring
<1>10. ASSUME NEW w \in Vfos, DeleteVFO(w) PROVE Goal
  BY <1>10 DEF DeleteVFO, ring
<1> QED
  BY <1>1, <1>2, <1>3, <1>4, <1>5, <1>6, <1>7, <1>8, <1>9, <1>10 DEF Perform

-----------------------------------------------------------------------------
(* What the workers have in hand                                            *)
LEMMA HandsKept == ASSUME IInv, Flags, BufferResumed, Hands, [Next]_vars PROVE Hands'
<1>0. /\ wpc \in [Blocks -> Pcs] /\ cur \in [Blocks -> Frames \cup {NoFrame}]
      /\ chan \in [Streams -> Frames \cup {NoFrame}]
      /\ \A w \in Vfos : In # Into(w) /\ Into(w) \in Streams /\ In \in Streams
      /\ \A v, w \in Vfos : v # w => Into(v) # Into(w)
      /\ \A w \in Vfos : w \in Blocks /\ w # "src" /\ w # "split"
      /\ "src" \in Blocks /\ "split" \in Blocks
  BY Names DEF IInv, TypeOK, Blocks, Streams
<1>1. CASE CallSomething \/ Perform
  BY <1>1, ControlMoves DEF Hands
<1>2. CASE SourcePushes
  BY <1>0, <1>2 DEF SourcePushes, RingIsFree, NotifyRing, Hands
<1>3. CASE SourceReadEnds
  BY <1>3 DEF SourceReadEnds, Hands
<1>4. CASE SourceTests
  BY <1>0, <1>4 DEF SourceTests, Goto, Hands
<1>5. CASE SourceWaits
  BY <1>0, <1>5 DEF SourceWaits, Goto, Hands
<1>6. CASE SourceSwaps
  BY <1>0, <1>6 DEF SourceSwaps, Goto, Drop, Hands
<1>7. CASE SourceStops
  BY <1>0, <1>7 DEF SourceStops, Goto, Drop, Hands
<1>8. CASE SplitReads
  BY <1>0, <1>8 DEF SplitReads, Goto, Hands
<1>9. CASE SplitSwaps
  <2>1. streams[target] \in Vfos
    BY <1>9 DEF SplitSwaps, IInv, TypeOK
  <2> QED
    BY <1>0, <1>9, <2>1 DEF SplitSwaps, Hands
<1>10. CASE SplitFlushes
  BY <1>0, <1>10 DEF SplitFlushes, Goto, Drop, Hands
<1>11. CASE SplitAbandons
  BY <1>0, <1>11 DEF SplitAbandons, Goto, Drop, Hands
<1>12. CASE SplitStops
  BY <1>0, <1>12 DEF SplitStops, Goto, Hands
<1>13. ASSUME NEW v \in Vfos, VfoReads(v) PROVE Hands'
  BY <1>0, <1>13 DEF VfoReads, Goto, Hands
<1>14. ASSUME NEW v \in Vfos, VfoDelivers(v) PROVE Hands'
  BY <1>0, <1>14 DEF VfoDelivers, Goto, Drop, Hands
<1>15. ASSUME NEW v \in Vfos, VfoAbandons(v) PROVE Hands'
  BY <1>0, <1>15 DEF VfoAbandons, Goto, Drop, Hands
<1>16. ASSUME NEW v \in Vfos, VfoStops(v) PROVE Hands'
  BY <1>0, <1>16 DEF VfoStops, Goto, Hands
<1>17. CASE UNCHANGED vars
  BY <1>17 DEF vars, Hands
<1> QED
  BY <1>1, <1>2, <1>3, <1>4, <1>5, <1>6, <1>7, <1>8, <1>9, <1>10, <1>11, <1>12, <1>13, <1>14,
     <1>15, <1>16, <1>17 DEF Next, SourceStep, SplitStep, VfoEnds

-----------------------------------------------------------------------------
(* The frames on their way                                                  *)

(* Nothing moved, and what was marked as told was marked with all there is.  *)
LEMMA NothingMoved ==
  ASSUME TypeOK, NEW v \in Vfos, Line(v),
         UNCHANGED <<chan[In], cur["src"], chan[Into(v)], last[v], taken>>,
         disturbed'[v] \in {disturbed[v], taken},
         HasIt(v)' <=> HasIt(v),
         v \in ToSet(streams') => v \in ToSet(streams) \/ disturbed'[v] = taken
  PROVE  Line(v)'
<1>1. Given(v)' = Given(v)
  BY DEF Given
<1>2. /\ disturbed[v] <= disturbed'[v] /\ disturbed'[v] <= taken /\ taken \in Nat
      /\ disturbed[v] \in Nat
  BY Numbers DEF Line, InLine
<1>3. InLine(v)'
  BY <1>1, <1>2 DEF Line, InLine
<1>4. NoGap(v)'
  BY <1>2, Numbers DEF Line, NoGap
<1>5. NoLoss(v)'
  BY <1>1, <1>2, Numbers DEF Line, NoLoss
<1>6. Served(v)'
  BY <1>1, <1>2, Numbers DEF Line, Served
<1> QED
  BY <1>3, <1>4, <1>5, <1>6 DEF Line

(* The ring was emptied, and every VFO told.                                *)
LEMMA RingEmptied ==
  ASSUME TypeOK, NEW v \in Vfos, Line(v),
         UNCHANGED <<chan[In], cur["src"], chan[Into(v)], last[v]>>,
         taken' \in Nat, taken <= taken', disturbed'[v] = taken',
         HasIt(v)' <=> HasIt(v)
  PROVE  Line(v)'
<1>1. Given(v)' = Given(v)
  BY DEF Given
<1>2. disturbed[v] <= disturbed'[v]
  BY Numbers DEF Line, InLine
<1>3. InLine(v)'
  BY <1>1, Numbers DEF Line, InLine
<1>4. NoGap(v)'
  BY <1>2, Numbers DEF Line, NoGap
<1>5. NoLoss(v)'
  BY <1>1, Numbers DEF NoLoss
<1>6. Served(v)'
  BY <1>1, <1>2, Numbers DEF Line, Served
<1> QED
  BY <1>3, <1>4, <1>5, <1>6 DEF Line

(* A VFO that is not bound has its stream emptied.                          *)
LEMMA StreamEmptied ==
  ASSUME TypeOK, NEW v \in Vfos, Line(v), v \notin ToSet(streams), v \notin ToSet(streams'),
         UNCHANGED <<chan[In], cur["src"], last[v], taken, disturbed[v]>>,
         chan'[Into(v)] = NoFrame,
         HasIt(v)' <=> HasIt(v), ~HasIt(v)
  PROVE  Line(v)'
<1>1. Given(v)' = last[v] /\ last[v] <= Given(v)
  BY Numbers DEF Given, Line, InLine
<1>2. InLine(v)'
  BY <1>1, Numbers DEF Line, InLine
<1> QED
  BY <1>2 DEF Line, NoGap, NoLoss, Served

(* A frame is handed out to bound streams.                                  *)
LEMMA HasItBound == ASSUME TypeOK, NEW v, HasIt(v) PROVE v \in ToSet(streams)
<1>1. PICK j \in 1..(target - 1) : streams[j] = v
  BY DEF HasIt
<1>2. j \in DOMAIN streams
  BY <1>1 DEF TypeOK
<1> QED
  BY <1>1, <1>2 DEF ToSet

(* An operation's step.                                                     *)
LEMMA ControlKeepsLine ==
  ASSUME IInv, Flags, BufferResumed, CallSomething \/ Perform, NEW v \in Vfos, Line(v)
  PROVE  Line(v)'
<1>1. /\ UNCHANGED <<chan[In], cur["src"], last[v], target>>
      /\ wpc'["split"] = "copy" <=> wpc["split"] = "copy"
      /\ wpc["split"] = "copy" => UNCHANGED streams
      /\ \/ UNCHANGED taken /\ disturbed'[v] \in {disturbed[v], taken}
         \/ taken' = produced /\ disturbed'[v] = produced
      /\ \/ chan'[Into(v)] = chan[Into(v)]
         \/ /\ chan'[Into(v)] = NoFrame /\ v \notin ToSet(streams)
            /\ UNCHANGED <<streams, taken, disturbed>>
      /\ v \in ToSet(streams') => v \in ToSet(streams) \/ disturbed'[v] = taken'
  BY ControlMoves
<1>2. TypeOK
  BY DEF IInv
<1>3. HasIt(v)' <=> HasIt(v)
  BY <1>1 DEF HasIt
<1>4. CASE /\ chan'[Into(v)] = chan[Into(v)] /\ UNCHANGED taken
           /\ disturbed'[v] \in {disturbed[v], taken}
  BY <1>1, <1>2, <1>3, <1>4, NothingMoved
<1>5. CASE chan'[Into(v)] = chan[Into(v)] /\ taken' = produced /\ disturbed'[v] = produced
  BY <1>1, <1>2, <1>3, <1>5, RingEmptied, Numbers
<1>6. CASE chan'[Into(v)] # chan[Into(v)]
  BY <1>1, <1>2, <1>3, <1>6, StreamEmptied, HasItBound
<1> QED
  BY <1>1, <1>4, <1>5, <1>6

-----------------------------------------------------------------------------
(* The input buffer                                                         *)
(* The ring gets a frame, or is emptied by being full.                      *)
LEMMA SourcePushesInLine ==
  ASSUME TypeOK, SourcePushes, NEW v \in Vfos, Line(v) PROVE Line(v)'
<1>1. /\ UNCHANGED <<chan[In], cur["src"], chan[Into(v)], last[v], streams, target>>
      /\ (HasIt(v)' <=> HasIt(v))
  BY DEF SourcePushes, NotifyRing, control, HasIt, TypeOK, Blocks
<1>2. CASE produced' - taken = RingSize
  BY <1>1, <1>2, RingEmptied, Numbers DEF SourcePushes, Disturb
<1>3. CASE produced' - taken # RingSize
  BY <1>1, <1>3, NothingMoved DEF SourcePushes
<1> QED
  BY <1>2, <1>3

(* A frame leaves the ring for the buffer's hands,                          *)
LEMMA SourceTestsInLine ==
  ASSUME TypeOK, Hands, SourceTests, NEW v \in Vfos, Line(v) PROVE Line(v)'
<1>1. /\ UNCHANGED <<chan[In], chan[Into(v)], last[v], streams, target, disturbed[v]>>
      /\ (HasIt(v)' <=> HasIt(v)) /\ Given(v)' = Given(v)
  BY DEF SourceTests, Goto, control, HasIt, Given, TypeOK, Blocks
<1>2. CASE UNCHANGED <<taken, cur>>
  BY <1>1, <1>2, NothingMoved
<1>3. CASE taken' = taken + 1 /\ cur' = [cur EXCEPT !["src"] = taken + 1] /\ cur["src"] = NoFrame
  <2>1. cur'["src"] = taken + 1
    BY <1>3 DEF TypeOK, Blocks
  <2>2. InLine(v)'
    BY <1>1, <1>3, <2>1, Numbers DEF Line, InLine
  <2>3. NoGap(v)' /\ Served(v)'
    BY <1>1 DEF Line, NoGap, Served
  <2>4. NoLoss(v)'
    BY <1>1, <1>3, <2>1, Numbers DEF Line, NoLoss, NoFrame
  <2> QED
    BY <2>2, <2>3, <2>4 DEF Line
<1> QED
  BY <1>2, <1>3 DEF SourceTests, Hands

(* goes on to the splitter,                                                 *)
LEMMA SourceSwapsInLine ==
  ASSUME TypeOK, Hands, SourceSwaps, NEW v \in Vfos, Line(v) PROVE Line(v)'
<1>1. /\ UNCHANGED <<taken, last[v], streams, target, disturbed[v]>>
      /\ chan'[Into(v)] = chan[Into(v)] /\ Given(v)' = Given(v) /\ (HasIt(v)' <=> HasIt(v))
      /\ chan[In] = NoFrame /\ chan'[In] = cur["src"] /\ cur'["src"] = NoFrame
  BY Names DEF SourceSwaps, Goto, Drop, control, ring, HasIt, Given, TypeOK
<1>2. ~HasIt(v)
  BY <1>1 DEF HasIt, Hands
<1>3. InLine(v)'
  BY <1>1, Numbers DEF Line, InLine, NoFrame
<1>4. NoGap(v)' /\ Served(v)'
  BY <1>1, <1>2 DEF Line, NoGap, Served
<1>5. NoLoss(v)'
  BY <1>1, Numbers DEF Line, NoLoss, NoFrame
<1> QED
  BY <1>3, <1>4, <1>5 DEF Line

(* or is given up, which every VFO was told of.                             *)
LEMMA SourceStopsInLine ==
  ASSUME TypeOK, Flags, SourceStops, NEW v \in Vfos, Line(v), Told(v) PROVE Line(v)'
<1>1. /\ UNCHANGED <<taken, last[v], streams, target, disturbed[v], chan>>
      /\ Given(v)' = Given(v) /\ (HasIt(v)' <=> HasIt(v)) /\ cur'["src"] = NoFrame
  BY Names DEF SourceStops, Goto, Drop, control, ring, HasIt, Given, TypeOK
<1>2. cur["src"] <= disturbed[v]
  BY FlagsMean DEF SourceStops, Told
<1>3. InLine(v)'
  BY <1>1, Numbers DEF Line, InLine, NoFrame
<1>4. NoGap(v)' /\ Served(v)'
  BY <1>1 DEF Line, NoGap, Served
<1>5. NoLoss(v)'
  BY <1>1, <1>2, Numbers DEF Line, NoLoss
<1> QED
  BY <1>3, <1>4, <1>5 DEF Line

(* The rest of the buffer's steps move no frame.                            *)
LEMMA SourceIdlesInLine ==
  ASSUME TypeOK, SourceReadEnds \/ SourceWaits, NEW v \in Vfos, Line(v) PROVE Line(v)'
<1>1. /\ UNCHANGED <<chan, cur, last, taken, streams, target, disturbed>>
      /\ wpc'["split"] = wpc["split"]
  BY DEF SourceReadEnds, SourceWaits, Goto, control, ring, TypeOK, Blocks
<1>2. HasIt(v)' <=> HasIt(v)
  BY <1>1 DEF HasIt
<1> QED
  BY <1>1, <1>2, NothingMoved

-----------------------------------------------------------------------------
(* The splitter                                                             *)
(* The splitter begins and ends with nothing handed out.                    *)
LEMMA SplitTurnsInLine ==
  ASSUME TypeOK, Attached, SplitReads \/ SplitStops, NEW v \in Vfos, Line(v) PROVE Line(v)'
<1>1. /\ UNCHANGED <<chan, cur["src"], last, taken, streams, target, disturbed>>
      /\ target = 1
  BY DEF SplitReads, SplitStops, Goto, control, ring, TypeOK, Blocks, Attached
<1>2. ~HasIt(v) /\ ~HasIt(v)'
  BY <1>1 DEF HasIt
<1> QED
  BY <1>1, <1>2, NothingMoved

(* It gives a frame to one VFO, which has had all before it,                *)
LEMMA SplitSwapsInLine ==
  ASSUME TypeOK, Attached, Hands, SplitSwaps, NEW v \in Vfos, Line(v) PROVE Line(v)'
<1> DEFINE w == streams[target]
<1>1. /\ w \in Vfos /\ target \in DOMAIN streams /\ target \in Nat \ {0}
      /\ wpc["split"] = "copy" /\ chan[Into(w)] = NoFrame /\ cur["split"] = chan[In]
      /\ chan[In] # NoFrame
  BY DEF SplitSwaps, TypeOK, Hands
<1>2. /\ UNCHANGED <<wpc, cur, taken, last, streams, disturbed>> /\ target' = target + 1
      /\ chan'[In] = chan[In]
  BY <1>1, Names DEF SplitSwaps, control, ring, TypeOK
<1>3. CASE v # w
  <2>1. chan'[Into(v)] = chan[Into(v)]
    BY <1>1, <1>3, Names DEF SplitSwaps, TypeOK
  <2>2. HasIt(v)' <=> HasIt(v)
    BY <1>1, <1>2, <1>3 DEF HasIt
  <2> QED
    BY <1>2, <2>1, <2>2, NothingMoved
<1>4. CASE v = w
  <2>1. chan'[Into(v)] = chan[In]
    BY <1>1, <1>4, Names DEF SplitSwaps, TypeOK
  <2>2. Given(v) = last[v] /\ Given(v)' = chan[In] /\ chan[Into(v)] = NoFrame
    BY <1>1, <1>4, <2>1 DEF Given
  <2>3. ~HasIt(v)
    <3>1. IsInjective(streams) /\ target \in Nat /\ 1..(target - 1) \subseteq DOMAIN streams
      <4>1. streams \in Seq(Vfos) /\ DOMAIN streams = 1..Len(streams) /\ Len(streams) \in Nat
        BY DEF TypeOK
      <4> QED
        BY <1>1, <4>1 DEF Attached
    <3>2. ASSUME NEW i \in DOMAIN streams, i < target PROVE streams[i] # v
      BY <1>1, <1>4, <3>1, <3>2 DEF IsInjective
    <3>3. ASSUME NEW j \in 1..(target - 1) PROVE streams[j] # v
      BY <3>1, <3>2, <3>3
    <3> QED
      BY <3>3 DEF HasIt
  <2>4. HasIt(v)'
    BY <1>1, <1>2, <1>4 DEF HasIt
  <2>5. last[v] < chan[In] /\ v \in ToSet(streams)
    BY <1>1, <1>4, <2>2, <2>3 DEF Line, InLine, ToSet
  <2>6. InLine(v)'
    BY <1>1, <1>2, <2>1, <2>2, <2>4, <2>5, Numbers DEF Line, InLine
  <2>7. NoGap(v)'
    <3>1. ASSUME NEW f \in (last[v] + 1)..(chan[In] - 1) PROVE f <= disturbed[v]
      <4>1. /\ f \in (Given(v) + 1)..taken /\ f # chan[In]
            /\ cur["src"] # NoFrame => f < cur["src"]
        BY <2>2, Numbers DEF Line, InLine
      <4> QED
        BY <2>2, <2>5, <4>1, Numbers DEF Line, NoLoss, NoFrame
    <3> QED
      BY <1>2, <2>1, <3>1 DEF NoGap
  <2>8. NoLoss(v)'
    BY <1>2, <2>1, <2>2, <2>5, Numbers DEF Line, NoLoss
  <2>9. Served(v)'
    BY <1>2, <2>2 DEF Served
  <2> QED
    BY <2>6, <2>7, <2>8, <2>9 DEF Line
<1> QED
  BY <1>3, <1>4

(* Every bound VFO has it, or has been told of it, when it is let go.        *)
LEMMA SplitLetsGoInLine ==
  ASSUME TypeOK, NEW v \in Vfos, Line(v), SplitFlushes \/ SplitAbandons,
         v \in ToSet(streams) => chan[In] <= Given(v) \/ chan[In] <= disturbed[v]
  PROVE  Line(v)'
<1>1. /\ UNCHANGED <<taken, last, streams, disturbed, cur["src"]>>
      /\ chan'[In] = NoFrame /\ chan'[Into(v)] = chan[Into(v)] /\ wpc'["split"] # "copy"
  BY Names DEF SplitFlushes, SplitAbandons, Goto, Drop, control, ring, TypeOK
<1>2. Given(v)' = Given(v) /\ ~HasIt(v)'
  BY <1>1 DEF Given, HasIt
<1>3. InLine(v)'
  BY <1>1, <1>2, Numbers DEF Line, InLine, NoFrame
<1>4. NoGap(v)' /\ Served(v)'
  BY <1>1, <1>2 DEF Line, NoGap, Served
<1>5. NoLoss(v)'
  BY <1>1, <1>2, Numbers DEF Line, NoLoss
<1> QED
  BY <1>3, <1>4, <1>5 DEF Line

(* It has given it to all,                                                  *)
LEMMA SplitFlushesInLine ==
  ASSUME TypeOK, SplitFlushes, NEW v \in Vfos, Line(v) PROVE Line(v)'
<1>1. ASSUME v \in ToSet(streams) PROVE HasIt(v)
  <2>1. PICK k \in DOMAIN streams : streams[k] = v
    BY <1>1 DEF ToSet
  <2>2. k \in 1..(target - 1) /\ wpc["split"] = "copy"
    BY <2>1 DEF SplitFlushes, TypeOK
  <2> QED
    BY <2>1, <2>2 DEF HasIt
<1> QED
  BY <1>1, SplitLetsGoInLine, Numbers DEF Line, Served

(* or it was told to stop, and the VFOs with it.                            *)
LEMMA SplitAbandonsInLine ==
  ASSUME TypeOK, Flags, SplitAbandons, NEW v \in Vfos, Line(v), Told(v) PROVE Line(v)'
<1>1. joining /\ Stopping("split") /\ wpc["split"] = "copy"
  <2>1. streams[target] \in Vfos
    BY DEF SplitAbandons, TypeOK
  <2> QED
    BY <2>1, FlagsMean DEF SplitAbandons
<1> QED
  BY <1>1, SplitLetsGoInLine DEF Told

-----------------------------------------------------------------------------
(* The VFOs                                                                 *)

(* What one VFO does is nothing to another.                                 *)
LEMMA OtherVfoInLine ==
  ASSUME TypeOK, NEW v \in Vfos, Line(v), NEW w \in Vfos, VfoEnds(w) \/ VfoDelivers(w), w # v
  PROVE  Line(v)'
<1>1. /\ UNCHANGED <<taken, last[v], streams, disturbed, target, cur["src"], wpc["split"]>>
      /\ chan'[In] = chan[In] /\ chan'[Into(v)] = chan[Into(v)]
  BY Names DEF VfoEnds, VfoReads, VfoDelivers, VfoAbandons, VfoStops, Goto, Drop, control, ring,
               TypeOK
<1>2. HasIt(v)' <=> HasIt(v)
  BY <1>1 DEF HasIt
<1> QED
  BY <1>1, <1>2, NothingMoved

(* A VFO begins with a frame,                                               *)
LEMMA VfoTurnsInLine ==
  ASSUME TypeOK, NEW v \in Vfos, Line(v), VfoReads(v) \/ VfoStops(v) PROVE Line(v)'
<1>1. UNCHANGED <<taken, last, streams, disturbed, target, chan, cur["src"], wpc["split"]>>
  BY Names DEF VfoReads, VfoStops, Goto, control, ring, TypeOK
<1>2. HasIt(v)' <=> HasIt(v)
  BY <1>1 DEF HasIt
<1> QED
  BY <1>1, <1>2, NothingMoved

(* delivers it,                                                             *)
LEMMA VfoDeliversInLine ==
  ASSUME TypeOK, Hands, NEW v \in Vfos, Line(v), VfoDelivers(v) PROVE Line(v)'
<1>1. /\ UNCHANGED <<taken, streams, disturbed, target, cur["src"], wpc["split"]>>
      /\ chan'[In] = chan[In] /\ chan'[Into(v)] = NoFrame /\ last'[v] = chan[Into(v)]
      /\ chan[Into(v)] # NoFrame
  BY Names DEF VfoDelivers, Goto, Drop, control, ring, TypeOK, Hands
<1>2. Given(v)' = Given(v) /\ (HasIt(v)' <=> HasIt(v))
  BY <1>1 DEF HasIt, Given
<1>3. InLine(v)'
  BY <1>1, <1>2 DEF Line, InLine
<1> QED
  BY <1>1, <1>2, <1>3 DEF Line, NoGap, NoLoss, Served

(* or gives it up, which it was told of.                                    *)
LEMMA VfoAbandonsInLine ==
  ASSUME TypeOK, Flags, Hands, NEW v \in Vfos, Line(v), Told(v), VfoAbandons(v) PROVE Line(v)'
<1>1. /\ UNCHANGED <<taken, last, streams, disturbed, target, cur["src"], wpc["split"]>>
      /\ chan'[In] = chan[In] /\ chan'[Into(v)] = NoFrame /\ chan[Into(v)] # NoFrame
  BY Names DEF VfoAbandons, Goto, Drop, control, ring, TypeOK, Hands
<1>2. chan[Into(v)] <= disturbed[v]
  BY FlagsMean DEF VfoAbandons, Told
<1>3. /\ Given(v) = chan[Into(v)] /\ Given(v)' = last[v] /\ last[v] < chan[Into(v)]
      /\ (HasIt(v)' <=> HasIt(v))
  BY <1>1 DEF HasIt, Given, Line, InLine
<1>4. InLine(v)'
  BY <1>1, <1>3, Numbers DEF Line, InLine
<1>5. NoGap(v)'
  BY <1>1 DEF NoGap
<1>6. NoLoss(v)'
  <2>1. ASSUME v \in ToSet(streams), NEW f \in (last[v] + 1)..taken
        PROVE  f <= disturbed[v] \/ f = cur["src"] \/ f = chan[In]
    <3>1. CASE f <= chan[Into(v)]
      BY <1>2, <3>1, Numbers
    <3>2. CASE ~(f <= chan[Into(v)])
      BY <1>3, <2>1, <3>2, Numbers DEF Line, NoLoss
    <3> QED
      BY <3>1, <3>2
  <2> QED
    BY <1>1, <1>3, <2>1 DEF NoLoss
<1>7. Served(v)'
  BY <1>1, <1>2, <1>3, Numbers DEF Line, Served
<1> QED
  BY <1>4, <1>5, <1>6, <1>7 DEF Line

-----------------------------------------------------------------------------
(* Every step keeps the frames in line, *)
LEMMA LineKept ==
  ASSUME OInv, [Next]_vars, NEW v \in Vfos PROVE Line(v)'
<1> USE DEF OInv, IInv
<1>1. CASE CallSomething \/ Perform
  BY <1>1, ControlKeepsLine
<1>2. CASE SourcePushes \/ SourceReadEnds \/ SourceStep
  BY <1>2, SourcePushesInLine, SourceIdlesInLine, SourceTestsInLine, SourceSwapsInLine,
     SourceStopsInLine DEF SourceStep
<1>3. CASE SplitStep
  BY <1>3, SplitTurnsInLine, SplitSwapsInLine, SplitFlushesInLine, SplitAbandonsInLine
     DEF SplitStep
<1>4. ASSUME NEW w \in Vfos, VfoEnds(w) \/ VfoDelivers(w) PROVE Line(v)'
  <2>1. CASE w # v
    BY <1>4, <2>1, OtherVfoInLine
  <2>2. CASE w = v
    BY <1>4, <2>2, VfoTurnsInLine, VfoDeliversInLine, VfoAbandonsInLine DEF VfoEnds
  <2> QED
    BY <2>1, <2>2
<1>5. CASE UNCHANGED vars
  BY <1>5 DEF vars, Line, InLine, NoGap, NoLoss, Served, Given, HasIt
<1> QED
  BY <1>1, <1>2, <1>3, <1>4, <1>5 DEF Next

(* and accounts for what a block that is being stopped has in hand: it takes  *)
(* nothing more.                                                            *)
LEMMA ToldKept ==
  ASSUME OInv, [Next]_vars, NEW v \in Vfos PROVE Told(v)'
<1> USE DEF OInv, IInv
<1>0. /\ cur["src"] <= taken /\ chan[In] <= taken /\ chan[Into(v)] <= taken
      /\ disturbed[v] <= taken /\ disturbed[v] \in Nat /\ taken \in Nat
      /\ cur["src"] \in Nat /\ chan[In] \in Nat /\ chan[Into(v)] \in Nat
  BY Numbers DEF Line, InLine, Given, NoFrame
<1>1. CASE CallSomething
  <2>1. ~joining'
    BY <1>1, CallsLeave DEF Flags, Stopping, Doing, idle
  <2> QED
    BY <2>1 DEF Told
<1>2. ASSUME NEW b \in Blocks, TellToStop(b) PROVE Told(v)'
  <2>1. /\ UNCHANGED <<chan, cur, todo>>
        /\ wpc'["split"] = wpc["split"] /\ wpc'[v] = wpc[v]
    <3>1. UNCHANGED <<chan, cur, todo>>
      BY <1>2 DEF TellToStop
    <3>2. wpc'["split"] = wpc["split"] /\ wpc'[v] = wpc[v]
      BY <1>2, Names DEF TellToStop, NotifyRing, TypeOK
    <3> QED
      BY <3>1, <3>2
  <2>2. b \in {v, "src", "split"} => disturbed'[v] = taken
    BY <1>2, Names DEF TellToStop, Disturb
  <2>3. \A c : Stopping(c)' => c = b
    BY <1>2, <2>1 DEF TellToStop, Stopping, Doing
  <2> QED
    BY <1>0, <2>1, <2>2, <2>3 DEF Told
<1>3. ASSUME NEW b \in Blocks, JoinBlock(b) PROVE Told(v)'
  BY <1>3 DEF JoinBlock, Told
<1>4. CASE Perform
  BY <1>2, <1>3, <1>4, OnlyStops DEF Told
<1>5. CASE WorkerMoves
  <2>1. UNCHANGED control /\ (\A b : Stopping(b)' <=> Stopping(b))
    BY <1>5, WorkersLeave DEF control, Stopping, Doing
  <2>2. disturbed[v] <= disturbed'[v] /\ disturbed'[v] \in Nat
    BY <1>0, <1>5, Numbers
       DEF WorkerMoves, SourceStep, SplitStep, VfoEnds, SourcePushes, SourceReadEnds,
           SourceTests, SourceWaits, SourceSwaps, SourceStops, SplitReads, SplitSwaps,
           SplitFlushes, SplitAbandons, SplitStops, VfoReads, VfoDelivers, VfoAbandons,
           VfoStops, Disturb
  <2>3. ASSUME joining, Stopping("src") PROVE cur'["src"] \in {cur["src"], NoFrame}
    <3>1. Into("src") \in rstop
      BY <2>3, FlagsMean
    <3> QED
      BY <1>5, <3>1, Names
         DEF WorkerMoves, SourceStep, SplitStep, VfoEnds, SourcePushes, SourceReadEnds,
             SourceTests, SourceWaits, SourceSwaps, SourceStops, SplitReads, SplitSwaps,
             SplitFlushes, SplitAbandons, SplitStops, VfoReads, VfoDelivers, VfoAbandons,
             VfoStops, Drop, TypeOK
  <2>4. ASSUME joining, Stopping("split"), wpc'["split"] = "copy"
        PROVE  wpc["split"] = "copy" /\ chan'[In] = chan[In]
    <3>1. In \in rstop
      BY <2>4, FlagsMean
    <3>2. wpc["split"] = "copy"
      BY <1>5, <2>4, <3>1, Names
         DEF WorkerMoves, SourceStep, SplitStep, VfoEnds, SourcePushes, SourceReadEnds,
             SourceTests, SourceWaits, SourceSwaps, SourceStops, SplitReads, SplitSwaps,
             SplitFlushes, SplitAbandons, SplitStops, VfoReads, VfoDelivers, VfoAbandons,
             VfoStops, Goto, NotifyRing, TypeOK
    <3>3. chan[In] # NoFrame /\ ~SplitFlushes /\ ~SplitAbandons
      BY <2>4, <3>2, Names DEF Hands, SplitFlushes, SplitAbandons, Goto, TypeOK
    <3>4. SplitSwaps => streams[target] \in Vfos
      BY DEF SplitSwaps, TypeOK
    <3> QED
      BY <1>5, <3>2, <3>3, <3>4, Names
         DEF WorkerMoves, SourceStep, SplitStep, VfoEnds, SourcePushes, SourceReadEnds,
             SourceTests, SourceWaits, SourceSwaps, SourceStops, SplitReads, SplitSwaps,
             SplitStops, VfoReads, VfoDelivers, VfoAbandons, VfoStops, TypeOK
  <2>5. ASSUME joining, Stopping(v), wpc'[v] = "out"
        PROVE  wpc[v] = "out" /\ chan'[Into(v)] = chan[Into(v)]
    <3>1. Into(v) \in rstop
      BY <2>5, FlagsMean
    <3>2. wpc[v] = "out"
      BY <1>5, <2>5, <3>1, Names
         DEF WorkerMoves, SourceStep, SplitStep, VfoEnds, SourcePushes, SourceReadEnds,
             SourceTests, SourceWaits, SourceSwaps, SourceStops, SplitReads, SplitSwaps,
             SplitFlushes, SplitAbandons, SplitStops, VfoReads, VfoDelivers, VfoAbandons,
             VfoStops, Goto, NotifyRing, TypeOK
    <3>3. chan[Into(v)] # NoFrame /\ ~VfoDelivers(v) /\ ~VfoAbandons(v)
      BY <2>5, <3>2, Names DEF Hands, VfoDelivers, VfoAbandons, Goto, TypeOK
    <3>4. SplitSwaps => streams[target] \in Vfos /\ streams[target] # v
      BY <3>3 DEF SplitSwaps, TypeOK
    <3>5. CASE SourcePushes \/ SourceReadEnds \/ SourceStep \/ SplitStep
      <4>1. CASE SplitSwaps
        BY <3>2, <3>4, <4>1, Names DEF SplitSwaps, TypeOK
      <4>2. CASE SourceSwaps \/ SplitFlushes \/ SplitAbandons
        BY <3>2, <4>2, Names DEF SourceSwaps, SplitFlushes, SplitAbandons, TypeOK
      <4>3. CASE \/ SourcePushes \/ SourceReadEnds \/ SourceTests \/ SourceWaits
                 \/ SourceStops \/ SplitReads \/ SplitStops
        BY <3>2, <4>3 DEF SourcePushes, SourceReadEnds, SourceTests, SourceWaits, SourceStops,
                    SplitReads, SplitStops
      <4> QED
        BY <3>2, <3>5, <4>1, <4>2, <4>3 DEF SourceStep, SplitStep
    <3>6. ASSUME NEW w \in Vfos, VfoEnds(w) \/ VfoDelivers(w) PROVE chan'[Into(v)] = chan[Into(v)]
      BY <3>3, <3>6, Names
         DEF VfoEnds, VfoReads, VfoDelivers, VfoAbandons, VfoStops, TypeOK
    <3> QED
      BY <1>5, <3>2, <3>5, <3>6 DEF WorkerMoves
  <2>6. UNCHANGED joining
    BY <2>1 DEF control
  <2> QED
    BY <1>0, <2>1, <2>2, <2>3, <2>4, <2>5, <2>6 DEF Told, NoFrame
<1>6. CASE UNCHANGED vars
  BY <1>6 DEF vars, Told, Stopping, Doing
<1> QED
  BY <1>1, <1>4, <1>5, <1>6 DEF Next, WorkerMoves

(* The strengthening holds at the beginning and from then on.               *)
THEOREM OrderInvariant == Spec => []OInv
<1>1. Init => OInv
  <2> SUFFICES ASSUME Init PROVE OInv
    OBVIOUS
  <2>1. IInv
    BY InitIInv
  <2>2. Flags /\ BufferResumed
    BY DEF Init, Flags, BufferResumed
  <2>3. Hands
    BY DEF Init, Hands, Blocks
  <2>4. ASSUME NEW v \in Vfos PROVE Line(v) /\ Told(v)
    BY Names, Numbers, <2>1
       DEF IInv, Init, Line, InLine, NoGap, NoLoss, Served, HasIt, Given, Told, NoFrame, Blocks
  <2> QED
    BY <2>1, <2>2, <2>3, <2>4 DEF OInv
<1>2. OInv /\ [Next]_vars => OInv'
  <2> SUFFICES ASSUME OInv, [Next]_vars PROVE OInv'
    OBVIOUS
  <2>1. IInv'
    BY StepKeeps DEF OInv
  <2>2. Flags' /\ BufferResumed' /\ Hands'
    BY FlagsKept, BufferResumedKept, HandsKept DEF OInv, IInv
  <2> QED
    BY <2>1, <2>2, LineKept, ToldKept DEF OInv
<1> QED
  BY <1>1, <1>2, PTL DEF Spec

(* A VFO delivers frames in order, none twice, and skips only what was lost   *)
(* when a block on its path was stopped or the ring emptied: splitter and VFOs  *)
(* hand each frame on once however stops, pauses and bindings cut in.          *)
THEOREM DeliveredInOrder == Spec => FramesInOrder
<1>1. ASSUME OInv, [Next]_vars
      PROVE  [\A v \in Vfos : wpc[v] = "out" /\ wpc'[v] = "read" =>
                /\ cur[v] > last[v]
                /\ \A f \in (last[v] + 1)..(cur[v] - 1) : f <= disturbed[v]]_vars
  <2>1. ASSUME NEW v \in Vfos, wpc[v] = "out"
        PROVE  cur[v] > last[v] /\ \A f \in (last[v] + 1)..(cur[v] - 1) : f <= disturbed[v]
    <3>1. cur[v] = chan[Into(v)] /\ chan[Into(v)] # NoFrame
      BY <1>1, <2>1 DEF OInv, Hands
    <3> QED
      BY <1>1, <2>1, <3>1, Numbers DEF OInv, IInv, Line, InLine, NoGap
  <2> QED
    BY <2>1
<1> QED
  BY <1>1, OrderInvariant, PTL DEF Spec, FramesInOrder
-----------------------------------------------------------------------------
(* What OperationsReturn rests on.  That an operation returns is liveness and *)
(* stays with TLC; an operation waits in one place only, the join of a worker, *)
(* and there the worker exists, has been told, and has not slept through it.   *)

(* The worker that is joined is there, both its stop flags are set wherever it *)
(* may wait, and the buffer's second worker does not sleep: only one that was  *)
(* told between its test of the ring and its wait has missed it                *)
(* (block::doStop, SampleFrameBuffer::stopWorker).                            *)
StopIsHeard ==
  /\ joining => \E b \in running :
                  /\ Stopping(b) /\ wpc[b] # "off"
                  /\ InputsOf(b) \subseteq rstop /\ OutputsOf(b) \subseteq wstop
                  /\ b = "src" => wpc["src"] # "asleep"
  /\ wpc["src"] = "missed" => joining /\ Stopping("src")

(* A block that is resumed has no worker: tempStart gives no running block a   *)
(* second thread, whatever pauses and stops the operation has in between.      *)
ResumedBlockIsOff == \A b \in running : Doing("resume", b) => wpc[b] = "off"

(* The operation's pause at i goes with its resume at j: nothing is done to    *)
(* the block in between.                                                      *)
Answers(ops, i, j) ==
  /\ i < j /\ ops[i][1] = "pause" /\ ops[j] = <<"resume", ops[i][2]>>
  /\ \A k \in DOMAIN ops : i < k /\ k < j => ops[k][2] # ops[i][2]

(* Nothing is done to a block before j.                                       *)
First(ops, j) == \A k \in DOMAIN ops : k < j => ops[k][2] # ops[j][2]

(* Each operation resumes what it pauses, and nothing else.                   *)
Paired(ops) ==
  /\ \A i \in DOMAIN ops : ops[i][1] = "pause" => \E j \in DOMAIN ops : Answers(ops, i, j)
  /\ \A j \in DOMAIN ops : ops[j][1] = "resume" => \E i \in DOMAIN ops : Answers(ops, i, j)

(* So does what is left of it, but for blocks it has paused already; only      *)
(* these have no worker while they run.                                       *)
Pauses ==
  /\ \A i \in DOMAIN todo : todo[i][1] = "pause" => \E j \in DOMAIN todo : Answers(todo, i, j)
  /\ \A j \in DOMAIN todo : todo[j][1] = "resume" =>
       \/ \E i \in DOMAIN todo : Answers(todo, i, j)
       \/ First(todo, j) /\ wpc[todo[j][2]] = "off"
  /\ \A b \in running : wpc[b] = "off" =>
       \E j \in DOMAIN todo : todo[j] = <<"resume", b>> /\ First(todo, j)

(* The buffer's second worker sleeps, or has missed its wake-up, by its flag.  *)
Sleeps == /\ wpc["src"] = "asleep" => Into("src") \notin rstop
          /\ wpc["src"] = "missed" => Into("src") \in rstop

(* What is left after the first block operation.                              *)
LEMMA TailOfTodo ==
  ASSUME IInv, todo # <<>>, Done
  PROVE  /\ Len(todo) \in Nat \ {0} /\ DOMAIN todo = 1..Len(todo)
         /\ Len(todo') = Len(todo) - 1 /\ DOMAIN todo' = 1..(Len(todo) - 1)
         /\ \A i \in 1..(Len(todo) - 1) : todo'[i] = todo[i + 1]
         /\ Head(todo) = todo[1] /\ todo[1][2] \in Blocks
<1>1. todo \in Seq({"start", "stop", "pause", "resume", "flush", "new", "bind", "unbind",
                    "delete"} \X Blocks)
  BY IsAList
<1>2. /\ Len(todo) \in Nat \ {0} /\ DOMAIN todo = 1..Len(todo)
      /\ Len(todo') = Len(todo) - 1 /\ DOMAIN todo' = 1..(Len(todo) - 1)
      /\ \A i \in 1..(Len(todo) - 1) : todo'[i] = todo[i + 1]
  BY <1>1, HeadTailProperties DEF Done
<1>3. Head(todo) = todo[1] /\ todo[1] \in {"start", "stop", "pause", "resume", "flush", "new",
                                           "bind", "unbind", "delete"} \X Blocks
  BY <1>1, <1>2
<1> QED
  BY <1>2, <1>3

(* One block operation is done: it concerns one block, and leaves that one     *)
(* without a worker while it runs only if it is a pause.                      *)
LEMMA PausesAdvance ==
  ASSUME IInv, Pauses, todo # <<>>, Done, NEW c \in Blocks, Head(todo)[2] = c,
         \A b \in Blocks : b # c => /\ wpc'[b] = "off" <=> wpc[b] = "off"
                                    /\ b \in running' <=> b \in running,
         Head(todo)[1] = "pause" => wpc'[c] = "off",
         Head(todo)[1] # "pause" /\ c \in running' /\ wpc'[c] = "off"
           => c \in running /\ wpc[c] = "off" /\ Head(todo)[1] # "resume",
         running' \subseteq Blocks
  PROVE  Pauses'
<1> DEFINE n == Len(todo)
<1>1. /\ n \in Nat \ {0} /\ DOMAIN todo = 1..n /\ DOMAIN todo' = 1..(n - 1)
      /\ \A i \in 1..(n - 1) : todo'[i] = todo[i + 1]
      /\ Head(todo) = todo[1]
  BY TailOfTodo
<1> HIDE DEF n
<1>2. ASSUME NEW i \in 1..(n - 1), NEW j \in 1..(n - 1), Answers(todo, i + 1, j + 1)
      PROVE  Answers(todo, i, j)'
  <2>1. i < j /\ todo'[i] = todo[i + 1] /\ todo'[j] = todo[j + 1]
    BY <1>1, <1>2 DEF Answers
  <2>2. todo'[i][1] = "pause" /\ todo'[j] = <<"resume", todo'[i][2]>>
    BY <1>2, <2>1 DEF Answers
  <2>3. ASSUME NEW k \in 1..(n - 1), i < k, k < j PROVE todo'[k][2] # todo'[i][2]
    <3>1. k + 1 \in 1..n /\ i + 1 < k + 1 /\ k + 1 < j + 1
      BY <1>1, <2>3
    <3>2. todo[k + 1][2] # todo[i + 1][2]
      BY <1>1, <1>2, <3>1 DEF Answers
    <3> QED
      BY <1>1, <2>1, <3>2
  <2> QED
    BY <1>1, <2>1, <2>2, <2>3 DEF Answers
<1>3. ASSUME NEW j \in 1..(n - 1), First(todo, j + 1) PROVE First(todo, j)'
  <2>1. ASSUME NEW k \in 1..(n - 1), k < j PROVE todo'[k][2] # todo'[j][2]
    <3>1. k + 1 \in 1..n /\ k + 1 < j + 1
      BY <1>1, <2>1
    <3>2. todo[k + 1][2] # todo[j + 1][2]
      BY <1>1, <1>3, <3>1 DEF First
    <3> QED
      BY <1>1, <3>2
  <2> QED
    BY <1>1, <2>1 DEF First
<1>4. ASSUME NEW i \in 1..(n - 1), todo'[i][1] = "pause"
      PROVE  \E j \in 1..(n - 1) : Answers(todo, i, j)'
  <2>1. i + 1 \in DOMAIN todo /\ todo[i + 1][1] = "pause"
    BY <1>1, <1>4
  <2>2. PICK j \in DOMAIN todo : Answers(todo, i + 1, j)
    BY <2>1 DEF Pauses
  <2>3. j - 1 \in 1..(n - 1) /\ (j - 1) + 1 = j
    BY <1>1, <2>2 DEF Answers
  <2> QED
    BY <1>2, <2>2, <2>3
<1>5. ASSUME NEW j \in 1..(n - 1), todo'[j][1] = "resume"
      PROVE  \/ \E i \in 1..(n - 1) : Answers(todo, i, j)'
             \/ First(todo, j)' /\ wpc'[todo'[j][2]] = "off"
  <2>1. j + 1 \in DOMAIN todo /\ todo[j + 1][1] = "resume" /\ todo'[j] = todo[j + 1]
    BY <1>1, <1>5
  <2>2. ASSUME NEW i \in DOMAIN todo, Answers(todo, i, j + 1), i # 1
        PROVE  \E k \in 1..(n - 1) : Answers(todo, k, j)'
    <3>1. i - 1 \in 1..(n - 1) /\ (i - 1) + 1 = i
      BY <1>1, <2>2
    <3> QED
      BY <1>2, <2>2, <3>1
  <2>3. ASSUME Answers(todo, 1, j + 1)
        PROVE  First(todo, j)' /\ wpc'[todo'[j][2]] = "off"
    <3>1. todo[j + 1][2] = c /\ Head(todo)[1] = "pause"
      BY <1>1, <2>3 DEF Answers
    <3>2. \A k \in 1..(n - 1) : k < j => todo'[k][2] # todo'[j][2]
      BY <1>1, <2>1, <2>3, <3>1 DEF Answers
    <3> QED
      BY <1>1, <2>1, <3>1, <3>2 DEF First
  <2>4. ASSUME First(todo, j + 1), wpc[todo[j + 1][2]] = "off"
        PROVE  First(todo, j)' /\ wpc'[todo'[j][2]] = "off"
    <3>1. todo[j + 1][2] # c
      BY <1>1, <2>4 DEF First
    <3>2. todo[j + 1][2] \in Blocks
      BY <2>1, IsAList
    <3> QED
      BY <1>3, <2>1, <2>4, <3>1, <3>2
  <2> QED
    BY <2>1, <2>2, <2>3, <2>4 DEF Pauses
<1>6. ASSUME NEW b \in running', wpc'[b] = "off"
      PROVE  \E j \in 1..(n - 1) : todo'[j] = <<"resume", b>> /\ First(todo, j)'
  <2>1. CASE b = c /\ Head(todo)[1] = "pause"
    <3>1. PICK j \in DOMAIN todo : Answers(todo, 1, j)
      BY <1>1, <2>1 DEF Pauses
    <3>2. j - 1 \in 1..(n - 1) /\ (j - 1) + 1 = j /\ todo'[j - 1] = <<"resume", b>>
      BY <1>1, <2>1, <3>1 DEF Answers
    <3>3. \A k \in 1..(n - 1) : k < j - 1 => todo'[k][2] # b
      BY <1>1, <2>1, <3>1 DEF Answers
    <3> QED
      BY <1>1, <3>2, <3>3 DEF First
  <2>2. CASE ~(b = c /\ Head(todo)[1] = "pause")
    <3>1. b \in running /\ wpc[b] = "off" /\ ~(b = c /\ Head(todo)[1] = "resume")
      BY <1>6, <2>2
    <3>2. PICK j \in DOMAIN todo : todo[j] = <<"resume", b>> /\ First(todo, j)
      BY <3>1 DEF Pauses
    <3>3. j # 1
      BY <1>1, <3>1, <3>2
    <3>4. j - 1 \in 1..(n - 1) /\ (j - 1) + 1 = j
      BY <1>1, <3>3
    <3>5. todo'[j - 1] = <<"resume", b>> /\ First(todo, j - 1)'
      BY <1>1, <1>3, <3>2, <3>4
    <3> QED
      BY <3>4, <3>5
  <2> QED
    BY <2>1, <2>2
<1> QED
  BY <1>1, <1>4, <1>5, <1>6 DEF Pauses

(* One block operation on each VFO, in the order of the map.                  *)
LEMMA EachOnce ==
  ASSUME TypeOK, NEW k
  PROVE  /\ Cardinality(vfos) \in Nat
         /\ DOMAIN ForEach(k, VfoOrder) = 1..Cardinality(vfos)
         /\ \A i \in 1..Cardinality(vfos) : ForEach(k, VfoOrder)[i] = <<k, VfoOrder[i]>>
         /\ \A i, j \in 1..Cardinality(vfos) : VfoOrder[i] = VfoOrder[j] => i = j
<1>1. IsFiniteSet(vfos)
  BY FrontEndAssumption, FS_Subset DEF TypeOK
<1>2. \E f \in [1..Cardinality(vfos) -> vfos] : IsInjective(f)
  BY <1>1, FS_CardinalityType DEF ExistsBijection, Bijection, Injection, IsInjective
<1>3. VfoOrder \in [1..Cardinality(vfos) -> vfos] /\ IsInjective(VfoOrder)
  BY <1>2 DEF VfoOrder, SetToSeq
<1>4. Cardinality(vfos) \in Nat
  BY <1>1, FS_CardinalityType
<1> QED
  BY <1>3, <1>4 DEF ForEach, IsInjective

(* setSampleRate pauses each VFO once and resumes each once.                  *)
LEMMA EachPaired ==
  ASSUME TypeOK
  PROVE  Paired(ForEach("pause", VfoOrder) \o ForEach("resume", VfoOrder))
<1> DEFINE n == Cardinality(vfos)
           p == ForEach("pause", VfoOrder)
           r == ForEach("resume", VfoOrder)
           ops == p \o r
<1>1. /\ n \in Nat /\ DOMAIN p = 1..n /\ DOMAIN r = 1..n
      /\ \A i \in 1..n : p[i] = <<"pause", VfoOrder[i]>> /\ r[i] = <<"resume", VfoOrder[i]>>
      /\ \A i, j \in 1..n : VfoOrder[i] = VfoOrder[j] => i = j
  BY EachOnce
<1>2. /\ p \in Seq({"start", "stop", "pause", "resume"} \X Vfos)
      /\ r \in Seq({"start", "stop", "pause", "resume"} \X Vfos)
  BY EachIsAVfo
<1> HIDE DEF n, p, r
<1>3. Len(p) = n /\ Len(r) = n
  BY <1>1, <1>2
<1>4. /\ DOMAIN ops = 1..(n + n)
      /\ \A i \in 1..(n + n) : ops[i] = IF i <= n THEN p[i] ELSE r[i - n]
  <2> DEFINE S == {"start", "stop", "pause", "resume"} \X Vfos
  <2>1. p \in Seq(S) /\ r \in Seq(S)
    BY <1>2
  <2> HIDE DEF S
  <2>2. /\ ops \in Seq(S) /\ Len(ops) = Len(p) + Len(r)
        /\ \A i \in 1..(Len(p) + Len(r)) :
             ops[i] = IF i <= Len(p) THEN p[i] ELSE r[i - Len(p)]
    BY <2>1, ConcatProperties
  <2> HIDE DEF ops
  <2>3. DOMAIN ops = 1..Len(ops)
    BY <2>2
  <2> QED
    BY <1>3, <2>2, <2>3
<1> HIDE DEF ops
<1>5. \A i \in 1..n : ops[i] = <<"pause", VfoOrder[i]>>
  BY <1>1, <1>4
<1>6. \A i \in 1..n : n + i \in 1..(n + n) /\ ops[n + i] = <<"resume", VfoOrder[i]>>
  <2> SUFFICES ASSUME NEW i \in 1..n
               PROVE  n + i \in 1..(n + n) /\ ops[n + i] = <<"resume", VfoOrder[i]>>
    OBVIOUS
  <2>1. n + i \in 1..(n + n) /\ ~(n + i <= n) /\ (n + i) - n = i
    BY <1>1
  <2> QED
    BY <1>1, <1>4, <2>1
<1>7. \A k \in 1..(n + n) : k \in 1..n \/ \E i \in 1..n : k = n + i
  <2> SUFFICES ASSUME NEW k \in 1..(n + n), k \notin 1..n PROVE \E i \in 1..n : k = n + i
    OBVIOUS
  <2>1. k - n \in 1..n /\ k = n + (k - n)
    BY <1>1
  <2> QED
    BY <2>1
<1>8. ASSUME NEW i \in 1..n PROVE Answers(ops, i, n + i)
  <2>1. ASSUME NEW k \in 1..(n + n), i < k, k < n + i PROVE ops[k][2] # VfoOrder[i]
    <3>1. CASE k \in 1..n
      BY <1>1, <1>5, <2>1, <3>1
    <3>2. ASSUME NEW j \in 1..n, k = n + j PROVE ops[k][2] # VfoOrder[i]
      <4>1. j < i
        BY <1>1, <2>1, <3>2
      <4>2. VfoOrder[j] # VfoOrder[i]
        BY <1>1, <4>1
      <4> QED
        BY <1>6, <3>2, <4>2
    <3> QED
      BY <1>7, <3>1, <3>2
  <2>2. i < n + i
    BY <1>1
  <2> QED
    BY <1>4, <1>5, <1>6, <2>1, <2>2 DEF Answers
<1>9. ASSUME NEW i \in 1..(n + n), ops[i][1] = "pause"
      PROVE  \E j \in 1..(n + n) : Answers(ops, i, j)
  <2>1. i \in 1..n
    BY <1>6, <1>7, <1>9
  <2> QED
    BY <1>6, <1>8, <2>1
<1>10. ASSUME NEW j \in 1..(n + n), ops[j][1] = "resume"
       PROVE  \E i \in 1..(n + n) : Answers(ops, i, j)
  <2>1. PICK i \in 1..n : j = n + i
    BY <1>5, <1>7, <1>10
  <2>2. i \in 1..(n + n)
    BY <1>1
  <2> QED
    BY <1>8, <2>1, <2>2
<1>11. Paired(ops)
  BY <1>4, <1>9, <1>10 DEF Paired
<1> QED
  BY <1>11 DEF ops, p, r

(* A list that pauses and resumes nothing.                                    *)
LEMMA NothingPaused ==
  ASSUME NEW ops, \A i \in DOMAIN ops : ops[i][1] \in {"start", "stop", "flush"}
  PROVE  Paired(ops)
  BY DEF Paired

(* Every operation begins as a list that resumes what it pauses.              *)
LEMMA CallsArePaired ==
  ASSUME TypeOK, CallSomething PROVE Paired(todo')
<1> DEFINE Ops == {"start", "stop"} \X Blocks
<1>1. ASSUME todo' \in Seq(Ops) PROVE Paired(todo')
  <2>1. \A i \in DOMAIN todo' : todo'[i] \in Ops
    BY <1>1, ElementOfSeq
  <2> QED
    BY <2>1, NothingPaused
<1>2. \A k \in {"start", "stop"} : ForEach(k, VfoOrder) \in Seq(Ops)
  <2> SUFFICES ASSUME NEW k \in {"start", "stop"} PROVE ForEach(k, VfoOrder) \in Seq(Ops)
    OBVIOUS
  <2> DEFINE f == ForEach(k, VfoOrder)
  <2>1. /\ Cardinality(vfos) \in Nat /\ DOMAIN f = 1..Cardinality(vfos)
        /\ \A i \in 1..Cardinality(vfos) : f[i] = <<k, VfoOrder[i]>>
    BY EachOnce
  <2>2. f \in Seq({"start", "stop", "pause", "resume"} \X Vfos)
    BY EachIsAVfo
  <2> HIDE DEF f
  <2>3. \A i \in DOMAIN f : f[i] \in Ops
    <3>1. \A i \in DOMAIN f : f[i] \in {"start", "stop", "pause", "resume"} \X Vfos
      BY <2>2, ElementOfSeq
    <3> QED
      BY <2>1, <3>1 DEF Blocks
  <2>4. Len(f) \in Nat /\ f \in [1..Len(f) -> Ops]
    BY <2>2, <2>3
  <2>5. f \in Seq(Ops)
    BY <2>4, SeqDef
  <2> QED
    BY <2>5 DEF f
<1>3. CASE StartAll
  <2>1. <<<<"start", "src">>, <<"start", "split">>>> \in Seq(Ops)
    BY DEF Blocks
  <2>2. todo' \in Seq(Ops)
    BY <1>2, <1>3, <2>1, ConcatProperties DEF StartAll, Call
  <2> QED
    BY <1>1, <2>2
<1>4. CASE StopAll
  <2>1. <<<<"stop", "src">>, <<"stop", "split">>>> \in Seq(Ops)
    BY DEF Blocks
  <2>2. todo' \in Seq(Ops)
    BY <1>2, <1>4, <2>1, ConcatProperties DEF StopAll, Call
  <2> QED
    BY <1>1, <2>2
<1>5. CASE SetSampleRate
  BY <1>5, EachPaired DEF SetSampleRate, Call
<1>6. CASE SetInput
  <2>1. todo' = <<<<"pause", "src">>, <<"resume", "src">>>>
    BY <1>6 DEF SetInput, Call
  <2>2. DOMAIN todo' = 1..2 /\ todo'[1] = <<"pause", "src">> /\ todo'[2] = <<"resume", "src">>
    BY <2>1
  <2>3. Answers(todo', 1, 2)
    BY <2>2 DEF Answers
  <2> QED
    BY <2>2, <2>3 DEF Paired
<1>7. CASE FlushInputBuffer
  <2>1. todo' = <<<<"flush", "src">>>>
    BY <1>7 DEF FlushInputBuffer, Call
  <2> QED
    BY <2>1, NothingPaused
<1>8. ASSUME NEW v \in Vfos, AddVFO(v) PROVE Paired(todo')
  <2>1. todo' = <<<<"new", v>>, <<"pause", "split">>, <<"bind", v>>, <<"resume", "split">>,
                  <<"start", v>>>>
    BY <1>8 DEF AddVFO, Call
  <2>2. /\ DOMAIN todo' = 1..5
        /\ todo'[1] = <<"new", v>> /\ todo'[2] = <<"pause", "split">>
        /\ todo'[3] = <<"bind", v>> /\ todo'[4] = <<"resume", "split">>
        /\ todo'[5] = <<"start", v>>
    BY <2>1
  <2>3. Answers(todo', 2, 4)
    <3>1. \A k \in 1..5 : 2 < k /\ k < 4 => k = 3
      OBVIOUS
    <3> QED
      BY <2>2, <3>1, Names DEF Answers
  <2>4. \A k \in 1..5 : k \in {1, 2, 3, 4, 5}
    OBVIOUS
  <2>5. /\ \A k \in 1..5 : todo'[k][1] = "pause" => k = 2
        /\ \A k \in 1..5 : todo'[k][1] = "resume" => k = 4
    BY <2>2, <2>4
  <2> QED
    BY <2>2, <2>3, <2>5 DEF Paired
<1>9. ASSUME NEW v \in Vfos, RemoveVFO(v) PROVE Paired(todo')
  <2>1. todo' = <<<<"stop", v>>, <<"stop", v>>, <<"pause", "split">>, <<"unbind", v>>,
                  <<"resume", "split">>, <<"delete", v>>>>
    BY <1>9 DEF RemoveVFO, Call
  <2>2. /\ DOMAIN todo' = 1..6
        /\ todo'[1] = <<"stop", v>> /\ todo'[2] = <<"stop", v>>
        /\ todo'[3] = <<"pause", "split">> /\ todo'[4] = <<"unbind", v>>
        /\ todo'[5] = <<"resume", "split">> /\ todo'[6] = <<"delete", v>>
    BY <2>1
  <2>3. Answers(todo', 3, 5)
    <3>1. \A k \in 1..6 : 3 < k /\ k < 5 => k = 4
      OBVIOUS
    <3> QED
      BY <2>2, <3>1, Names DEF Answers
  <2>4. \A k \in 1..6 : k \in {1, 2, 3, 4, 5, 6}
    OBVIOUS
  <2>5. /\ \A k \in 1..6 : todo'[k][1] = "pause" => k = 3
        /\ \A k \in 1..6 : todo'[k][1] = "resume" => k = 5
    BY <2>2, <2>4
  <2> QED
    BY <2>2, <2>3, <2>5 DEF Paired
<1> QED
  BY <1>3, <1>4, <1>5, <1>6, <1>7, <1>8, <1>9 DEF CallSomething

(* No worker comes or goes by itself.                                         *)
LEMMA WorkersStay ==
  ASSUME TypeOK, WorkerMoves
  PROVE  \A b \in Blocks : wpc'[b] = "off" <=> wpc[b] = "off"
<1>1. CASE SourcePushes \/ SourceReadEnds
  BY <1>1 DEF SourcePushes, SourceReadEnds, NotifyRing, TypeOK, Blocks
<1>2. CASE SourceStep
  BY <1>2 DEF SourceStep, SourceTests, SourceWaits, SourceSwaps, SourceStops, Goto, TypeOK,
     Blocks
<1>3. CASE SplitStep
  BY <1>3 DEF SplitStep, SplitReads, SplitSwaps, SplitFlushes, SplitAbandons, SplitStops, Goto,
     TypeOK, Blocks
<1>4. ASSUME NEW v \in Vfos, VfoEnds(v) \/ VfoDelivers(v)
      PROVE  \A b \in Blocks : wpc'[b] = "off" <=> wpc[b] = "off"
  BY <1>4 DEF VfoEnds, VfoReads, VfoAbandons, VfoStops, VfoDelivers, Goto, TypeOK, Blocks
<1> QED
  BY <1>1, <1>2, <1>3, <1>4 DEF WorkerMoves

(* What is left of an operation goes on resuming what it has paused.          *)
LEMMA PausesKept == ASSUME IInv, Pauses, [Next]_vars PROVE Pauses'
<1>0. /\ TypeOK /\ wpc \in [Blocks -> Pcs] /\ running \subseteq Blocks
      /\ \A b \in Blocks : b \notin running => wpc[b] = "off"
  BY DEF IInv, TypeOK, Attached
<1>1. ASSUME UNCHANGED <<todo, running>>, \A b \in Blocks : wpc'[b] = "off" <=> wpc[b] = "off"
      PROVE  Pauses'
  <2>1. \A j \in DOMAIN todo : todo[j][2] \in Blocks
    BY IsAList
  <2> QED
    BY <1>0, <1>1, <2>1 DEF Pauses, Answers, First
<1>2. CASE WorkerMoves
  BY <1>0, <1>1, <1>2, WorkersStay, WorkersLeave DEF control
<1>3. CASE UNCHANGED vars
  BY <1>1, <1>3 DEF vars
<1>4. CASE CallSomething
  <2>1. todo = <<>> /\ UNCHANGED <<running, wpc>> /\ Paired(todo')
    BY <1>0, <1>4, CallsLeave, CallsArePaired DEF idle
  <2>2. \A b \in running : wpc[b] # "off"
    BY <2>1 DEF Pauses
  <2> QED
    BY <2>1, <2>2 DEF Pauses, Paired
<1>5. ASSUME NEW b \in Blocks, TellToStop(b) PROVE Pauses'
  <2>1. UNCHANGED <<todo, running>>
    BY <1>5 DEF TellToStop
  <2>2. \A c \in Blocks : wpc'[c] = "off" <=> wpc[c] = "off"
    BY <1>0, <1>5 DEF TellToStop, NotifyRing
  <2> QED
    BY <1>1, <2>1, <2>2
<1>6. ASSUME NEW k \in {"start", "stop", "pause", "resume", "flush", "new", "bind", "unbind",
                         "delete"},
             NEW b \in Blocks, Doing(k, b), Done,
             \A c \in Blocks : c # b => /\ wpc'[c] = "off" <=> wpc[c] = "off"
                                        /\ c \in running' <=> c \in running,
             k = "pause" => wpc'[b] = "off",
             k # "pause" /\ b \in running' /\ wpc'[b] = "off"
               => b \in running /\ wpc[b] = "off" /\ k # "resume",
             running' \subseteq Blocks
      PROVE  Pauses'
  <2>1. todo # <<>> /\ Head(todo)[1] = k /\ Head(todo)[2] = b
    BY <1>6 DEF Doing
  <2> QED
    BY <1>6, <2>1, PausesAdvance
<1>7. ASSUME NEW b \in Blocks, StartBlock(b) PROVE Pauses'
  <2>1. Doing("start", b) /\ Done /\ running' = running \cup {b}
    BY <1>7 DEF StartBlock
  <2>2. /\ \A c \in Blocks : c # b => wpc'[c] = wpc[c]
        /\ b \notin running => wpc'[b] # "off"
        /\ b \in running => wpc'[b] = wpc[b]
    BY <1>0, <1>7 DEF StartBlock, Entry
  <2> QED
    BY <1>0, <1>6, <2>1, <2>2
<1>8. ASSUME NEW b \in Blocks, SkipStop(b) PROVE Pauses'
  <2>1. PICK k \in {"stop", "pause"} : Doing(k, b)
    BY <1>8 DEF SkipStop
  <2>2. Done /\ UNCHANGED <<wpc, running>> /\ b \notin running
    BY <1>8 DEF SkipStop, idle
  <2> QED
    BY <1>0, <1>6, <2>1, <2>2
<1>9. ASSUME NEW b \in Blocks, JoinBlock(b) PROVE Pauses'
  <2>1. PICK k \in {"stop", "pause"} : Doing(k, b)
    BY <1>9 DEF JoinBlock
  <2>2. Done /\ wpc'[b] = "off" /\ \A c \in Blocks : c # b => wpc'[c] = wpc[c]
    BY <1>0, <1>9 DEF JoinBlock, Goto
  <2>3. /\ running' \subseteq running /\ \A c \in running : c # b => c \in running'
        /\ k # "pause" => b \notin running'
    BY <1>9, <2>1 DEF JoinBlock
  <2> QED
    BY <1>0, <1>6, <2>1, <2>2, <2>3
<1>10. ASSUME NEW b \in Blocks, ResumeBlock(b) PROVE Pauses'
  <2>1. Doing("resume", b) /\ Done /\ running' = running
    BY <1>10 DEF ResumeBlock
  <2>2. /\ \A c \in Blocks : c # b => wpc'[c] = wpc[c]
        /\ b \in running => wpc'[b] # "off"
    BY <1>0, <1>10 DEF ResumeBlock, Entry
  <2> QED
    BY <1>0, <1>6, <2>1, <2>2
<1>11. CASE FlushRing
  <2>1. Doing("flush", "src") /\ Done /\ UNCHANGED <<wpc, running>> /\ "src" \in Blocks
    BY <1>11 DEF FlushRing, Blocks
  <2> QED
    BY <1>0, <1>6, <2>1
<1>12. ASSUME NEW v \in Vfos, NewVFO(v) \/ BindStream(v) \/ UnbindStream(v) \/ DeleteVFO(v)
       PROVE  Pauses'
  <2>1. PICK k \in {"new", "bind", "unbind", "delete"} : Doing(k, v)
    BY <1>12 DEF NewVFO, BindStream, UnbindStream, DeleteVFO
  <2>2. Done /\ UNCHANGED <<wpc, running>> /\ v \in Blocks
    BY <1>12 DEF NewVFO, BindStream, UnbindStream, DeleteVFO, Blocks
  <2> QED
    BY <1>0, <1>6, <2>1, <2>2
<1> QED
  BY <1>2, <1>3, <1>4, <1>5, <1>7, <1>8, <1>9, <1>10, <1>11, <1>12 DEF Next, WorkerMoves, Perform

(* Whoever tells the buffer to stop wakes it if it sleeps, and takes the flag  *)
(* back only when it is gone.                                                 *)
LEMMA SleepsKept == ASSUME IInv, Flags, Pauses, Sleeps, [Next]_vars PROVE Sleeps'
<1>0. TypeOK /\ wpc \in [Blocks -> Pcs] /\ "src" \in Blocks
  BY DEF IInv, TypeOK, Blocks
<1>1. CASE WorkerMoves
  <2>1. UNCHANGED rstop
    BY <1>1, WorkersLeave DEF control
  <2>2. CASE SourcePushes \/ SourceReadEnds
    BY <1>0, <2>1, <2>2 DEF SourcePushes, SourceReadEnds, NotifyRing, Sleeps
  <2>3. CASE SourceStep
    BY <1>0, <2>1, <2>3 DEF SourceStep, SourceTests, SourceWaits, SourceSwaps, SourceStops,
       Goto, Sleeps
  <2>4. CASE SplitStep
    BY <1>0, <2>1, <2>4 DEF SplitStep, SplitReads, SplitSwaps, SplitFlushes, SplitAbandons,
       SplitStops, Goto, Sleeps
  <2>5. ASSUME NEW v \in Vfos, VfoEnds(v) \/ VfoDelivers(v) PROVE Sleeps'
    <3>1. v # "src"
      BY Names
    <3>2. wpc'["src"] = wpc["src"]
      BY <1>0, <2>5, <3>1 DEF VfoEnds, VfoReads, VfoAbandons, VfoStops, VfoDelivers, Goto
    <3> QED
      BY <2>1, <3>2 DEF Sleeps
  <2> QED
    BY <1>1, <2>2, <2>3, <2>4, <2>5 DEF WorkerMoves
<1>2. CASE CallSomething \/ UNCHANGED vars
  <2>1. UNCHANGED <<rstop, wpc>>
    BY <1>2, CallsLeave DEF idle, vars
  <2> QED
    BY <2>1 DEF Sleeps
<1>3. ASSUME NEW b \in Blocks, TellToStop(b) PROVE Sleeps'
  <2>1. CASE b = "src"
    BY <1>0, <1>3, <2>1 DEF TellToStop, NotifyRing, Sleeps
  <2>2. CASE b # "src"
    <3>1. rstop' = rstop \cup {Into(b)} /\ UNCHANGED wpc
      BY <1>3, <2>2 DEF TellToStop, InputsOf
    <3>2. Into(b) # Into("src")
      BY <2>2 DEF Into
    <3> QED
      BY <3>1, <3>2 DEF Sleeps
  <2> QED
    BY <2>1, <2>2
<1>4. ASSUME NEW b \in Blocks, JoinBlock(b) PROVE Sleeps'
  <2>1. CASE b = "src"
    BY <1>0, <1>4, <2>1 DEF JoinBlock, Goto, Sleeps
  <2>2. CASE b # "src"
    <3>1. rstop' = rstop \ {Into(b)} /\ wpc'["src"] = wpc["src"]
      BY <1>0, <1>4, <2>2 DEF JoinBlock, Goto, InputsOf
    <3>2. Into(b) # Into("src")
      BY <2>2 DEF Into
    <3> QED
      BY <3>1, <3>2 DEF Sleeps
  <2> QED
    BY <2>1, <2>2
<1>5. CASE Perform /\ ~ \E b \in Blocks : TellToStop(b) \/ JoinBlock(b)
  <2>1. UNCHANGED rstop
    BY <1>0, <1>5, OnlyStops
  <2>2. wpc'["src"] \in {wpc["src"], "test"}
    BY <1>0, <1>5, Names DEF Perform, StartBlock, SkipStop, ResumeBlock, FlushRing, NewVFO,
       BindStream, UnbindStream, DeleteVFO, Entry, idle
  <2> QED
    BY <2>1, <2>2 DEF Sleeps
<1> QED
  BY <1>1, <1>2, <1>3, <1>4, <1>5 DEF Next, WorkerMoves

(* All of it together.                                                        *)
LEMMA PauseInvariant == Spec => [](IInv /\ Flags /\ Pauses /\ Sleeps)
<1>1. Init => IInv /\ Flags /\ Pauses /\ Sleeps
  BY InitIInv DEF Init, Flags, Pauses, Sleeps, Blocks
<1>2. (IInv /\ Flags /\ Pauses /\ Sleeps) /\ [Next]_vars
        => (IInv /\ Flags /\ Pauses /\ Sleeps)'
  BY StepKeeps, FlagsKept, PausesKept, SleepsKept DEF IInv
<1> QED
  BY <1>1, <1>2, PTL DEF Spec

(* A running block at the head of an operation that is not resumed there has   *)
(* its worker.                                                                *)
LEMMA StoppedBlockIsOn ==
  ASSUME IInv, Pauses, NEW b \in running, Stopping(b)
  PROVE  wpc[b] # "off"
<1> SUFFICES ASSUME wpc[b] = "off" PROVE FALSE
  OBVIOUS
<1>1. PICK j \in DOMAIN todo : todo[j] = <<"resume", b>> /\ First(todo, j)
  BY DEF Pauses
<1>2. /\ todo # <<>> /\ todo \in Seq({"start", "stop", "pause", "resume", "flush", "new",
                                      "bind", "unbind", "delete"} \X Blocks)
      /\ Head(todo)[1] \in {"stop", "pause"} /\ Head(todo)[2] = b
  BY IsAList DEF Stopping, Doing
<1>3. 1 \in DOMAIN todo /\ Head(todo) = todo[1] /\ DOMAIN todo = 1..Len(todo) /\ Len(todo) \in Nat
  BY <1>2
<1>4. j # 1
  BY <1>1, <1>2, <1>3
<1>5. 1 < j
  BY <1>3, <1>4
<1> QED
  BY <1>1, <1>2, <1>3, <1>5 DEF First

(* Whatever operation stops or pauses a block joins a worker that is there,    *)
(* that finds its stop flags set wherever it waits, and that does not sleep    *)
(* unless it was told between its test of the ring and its wait.              *)
THEOREM StopsAreHeard == Spec => []StopIsHeard
<1>1. IInv /\ Flags /\ Pauses /\ Sleeps => StopIsHeard
  <2> SUFFICES ASSUME IInv, Flags, Pauses, Sleeps PROVE StopIsHeard
    OBVIOUS
  <2>1. ASSUME joining
        PROVE  \E b \in running : /\ Stopping(b) /\ wpc[b] # "off"
                                  /\ InputsOf(b) \subseteq rstop /\ OutputsOf(b) \subseteq wstop
                                  /\ b = "src" => wpc["src"] # "asleep"
    <3>1. PICK b \in running : Stopping(b) /\ rstop = InputsOf(b) /\ wstop = OutputsOf(b)
      BY <2>1 DEF Flags
    <3>2. wpc[b] # "off"
      BY <3>1, StoppedBlockIsOn
    <3>3. b = "src" => wpc["src"] # "asleep"
      BY <3>1 DEF Sleeps, InputsOf
    <3> QED
      BY <3>1, <3>2, <3>3
  <2>2. ASSUME wpc["src"] = "missed" PROVE joining /\ Stopping("src")
    <3>1. Into("src") \in rstop
      BY <2>2 DEF Sleeps
    <3>2. PICK b \in running : joining /\ Stopping(b) /\ rstop = InputsOf(b)
      BY <3>1 DEF Flags
    <3>3. b = "src"
      BY <3>1, <3>2 DEF InputsOf, Into
    <3> QED
      BY <3>2, <3>3
  <2> QED
    BY <2>1, <2>2 DEF StopIsHeard
<1> QED
  BY <1>1, PauseInvariant, PTL

(* tempStart of a block that runs never finds a worker in it: every operation  *)
(* resumes only what it has paused itself.                                    *)
THEOREM NeverResumedTwice == Spec => []ResumedBlockIsOff
<1>1. IInv /\ Flags /\ Pauses /\ Sleeps => ResumedBlockIsOff
  <2> SUFFICES ASSUME IInv, Pauses, NEW b \in running, Doing("resume", b)
               PROVE  wpc[b] = "off"
    BY DEF ResumedBlockIsOff
  <2>1. /\ todo # <<>> /\ todo \in Seq({"start", "stop", "pause", "resume", "flush", "new",
                                        "bind", "unbind", "delete"} \X Blocks)
        /\ Head(todo)[1] = "resume" /\ Head(todo)[2] = b
    BY IsAList DEF Doing
  <2>2. /\ 1 \in DOMAIN todo /\ Head(todo) = todo[1]
        /\ DOMAIN todo = 1..Len(todo) /\ Len(todo) \in Nat
    BY <2>1
  <2>3. ~ \E i \in DOMAIN todo : Answers(todo, i, 1)
    BY <2>2 DEF Answers
  <2> QED
    BY <2>1, <2>2, <2>3 DEF Pauses
<1> QED
  BY <1>1, PauseInvariant, PTL
=============================================================================
