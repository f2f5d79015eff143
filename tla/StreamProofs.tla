----------------------------- MODULE StreamProofs -----------------------------
(***************************************************************************)
(* Proofs about StreamHandoff, for every set of payloads: type correctness,  *)
(* the exclusion of the two workers from each other's buffer, that neither   *)
(* sleeps through the notification it needs, and the implementation of       *)
(* FrameChannel.                                                             *)
(***************************************************************************)
EXTENDS StreamHandoff, TLAPS

(* Where the two flags stand during one hand-off.  canSwap up means that     *)
(* nothing is in flight; otherwise the frame is in one of three places:      *)
(* swapped but not yet announced ("ready"), announced (dataReady), or        *)
(* used up with the buffers not yet given back ("free").                     *)
HandoffInv ==
  /\ s.readBuf # s.writeBuf
  /\ wpc = "swap" => s.data[s.writeBuf] \in Frames
  /\ s.canSwap => ~s.dataReady /\ wpc # "ready" /\ ~Using
  /\ wpc = "ready" => ~s.dataReady /\ ~Using
  /\ rpc \in {"got", "process", "clear"} => s.dataReady
  /\ rpc = "free" => ~s.dataReady
  /\ rpc = "process" => held = s.readBuf

(* nReaders counts the one worker that can be waiting in read.              *)
ReaderInv ==
  /\ s.nReaders = IF rpc = "wait" THEN 1 ELSE 0
  /\ rctl \in {"notify", "poll", "join", "clear"} => s.readerStop
  /\ rctl = "join" => rpc # "wait"
  /\ rctl \in {"stopped", "clear"} => rpc = "off"

IInv == TypeOK /\ HandoffInv /\ ReaderInv

(* A worker that sleeps although it could go on has its notifier on the way: *)
(* the other worker, or the controller that stops it, has made the predicate *)
(* true and is about to notify (stream.h: every notify_all follows the       *)
(* section that sets a flag, and the predicate is tested under the same       *)
(* mutex as the flag).                                                       *)
NoLostWakeup ==
  /\ "writer" \in s.swapCV /\ SwapPred(s) => rpc = "notify" \/ wctl = "notify"
  /\ "reader" \in s.rdyCV /\ ReadPred(s) => wpc = "notify" \/ rctl = "notify"

(* Who sleeps where, and what keeps the buffers from being exchanged.         *)
SleepInv ==
  /\ "writer" \in s.swapCV => wpc = "swap"
  /\ "reader" \in s.rdyCV => rpc = "wait"
  /\ wctl \in {"stopped", "clear"} => wpc = "off"
  /\ ~s.canSwap => wpc = "ready" \/ s.dataReady \/ rpc = "free"
  /\ NoLostWakeup

(* The two workers wait for each other only while one of them is being        *)
(* stopped and is about to be notified of it.                                *)
BothAsleepOnlyToStop ==
  "writer" \in s.swapCV /\ "reader" \in s.rdyCV => wctl = "notify" \/ rctl = "notify"

-----------------------------------------------------------------------------
(* A stream stays a stream under each of its critical sections.             *)
LEMMA SectionTypes ==
  ASSUME NEW T, NEW F, NEW x \in StreamType(T, F), NEW t \in T, NEW f \in F
  PROVE  /\ FillWriteBuf(x, f) \in StreamType(T, F)
         /\ SleepOnSwap(x, t) \in StreamType(T, F)
         /\ SwapBuffers(x) \in StreamType(T, F)
         /\ PublishReady(x) \in StreamType(T, F)
         /\ NotifyReady(x) \in StreamType(T, F)
         /\ EnterReadAndSleep(x, t) \in StreamType(T, F)
         /\ SleepOnReady(x, t) \in StreamType(T, F)
         /\ (x.nReaders > 0) => LeaveRead(x) \in StreamType(T, F)
         /\ ClearReady(x) \in StreamType(T, F)
         /\ AllowSwap(x) \in StreamType(T, F)
         /\ NotifySwap(x) \in StreamType(T, F)
         /\ SetWriterStop(x) \in StreamType(T, F)
         /\ ClearWriteStop(x) \in StreamType(T, F)
         /\ SetReaderStop(x) \in StreamType(T, F)
         /\ ClearReadStop(x) \in StreamType(T, F)
<1> USE DEF StreamType
<1>1. FillWriteBuf(x, f) \in StreamType(T, F)
  BY DEF FillWriteBuf
<1>2. SleepOnSwap(x, t) \in StreamType(T, F)
  BY DEF SleepOnSwap
<1>3. SwapBuffers(x) \in StreamType(T, F)
  BY DEF SwapBuffers
<1>4. PublishReady(x) \in StreamType(T, F)
  BY DEF PublishReady
<1>5. NotifyReady(x) \in StreamType(T, F)
  BY DEF NotifyReady
<1>6. EnterReadAndSleep(x, t) \in StreamType(T, F)
  <2>1. x.nReaders + 1 \in Nat /\ x.rdyCV \cup {t} \in SUBSET T
    OBVIOUS
  <2>2. EnterReadAndSleep(x, t)
          = [[x EXCEPT !.nReaders = @ + 1] EXCEPT !.rdyCV = @ \cup {t}]
    BY DEF EnterReadAndSleep
  <2> QED
    BY <2>1, <2>2
<1>7. SleepOnReady(x, t) \in StreamType(T, F)
  BY DEF SleepOnReady
<1>8. (x.nReaders > 0) => LeaveRead(x) \in StreamType(T, F)
  BY DEF LeaveRead
<1>9. /\ ClearReady(x) \in StreamType(T, F)
      /\ AllowSwap(x) \in StreamType(T, F)
      /\ NotifySwap(x) \in StreamType(T, F)
  BY DEF ClearReady, AllowSwap, NotifySwap
<1>10. /\ SetWriterStop(x) \in StreamType(T, F)
       /\ ClearWriteStop(x) \in StreamType(T, F)
       /\ SetReaderStop(x) \in StreamType(T, F)
       /\ ClearReadStop(x) \in StreamType(T, F)
  BY DEF SetWriterStop, ClearWriteStop, SetReaderStop, ClearReadStop
<1> QED
  BY <1>1, <1>2, <1>3, <1>4, <1>5, <1>6, <1>7, <1>8, <1>9, <1>10
-----------------------------------------------------------------------------
LEMMA InitIInv == Init => IInv
BY DEF Init, IInv, TypeOK, HandoffInv, ReaderInv, Using, NewStream, StreamType,
       Buffers, Content, Workers, WriterPcs, ReaderPcs, WriterControl, ReaderControl

(* A step keeps the types: each performs at most one section on the stream.  *)
LEMMA StepTypeOK == IInv /\ [Next]_vars => TypeOK'
<1> SUFFICES ASSUME IInv, [Next]_vars PROVE TypeOK'
  OBVIOUS
<1> USE DEF IInv, TypeOK, Buffers, Content, Workers,
            WriterPcs, ReaderPcs, WriterControl, ReaderControl
<1>1. ASSUME NEW f \in Frames, Fill(f) PROVE TypeOK'
  BY <1>1, SectionTypes DEF Fill
<1>2. CASE SwapWaits
  BY <1>2, SectionTypes DEF SwapWaits
<1>3. CASE SwapAbandons
  BY <1>3 DEF SwapAbandons
<1>4. CASE Swap
  BY <1>4, SectionTypes DEF Swap
<1>5. CASE SwapPublishes
  BY <1>5, SectionTypes DEF SwapPublishes
<1>6. CASE SwapNotifies
  BY <1>6, SectionTypes DEF SwapNotifies
<1>7. CASE ReadWaits
  BY <1>7, SectionTypes DEF ReadWaits
<1>8. CASE ReadReturns
  BY <1>8 DEF ReadReturns
<1>9. CASE ReadSleepsAgain
  BY <1>9, SectionTypes DEF ReadSleepsAgain
<1>10. CASE ReadWakes
  <2>1. s.nReaders = 1
    BY <1>10 DEF ReadWakes, ReaderInv
  <2> QED
    BY <1>10, <2>1, SectionTypes DEF ReadWakes
<1>11. CASE TakeReadBuf
  BY <1>11 DEF TakeReadBuf, StreamType
<1>12. CASE Handle
  BY <1>12 DEF Handle, StreamType
<1>13. CASE FlushClears
  BY <1>13, SectionTypes DEF FlushClears
<1>14. CASE FlushFrees
  BY <1>14, SectionTypes DEF FlushFrees
<1>15. CASE FlushNotifies
  BY <1>15, SectionTypes DEF FlushNotifies
<1>16. CASE StartWriting
  BY <1>16 DEF StartWriting
<1>17. CASE StopWriterSets
  BY <1>17, SectionTypes DEF StopWriterSets
<1>18. CASE StopWriterNotifies
  BY <1>18, SectionTypes DEF StopWriterNotifies
<1>19. CASE JoinWriter
  BY <1>19 DEF JoinWriter
<1>20. CASE ClearWriter
  BY <1>20, SectionTypes DEF ClearWriter
<1>21. CASE StartReading
  BY <1>21 DEF StartReading
<1>22. CASE StopReaderSets
  BY <1>22, SectionTypes DEF StopReaderSets
<1>23. CASE StopReaderNotifies
  BY <1>23, SectionTypes DEF StopReaderNotifies
<1>24. CASE StopReaderPolls
  BY <1>24 DEF StopReaderPolls
<1>25. CASE JoinReader
  BY <1>25 DEF JoinReader
<1>26. CASE ClearReader
  BY <1>26, SectionTypes DEF ClearReader
<1>27. CASE UNCHANGED vars
  BY <1>27 DEF vars
<1> QED
  BY <1>1, <1>2, <1>3, <1>4, <1>5, <1>6, <1>7, <1>8, <1>9, <1>10, <1>11,
     <1>12, <1>13, <1>14, <1>15, <1>16, <1>17, <1>18, <1>19, <1>20,
     <1>21, <1>22, <1>23, <1>24, <1>25, <1>26, <1>27
     DEF Next, WriterStep, ReaderStep, FinishStopWriting, FinishStopReading

(* A step keeps the two flags and the reader's count where they belong.      *)
LEMMA StepHandoff == IInv /\ [Next]_vars => HandoffInv' /\ ReaderInv'
<1> SUFFICES ASSUME IInv, [Next]_vars PROVE HandoffInv' /\ ReaderInv'
  OBVIOUS
<1> USE DEF IInv, TypeOK, HandoffInv, ReaderInv, Using, Buffers
<1>1. ASSUME NEW f \in Frames, Fill(f) PROVE HandoffInv' /\ ReaderInv'
  BY <1>1 DEF Fill, FillWriteBuf, StreamType
<1>2. CASE SwapWaits
  BY <1>2 DEF SwapWaits, SleepOnSwap, StreamType
<1>3. CASE SwapAbandons
  BY <1>3 DEF SwapAbandons
<1>4. CASE Swap
  BY <1>4 DEF Swap, SwapBuffers, MaySwap, StreamType
<1>5. CASE SwapPublishes
  BY <1>5 DEF SwapPublishes, PublishReady, StreamType
<1>6. CASE SwapNotifies
  BY <1>6 DEF SwapNotifies, NotifyReady, StreamType
<1>7. CASE ReadWaits
  <2>1. /\ s'.nReaders = s.nReaders + 1
        /\ s'.readBuf = s.readBuf /\ s'.writeBuf = s.writeBuf
        /\ s'.canSwap = s.canSwap /\ s'.dataReady = s.dataReady
        /\ s'.readerStop = s.readerStop /\ s'.data = s.data
    BY <1>7 DEF ReadWaits, EnterReadAndSleep, StreamType
  <2>2. s.nReaders = 0 /\ rctl \notin {"stopped", "join", "clear"}
    BY <1>7 DEF ReadWaits, ReadPred
  <2> QED
    BY <1>7, <2>1, <2>2 DEF ReadWaits
<1>8. CASE ReadReturns
  BY <1>8 DEF ReadReturns, ReadPred, ReadGetsData
<1>9. CASE ReadSleepsAgain
  BY <1>9 DEF ReadSleepsAgain, SleepOnReady, StreamType
<1>10. CASE ReadWakes
  BY <1>10 DEF ReadWakes, LeaveRead, ReadPred, ReadGetsData, StreamType
<1>11. CASE TakeReadBuf
  BY <1>11 DEF TakeReadBuf
<1>12. CASE Handle
  BY <1>12 DEF Handle
<1>13. CASE FlushClears
  BY <1>13 DEF FlushClears, ClearReady, StreamType
<1>14. CASE FlushFrees
  BY <1>14 DEF FlushFrees, AllowSwap, StreamType
<1>15. CASE FlushNotifies
  BY <1>15 DEF FlushNotifies, NotifySwap, StreamType
<1>16. CASE StartWriting
  BY <1>16 DEF StartWriting
<1>17. CASE StopWriterSets
  BY <1>17 DEF StopWriterSets, SetWriterStop, StreamType
<1>18. CASE StopWriterNotifies
  BY <1>18 DEF StopWriterNotifies, NotifySwap, StreamType
<1>19. CASE JoinWriter
  BY <1>19 DEF JoinWriter
<1>20. CASE ClearWriter
  BY <1>20 DEF ClearWriter, ClearWriteStop, StreamType
<1>21. CASE StartReading
  BY <1>21 DEF StartReading
<1>22. CASE StopReaderSets
  BY <1>22 DEF StopReaderSets, SetReaderStop, StreamType
<1>23. CASE StopReaderNotifies
  BY <1>23 DEF StopReaderNotifies, NotifyReady, StreamType
<1>24. CASE StopReaderPolls
  BY <1>24 DEF StopReaderPolls, ReaderGone
<1>25. CASE JoinReader
  BY <1>25 DEF JoinReader
<1>26. CASE ClearReader
  BY <1>26 DEF ClearReader, ClearReadStop, StreamType
<1>27. CASE UNCHANGED vars
  BY <1>27 DEF vars
<1> QED
  BY <1>1, <1>2, <1>3, <1>4, <1>5, <1>6, <1>7, <1>8, <1>9, <1>10, <1>11,
     <1>12, <1>13, <1>14, <1>15, <1>16, <1>17, <1>18, <1>19, <1>20,
     <1>21, <1>22, <1>23, <1>24, <1>25, <1>26, <1>27
     DEF Next, WriterStep, ReaderStep, FinishStopWriting, FinishStopReading

LEMMA StepIInv == IInv /\ [Next]_vars => IInv'
BY StepTypeOK, StepHandoff DEF IInv

(* What a step leaves alone when the channel does not see it.               *)
LEMMA Invisible ==
  ASSUME ChannelPhase' = ChannelPhase, ChannelFrame' = ChannelFrame, used' = used
  PROVE  [Channel!Next]_(Channel!vars)
BY DEF Channel!vars

-----------------------------------------------------------------------------
(* TypeOK: every variable of the hand-off keeps its type, for every set of   *)
(* payloads; nReaders in particular never goes below zero.                   *)
THEOREM TypeCorrect == SafetySpec => []TypeOK
<1>1. IInv => TypeOK
  BY DEF IInv
<1> QED
  BY <1>1, InitIInv, StepIInv, PTL DEF SafetySpec

(* BufferExclusion: the handler's buffer is never the one the writer fills.  *)
THEOREM Exclusion == SafetySpec => []BufferExclusion
<1>1. IInv => BufferExclusion
  BY DEF IInv, HandoffInv, BufferExclusion
<1> QED
  BY <1>1, InitIInv, StepIInv, PTL DEF SafetySpec

(* FlagsExclude: no buffer is both announced and free to be taken back.      *)
THEOREM FlagsApart == SafetySpec => []FlagsExclude
<1>1. IInv => FlagsExclude
  BY DEF IInv, HandoffInv, FlagsExclude
<1> QED
  BY <1>1, InitIInv, StepIInv, PTL DEF SafetySpec

(* NoReaderInside: once stopReader has returned, nobody is inside read.      *)
THEOREM ReaderDrained == SafetySpec => []NoReaderInside
<1>1. IInv => NoReaderInside
  BY DEF IInv, ReaderInv, NoReaderInside
<1> QED
  BY <1>1, InitIInv, StepIInv, PTL DEF SafetySpec

-----------------------------------------------------------------------------
(* Sleeping and waking                                                      *)

LEMMA InitSleep == Init => SleepInv
BY DEF Init, NewStream, SleepInv, NoLostWakeup

(* A step keeps who sleeps where, and the notifiers on their way.            *)
LEMMA StepSleep == IInv /\ SleepInv /\ [Next]_vars => SleepInv'
<1> SUFFICES ASSUME IInv, SleepInv, [Next]_vars PROVE SleepInv'
  OBVIOUS
<1> USE DEF IInv, TypeOK, HandoffInv, ReaderInv, SleepInv, NoLostWakeup, SwapPred, ReadPred,
            Using
<1>1. ASSUME NEW f \in Frames, Fill(f) PROVE SleepInv'
  BY <1>1 DEF Fill, FillWriteBuf, StreamType
<1>2. CASE SwapWaits
  BY <1>2 DEF SwapWaits, SleepOnSwap, StreamType
<1>3. CASE SwapAbandons
  BY <1>3 DEF SwapAbandons
<1>4. CASE Swap
  BY <1>4 DEF Swap, SwapBuffers, MaySwap, StreamType
<1>5. CASE SwapPublishes
  BY <1>5 DEF SwapPublishes, PublishReady, StreamType
<1>6. CASE SwapNotifies
  BY <1>6 DEF SwapNotifies, NotifyReady, StreamType
<1>7. CASE ReadWaits
  BY <1>7 DEF ReadWaits, EnterReadAndSleep, StreamType
<1>8. CASE ReadReturns
  BY <1>8 DEF ReadReturns, ReadGetsData
<1>9. CASE ReadSleepsAgain
  BY <1>9 DEF ReadSleepsAgain, SleepOnReady, StreamType
<1>10. CASE ReadWakes
  BY <1>10 DEF ReadWakes, LeaveRead, ReadGetsData, StreamType
<1>11. CASE TakeReadBuf
  BY <1>11 DEF TakeReadBuf
<1>12. CASE Handle
  BY <1>12 DEF Handle
<1>13. CASE FlushClears
  BY <1>13 DEF FlushClears, ClearReady, StreamType
<1>14. CASE FlushFrees
  BY <1>14 DEF FlushFrees, AllowSwap, StreamType
<1>15. CASE FlushNotifies
  BY <1>15 DEF FlushNotifies, NotifySwap, StreamType
<1>16. CASE StartWriting
  BY <1>16 DEF StartWriting
<1>17. CASE StopWriterSets
  BY <1>17 DEF StopWriterSets, SetWriterStop, StreamType
<1>18. CASE StopWriterNotifies
  BY <1>18 DEF StopWriterNotifies, NotifySwap, StreamType
<1>19. CASE JoinWriter
  BY <1>19 DEF JoinWriter
<1>20. CASE ClearWriter
  BY <1>20 DEF ClearWriter, ClearWriteStop, StreamType
<1>21. CASE StartReading
  BY <1>21 DEF StartReading
<1>22. CASE StopReaderSets
  BY <1>22 DEF StopReaderSets, SetReaderStop, StreamType
<1>23. CASE StopReaderNotifies
  BY <1>23 DEF StopReaderNotifies, NotifyReady, StreamType
<1>24. CASE StopReaderPolls
  BY <1>24 DEF StopReaderPolls
<1>25. CASE JoinReader
  BY <1>25 DEF JoinReader
<1>26. CASE ClearReader
  BY <1>26 DEF ClearReader, ClearReadStop, StreamType
<1>27. CASE UNCHANGED vars
  BY <1>27 DEF vars
<1> QED
  BY <1>1, <1>2, <1>3, <1>4, <1>5, <1>6, <1>7, <1>8, <1>9, <1>10, <1>11,
     <1>12, <1>13, <1>14, <1>15, <1>16, <1>17, <1>18, <1>19, <1>20,
     <1>21, <1>22, <1>23, <1>24, <1>25, <1>26, <1>27
     DEF Next, WriterStep, ReaderStep, FinishStopWriting, FinishStopReading

(* Together with the hand-off's invariant it holds from the start on.         *)
LEMMA SleepInvariant == SafetySpec => [](IInv /\ SleepInv)
BY InitIInv, StepIInv, InitSleep, StepSleep, PTL DEF SafetySpec

(* NoLostWakeup: no notification a worker needs can have gone by before it    *)
(* slept: the safety that FramesFlow and StopReturns rest on.                *)
THEOREM NotifierOnItsWay == SafetySpec => []NoLostWakeup
<1>1. SleepInv => NoLostWakeup
  BY DEF SleepInv
<1> QED
  BY <1>1, SleepInvariant, PTL

(* BothAsleepOnlyToStop: swap and read never wait for each other: a frame in  *)
(* flight is one the reader can have, and no frame in flight is a swap that   *)
(* the writer can do.                                                        *)
THEOREM NeverBothAsleep == SafetySpec => []BothAsleepOnlyToStop
<1>1. ASSUME SleepInv PROVE BothAsleepOnlyToStop
  <2>1. SUFFICES ASSUME "writer" \in s.swapCV, "reader" \in s.rdyCV
                 PROVE  wctl = "notify" \/ rctl = "notify"
    BY DEF BothAsleepOnlyToStop
  <2>2. wpc = "swap" /\ rpc = "wait"
    BY <1>1, <2>1 DEF SleepInv
  <2>3. SwapPred(s) \/ ReadPred(s)
    BY <1>1, <2>2 DEF SleepInv, SwapPred, ReadPred
  <2> QED
    BY <1>1, <2>1, <2>2, <2>3 DEF SleepInv, NoLostWakeup
<1> QED
  BY <1>1, SleepInvariant, PTL

-----------------------------------------------------------------------------
(* The hand-off starts where the channel starts.                             *)
LEMMA InitChannel == Init => Channel!Init
BY DEF Init, Channel!Init, ChannelPhase, ChannelFrame, NewStream

(* Each step of the four threads is a step of the channel, or invisible.     *)
LEMMA StepChannel == IInv /\ [Next]_vars => [Channel!Next]_(Channel!vars)
<1> SUFFICES ASSUME IInv, [Next]_vars PROVE [Channel!Next]_(Channel!vars)
  OBVIOUS
<1> USE DEF IInv, TypeOK, HandoffInv, ReaderInv, Using, Buffers, ChannelPhase, ChannelFrame
<1>1. ASSUME NEW f \in Frames, Fill(f) PROVE [Channel!Next]_(Channel!vars)
  BY <1>1, Invisible DEF Fill, FillWriteBuf, StreamType
<1>2. CASE Swap
  <2>1. Channel!Accept(s.data[s.writeBuf]) /\ s.data[s.writeBuf] \in Frames
    BY <1>2 DEF Swap, SwapBuffers, MaySwap, StreamType, Channel!Accept
  <2> QED
    BY <2>1 DEF Channel!Next
<1>3. CASE ReadReturns
  <2>1. CASE ReadGetsData(s)
    <3>1. Channel!Take
      BY <1>3, <2>1 DEF ReadReturns, ReadPred, ReadGetsData, StreamType, Channel!Take
    <3> QED
      BY <3>1 DEF Channel!Next
  <2>2. CASE ~ReadGetsData(s)
    BY <1>3, <2>2, Invisible DEF ReadReturns
  <2> QED
    BY <2>1, <2>2
<1>4. CASE ReadWakes
  <2>1. CASE ReadGetsData(s)
    <3>1. Channel!Take
      BY <1>4, <2>1 DEF ReadWakes, LeaveRead, ReadPred, ReadGetsData, StreamType,
                        Channel!Take
    <3> QED
      BY <3>1 DEF Channel!Next
  <2>2. CASE ~ReadGetsData(s)
    BY <1>4, <2>2, Invisible DEF ReadWakes, LeaveRead, StreamType
  <2> QED
    BY <2>1, <2>2
<1>5. CASE TakeReadBuf
  BY <1>5, Invisible DEF TakeReadBuf
<1>6. CASE Handle
  <2>1. Channel!Use
    BY <1>6 DEF Handle, StreamType, Channel!Use
  <2> QED
    BY <2>1 DEF Channel!Next
<1>7. CASE FlushFrees
  <2>1. Channel!Release
    BY <1>7 DEF FlushFrees, AllowSwap, StreamType, Channel!Release
  <2> QED
    BY <2>1 DEF Channel!Next
<1>8. CASE SwapWaits
  BY <1>8, Invisible DEF SwapWaits, SleepOnSwap, StreamType
<1>9. CASE SwapAbandons
  BY <1>9, Invisible DEF SwapAbandons, StreamType
<1>10. CASE SwapPublishes
  BY <1>10, Invisible DEF SwapPublishes, PublishReady, StreamType
<1>11. CASE SwapNotifies
  BY <1>11, Invisible DEF SwapNotifies, NotifyReady, StreamType
<1>12. CASE ReadWaits
  BY <1>12, Invisible DEF ReadWaits, EnterReadAndSleep, StreamType
<1>13. CASE ReadSleepsAgain
  BY <1>13, Invisible DEF ReadSleepsAgain, SleepOnReady, StreamType
<1>14. CASE FlushClears
  BY <1>14, Invisible DEF FlushClears, ClearReady, StreamType
<1>15. CASE FlushNotifies
  BY <1>15, Invisible DEF FlushNotifies, NotifySwap, StreamType
<1>16. CASE StartWriting
  BY <1>16, Invisible DEF StartWriting, StreamType
<1>17. CASE StopWriterSets
  BY <1>17, Invisible DEF StopWriterSets, SetWriterStop, StreamType
<1>18. CASE FinishStopWriting
  BY <1>18, Invisible DEF FinishStopWriting, StopWriterNotifies, NotifySwap, JoinWriter,
                             ClearWriter, ClearWriteStop, StreamType
<1>19. CASE StartReading
  BY <1>19, Invisible DEF StartReading, StreamType
<1>20. CASE StopReaderSets
  BY <1>20, Invisible DEF StopReaderSets, SetReaderStop, StreamType
<1>21. CASE FinishStopReading
  BY <1>21, Invisible DEF FinishStopReading, StopReaderNotifies, StopReaderPolls,
                             JoinReader, ClearReader, NotifyReady, ClearReadStop, StreamType
<1>22. CASE UNCHANGED vars
  BY <1>22, Invisible DEF vars
<1> QED
  BY <1>1, <1>2, <1>3, <1>4, <1>5, <1>6, <1>7, <1>8, <1>9, <1>10, <1>11, <1>12,
     <1>13, <1>14, <1>15, <1>16, <1>17, <1>18, <1>19, <1>20, <1>21, <1>22
     DEF Next, WriterStep, ReaderStep

(* The safety part of ImplementsChannel: a stream used as the blocks use it   *)
(* is a one-place channel, so each frame swap accepts is used exactly once,  *)
(* in order, across any starts and stops of the two blocks.                  *)
THEOREM Implements == SafetySpec => Channel!SafetySpec
BY InitIInv, StepIInv, InitChannel, StepChannel, PTL
   DEF SafetySpec, Channel!SafetySpec
=============================================================================
