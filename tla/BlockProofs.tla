----------------------------- MODULE BlockProofs -----------------------------
(***************************************************************************)
(* Proofs about BlockControl for any number of threads and any teams in which *)
(* a thread that brackets setters outside ctrlMtx is alone: the mutex makes   *)
(* every operation on the block atomic, and nobody else is there to come in   *)
(* between the operations of a bracket, so that the state each one finds is   *)
(* the state it expects, and none is waited for that does not go on.          *)
(***************************************************************************)
EXTENDS BlockControl, TLAPS

(* A thread that brackets setters without the mutex has the block to itself.  *)
Apart == \A T \in Teams : \A t \in T \cap Bracketing : T = {t}

(* A thread is inside an operation's critical section, or inside a bracket.  *)
Holding(t) == \/ pc[t] \in StartPcs \cup StopPcs
              \/ pc[t] \in TempPcs \cup SetPcs /\ InSetter(t)
Inside(t)  == Holding(t) \/ level[t] = "bracket"
NobodyIn   == \A t \in Threads : ~Inside(t)

(* The block as it is between two operations.                               *)
Settled == /\ running <=> worker # "none"
           /\ ~tempStopped
           /\ ~stopFlag

(* The block with its worker joined for a temporary stop.                   *)
Paused == /\ worker = "none"
          /\ running <=> tempStopped
          /\ ~stopFlag

(* A setter in a bracket finds the block stopped, and leaves it so.         *)
Base(t) == IF level[t] = "nested" THEN 1 ELSE 0
Found(t) == depth = Base(t) /\ IF level[t] = "nested" THEN Paused ELSE Settled

(* What the thread that is inside finds at each place.                      *)
BlockAt(t) ==
  /\ pc[t] \in {"start_test", "stop_test", "ts_load", "ts_store", "set_unlock"} => Found(t)
  /\ pc[t] \in {"start_do", "stop_end"}
       => running /\ worker = "none" /\ ~tempStopped /\ ~stopFlag /\ depth = 0
  /\ pc[t] = "stop_join" => running /\ stopFlag /\ ~tempStopped /\ depth = 0
  /\ pc[t] = "ts_store" => loaded[t] = Base(t)
  /\ pc[t] = "ts_test" => Settled /\ depth = 1
  /\ pc[t] = "ts_join" => running /\ stopFlag /\ ~tempStopped /\ depth = 1
  /\ pc[t] = "ts_mark"
       => running /\ worker = "none" /\ ~tempStopped /\ ~stopFlag /\ depth = 1
  /\ pc[t] \in {"change", "tt_load", "tt_store"} => Paused /\ depth = Base(t) + 1
  /\ pc[t] = "tt_store" => loaded[t] = Base(t) + 1
  /\ pc[t] \in {"tt_test", "tt_do"} => Paused /\ depth = 0
  /\ pc[t] = "tt_do" => tempStopped
  /\ pc[t] = "tt_clear"
       => running /\ worker # "none" /\ tempStopped /\ ~stopFlag /\ depth = 0
  /\ pc[t] = "want_set" /\ level[t] = "bracket" => Paused /\ depth = 1

(* Which level a thread is at in each place, and who brackets.              *)
LevelAt(t) ==
  /\ pc[t] \in {"idle", "want_start", "want_stop"} \cup StartPcs \cup StopPcs
       => level[t] = "none"
  /\ pc[t] = "want_set" => level[t] \in {"none", "bracket"}
  /\ pc[t] \in TempPcs \cup {"change"} => level[t] # "none"
  /\ pc[t] = "set_unlock" => level[t] \in {"setter", "nested"}
  /\ level[t] = "nested"
       => pc[t] \in {"ts_load", "ts_store", "change", "tt_load", "tt_store", "set_unlock"}
  /\ level[t] \in {"bracket", "nested"} => t \in Bracketing
  /\ t \notin team => pc[t] = "idle"

IInv == /\ TypeOK
        /\ \A t \in Threads : Holding(t) <=> ctrlMtx = t
        /\ \A t \in Threads : LevelAt(t)
        /\ NobodyIn => Settled /\ depth = 0
        /\ \A t \in Threads : BlockAt(t)

(* Nobody waits in vain inside an operation or a bracket: the mutex is held    *)
(* only by a thread inside an operation, a worker that is joined has been      *)
(* told to leave run() (doStop sets the streams' flags before it joins), a     *)
(* start finds no worker in its way, and a setter inside a bracket finds the   *)
(* mutex free.                                                               *)
NoWaitInVain ==
  \A t \in Threads :
    /\ ctrlMtx = t => pc[t] \in StartPcs \cup StopPcs \cup TempPcs \cup SetPcs
    /\ pc[t] \in {"stop_join", "ts_join"} => worker # "alive" \/ stopFlag
    /\ pc[t] \in {"start_do", "tt_do"} => worker = "none"
    /\ pc[t] = "want_set" /\ level[t] = "bracket" => ctrlMtx = NoThread

-----------------------------------------------------------------------------
LEMMA InitIInv == Init => IInv
<1> SUFFICES ASSUME Init PROVE IInv
  OBVIOUS
<1> USE DEF Init, Pcs, WantPcs, StartPcs, StopPcs, TempPcs, SetPcs
<1>1. TypeOK
  BY ThreadsAssumption DEF TypeOK
<1>2. \A t \in Threads : (Holding(t) <=> ctrlMtx = t) /\ LevelAt(t)
  BY ThreadsAssumption DEF Holding, LevelAt
<1>3. Settled /\ depth = 0 /\ \A t \in Threads : BlockAt(t)
  BY DEF Settled, BlockAt
<1> QED
  BY <1>1, <1>2, <1>3 DEF IInv

(* Who is in a bracket is the whole team.                                    *)
LEMMA BracketAlone ==
  ASSUME Apart, IInv, NEW t \in Threads, level[t] \in {"bracket", "nested"}
  PROVE  team = {t}
<1>1. t \in Bracketing /\ t \in team /\ team \in Teams
  BY DEF IInv, LevelAt, TypeOK, TempPcs
<1> QED
  BY <1>1 DEF Apart

(* One thread at a time is inside.                                           *)
LEMMA OneInside ==
  ASSUME Apart, IInv,
         NEW t \in Threads, NEW u \in Threads, Inside(t), Inside(u)
  PROVE  t = u
<1>1. CASE Holding(t) /\ Holding(u)
  BY <1>1 DEF IInv
<1>2. CASE level[t] = "bracket"
  <2>1. team = {t}
    BY <1>2, BracketAlone
  <2>2. u \in team
    BY DEF IInv, LevelAt, Inside, Holding, StartPcs, StopPcs, TempPcs, SetPcs
  <2> QED
    BY <2>1, <2>2
<1>3. CASE level[u] = "bracket"
  <2>1. team = {u}
    BY <1>3, BracketAlone
  <2>2. t \in team
    BY DEF IInv, LevelAt, Inside, Holding, StartPcs, StopPcs, TempPcs, SetPcs
  <2> QED
    BY <2>1, <2>2
<1> QED
  BY <1>1, <1>2, <1>3 DEF Inside

(* What one thread does to the block, to the mutex and to its own place, and  *)
(* what it leaves of the others: enough for the invariant to survive.         *)
StepOf(t) ==
  /\ TypeOK' /\ team' = team
  /\ \A u \in Threads \ {t} :
       pc'[u] = pc[u] /\ level'[u] = level[u] /\ loaded'[u] = loaded[u]
  /\ \/ ctrlMtx' = ctrlMtx
     \/ ctrlMtx = NoThread /\ ctrlMtx' = t
     \/ ctrlMtx = t /\ ctrlMtx' = NoThread
  /\ (Holding(t) <=> ctrlMtx = t)'
  /\ LevelAt(t)' /\ BlockAt(t)'
  /\ UNCHANGED block \/ Inside(t)
  /\ Inside(t) /\ ~Inside(t)' => (Settled /\ depth = 0)'
  /\ Inside(t)' /\ ~Inside(t) => NobodyIn

LEMMA StepKeeps ==
  ASSUME Apart, IInv, NEW t \in team, StepOf(t)
  PROVE  IInv'
<1>1. t \in Threads /\ NoThread \notin Threads
  BY ThreadsAssumption DEF IInv, TypeOK
<1>2. \A u \in Threads \ {t} : /\ Holding(u)' <=> Holding(u)
                               /\ Inside(u)' <=> Inside(u)
                               /\ LevelAt(u)' <=> LevelAt(u)
  BY DEF StepOf, Holding, Inside, LevelAt, InSetter
<1>3. \A u \in Threads : (Holding(u) <=> ctrlMtx = u)'
  BY <1>1, <1>2 DEF StepOf, IInv
<1>4. \A u \in Threads : LevelAt(u)'
  BY <1>2 DEF StepOf, IInv
<1>5. ASSUME NEW u \in Threads \ {t} PROVE BlockAt(u)'
  <2>1. CASE UNCHANGED block
    BY <2>1 DEF StepOf, IInv, BlockAt, Found, Base, Settled, Paused, block
  <2>2. CASE Inside(t)
    <3>1. ~Inside(u)
      BY <1>1, <2>2, OneInside
    <3>2. pc[u] \in {"idle"} \cup WantPcs /\ level[u] # "bracket"
      <4>1. /\ level[u] # "bracket" /\ pc[u] \notin StartPcs \cup StopPcs
            /\ pc[u] \in TempPcs \cup SetPcs => level[u] \notin {"setter", "nested"}
        BY <3>1 DEF Inside, Holding, InSetter
      <4>2. /\ pc[u] \in Pcs /\ level[u] \in {"none", "setter", "bracket", "nested"}
            /\ pc[u] \in TempPcs \cup SetPcs => level[u] # "none"
        BY DEF IInv, TypeOK, LevelAt, SetPcs
      <4> QED
        BY <4>1, <4>2 DEF Pcs
    <3> QED
      BY <3>2 DEF StepOf, BlockAt, WantPcs
  <2> QED
    BY <2>1, <2>2 DEF StepOf
<1>6. ASSUME NobodyIn' PROVE (Settled /\ depth = 0)'
  <2>1. CASE Inside(t)
    BY <1>1, <1>6, <2>1 DEF StepOf, NobodyIn
  <2>2. CASE ~Inside(t)
    <3>1. NobodyIn
      BY <1>2, <1>6, <2>2 DEF NobodyIn
    <3> QED
      BY <2>2, <3>1 DEF StepOf, IInv, Settled, block
  <2> QED
    BY <2>1, <2>2
<1> QED
  BY <1>3, <1>4, <1>5, <1>6 DEF StepOf, IInv

(* While the mutex is free, a thread of the team that is in no bracket has    *)
(* nobody else inside.                                                        *)
LEMMA NobodyInside ==
  ASSUME Apart, IInv, NEW t \in team, level[t] = "none",
         ctrlMtx = NoThread \/ (t \in Bracketing /\ pc[t] = "idle")
  PROVE  NobodyIn
<1> SUFFICES ASSUME NEW u \in Threads, Inside(u) PROVE FALSE
  BY DEF NobodyIn
<1>1. t \in Threads /\ NoThread \notin Threads /\ team \in Teams
  BY ThreadsAssumption DEF IInv, TypeOK
<1>2. u \in team
  BY DEF IInv, LevelAt, Inside, Holding, StartPcs, StopPcs, TempPcs, SetPcs
<1>3. CASE level[u] = "bracket"
  BY <1>1, <1>3, BracketAlone
<1>4. CASE Holding(u)
  <2>1. ctrlMtx # NoThread /\ t \in Bracketing /\ pc[t] = "idle"
    BY <1>1, <1>4 DEF IInv
  <2>2. u = t
    BY <1>1, <1>2, <2>1 DEF Apart
  <2> QED
    BY <1>4, <2>1, <2>2 DEF Holding, StartPcs, StopPcs, TempPcs, SetPcs
<1> QED
  BY <1>3, <1>4 DEF Inside

(* Each step of a thread is of that kind.                                    *)
LEMMA StepsAre ==
  ASSUME Apart, IInv, team' = team, NEW t \in team,
         Call(t) \/ Acquire(t) \/ Continue(t)
  PROVE  StepOf(t)
<1>a. NoThread \notin Threads /\ t \in Threads /\ team \in Teams
  BY ThreadsAssumption DEF IInv, TypeOK
<1>b. /\ TypeOK /\ (Holding(t) <=> ctrlMtx = t) /\ LevelAt(t) /\ BlockAt(t)
  BY <1>a DEF IInv
<1>c. level[t] = "none" /\ (ctrlMtx = NoThread \/ (t \in Bracketing /\ pc[t] = "idle"))
        => NobodyIn
  BY NobodyInside
<1>d. ASSUME StartLocks(t) \/ StopLocks(t) \/ (SetterLocks(t) /\ level[t] = "none")
      PROVE  NobodyIn /\ Settled /\ depth = 0
  <2>1. ctrlMtx = NoThread /\ level[t] = "none"
    BY <1>b, <1>d DEF StartLocks, StopLocks, SetterLocks, Lock, LevelAt
  <2>2. NobodyIn
    BY <1>c, <2>1
  <2> QED
    BY <2>2 DEF IInv
<1>e. ASSUME t \in Bracketing, pc[t] = "idle", level[t] = "none"
      PROVE  NobodyIn /\ Settled /\ depth = 0
  <2>1. NobodyIn
    BY <1>c, <1>e
  <2> QED
    BY <2>1 DEF IInv
<1>f. ASSUME TempStartClears(t) PROVE TypeOK'
  <2>1. /\ tempStopped' = FALSE
        /\ UNCHANGED <<running, depth, worker, stopFlag, ctrlMtx, loaded>>
    BY <1>f DEF TempStartClears
  <2>2. pc' \in [Threads -> Pcs]
    BY <1>b, <1>f DEF TempStartClears, ReturnTempStart, Goto, TypeOK, Pcs, SetPcs
  <2>3. level' \in [Threads -> {"none", "setter", "bracket", "nested"}]
    BY <1>b, <1>f DEF TempStartClears, ReturnTempStart, TypeOK
  <2> QED
    BY <1>b, <2>1, <2>2, <2>3 DEF TypeOK
<1> USE <1>a, <1>b, <1>c
    DEF StepOf, TypeOK, Holding, Inside, InSetter, Found, Base, LevelAt, BlockAt,
        Settled, Paused, Goto, block, Pcs, WantPcs, StartPcs, StopPcs, TempPcs, SetPcs
<1>1. CASE Call(t)
  <2>1. pc[t] = "idle" /\ level[t] = "none" /\ UNCHANGED <<block, ctrlMtx, loaded>>
    BY <1>1 DEF Call
  <2>2. CASE (\E p \in WantPcs : Goto(t, p)) /\ UNCHANGED level
    BY <2>1, <2>2
  <2>3. CASE /\ t \in Bracketing /\ Goto(t, "ts_load")
             /\ level' = [level EXCEPT ![t] = "bracket"]
    <3>1. NobodyIn /\ Settled /\ depth = 0
      BY <1>e, <2>1, <2>3
    <3>2. TypeOK' /\ LevelAt(t)' /\ BlockAt(t)' /\ ~Holding(t) /\ ~Holding(t)'
      BY <2>1, <2>3, <3>1
    <3> QED
      BY <2>1, <2>3, <3>1, <3>2
  <2> QED
    BY <1>1, <2>2, <2>3 DEF Call
<1>2. CASE StartLocks(t)
  <2>1. /\ pc[t] = "want_start" /\ level[t] = "none"
        /\ ctrlMtx = NoThread /\ ctrlMtx' = t
        /\ pc' = [pc EXCEPT ![t] = "start_test"] /\ UNCHANGED <<block, loaded, level>>
    BY <1>2 DEF StartLocks, Lock
  <2>2. NobodyIn /\ Settled /\ depth = 0
    BY <1>2, <1>d
  <2>3. TypeOK' /\ LevelAt(t)' /\ Holding(t)' /\ BlockAt(t)' /\ ~Holding(t)
    BY <2>1, <2>2
  <2> QED
    BY <2>1, <2>2, <2>3
<1>3. CASE StopLocks(t)
  <2>1. /\ pc[t] = "want_stop" /\ level[t] = "none"
        /\ ctrlMtx = NoThread /\ ctrlMtx' = t
        /\ pc' = [pc EXCEPT ![t] = "stop_test"] /\ UNCHANGED <<block, loaded, level>>
    BY <1>3 DEF StopLocks, Lock
  <2>2. NobodyIn /\ Settled /\ depth = 0
    BY <1>3, <1>d
  <2>3. TypeOK' /\ LevelAt(t)' /\ Holding(t)' /\ BlockAt(t)' /\ ~Holding(t)
    BY <2>1, <2>2
  <2> QED
    BY <2>1, <2>2, <2>3
<1>4. CASE SetterLocks(t)
  <2>1. CASE level[t] = "none"
    <3>1. /\ pc[t] = "want_set" /\ ctrlMtx = NoThread /\ ctrlMtx' = t
          /\ pc' = [pc EXCEPT ![t] = "ts_load"] /\ UNCHANGED <<block, loaded>>
          /\ level' = [level EXCEPT ![t] = "setter"]
      BY <1>4, <2>1 DEF SetterLocks, Lock
    <3>2. NobodyIn /\ Settled /\ depth = 0
      BY <1>4, <1>d, <2>1
    <3>3. TypeOK' /\ LevelAt(t)' /\ Holding(t)' /\ BlockAt(t)' /\ ~Holding(t)
      BY <2>1, <3>1, <3>2
    <3> QED
      BY <2>1, <3>1, <3>2, <3>3
  <2>2. CASE level[t] = "bracket"
    BY <1>4, <2>2 DEF SetterLocks, Lock
  <2> QED
    BY <1>4, <2>1, <2>2 DEF SetterLocks
<1>5. CASE StartReturns(t)
  BY <1>5 DEF StartReturns, Unlock
<1>6. CASE StartSetsRunning(t)
  BY <1>6 DEF StartSetsRunning
<1>7. CASE StartDoes(t)
  BY <1>7 DEF StartDoes, Unlock
<1>8. CASE StopReturns(t)
  BY <1>8 DEF StopReturns, Unlock
<1>9. CASE StopFlags(t)
  BY <1>9 DEF StopFlags
<1>10. CASE StopJoins(t)
  BY <1>10 DEF StopJoins, JoinWorker
<1>11. CASE StopEnds(t)
  BY <1>11 DEF StopEnds, Unlock
<1>12. CASE TempStopLoads(t)
  BY <1>12 DEF TempStopLoads
<1>13. CASE TempStopStores(t)
  BY <1>13 DEF TempStopStores, ReturnTempStop
<1>14. CASE TempStopSkips(t)
  BY <1>14 DEF TempStopSkips, ReturnTempStop
<1>15. CASE TempStopFlags(t)
  BY <1>15 DEF TempStopFlags
<1>16. CASE TempStopJoins(t)
  BY <1>16 DEF TempStopJoins, JoinWorker
<1>17. CASE TempStopMarks(t)
  <2>1. InSetter(t) => pc' = [pc EXCEPT ![t] = "change"]
    BY <1>17 DEF TempStopMarks, ReturnTempStop
  <2>2. ~InSetter(t) => \E p \in {"want_set", "change"} : pc' = [pc EXCEPT ![t] = p]
    BY <1>17 DEF TempStopMarks, ReturnTempStop
  <2>3. UNCHANGED <<running, depth, worker, stopFlag, ctrlMtx, loaded, level>>
    BY <1>17 DEF TempStopMarks
  <2>4. /\ running /\ worker = "none" /\ ~stopFlag /\ depth = 1 /\ tempStopped'
        /\ level[t] \in {"setter", "bracket"}
    BY <1>17 DEF TempStopMarks
  <2>5. CASE level[t] = "setter"
    <3>1. pc' = [pc EXCEPT ![t] = "change"] /\ pc[t] \in TempPcs
      BY <1>17, <2>1, <2>5 DEF TempStopMarks
    <3>2. TypeOK' /\ LevelAt(t)' /\ Holding(t)' /\ BlockAt(t)' /\ Holding(t)
      BY <2>3, <2>4, <2>5, <3>1
    <3> QED
      BY <2>3, <3>1, <3>2
  <2>6. CASE level[t] = "bracket"
    BY <2>2, <2>3, <2>4, <2>6
  <2> QED
    BY <2>4, <2>5, <2>6
<1>18. CASE TempStartLoads(t)
  BY <1>18 DEF TempStartLoads, ReturnTempStart
<1>19. CASE TempStartStores(t)
  BY <1>19 DEF TempStartStores, ReturnTempStart
<1>20. CASE TempStartTests(t)
  BY <1>20 DEF TempStartTests, ReturnTempStart
<1>21. CASE TempStartDoes(t)
  BY <1>21 DEF TempStartDoes
<1>22. CASE TempStartClears(t)
  <2>1. /\ pc[t] = "tt_clear" /\ ~tempStopped' /\ level[t] \in {"setter", "bracket"}
        /\ running /\ worker # "none" /\ ~stopFlag /\ depth = 0
        /\ UNCHANGED <<running, depth, worker, stopFlag, ctrlMtx, loaded>>
    BY <1>22 DEF TempStartClears
  <2>2. CASE level[t] = "setter"
    <3>1. pc' = [pc EXCEPT ![t] = "set_unlock"] /\ UNCHANGED level
      BY <1>22, <2>2 DEF TempStartClears, ReturnTempStart
    <3>2. TypeOK'
      BY <1>22, <1>f
    <3>3. pc'[t] = "set_unlock" /\ level'[t] = "setter" /\ Settled' /\ depth' = 0
      BY <2>1, <2>2, <3>1
    <3>4. LevelAt(t)' /\ BlockAt(t)' /\ Holding(t) /\ Holding(t)'
      BY <2>1, <2>2, <3>3
    <3> QED
      BY <2>1, <3>1, <3>2, <3>4
  <2>3. CASE level[t] = "bracket"
    <3>1. pc' = [pc EXCEPT ![t] = "idle"] /\ level' = [level EXCEPT ![t] = "none"]
      BY <1>22, <2>3 DEF TempStartClears, ReturnTempStart
    <3>2. TypeOK'
      BY <1>22, <1>f
    <3>3. pc'[t] = "idle" /\ level'[t] = "none" /\ Settled' /\ depth' = 0 /\ Inside(t)
      BY <2>1, <2>3, <3>1
    <3>4. LevelAt(t)' /\ BlockAt(t)' /\ ~Holding(t) /\ ~Holding(t)'
      BY <2>1, <2>3, <3>3
    <3> QED
      BY <2>1, <3>1, <3>2, <3>3, <3>4
  <2> QED
    BY <2>1, <2>2, <2>3
<1>23. CASE Change(t)
  BY <1>23 DEF Change
<1>24. CASE SetterUnlocks(t)
  BY <1>24 DEF SetterUnlocks, Unlock
<1> QED
  BY <1>1, <1>2, <1>3, <1>4, <1>5, <1>6, <1>7, <1>8, <1>9, <1>10, <1>11, <1>12,
     <1>13, <1>14, <1>15, <1>16, <1>17, <1>18, <1>19, <1>20, <1>21, <1>22, <1>23, <1>24
     DEF Acquire, Continue

(* The invariant survives each step of a thread and of the worker.           *)
LEMMA StepIInv == ASSUME Apart PROVE IInv /\ [Next]_vars => IInv'
<1> SUFFICES ASSUME IInv, [Next]_vars PROVE IInv'
  OBVIOUS
<1>1. CASE \E t \in team : Call(t) \/ Acquire(t) \/ Continue(t)
  <2>1. team' = team
    BY DEF Next, vars
  <2> QED
    BY <1>1, <2>1, StepsAre, StepKeeps
<1> USE DEF IInv, TypeOK, Holding, Inside, NobodyIn, InSetter, Found, Base,
            LevelAt, BlockAt, Settled, Paused, Pcs, WantPcs
<1>2. CASE WorkerStops /\ UNCHANGED team
  BY <1>2 DEF WorkerStops
<1>3. CASE WorkerFails /\ UNCHANGED team
  BY <1>3 DEF WorkerFails
<1>4. CASE UNCHANGED vars
  BY <1>4 DEF vars
<1> QED
  BY <1>1, <1>2, <1>3, <1>4 DEF Next

-----------------------------------------------------------------------------
(* TypeOK, for any number of threads.  In particular tempStopDepth, which is *)
(* decremented without a lock of its own, never goes below zero.             *)
THEOREM TypeCorrect == ASSUME Apart PROVE SafetySpec => []TypeOK
<1>1. IInv => TypeOK
  BY DEF IInv
<1>2. IInv /\ [Next]_vars => IInv'
  BY StepIInv
<1> QED
  BY <1>1, <1>2, InitIInv, PTL DEF SafetySpec

(* ChangedWhileStopped: a setter's change never meets a worker in run().     *)
THEOREM ChangesWhileStopped ==
  ASSUME Apart PROVE SafetySpec => []ChangedWhileStopped
<1>1. IInv => ChangedWhileStopped
  BY DEF IInv, BlockAt, Paused, ChangedWhileStopped
<1>2. IInv /\ [Next]_vars => IInv'
  BY StepIInv
<1> QED
  BY <1>1, <1>2, InitIInv, PTL DEF SafetySpec

(* OneWorker: no start ever finds the worker thread still joinable.          *)
THEOREM NeverTwoWorkers == ASSUME Apart PROVE SafetySpec => []OneWorker
<1>1. IInv => OneWorker
  BY DEF IInv, BlockAt, Paused, OneWorker
<1>2. IInv /\ [Next]_vars => IInv'
  BY StepIInv
<1> QED
  BY <1>1, <1>2, InitIInv, PTL DEF SafetySpec

(* RunsIfRunning: between operations the worker thread exists exactly when   *)
(* the block counts as running.                                              *)
THEOREM SettledWhenQuiet == ASSUME Apart PROVE SafetySpec => []RunsIfRunning
<1>1. IInv => RunsIfRunning
  <2> SUFFICES ASSUME IInv, Quiescent PROVE Settled /\ depth = 0
    BY DEF RunsIfRunning, Settled
  <2>1. NobodyIn
    BY DEF NobodyIn, Quiescent, Inside, Holding, WantPcs, StartPcs, StopPcs, TempPcs, SetPcs
  <2> QED
    BY <2>1 DEF IInv
<1>2. IInv /\ [Next]_vars => IInv'
  BY StepIInv
<1> QED
  BY <1>1, <1>2, InitIInv, PTL DEF SafetySpec

(* NoWaitInVain: what holds up a thread inside an operation is the worker on   *)
(* its way out of run(), and nothing else: the safety that CallsReturn rests    *)
(* on.                                                                       *)
THEOREM InsideGoesOn == ASSUME Apart PROVE SafetySpec => []NoWaitInVain
<1>1. ASSUME IInv PROVE NoWaitInVain
  <2> SUFFICES ASSUME NEW t \in Threads
               PROVE  /\ ctrlMtx = t => pc[t] \in StartPcs \cup StopPcs \cup TempPcs \cup SetPcs
                      /\ pc[t] \in {"stop_join", "ts_join"} => worker # "alive" \/ stopFlag
                      /\ pc[t] \in {"start_do", "tt_do"} => worker = "none"
                      /\ pc[t] = "want_set" /\ level[t] = "bracket" => ctrlMtx = NoThread
    BY DEF NoWaitInVain
  <2>1. (Holding(t) <=> ctrlMtx = t) /\ BlockAt(t)
    BY <1>1 DEF IInv
  <2>2. ctrlMtx = t => pc[t] \in StartPcs \cup StopPcs \cup TempPcs \cup SetPcs
    BY <2>1 DEF Holding
  <2>3. /\ pc[t] \in {"stop_join", "ts_join"} => worker # "alive" \/ stopFlag
        /\ pc[t] \in {"start_do", "tt_do"} => worker = "none"
    BY <2>1 DEF BlockAt, Paused
  <2>4. ASSUME pc[t] = "want_set", level[t] = "bracket", ctrlMtx # NoThread PROVE FALSE
    <3>1. ctrlMtx \in Threads /\ Holding(ctrlMtx)
      BY <1>1, <2>4 DEF IInv, TypeOK
    <3>2. ctrlMtx = t
      BY <1>1, <2>4, <3>1, OneInside DEF Inside
    <3> QED
      BY <2>2, <2>4, <3>2 DEF StartPcs, StopPcs, TempPcs, SetPcs
  <2> QED
    BY <2>2, <2>3, <2>4
<1>2. IInv /\ [Next]_vars => IInv'
  BY StepIInv
<1> QED
  BY <1>1, <1>2, InitIInv, PTL DEF SafetySpec
=============================================================================
