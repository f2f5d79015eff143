---------------------------- MODULE BlockControl ----------------------------
(***************************************************************************)
(* Control of one DSP block (dsp::block, src/core/src/dsp/block.h) by        *)
(* several threads: start, stop, the setters of the derived blocks, which    *)
(* take ctrlMtx and put the change between tempStop and tempStart, and the   *)
(* callers that bracket such setters with tempStop and tempStart of their    *)
(* own without the mutex (IQFrontEnd::setSampleRate, setDecimation).         *)
(*                                                                          *)
(* The worker is only there or not there: that doStop gets it to leave       *)
(* run() is what StreamHandoff shows.  tempStopDepth is a plain int, so its  *)
(* increment and decrement are a load and a store.                           *)
(***************************************************************************)
EXTENDS Naturals

CONSTANTS Threads,    \* the threads that control the block
          Bracketing, \* those that also bracket setters without the mutex
          Teams,      \* the sets of them that may be there at once
          NoThread    \* nobody holds the mutex

ASSUME ThreadsAssumption == /\ NoThread \notin Threads
                            /\ Bracketing \subseteq Threads
                            /\ Teams \subseteq SUBSET Threads

VARIABLES
  running,      \* block::running
  tempStopped,  \* block::tempStopped
  depth,        \* block::tempStopDepth
  worker,       \* workerThread: "none" (not joinable), "alive" or "exited"
  stopFlag,     \* the stop flags doStop sets on the block's streams
  ctrlMtx,      \* the thread that holds ctrlMtx, or NoThread
  pc,           \* where each thread is; "idle" outside every operation
  loaded,       \* the depth a thread has loaded and not yet stored back
  level,        \* what a thread is in: "none", a "setter", a "bracket", or a
                \* setter "nested" in a bracket
  team          \* the threads that control the block in this behaviour

vars == <<running, tempStopped, depth, worker, stopFlag, ctrlMtx, pc, loaded, level, team>>

block == <<running, tempStopped, depth, worker, stopFlag>>

(* Places where a thread holds ctrlMtx whatever it is doing.                *)
StartPcs == {"start_test", "start_do"}
StopPcs  == {"stop_test", "stop_join", "stop_end"}
(* Places inside tempStop and tempStart, where it does if in a setter.      *)
TempPcs  == {"ts_load", "ts_store", "ts_test", "ts_join", "ts_mark",
             "tt_load", "tt_store", "tt_test", "tt_do", "tt_clear"}
SetPcs   == {"change", "set_unlock"}
WantPcs  == {"want_start", "want_stop", "want_set"}
Pcs == {"idle"} \cup WantPcs \cup StartPcs \cup StopPcs \cup TempPcs \cup SetPcs

TypeOK == /\ running \in BOOLEAN
          /\ tempStopped \in BOOLEAN
          /\ depth \in Nat
          /\ worker \in {"none", "alive", "exited"}
          /\ stopFlag \in BOOLEAN
          /\ ctrlMtx \in Threads \cup {NoThread}
          /\ pc \in [Threads -> Pcs]
          /\ loaded \in [Threads -> Nat]
          /\ level \in [Threads -> {"none", "setter", "bracket", "nested"}]
          /\ team \in Teams

Init == /\ running = FALSE
        /\ tempStopped = FALSE
        /\ depth = 0
        /\ worker = "none"
        /\ stopFlag = FALSE
        /\ ctrlMtx = NoThread
        /\ pc = [t \in Threads |-> "idle"]
        /\ loaded = [t \in Threads |-> 0]
        /\ level = [t \in Threads |-> "none"]
        /\ team \in Teams

-----------------------------------------------------------------------------
Goto(t, p) == pc' = [pc EXCEPT ![t] = p]

Lock(t)   == ctrlMtx = NoThread /\ ctrlMtx' = t
Unlock(t) == ctrlMtx' = NoThread

(* A thread calls an operation.                                             *)
Call(t) ==
  /\ pc[t] = "idle"
  /\ \/ /\ \E p \in WantPcs : Goto(t, p)
        /\ UNCHANGED level
     \/ /\ t \in Bracketing
        /\ Goto(t, "ts_load")
        /\ level' = [level EXCEPT ![t] = "bracket"]
  /\ UNCHANGED <<block, ctrlMtx, loaded>>

-----------------------------------------------------------------------------
(* Slips: actions as they would be with one mistake.  None is a step of the  *)
(* block; they show what the properties below would catch.                   *)

SlipSetterForgetsLock(t) ==
  /\ pc[t] = "want_set"
  /\ Goto(t, "ts_load")
  /\ level' = [level EXCEPT ![t] = "setter"]
  /\ UNCHANGED <<block, ctrlMtx, loaded>>

SlipStartUntested(t) ==
  /\ pc[t] = "start_test"
  /\ running' = TRUE
  /\ Goto(t, "start_do")
  /\ UNCHANGED <<tempStopped, depth, worker, stopFlag, ctrlMtx, loaded, level>>

SlipSetterKeepsLock(t) ==
  /\ pc[t] = "set_unlock"
  /\ Goto(t, "idle")
  /\ level' = [level EXCEPT ![t] = "none"]
  /\ UNCHANGED <<block, ctrlMtx, loaded>>

SlipDecrementTwice(t) ==
  /\ pc[t] = "tt_store"
  /\ depth' = loaded[t] - 2
  /\ Goto(t, "tt_test")
  /\ UNCHANGED <<running, tempStopped, worker, stopFlag, ctrlMtx, loaded, level>>

SlipRestartAtAnyDepth(t) ==
  /\ pc[t] = "tt_store"
  /\ depth' = loaded[t] - 1
  /\ Goto(t, "tt_test")
  /\ UNCHANGED <<running, tempStopped, worker, stopFlag, ctrlMtx, loaded, level>>

SlipMarkForgotten(t) ==
  /\ pc[t] = "ts_mark"
  /\ \E p \in {"want_set", "change"} : Goto(t, p)
  /\ UNCHANGED <<block, ctrlMtx, loaded, level>>

-----------------------------------------------------------------------------
(* start                                                                    *)

StartLocks(t) ==
  /\ pc[t] = "want_start"
  /\ Lock(t)
  /\ Goto(t, "start_test")
  /\ UNCHANGED <<block, loaded, level>>

StartReturns(t) ==
  /\ pc[t] = "start_test"
  /\ running
  /\ Unlock(t)
  /\ Goto(t, "idle")
  /\ UNCHANGED <<block, loaded, level>>

StartSetsRunning(t) ==
  /\ pc[t] = "start_test"
  /\ ~running
  /\ running' = TRUE
  /\ Goto(t, "start_do")
  /\ UNCHANGED <<tempStopped, depth, worker, stopFlag, ctrlMtx, loaded, level>>

(* doStart: assigning to a joinable std::thread would terminate the program. *)
StartDoes(t) ==
  /\ pc[t] = "start_do"
  /\ worker = "none"
  /\ worker' = "alive"
  /\ Unlock(t)
  /\ Goto(t, "idle")
  /\ UNCHANGED <<running, tempStopped, depth, stopFlag, loaded, level>>

-----------------------------------------------------------------------------
(* stop.  doStop sets the streams' stop flags, joins the worker if there is  *)
(* one, and clears the flags.                                                *)

StopLocks(t) ==
  /\ pc[t] = "want_stop"
  /\ Lock(t)
  /\ Goto(t, "stop_test")
  /\ UNCHANGED <<block, loaded, level>>

StopReturns(t) ==
  /\ pc[t] = "stop_test"
  /\ ~running
  /\ Unlock(t)
  /\ Goto(t, "idle")
  /\ UNCHANGED <<block, loaded, level>>

StopFlags(t) ==
  /\ pc[t] = "stop_test"
  /\ running
  /\ stopFlag' = TRUE
  /\ Goto(t, "stop_join")
  /\ UNCHANGED <<running, tempStopped, depth, worker, ctrlMtx, loaded, level>>

JoinWorker == /\ worker \in {"none", "exited"}
              /\ worker' = "none"
              /\ stopFlag' = FALSE

StopJoins(t) ==
  /\ pc[t] = "stop_join"
  /\ JoinWorker
  /\ Goto(t, "stop_end")
  /\ UNCHANGED <<running, tempStopped, depth, ctrlMtx, loaded, level>>

StopEnds(t) ==
  /\ pc[t] = "stop_end"
  /\ running' = FALSE
  /\ Unlock(t)
  /\ Goto(t, "idle")
  /\ UNCHANGED <<tempStopped, depth, worker, stopFlag, loaded, level>>

-----------------------------------------------------------------------------
(* tempStop: if (tempStopDepth++) return; if (running && !tempStopped)       *)
(* { doStop(); tempStopped = true; }                                         *)

(* Where tempStop returns to: the setter's change; in a bracket, the call of *)
(* a setter or a change made there and then.                                 *)
InSetter(t) == level[t] \in {"setter", "nested"}

ReturnTempStop(t) ==
  \E p \in IF InSetter(t) THEN {"change"} ELSE {"want_set", "change"} : Goto(t, p)

TempStopLoads(t) ==
  /\ pc[t] = "ts_load"
  /\ loaded' = [loaded EXCEPT ![t] = depth]
  /\ Goto(t, "ts_store")
  /\ UNCHANGED <<block, ctrlMtx, level>>

TempStopStores(t) ==
  /\ pc[t] = "ts_store"
  /\ depth' = loaded[t] + 1
  /\ IF loaded[t] # 0 THEN ReturnTempStop(t) ELSE Goto(t, "ts_test")
  /\ UNCHANGED <<running, tempStopped, worker, stopFlag, ctrlMtx, loaded, level>>

TempStopSkips(t) ==
  /\ pc[t] = "ts_test"
  /\ ~running \/ tempStopped
  /\ ReturnTempStop(t)
  /\ UNCHANGED <<block, ctrlMtx, loaded, level>>

TempStopFlags(t) ==
  /\ pc[t] = "ts_test"
  /\ running /\ ~tempStopped
  /\ stopFlag' = TRUE
  /\ Goto(t, "ts_join")
  /\ UNCHANGED <<running, tempStopped, depth, worker, ctrlMtx, loaded, level>>

TempStopJoins(t) ==
  /\ pc[t] = "ts_join"
  /\ JoinWorker
  /\ Goto(t, "ts_mark")
  /\ UNCHANGED <<running, tempStopped, depth, ctrlMtx, loaded, level>>

TempStopMarks(t) ==
  /\ pc[t] = "ts_mark"
  /\ tempStopped' = TRUE
  /\ ReturnTempStop(t)
  /\ UNCHANGED <<running, depth, worker, stopFlag, ctrlMtx, loaded, level>>

-----------------------------------------------------------------------------
(* tempStart: if (!tempStopDepth || --tempStopDepth) return;                 *)
(* if (tempStopped) { doStart(); tempStopped = false; }                      *)

(* Where tempStart returns to: the end of the setter, or the end of the      *)
(* bracket.                                                                  *)
ReturnTempStart(t) ==
  IF InSetter(t)
  THEN Goto(t, "set_unlock") /\ UNCHANGED level
  ELSE Goto(t, "idle") /\ level' = [level EXCEPT ![t] = "none"]

TempStartLoads(t) ==
  /\ pc[t] = "tt_load"
  /\ loaded' = [loaded EXCEPT ![t] = depth]
  /\ IF depth = 0 THEN ReturnTempStart(t) ELSE Goto(t, "tt_store") /\ UNCHANGED level
  /\ UNCHANGED <<block, ctrlMtx>>

TempStartStores(t) ==
  /\ pc[t] = "tt_store"
  /\ depth' = loaded[t] - 1
  /\ IF depth' # 0 THEN ReturnTempStart(t) ELSE Goto(t, "tt_test") /\ UNCHANGED level
  /\ UNCHANGED <<running, tempStopped, worker, stopFlag, ctrlMtx, loaded>>

TempStartTests(t) ==
  /\ pc[t] = "tt_test"
  /\ IF tempStopped THEN Goto(t, "tt_do") /\ UNCHANGED level ELSE ReturnTempStart(t)
  /\ UNCHANGED <<block, ctrlMtx, loaded>>

TempStartDoes(t) ==
  /\ pc[t] = "tt_do"
  /\ worker = "none"
  /\ worker' = "alive"
  /\ Goto(t, "tt_clear")
  /\ UNCHANGED <<running, tempStopped, depth, stopFlag, ctrlMtx, loaded, level>>

TempStartClears(t) ==
  /\ pc[t] = "tt_clear"
  /\ tempStopped' = FALSE
  /\ ReturnTempStart(t)
  /\ UNCHANGED <<running, depth, worker, stopFlag, ctrlMtx, loaded>>

-----------------------------------------------------------------------------
(* A setter: lock, tempStop, change what run() uses, tempStart, unlock.  In  *)
(* a bracket it is the second tempStop, its tempStart is not the last, and   *)
(* more setters and changes may follow.                                      *)

SetterLocks(t) ==
  /\ pc[t] = "want_set"
  /\ Lock(t)
  /\ Goto(t, "ts_load")
  /\ level' = [level EXCEPT ![t] = IF @ = "bracket" THEN "nested" ELSE "setter"]
  /\ UNCHANGED <<block, loaded>>

Change(t) ==
  /\ pc[t] = "change"
  /\ Goto(t, "tt_load")
  /\ UNCHANGED <<block, ctrlMtx, loaded, level>>

SetterUnlocks(t) ==
  /\ pc[t] = "set_unlock"
  /\ Unlock(t)
  /\ IF level[t] = "nested"
     THEN /\ \E p \in {"want_set", "change", "tt_load"} : Goto(t, p)
          /\ level' = [level EXCEPT ![t] = "bracket"]
     ELSE Goto(t, "idle") /\ level' = [level EXCEPT ![t] = "none"]
  /\ UNCHANGED <<block, loaded>>

-----------------------------------------------------------------------------
(* The worker loop ends when a stop flag makes run() return -1, and may end  *)
(* by itself: run() also returns -1 on an error of its own.                  *)

WorkerStops == /\ worker = "alive"
               /\ stopFlag
               /\ worker' = "exited"
               /\ UNCHANGED <<running, tempStopped, depth, stopFlag, ctrlMtx, pc, loaded, level>>

WorkerFails == /\ worker = "alive"
               /\ worker' = "exited"
               /\ UNCHANGED <<running, tempStopped, depth, stopFlag, ctrlMtx, pc, loaded, level>>

-----------------------------------------------------------------------------
Acquire(t) == StartLocks(t) \/ StopLocks(t) \/ SetterLocks(t)

Continue(t) ==
  \/ StartReturns(t) \/ StartSetsRunning(t) \/ StartDoes(t)
  \/ StopReturns(t) \/ StopFlags(t) \/ StopJoins(t) \/ StopEnds(t)
  \/ TempStopLoads(t) \/ TempStopStores(t) \/ TempStopSkips(t)
  \/ TempStopFlags(t) \/ TempStopJoins(t) \/ TempStopMarks(t)
  \/ TempStartLoads(t) \/ TempStartStores(t)
  \/ TempStartTests(t) \/ TempStartDoes(t) \/ TempStartClears(t)
  \/ Change(t) \/ SetterUnlocks(t)

Next == /\ \/ \E t \in team : Call(t) \/ Acquire(t) \/ Continue(t)
           \/ WorkerStops \/ WorkerFails
        /\ UNCHANGED team

SafetySpec == Init /\ [][Next]_vars

(* A bracket's last setter is done.                                         *)
BracketEnds(t) == SetterUnlocks(t) /\ pc'[t] = "tt_load"

(* Every thread that has called an operation goes on with it, the worker     *)
(* obeys a stop flag, a thread is not passed over for ever by a mutex that   *)
(* keeps becoming free, and no bracket has setters without end.              *)
Fairness == /\ \A t \in Threads : /\ WF_vars(Continue(t) /\ UNCHANGED team)
                                  /\ SF_vars(Acquire(t) /\ UNCHANGED team)
                                  /\ SF_vars(BracketEnds(t) /\ UNCHANGED team)
            /\ WF_vars(WorkerStops /\ UNCHANGED team)

Spec == SafetySpec /\ Fairness

-----------------------------------------------------------------------------
(* Properties                                                               *)

(* The parameters run() works with change only while no worker is in run():  *)
(* what every setter of a block takes ctrlMtx and stops the worker for, and  *)
(* what iq_frontend.cpp:91 says of its brackets, "Temp stop the necessary    *)
(* blocks".                                                                  *)
ChangedWhileStopped == \A t \in Threads : pc[t] = "change" => worker # "alive"

(* doStart never assigns to a thread that is still joinable, which would end *)
(* the program (std::terminate).                                             *)
OneWorker ==
  \A t \in Threads : pc[t] \in {"start_do", "tt_do"} => worker = "none"

(* When no operation is under way, a worker has been started if and only if  *)
(* the block counts as running, and nothing of a temporary stop is left.     *)
Quiescent == \A t \in Threads : pc[t] \in {"idle"} \cup WantPcs /\ level[t] = "none"
RunsIfRunning ==
  Quiescent => /\ running <=> worker # "none"
               /\ ~tempStopped /\ depth = 0 /\ ~stopFlag

(* Every call of start, stop or a setter returns.                           *)
CallsReturn == \A t \in Threads : (pc[t] # "idle") ~> (pc[t] = "idle")
=============================================================================
