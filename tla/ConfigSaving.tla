---------------------------- MODULE ConfigSaving ----------------------------
(***************************************************************************)
(* ConfigManager and ConfigSaveWorker (src/core/src/config.cpp): one         *)
(* configuration, the threads that change it under its mutex, the thread     *)
(* that loads it, turns saving on and off and ends it, and the worker that   *)
(* saves it about a second after a change.  The process may die at any       *)
(* moment and be started again; what is on the disk stays.                   *)
(*                                                                          *)
(* A configuration is its version number, 0 being the default.  The delay of *)
(* a job is not modelled: a queued job may fall due at any time.             *)
(***************************************************************************)
EXTENDS Integers

CONSTANTS Users,        \* threads that read and change the configuration
          Owner,        \* the thread that loads it and unloads it
          Worker,       \* the thread of ConfigSaveWorker
          Nobody,
          Absent, Torn, \* no file; a file that is not completely written
          MaxVersion,   \* bound: changes made
          MaxDeaths     \* bound: times the process dies

ASSUME ConfigAssumption == /\ {Owner, Worker, Nobody} \cap Users = {}
                           /\ Owner # Worker /\ Nobody \notin {Owner, Worker}
                           /\ {Absent, Torn} \cap Int = {}
                           /\ MaxVersion \in Nat /\ MaxDeaths \in Nat

Callers == Users \cup {Owner}
Threads == Callers \cup {Worker}

VARIABLES
  mtx, wmtx, jmtx, \* the holders of ConfigManager::mtx, ConfigSaveWorker::mtx, SaveJob::mtx
  conf, changed, autoSaveEnabled,   \* the manager
  queued, manager, \* the job: its mark, and whether its manager is set
  jobs,    \* how often the job is in the worker's queue
  pc,      \* where each thread is
  after,   \* where each goes from the save it is in
  file, newFile, \* the file, and the ".new" file beside it
  version, \* changes made so far
  deaths   \* deaths so far

mutexes == <<mtx, wmtx, jmtx>>
config  == <<conf, changed, autoSaveEnabled>>
job     == <<queued, manager, jobs>>
places  == <<pc, after>>
store   == <<file, newFile, version, deaths>>
vars    == <<mutexes, config, job, places, store>>

Versions == 0..MaxVersion
Pcs == {"start", "load", "setManager", "idle", "held", "dirty",
        "lockWorker", "lockJob", "cancelQueue", "cancelJob", "lastSave", "ended",
        "open", "write", "rename", "wait", "haveJob", "tried"}

TypeOK == /\ mtx \in Threads \cup {Nobody} /\ wmtx \in Threads \cup {Nobody}
          /\ jmtx \in {Worker, Nobody}
          /\ conf \in Versions
          /\ changed \in BOOLEAN /\ autoSaveEnabled \in BOOLEAN
          /\ queued \in BOOLEAN /\ manager \in BOOLEAN
          /\ jobs \in 0..3
          /\ pc \in [Threads -> Pcs] /\ after \in [Threads -> Pcs]
          /\ file \in Versions \cup {Absent} /\ newFile \in Versions \cup {Absent, Torn}
          /\ version \in Versions
          /\ deaths \in 0..MaxDeaths

Resting == {"start", "idle", "ended"}

Beginning == [t \in Threads |-> IF t = Owner THEN "start"
                                ELSE IF t = Worker THEN "wait" ELSE "idle"]

(* The memory of a process that has just been started.                      *)
Fresh == /\ mtx = Nobody /\ wmtx = Nobody /\ jmtx = Nobody
         /\ conf = 0 /\ changed = FALSE /\ autoSaveEnabled = FALSE
         /\ queued = FALSE /\ manager = TRUE /\ jobs = 0
         /\ pc = Beginning /\ after = Beginning

Init == /\ Fresh
        /\ file = Absent /\ newFile = Absent
        /\ version = 0 /\ deaths = 0

At(t, p) == pc[t] = p

-----------------------------------------------------------------------------
(* Slips: steps with one mistake each, taken by nobody.                     *)

SlipOpenInPlace(t) ==
  /\ At(t, "open")
  /\ newFile' = Torn /\ file' = Torn
  /\ pc' = [pc EXCEPT ![t] = "write"]
  /\ UNCHANGED <<mutexes, config, job, after, version, deaths>>

SlipEnqueueTwice(t) ==
  /\ At(t, "lockJob") /\ jmtx = Nobody
  /\ jobs' = jobs + 1
  /\ queued' = TRUE
  /\ wmtx' = Nobody
  /\ pc' = [pc EXCEPT ![t] = IF t = Worker THEN "wait" ELSE "idle"]
  /\ UNCHANGED <<mtx, jmtx, config, manager, after, store>>

SlipReleaseUnmarked(t) ==
  /\ At(t, "dirty")
  /\ changed' = autoSaveEnabled
  /\ mtx' = Nobody
  /\ pc' = [pc EXCEPT ![t] = IF autoSaveEnabled THEN "lockWorker" ELSE "idle"]
  /\ UNCHANGED <<wmtx, jmtx, conf, autoSaveEnabled, job, after, store>>

SlipCancelUnlocked ==
  /\ At(Owner, "cancelJob")
  /\ queued' = FALSE
  /\ manager' = FALSE
  /\ pc' = [pc EXCEPT ![Owner] = "lastSave"]
  /\ UNCHANGED <<mutexes, config, jobs, after, store>>

SlipRetryStillQueued ==
  /\ At(Worker, "haveJob") /\ jmtx = Nobody
  /\ manager /\ mtx # Nobody
  /\ pc' = [pc EXCEPT ![Worker] = "lockWorker"]
  /\ UNCHANGED <<mutexes, config, job, after, store>>

SlipNoRetry ==
  /\ At(Worker, "haveJob") /\ jmtx = Nobody
  /\ manager /\ mtx # Nobody
  /\ queued' = FALSE
  /\ pc' = [pc EXCEPT ![Worker] = "wait"]
  /\ UNCHANGED <<mutexes, config, manager, jobs, after, store>>

SlipSkipKeepsJob ==
  /\ At(Worker, "tried") /\ ~(autoSaveEnabled /\ changed)
  /\ mtx' = Nobody
  /\ pc' = [pc EXCEPT ![Worker] = "wait"]
  /\ UNCHANGED <<wmtx, jmtx, config, job, after, store>>

-----------------------------------------------------------------------------
(* save: the new file is written beside the old one and renamed over it, all *)
(* of it under mtx, which load and the worker hold already.                  *)

OpenNew(t) == /\ At(t, "open")
              /\ newFile' = Torn
              /\ pc' = [pc EXCEPT ![t] = "write"]
              /\ UNCHANGED <<mutexes, config, job, after, file, version, deaths>>

WriteNew(t) == /\ At(t, "write")
               /\ newFile' = conf
               /\ pc' = [pc EXCEPT ![t] = "rename"]
               /\ UNCHANGED <<mutexes, config, job, after, file, version, deaths>>

(* The rename, and the release of the mutexes the save was done under: the   *)
(* worker holds the job's too.                                               *)
Rename(t) == /\ At(t, "rename")
             /\ file' = newFile /\ newFile' = Absent
             /\ mtx' = Nobody
             /\ jmtx' = IF t = Worker THEN Nobody ELSE jmtx
             /\ pc' = [pc EXCEPT ![t] = after[t]]
             /\ UNCHANGED <<wmtx, config, job, after, version, deaths>>

(* enqueue, for the threads that release and for the worker's retry.        *)
LockWorker(t) == /\ At(t, "lockWorker") /\ wmtx = Nobody
                 /\ wmtx' = t
                 /\ pc' = [pc EXCEPT ![t] = "lockJob"]
                 /\ UNCHANGED <<mtx, jmtx, config, job, after, store>>

Enqueue(t) ==
  /\ At(t, "lockJob") /\ jmtx = Nobody
  /\ IF manager /\ ~queued
       THEN jobs' = jobs + 1 /\ queued' = TRUE
       ELSE UNCHANGED <<jobs, queued>>
  /\ wmtx' = Nobody
  /\ pc' = [pc EXCEPT ![t] = IF t = Worker THEN "wait" ELSE "idle"]
  /\ UNCHANGED <<mtx, jmtx, config, manager, after, store>>

-----------------------------------------------------------------------------
(* acquire, release and save, by any thread of the program                  *)

Acquire(t) == /\ At(t, "idle") /\ ~At(Owner, "start") /\ mtx = Nobody
              /\ mtx' = t
              /\ pc' = [pc EXCEPT ![t] = "held"]
              /\ UNCHANGED <<wmtx, jmtx, config, job, after, store>>

Modify(t) == /\ At(t, "held") /\ version < MaxVersion
             /\ version' = version + 1
             /\ conf' = version + 1
             /\ pc' = [pc EXCEPT ![t] = "dirty"]
             /\ UNCHANGED <<mutexes, changed, autoSaveEnabled, job, after, file, newFile, deaths>>

ReleaseUnmodified(t) == /\ At(t, "held")
                        /\ mtx' = Nobody
                        /\ pc' = [pc EXCEPT ![t] = "idle"]
                        /\ UNCHANGED <<wmtx, jmtx, config, job, after, store>>

ReleaseModified(t) ==
  /\ At(t, "dirty")
  /\ changed' = TRUE
  /\ mtx' = Nobody
  /\ pc' = [pc EXCEPT ![t] = IF autoSaveEnabled THEN "lockWorker" ELSE "idle"]
  /\ UNCHANGED <<wmtx, jmtx, conf, autoSaveEnabled, job, after, store>>

SaveNow(t) == /\ At(t, "idle") /\ ~At(Owner, "start") /\ mtx = Nobody
              /\ mtx' = t
              /\ pc' = [pc EXCEPT ![t] = "open"]
              /\ after' = [after EXCEPT ![t] = "idle"]
              /\ UNCHANGED <<wmtx, jmtx, config, job, store>>

-----------------------------------------------------------------------------
(* The life of a configuration: load, enableAutoSave, and some day           *)
(* disableAutoSave and a last save.                                          *)

StartLoad == /\ At(Owner, "start") \/ At(Owner, "ended")
             /\ mtx = Nobody
             /\ mtx' = Owner
             /\ pc' = [pc EXCEPT ![Owner] = "load"]
             /\ UNCHANGED <<wmtx, jmtx, config, job, after, store>>

LoadFile == /\ At(Owner, "load") /\ file \in Int
            /\ conf' = file
            /\ mtx' = Nobody
            /\ pc' = [pc EXCEPT ![Owner] = "idle"]
            /\ UNCHANGED <<wmtx, jmtx, changed, autoSaveEnabled, job, after, store>>

(* There is no file, or it cannot be read: the defaults, saved at once.     *)
LoadDefaults ==
  /\ At(Owner, "load") /\ file \notin Int
  /\ conf' = 0
  /\ pc' = [pc EXCEPT ![Owner] = "open"]
  /\ after' = [after EXCEPT ![Owner] = "idle"]
  /\ UNCHANGED <<mutexes, changed, autoSaveEnabled, job, store>>

EnableAutoSave ==
  /\ At(Owner, "idle") /\ ~autoSaveEnabled
  /\ autoSaveEnabled' = TRUE
  /\ pc' = [pc EXCEPT ![Owner] = "setManager"]
  /\ UNCHANGED <<mutexes, conf, changed, job, after, store>>

SetManager == /\ At(Owner, "setManager") /\ jmtx = Nobody
              /\ manager' = TRUE
              /\ pc' = [pc EXCEPT ![Owner] = "lockWorker"]
              /\ UNCHANGED <<mutexes, config, queued, jobs, after, store>>

DisableAutoSave ==
  /\ At(Owner, "idle") /\ autoSaveEnabled
  /\ autoSaveEnabled' = FALSE
  /\ pc' = [pc EXCEPT ![Owner] = "cancelQueue"]
  /\ UNCHANGED <<mutexes, conf, changed, job, after, store>>

CancelQueued == /\ At(Owner, "cancelQueue") /\ wmtx = Nobody
                /\ jobs' = 0
                /\ pc' = [pc EXCEPT ![Owner] = "cancelJob"]
                /\ UNCHANGED <<mutexes, config, queued, manager, after, store>>

CancelJob ==
  /\ At(Owner, "cancelJob") /\ jmtx = Nobody
  /\ queued' = FALSE
  /\ manager' = FALSE
  /\ pc' = [pc EXCEPT ![Owner] = "lastSave"]
  /\ UNCHANGED <<mutexes, config, jobs, after, store>>

LastSave ==
  /\ At(Owner, "lastSave") /\ mtx = Nobody
  /\ mtx' = Owner
  /\ pc' = [pc EXCEPT ![Owner] = "open"]
  /\ after' = [after EXCEPT ![Owner] = "ended"]
  /\ UNCHANGED <<wmtx, jmtx, config, job, store>>

-----------------------------------------------------------------------------
(* ConfigSaveWorker::worker                                                 *)

TakeJob == /\ At(Worker, "wait") /\ wmtx = Nobody /\ jobs > 0
           /\ jobs' = jobs - 1
           /\ pc' = [pc EXCEPT ![Worker] = "haveJob"]
           /\ UNCHANGED <<mutexes, config, queued, manager, after, store>>

LockManager ==
  /\ At(Worker, "haveJob") /\ jmtx = Nobody
  /\ manager /\ mtx = Nobody
  /\ queued' = FALSE
  /\ jmtx' = Worker
  /\ mtx' = Worker
  /\ pc' = [pc EXCEPT ![Worker] = "tried"]
  /\ UNCHANGED <<wmtx, config, manager, jobs, after, store>>

(* The manager's mutex is only tried: the job goes back into the queue.     *)
Retry == /\ At(Worker, "haveJob") /\ jmtx = Nobody
         /\ manager /\ mtx # Nobody
         /\ queued' = FALSE
         /\ pc' = [pc EXCEPT ![Worker] = "lockWorker"]
         /\ UNCHANGED <<mutexes, config, manager, jobs, after, store>>

DropJob == /\ At(Worker, "haveJob") /\ jmtx = Nobody
           /\ ~manager
           /\ queued' = FALSE
           /\ pc' = [pc EXCEPT ![Worker] = "wait"]
           /\ UNCHANGED <<mutexes, config, manager, jobs, after, store>>

SaveJob == /\ At(Worker, "tried") /\ autoSaveEnabled /\ changed
           /\ changed' = FALSE
           /\ pc' = [pc EXCEPT ![Worker] = "open"]
           /\ after' = [after EXCEPT ![Worker] = "wait"]
           /\ UNCHANGED <<mutexes, conf, autoSaveEnabled, job, store>>

NothingToSave ==
  /\ At(Worker, "tried") /\ ~(autoSaveEnabled /\ changed)
  /\ mtx' = Nobody
  /\ jmtx' = Nobody
  /\ pc' = [pc EXCEPT ![Worker] = "wait"]
  /\ UNCHANGED <<wmtx, config, job, after, store>>

-----------------------------------------------------------------------------
(* The process dies and is started again with the files it finds.           *)
Die == /\ deaths < MaxDeaths
       /\ deaths' = deaths + 1
       /\ mtx' = Nobody /\ wmtx' = Nobody /\ jmtx' = Nobody
       /\ conf' = 0 /\ changed' = FALSE /\ autoSaveEnabled' = FALSE
       /\ queued' = FALSE /\ manager' = TRUE /\ jobs' = 0
       /\ pc' = Beginning /\ after' = Beginning
       /\ UNCHANGED <<file, newFile, version>>

(* Going on with a call once it is begun.                                   *)
Continue(t) == \/ OpenNew(t) \/ WriteNew(t) \/ Rename(t)
               \/ LockWorker(t) \/ Enqueue(t)
               \/ ReleaseUnmodified(t) \/ ReleaseModified(t)
OwnerContinues == \/ LoadFile \/ LoadDefaults \/ SetManager
                  \/ CancelQueued \/ CancelJob \/ LastSave
WorkerContinues == TakeJob \/ Retry \/ DropJob \/ SaveJob \/ NothingToSave

Next == \/ \E t \in Callers : Acquire(t) \/ Modify(t) \/ SaveNow(t)
        \/ \E t \in Threads : Continue(t)
        \/ StartLoad \/ EnableAutoSave \/ DisableAutoSave \/ OwnerContinues
        \/ WorkerContinues \/ LockManager
        \/ Die

(* The threads run, and no thread is passed over for ever by a mutex it      *)
(* waits for.                                                                *)
Fairness == /\ \A t \in Threads : SF_vars(Continue(t))
            /\ SF_vars(OwnerContinues)
            /\ WF_vars(WorkerContinues \/ LockManager)

Spec == Init /\ [][Next]_vars /\ Fairness

-----------------------------------------------------------------------------
(* Properties                                                               *)

(* While saving is on, no change is forgotten: whenever the mutex is free    *)
(* and the configuration is marked changed, its job is queued, or a thread   *)
(* is on its way to queue it or to look at the mark (release, enqueue, and   *)
(* the worker's retry).                                                      *)
ChangesQueued ==
  mtx = Nobody /\ changed /\ autoSaveEnabled =>
    \/ jobs > 0
    \/ At(Worker, "haveJob")
    \/ At(Owner, "setManager")
    \/ \E t \in Threads : At(t, "lockWorker") \/ At(t, "lockJob")

(* A configuration nobody holds and that is not marked changed is the one in *)
(* the file: the mark is only taken back by a save of what it stands for.    *)
SavedWhenUnchanged ==
  mtx = Nobody /\ ~changed /\ ~At(Owner, "start") => conf = file

(* A save replaces the file with a complete one that is not older, whenever  *)
(* the process dies: save never writes to the file itself.                   *)
FileOnlyAdvances ==
  [][file' # file =>
       /\ file' \in Int
       /\ file \in Int => file' > file]_vars

(* Once disableAutoSave has returned, the worker does not touch the manager, *)
(* which may be destroyed ("so ConfigManager destructors can safely          *)
(* unregister their jobs", config.cpp:104).                                  *)
WorkerLeavesDisabled ==
  At(Owner, "lastSave") \/ At(Owner, "ended") =>
    pc[Worker] \notin {"tried", "open", "write", "rename"}

(* Once the threads leave the configuration alone, it is saved (while they   *)
(* keep changing it each change puts the job off by a second, and a thread   *)
(* that always holds the mutex when the worker tries it keeps it out).       *)
ChangesSaved ==
  <>[](\A t \in Callers : pc[t] \in Resting) => <>[](~(changed /\ autoSaveEnabled))

(* Every call that is begun returns: nobody is left waiting for a mutex.    *)
CallsReturn == \A t \in Callers : (pc[t] \notin Resting) ~> (pc[t] \in Resting)
=============================================================================
