---------------------------- MODULE ConfigProofs ----------------------------
(***************************************************************************)
(* Proofs about ConfigSaving for any number of threads, changes and deaths:  *)
(* the three mutexes are held exactly in the sections that take them, so a   *)
(* save writes the configuration its mark stands for, and the marks queued,  *)
(* changed and manager never leave a change with nobody to save it; and the  *)
(* threads that wait for them never wait in a circle.                        *)
(***************************************************************************)
EXTENDS ConfigSaving, TLAPS

Saving == {"open", "write", "rename"}

(* The places of each thread, and which mutexes it holds there.             *)
UserPcs   == {"idle", "held", "dirty", "lockWorker", "lockJob"} \cup Saving
OwnerPcs  == UserPcs \cup {"start", "load", "setManager", "cancelQueue", "cancelJob",
                           "lastSave", "ended"}
WorkerPcs == {"wait", "haveJob", "tried", "lockWorker", "lockJob"} \cup Saving
MtxPcs    == {"held", "dirty", "load", "tried"} \cup Saving

Places == /\ \A t \in Users : pc[t] \in UserPcs
          /\ pc[Owner] \in OwnerPcs
          /\ pc[Worker] \in WorkerPcs
          /\ \A t \in Users : pc[t] \in Saving => after[t] = "idle"
          /\ pc[Owner] \in Saving => after[Owner] \in {"idle", "ended"}
          /\ pc[Worker] \in Saving => after[Worker] = "wait"

Mutexes == /\ \A t \in Threads : mtx = t <=> pc[t] \in MtxPcs
           /\ \A t \in Threads : wmtx = t <=> pc[t] = "lockJob"
           /\ jmtx = Worker <=> pc[Worker] \in Saving \cup {"tried"}

(* The owner is past disableAutoSave and not yet loading again.             *)
Ended == \/ pc[Owner] \in {"lastSave", "ended"}
         \/ pc[Owner] \in Saving /\ after[Owner] = "ended"

(* What the owner's place says of the marks it sets.                        *)
Life == /\ At(Owner, "start") => Fresh
        /\ Ended => ~manager /\ pc[Worker] \notin Saving \cup {"tried"}
        /\ \/ Ended
           \/ pc[Owner] \in {"start", "load", "cancelQueue", "cancelJob"}
           => ~autoSaveEnabled
        /\ autoSaveEnabled => manager \/ At(Owner, "setManager")

(* The job is in the queue, or in the worker's hand, if it is marked queued; *)
(* a job taken before a cancellation can add to it, but only that one.       *)
Held == IF At(Worker, "haveJob") THEN 1 ELSE 0
Queue == /\ queued => jobs > 0 \/ At(Worker, "haveJob") \/ At(Owner, "cancelJob")
         /\ jobs + Held <= 3
         /\ ~queued => jobs + Held <= 2
         /\ At(Owner, "cancelJob") => /\ jobs + Held <= 2
                                      /\ ~queued => jobs + Held <= 1

(* A change that is marked will be seen to.                                 *)
Marked == changed /\ autoSaveEnabled =>
            \/ jobs > 0
            \/ pc[Worker] \in {"haveJob", "tried"}
            \/ At(Owner, "setManager")
            \/ \E t \in Threads : At(t, "lockWorker") \/ At(t, "lockJob")

(* What is in memory, compared with the files.                              *)
Files == /\ \A t \in Threads : At(t, "rename") => newFile = conf
         /\ (/\ mtx = Nobody \/ \E t \in Threads : pc[t] \in {"held", "tried"}
             /\ ~changed /\ ~At(Owner, "start")) => conf = file
         /\ pc[Owner] \notin {"start", "load"} /\ file \in Int => file <= conf
         /\ conf <= version
         /\ file \in Int => file <= version

IInv == TypeOK /\ Places /\ Mutexes /\ Life /\ Queue /\ Marked /\ Files

(* A thread that can only go on when another one gives back a mutex.         *)
HeldUp(t) ==
  \/ At(t, "lockWorker") /\ wmtx # Nobody
  \/ At(t, "lockJob") /\ jmtx # Nobody
  \/ /\ t = Owner
     /\ \/ At(t, "setManager") /\ jmtx # Nobody
        \/ At(t, "cancelQueue") /\ wmtx # Nobody
        \/ At(t, "cancelJob") /\ jmtx # Nobody
        \/ At(t, "lastSave") /\ mtx # Nobody
  \/ /\ t = Worker
     /\ \/ At(t, "wait") /\ jobs > 0 /\ wmtx # Nobody
        \/ At(t, "haveJob") /\ jmtx # Nobody

(* The three mutexes do not hold each other up: who has the manager's or the   *)
(* job's goes on by itself, and who has the queue's waits at most for the      *)
(* job's, which the worker then has (enqueue calls into the job under the      *)
(* queue's mutex, the worker saves under the job's and the manager's).        *)
NoCircularWait ==
  /\ mtx # Nobody => ~HeldUp(mtx)
  /\ jmtx # Nobody => ~HeldUp(jmtx)
  /\ wmtx # Nobody /\ HeldUp(wmtx) => wmtx # Worker /\ jmtx = Worker

-----------------------------------------------------------------------------
(* A process that has just been started with no files satisfies the invariant.*)
LEMMA InitIInv == Init => IInv
<1> SUFFICES ASSUME Init PROVE IInv
  OBVIOUS
<1> USE ConfigAssumption DEF Init, Fresh, Threads, Callers
<1>1. TypeOK
  <2>1. Beginning \in [Threads -> Pcs]
    BY DEF Beginning, Pcs
  <2>2. 0 \in Versions
    BY DEF Versions
  <2>3. jobs \in 0..3 /\ deaths \in 0..MaxDeaths
    OBVIOUS
  <2>4. /\ mtx \in Threads \cup {Nobody} /\ wmtx \in Threads \cup {Nobody}
        /\ jmtx \in {Worker, Nobody}
    OBVIOUS
  <2>5. /\ changed \in BOOLEAN /\ autoSaveEnabled \in BOOLEAN
        /\ queued \in BOOLEAN /\ manager \in BOOLEAN
    OBVIOUS
  <2> QED
    BY <2>1, <2>2, <2>3, <2>4, <2>5 DEF TypeOK
<1>2. Places
  BY DEF Places, Beginning, Saving, UserPcs, OwnerPcs, WorkerPcs
<1>3. Mutexes
  BY DEF Mutexes, Beginning, Saving, MtxPcs
<1>4. Life /\ Queue
  BY DEF Life, Ended, Queue, Held, At, Beginning, Saving
<1>5. Marked
  BY DEF Marked
<1>6. Files
  <2>1. file \notin Int
    OBVIOUS
  <2>2. \A t \in Threads : ~At(t, "rename")
    BY DEF At, Beginning
  <2>3. At(Owner, "start")
    BY DEF At, Beginning
  <2> QED
    BY <2>1, <2>2, <2>3 DEF Files
<1> QED
  BY <1>1, <1>2, <1>3, <1>4, <1>5, <1>6 DEF IInv

(* Opening the new file: only the files beside memory are touched.          *)
LEMMA OpenNewKeeps == ASSUME IInv, NEW t \in Threads, OpenNew(t) PROVE IInv'
<1> USE ConfigAssumption DEF IInv, TypeOK, Places, Mutexes, OpenNew, At, Threads, Callers,
     Saving, mutexes, config, job, places, store
<1>1. TypeOK'
  BY DEF Versions, Pcs, UserPcs, OwnerPcs, WorkerPcs
<1>2. Places'
  BY DEF UserPcs, OwnerPcs, WorkerPcs
<1>3. Mutexes'
  BY DEF MtxPcs, UserPcs, OwnerPcs, WorkerPcs
<1>4. Life'
  BY DEF Life, Ended, Fresh, MtxPcs
<1>5. Queue'
  BY DEF Queue, Held, UserPcs, OwnerPcs, WorkerPcs
<1>6. Marked'
  BY DEF Marked
<1>7. Files'
  BY DEF Files, MtxPcs, Life, Fresh, Versions
<1> QED
  BY <1>1, <1>2, <1>3, <1>4, <1>5, <1>6, <1>7 DEF IInv

(* Writing it: what is in it is the configuration, which mtx keeps still.   *)
LEMMA WriteNewKeeps == ASSUME IInv, NEW t \in Threads, WriteNew(t) PROVE IInv'
<1> USE ConfigAssumption DEF IInv, TypeOK, Places, Mutexes, WriteNew, At, Threads, Callers,
     Saving, mutexes, config, job, places, store
<1>1. TypeOK'
  BY DEF Versions, Pcs, UserPcs, OwnerPcs, WorkerPcs
<1>2. Places'
  BY DEF UserPcs, OwnerPcs, WorkerPcs
<1>3. Mutexes'
  BY DEF MtxPcs, UserPcs, OwnerPcs, WorkerPcs
<1>4. Life'
  BY DEF Life, Ended, Fresh, MtxPcs
<1>5. Queue'
  BY DEF Queue, Held, UserPcs, OwnerPcs, WorkerPcs
<1>6. Marked'
  BY DEF Marked
<1>7. Files'
  BY DEF Files, MtxPcs, Life, Fresh, Versions
<1> QED
  BY <1>1, <1>2, <1>3, <1>4, <1>5, <1>6, <1>7 DEF IInv

(* The rename ends the save and frees the mutexes it was done under.        *)
LEMMA RenameKeeps == ASSUME IInv, NEW t \in Threads, Rename(t) PROVE IInv'
<1> USE ConfigAssumption DEF IInv, TypeOK, Places, Mutexes, Rename, At, Threads, Callers,
     Saving, mutexes, config, job, places, store
<1>1. TypeOK'
  BY DEF Versions, Pcs, UserPcs, OwnerPcs, WorkerPcs
<1>2. Places'
  BY DEF UserPcs, OwnerPcs, WorkerPcs
<1>3. Mutexes'
  BY DEF MtxPcs, UserPcs, OwnerPcs, WorkerPcs
<1>4. Life'
  BY DEF Life, Ended, Fresh, MtxPcs
<1>5. Queue'
  BY DEF Queue, Held, UserPcs, OwnerPcs, WorkerPcs
<1>6. Marked'
  BY DEF Marked
<1>7. Files'
  BY DEF Files, MtxPcs, Life, Fresh, Versions
<1> QED
  BY <1>1, <1>2, <1>3, <1>4, <1>5, <1>6, <1>7 DEF IInv

(* enqueue takes the queue's mutex.                                         *)
LEMMA LockWorkerKeeps == ASSUME IInv, NEW t \in Threads, LockWorker(t) PROVE IInv'
<1> USE ConfigAssumption DEF IInv, TypeOK, Places, Mutexes, LockWorker, At, Threads, Callers,
     Saving, mutexes, config, job, places, store
<1>1. TypeOK'
  BY DEF Versions, Pcs, UserPcs, OwnerPcs, WorkerPcs
<1>2. Places'
  BY DEF UserPcs, OwnerPcs, WorkerPcs
<1>3. Mutexes'
  BY DEF MtxPcs, UserPcs, OwnerPcs, WorkerPcs
<1>4. Life'
  BY DEF Life, Ended, Fresh, Beginning, MtxPcs
<1>5. Queue'
  BY DEF Queue, Held, UserPcs, OwnerPcs, WorkerPcs
<1>6. Marked'
  BY DEF Marked
<1>7. Files'
  BY DEF Files, MtxPcs, Life, Fresh, Versions
<1> QED
  BY <1>1, <1>2, <1>3, <1>4, <1>5, <1>6, <1>7 DEF IInv

(* enqueue adds the job unless it is marked queued: then it is in the queue already.*)
LEMMA EnqueueKeeps == ASSUME IInv, NEW t \in Threads, Enqueue(t) PROVE IInv'
<1> USE ConfigAssumption DEF IInv, TypeOK, Places, Mutexes, Enqueue, At, Threads, Callers,
     Saving, mutexes, config, job, places, store
<1>1. TypeOK'
  <2>1. jobs' \in 0..3
    BY DEF Queue, Held
  <2>2. pc' \in [Threads -> Pcs]
    BY DEF Pcs
  <2> QED
    BY <2>1, <2>2
<1>2. Places'
  BY DEF UserPcs, OwnerPcs, WorkerPcs
<1>3. Mutexes'
  BY DEF MtxPcs, UserPcs, OwnerPcs, WorkerPcs
<1>4. Life'
  BY DEF Life, Ended, Fresh, MtxPcs
<1>5. Queue'
  BY DEF Queue, Held, UserPcs, OwnerPcs, WorkerPcs
<1>6. Marked'
  BY DEF Marked, Queue, Held, Life, OwnerPcs, UserPcs, WorkerPcs
<1>7. Files'
  BY DEF Files, MtxPcs, Life, Fresh, Versions
<1> QED
  BY <1>1, <1>2, <1>3, <1>4, <1>5, <1>6, <1>7 DEF IInv

(* A release without a change.                                              *)
LEMMA ReleaseUnmodifiedKeeps == ASSUME IInv, NEW t \in Threads, ReleaseUnmodified(t) PROVE IInv'
<1> USE ConfigAssumption DEF IInv, TypeOK, Places, Mutexes, ReleaseUnmodified, At, Threads,
     Callers, Saving, mutexes, config, job, places, store
<1>1. TypeOK'
  BY DEF Versions, Pcs, UserPcs, OwnerPcs, WorkerPcs
<1>2. Places'
  BY DEF UserPcs, OwnerPcs, WorkerPcs
<1>3. Mutexes'
  BY DEF MtxPcs, UserPcs, OwnerPcs, WorkerPcs
<1>4. Life'
  BY DEF Life, Ended, Fresh, MtxPcs
<1>5. Queue'
  BY DEF Queue, Held, UserPcs, OwnerPcs, WorkerPcs
<1>6. Marked'
  BY DEF Marked
<1>7. Files'
  BY DEF Files, MtxPcs, Life, Fresh, Versions
<1> QED
  BY <1>1, <1>2, <1>3, <1>4, <1>5, <1>6, <1>7 DEF IInv

(* A release with one: the thread is on its way to queue the job if saving is on.*)
LEMMA ReleaseModifiedKeeps == ASSUME IInv, NEW t \in Threads, ReleaseModified(t) PROVE IInv'
<1> USE ConfigAssumption DEF IInv, TypeOK, Places, Mutexes, ReleaseModified, At, Threads,
     Callers, Saving, mutexes, config, job, places, store
<1>1. TypeOK'
  BY DEF Versions, Pcs, UserPcs, OwnerPcs, WorkerPcs
<1>2. Places'
  BY DEF UserPcs, OwnerPcs, WorkerPcs
<1>3. Mutexes'
  BY DEF MtxPcs, UserPcs, OwnerPcs, WorkerPcs
<1>4. Life'
  BY DEF Life, Ended, Fresh, MtxPcs
<1>5. Queue'
  BY DEF Queue, Held, UserPcs, OwnerPcs, WorkerPcs
<1>6. Marked'
  BY DEF Marked
<1>7. Files'
  BY DEF Files, MtxPcs, Life, Fresh, Versions
<1> QED
  BY <1>1, <1>2, <1>3, <1>4, <1>5, <1>6, <1>7 DEF IInv

(* acquire takes mtx.                                                       *)
LEMMA AcquireKeeps == ASSUME IInv, NEW t \in Callers, Acquire(t) PROVE IInv'
<1> USE ConfigAssumption DEF IInv, TypeOK, Places, Mutexes, Acquire, At, Threads, Callers,
     Saving, mutexes, config, job, places, store
<1>1. TypeOK'
  BY DEF Versions, Pcs, UserPcs, OwnerPcs, WorkerPcs
<1>2. Places'
  BY DEF UserPcs, OwnerPcs, WorkerPcs
<1>3. Mutexes'
  BY DEF MtxPcs, UserPcs, OwnerPcs, WorkerPcs
<1>4. Life'
  BY DEF Life, Ended, Fresh, MtxPcs
<1>5. Queue'
  BY DEF Queue, Held, UserPcs, OwnerPcs, WorkerPcs
<1>6. Marked'
  BY DEF Marked
<1>7. Files'
  BY DEF Files, MtxPcs, Life, Fresh, Versions
<1> QED
  BY <1>1, <1>2, <1>3, <1>4, <1>5, <1>6, <1>7 DEF IInv

(* The holder changes the configuration.                                    *)
LEMMA ModifyKeeps == ASSUME IInv, NEW t \in Callers, Modify(t) PROVE IInv'
<1> USE ConfigAssumption DEF IInv, TypeOK, Places, Mutexes, Modify, At, Threads, Callers,
     Saving, mutexes, config, job, places, store
<1>1. TypeOK'
  BY DEF Versions, Pcs, UserPcs, OwnerPcs, WorkerPcs
<1>2. Places'
  BY DEF UserPcs, OwnerPcs, WorkerPcs
<1>3. Mutexes'
  BY DEF MtxPcs, UserPcs, OwnerPcs, WorkerPcs
<1>4. Life'
  BY DEF Life, Ended, Fresh, MtxPcs
<1>5. Queue'
  BY DEF Queue, Held, UserPcs, OwnerPcs, WorkerPcs
<1>6. Marked'
  BY DEF Marked
<1>7. Files'
  BY DEF Files, MtxPcs, Life, Fresh, Versions
<1> QED
  BY <1>1, <1>2, <1>3, <1>4, <1>5, <1>6, <1>7 DEF IInv

(* A save asked for by the program.                                         *)
LEMMA SaveNowKeeps == ASSUME IInv, NEW t \in Callers, SaveNow(t) PROVE IInv'
<1> USE ConfigAssumption DEF IInv, TypeOK, Places, Mutexes, SaveNow, At, Threads, Callers,
     Saving, mutexes, config, job, places, store
<1>1. TypeOK'
  BY DEF Versions, Pcs, UserPcs, OwnerPcs, WorkerPcs
<1>2. Places'
  BY DEF UserPcs, OwnerPcs, WorkerPcs
<1>3. Mutexes'
  BY DEF MtxPcs, UserPcs, OwnerPcs, WorkerPcs
<1>4. Life'
  BY DEF Life, Ended, Fresh, MtxPcs
<1>5. Queue'
  BY DEF Queue, Held, UserPcs, OwnerPcs, WorkerPcs
<1>6. Marked'
  BY DEF Marked
<1>7. Files'
  BY DEF Files, MtxPcs, Life, Fresh, Versions
<1> QED
  BY <1>1, <1>2, <1>3, <1>4, <1>5, <1>6, <1>7 DEF IInv

(* load takes the configuration from the file.                              *)
LEMMA LoadFileKeeps == ASSUME IInv, LoadFile PROVE IInv'
<1> USE ConfigAssumption DEF IInv, TypeOK, Places, Mutexes, LoadFile, At, Threads, Callers,
     Saving, mutexes, config, job, places, store
<1>1. TypeOK'
  BY DEF Versions, Pcs, UserPcs, OwnerPcs, WorkerPcs
<1>2. Places'
  BY DEF UserPcs, OwnerPcs, WorkerPcs
<1>3. Mutexes'
  BY DEF MtxPcs, UserPcs, OwnerPcs, WorkerPcs
<1>4. Life'
  BY DEF Life, Ended, Fresh, MtxPcs
<1>5. Queue'
  BY DEF Queue, Held, UserPcs, OwnerPcs, WorkerPcs
<1>6. Marked'
  BY DEF Marked
<1>7. Files'
  BY DEF Files, MtxPcs, Life, Fresh, Versions
<1> QED
  BY <1>1, <1>2, <1>3, <1>4, <1>5, <1>6, <1>7 DEF IInv

(* load takes the defaults and saves them.                                  *)
LEMMA LoadDefaultsKeeps == ASSUME IInv, LoadDefaults PROVE IInv'
<1> USE ConfigAssumption DEF IInv, TypeOK, Places, Mutexes, LoadDefaults, At, Threads, Callers,
     Saving, mutexes, config, job, places, store
<1>1. TypeOK'
  BY DEF Versions, Pcs, UserPcs, OwnerPcs, WorkerPcs
<1>2. Places'
  BY DEF UserPcs, OwnerPcs, WorkerPcs
<1>3. Mutexes'
  BY DEF MtxPcs, UserPcs, OwnerPcs, WorkerPcs
<1>4. Life'
  BY DEF Life, Ended, Fresh, MtxPcs
<1>5. Queue'
  BY DEF Queue, Held, UserPcs, OwnerPcs, WorkerPcs
<1>6. Marked'
  BY DEF Marked
<1>7. Files'
  BY DEF Files, MtxPcs, Life, Fresh, Versions
<1> QED
  BY <1>1, <1>2, <1>3, <1>4, <1>5, <1>6, <1>7 DEF IInv

(* enableAutoSave sets the job's manager.                                   *)
LEMMA SetManagerKeeps == ASSUME IInv, SetManager PROVE IInv'
<1> USE ConfigAssumption DEF IInv, TypeOK, Places, Mutexes, SetManager, At, Threads, Callers,
     Saving, mutexes, config, job, places, store
<1>1. TypeOK'
  BY DEF Versions, Pcs, UserPcs, OwnerPcs, WorkerPcs
<1>2. Places'
  BY DEF UserPcs, OwnerPcs, WorkerPcs
<1>3. Mutexes'
  BY DEF MtxPcs, UserPcs, OwnerPcs, WorkerPcs
<1>4. Life'
  BY DEF Life, Ended, Fresh, MtxPcs
<1>5. Queue'
  BY DEF Queue, Held, UserPcs, OwnerPcs, WorkerPcs
<1>6. Marked'
  BY DEF Marked
<1>7. Files'
  BY DEF Files, MtxPcs, Life, Fresh, Versions
<1> QED
  BY <1>1, <1>2, <1>3, <1>4, <1>5, <1>6, <1>7 DEF IInv

(* cancel empties the queue of the job; saving is off by then.              *)
LEMMA CancelQueuedKeeps == ASSUME IInv, CancelQueued PROVE IInv'
<1> USE ConfigAssumption DEF IInv, TypeOK, Places, Mutexes, CancelQueued, At, Threads, Callers,
     Saving, mutexes, config, job, places, store
<1>1. TypeOK'
  BY DEF Versions, Pcs, UserPcs, OwnerPcs, WorkerPcs
<1>2. Places'
  BY DEF UserPcs, OwnerPcs, WorkerPcs
<1>3. Mutexes'
  BY DEF MtxPcs, UserPcs, OwnerPcs, WorkerPcs
<1>4. Life'
  BY DEF Life, Ended, Fresh, MtxPcs
<1>5. Queue'
  BY DEF Queue, Held, UserPcs, OwnerPcs, WorkerPcs
<1>6. Marked'
  BY DEF Marked, Life, Ended
<1>7. Files'
  BY DEF Files, MtxPcs, Life, Fresh, Versions
<1> QED
  BY <1>1, <1>2, <1>3, <1>4, <1>5, <1>6, <1>7 DEF IInv

(* cancel takes the manager from the job, under the job's mutex.            *)
LEMMA CancelJobKeeps == ASSUME IInv, CancelJob PROVE IInv'
<1> USE ConfigAssumption DEF IInv, TypeOK, Places, Mutexes, CancelJob, At, Threads, Callers,
     Saving, mutexes, config, job, places, store
<1>1. TypeOK'
  BY DEF Versions, Pcs, UserPcs, OwnerPcs, WorkerPcs
<1>2. Places'
  BY DEF UserPcs, OwnerPcs, WorkerPcs
<1>3. Mutexes'
  BY DEF MtxPcs, UserPcs, OwnerPcs, WorkerPcs
<1>4. Life'
  BY DEF Life, Ended, Fresh, MtxPcs
<1>5. Queue'
  BY DEF Queue, Held, UserPcs, OwnerPcs, WorkerPcs
<1>6. Marked'
  BY DEF Marked
<1>7. Files'
  BY DEF Files, MtxPcs, Life, Fresh, Versions
<1> QED
  BY <1>1, <1>2, <1>3, <1>4, <1>5, <1>6, <1>7 DEF IInv

(* The last save begins.                                                    *)
LEMMA LastSaveKeeps == ASSUME IInv, LastSave PROVE IInv'
<1> USE ConfigAssumption DEF IInv, TypeOK, Places, Mutexes, LastSave, At, Threads, Callers,
     Saving, mutexes, config, job, places, store
<1>1. TypeOK'
  BY DEF Versions, Pcs, UserPcs, OwnerPcs, WorkerPcs
<1>2. Places'
  BY DEF UserPcs, OwnerPcs, WorkerPcs
<1>3. Mutexes'
  BY DEF MtxPcs, UserPcs, OwnerPcs, WorkerPcs
<1>4. Life'
  BY DEF Life, Ended, Fresh, MtxPcs
<1>5. Queue'
  BY DEF Queue, Held, UserPcs, OwnerPcs, WorkerPcs
<1>6. Marked'
  BY DEF Marked
<1>7. Files'
  BY DEF Files, MtxPcs, Life, Fresh, Versions
<1> QED
  BY <1>1, <1>2, <1>3, <1>4, <1>5, <1>6, <1>7 DEF IInv

(* The worker takes the job from the queue: it is in its hand.              *)
LEMMA TakeJobKeeps == ASSUME IInv, TakeJob PROVE IInv'
<1> USE ConfigAssumption DEF IInv, TypeOK, Places, Mutexes, TakeJob, At, Threads, Callers,
     Saving, mutexes, config, job, places, store
<1>1. TypeOK'
  BY DEF Versions, Pcs, UserPcs, OwnerPcs, WorkerPcs
<1>2. Places'
  BY DEF UserPcs, OwnerPcs, WorkerPcs
<1>3. Mutexes'
  BY DEF MtxPcs, UserPcs, OwnerPcs, WorkerPcs
<1>4. Life'
  BY DEF Life, Ended, Fresh, MtxPcs
<1>5. Queue'
  BY DEF Queue, Held, UserPcs, OwnerPcs, WorkerPcs
<1>6. Marked'
  BY DEF Marked
<1>7. Files'
  BY DEF Files, MtxPcs, Life, Fresh, Versions
<1> QED
  BY <1>1, <1>2, <1>3, <1>4, <1>5, <1>6, <1>7 DEF IInv

(* mtx is held by another: the worker goes to queue the job again.          *)
LEMMA RetryKeeps == ASSUME IInv, Retry PROVE IInv'
<1> USE ConfigAssumption DEF IInv, TypeOK, Places, Mutexes, Retry, At, Threads, Callers, Saving,
     mutexes, config, job, places, store
<1>1. TypeOK'
  BY DEF Versions, Pcs, UserPcs, OwnerPcs, WorkerPcs
<1>2. Places'
  BY DEF UserPcs, OwnerPcs, WorkerPcs
<1>3. Mutexes'
  BY DEF MtxPcs, UserPcs, OwnerPcs, WorkerPcs
<1>4. Life'
  BY DEF Life, Ended, Fresh, MtxPcs
<1>5. Queue'
  BY DEF Queue, Held, UserPcs, OwnerPcs, WorkerPcs
<1>6. Marked'
  BY DEF Marked
<1>7. Files'
  BY DEF Files, MtxPcs, Life, Fresh, Versions
<1> QED
  BY <1>1, <1>2, <1>3, <1>4, <1>5, <1>6, <1>7 DEF IInv

(* The job has no manager any more: nothing to save.                        *)
LEMMA DropJobKeeps == ASSUME IInv, DropJob PROVE IInv'
<1> USE ConfigAssumption DEF IInv, TypeOK, Places, Mutexes, DropJob, At, Threads, Callers,
     Saving, mutexes, config, job, places, store
<1>1. TypeOK'
  BY DEF Versions, Pcs, UserPcs, OwnerPcs, WorkerPcs
<1>2. Places'
  BY DEF UserPcs, OwnerPcs, WorkerPcs
<1>3. Mutexes'
  BY DEF MtxPcs, UserPcs, OwnerPcs, WorkerPcs
<1>4. Life'
  BY DEF Life, Ended, Fresh, MtxPcs
<1>5. Queue'
  BY DEF Queue, Held, UserPcs, OwnerPcs, WorkerPcs
<1>6. Marked'
  BY DEF Marked, Life
<1>7. Files'
  BY DEF Files, MtxPcs, Life, Fresh, Versions
<1> QED
  BY <1>1, <1>2, <1>3, <1>4, <1>5, <1>6, <1>7 DEF IInv

(* The worker takes the mark back and begins the save it stands for.        *)
LEMMA SaveJobKeeps == ASSUME IInv, SaveJob PROVE IInv'
<1> USE ConfigAssumption DEF IInv, TypeOK, Places, Mutexes, SaveJob, At, Threads, Callers,
     Saving, mutexes, config, job, places, store
<1>1. TypeOK'
  BY DEF Versions, Pcs, UserPcs, OwnerPcs, WorkerPcs
<1>2. Places'
  BY DEF UserPcs, OwnerPcs, WorkerPcs
<1>3. Mutexes'
  BY DEF MtxPcs, UserPcs, OwnerPcs, WorkerPcs
<1>4. Life'
  BY DEF Life, Ended, Fresh, MtxPcs
<1>5. Queue'
  BY DEF Queue, Held, UserPcs, OwnerPcs, WorkerPcs
<1>6. Marked'
  BY DEF Marked
<1>7. Files'
  BY DEF Files, MtxPcs, Life, Fresh, Versions
<1> QED
  BY <1>1, <1>2, <1>3, <1>4, <1>5, <1>6, <1>7 DEF IInv

(* Nothing to save: the worker lets go.                                     *)
LEMMA NothingToSaveKeeps == ASSUME IInv, NothingToSave PROVE IInv'
<1> USE ConfigAssumption DEF IInv, TypeOK, Places, Mutexes, NothingToSave, At, Threads, Callers,
     Saving, mutexes, config, job, places, store
<1>1. TypeOK'
  BY DEF Versions, Pcs, UserPcs, OwnerPcs, WorkerPcs
<1>2. Places'
  BY DEF UserPcs, OwnerPcs, WorkerPcs
<1>3. Mutexes'
  BY DEF MtxPcs, UserPcs, OwnerPcs, WorkerPcs
<1>4. Life'
  BY DEF Life, Ended, Fresh, MtxPcs
<1>5. Queue'
  BY DEF Queue, Held, UserPcs, OwnerPcs, WorkerPcs
<1>6. Marked'
  BY DEF Marked
<1>7. Files'
  BY DEF Files, MtxPcs, Life, Fresh, Versions
<1> QED
  BY <1>1, <1>2, <1>3, <1>4, <1>5, <1>6, <1>7 DEF IInv

(* load begins.                                                             *)
LEMMA StartLoadKeeps == ASSUME IInv, StartLoad PROVE IInv'
<1> USE ConfigAssumption DEF IInv, TypeOK, Places, Mutexes, StartLoad, At, Threads, Callers,
     Saving, mutexes, config, job, places, store
<1>1. TypeOK'
  BY DEF Versions, Pcs, UserPcs, OwnerPcs, WorkerPcs
<1>2. Places'
  BY DEF UserPcs, OwnerPcs, WorkerPcs
<1>3. Mutexes'
  BY DEF MtxPcs, UserPcs, OwnerPcs, WorkerPcs
<1>4. Life'
  BY DEF Life, Ended, Fresh, MtxPcs
<1>5. Queue'
  BY DEF Queue, Held, UserPcs, OwnerPcs, WorkerPcs
<1>6. Marked'
  BY DEF Marked
<1>7. Files'
  BY DEF Files, MtxPcs, Life, Fresh, Versions
<1> QED
  BY <1>1, <1>2, <1>3, <1>4, <1>5, <1>6, <1>7 DEF IInv

(* Saving is turned on.                                                     *)
LEMMA EnableAutoSaveKeeps == ASSUME IInv, EnableAutoSave PROVE IInv'
<1> USE ConfigAssumption DEF IInv, TypeOK, Places, Mutexes, EnableAutoSave, At, Threads,
     Callers, Saving, mutexes, config, job, places, store
<1>1. TypeOK'
  BY DEF Versions, Pcs, UserPcs, OwnerPcs, WorkerPcs
<1>2. Places'
  BY DEF UserPcs, OwnerPcs, WorkerPcs
<1>3. Mutexes'
  BY DEF MtxPcs, UserPcs, OwnerPcs, WorkerPcs
<1>4. Life'
  BY DEF Life, Ended, Fresh, MtxPcs
<1>5. Queue'
  BY DEF Queue, Held, UserPcs, OwnerPcs, WorkerPcs
<1>6. Marked'
  BY DEF Marked
<1>7. Files'
  BY DEF Files, MtxPcs, Life, Fresh, Versions
<1> QED
  BY <1>1, <1>2, <1>3, <1>4, <1>5, <1>6, <1>7 DEF IInv

(* Saving is turned off.                                                    *)
LEMMA DisableAutoSaveKeeps == ASSUME IInv, DisableAutoSave PROVE IInv'
<1>1. TypeOK'
  <2>1. /\ autoSaveEnabled' = FALSE /\ pc' = [pc EXCEPT ![Owner] = "cancelQueue"]
        /\ UNCHANGED <<mutexes, conf, changed, job, after, store>>
    BY DEF DisableAutoSave
  <2> QED
    BY <2>1 DEF IInv, TypeOK, Threads, Pcs, OwnerPcs, mutexes, job, store
<1> USE ConfigAssumption DEF IInv, TypeOK, Places, Mutexes, DisableAutoSave, At, Threads,
     Callers, Saving, mutexes, config, job, places, store
<1>2. Places'
  BY DEF UserPcs, OwnerPcs, WorkerPcs
<1>3. Mutexes'
  BY DEF MtxPcs, UserPcs, OwnerPcs, WorkerPcs
<1>4. Life'
  BY DEF Life, Ended, Fresh, MtxPcs
<1>5. Queue'
  BY DEF Queue, Held, UserPcs, OwnerPcs, WorkerPcs
<1>6. Marked'
  BY DEF Marked
<1>7. Files'
  BY DEF Files, MtxPcs, Life, Fresh, Versions
<1> QED
  BY <1>1, <1>2, <1>3, <1>4, <1>5, <1>6, <1>7 DEF IInv

(* The worker holds the job and the manager.                                *)
LEMMA LockManagerKeeps == ASSUME IInv, LockManager PROVE IInv'
<1> USE ConfigAssumption DEF IInv, TypeOK, Places, Mutexes, LockManager, At, Threads, Callers,
     Saving, mutexes, config, job, places, store
<1>1. TypeOK'
  BY DEF Versions, Pcs, UserPcs, OwnerPcs, WorkerPcs
<1>2. Places'
  BY DEF UserPcs, OwnerPcs, WorkerPcs
<1>3. Mutexes'
  BY DEF MtxPcs, UserPcs, OwnerPcs, WorkerPcs
<1>4. Life'
  BY DEF Life, Ended, Fresh, Beginning
<1>5. Queue'
  BY DEF Queue, Held, UserPcs, OwnerPcs, WorkerPcs
<1>6. Marked'
  BY DEF Marked
<1>7. Files'
  BY DEF Files, MtxPcs, Life, Fresh, Versions
<1> QED
  BY <1>1, <1>2, <1>3, <1>4, <1>5, <1>6, <1>7 DEF IInv

(* A process that starts again has its files and the defaults.              *)
LEMMA DieKeeps == ASSUME IInv, Die PROVE IInv'
<1> USE ConfigAssumption DEF IInv, TypeOK, Places, Mutexes, Die, At, Threads, Callers, Saving,
     mutexes, config, job, places, store
<1>1. TypeOK'
  <2>1. Beginning \in [Threads -> Pcs]
    BY DEF Pcs, Beginning
  <2>2. jobs' \in 0..3 /\ deaths' \in 0..MaxDeaths
    OBVIOUS
  <2>3. 0 \in Versions
    BY DEF Versions
    <2>4. mtx' \in Threads \cup {Nobody} /\ wmtx' \in Threads \cup {Nobody} /\ jmtx' \in
       {Worker, Nobody}
    OBVIOUS
    <2>5. changed' \in BOOLEAN /\ autoSaveEnabled' \in BOOLEAN /\ queued' \in BOOLEAN /\
       manager' \in BOOLEAN
    OBVIOUS
  <2> QED
    BY <2>1, <2>2, <2>3, <2>4, <2>5
<1>2. Places'
  BY DEF UserPcs, OwnerPcs, WorkerPcs, Beginning
<1>3. Mutexes'
  BY DEF MtxPcs, UserPcs, OwnerPcs, WorkerPcs, Beginning
<1>4. Life'
  BY DEF Life, Ended, Fresh, MtxPcs, Beginning
<1>5. Queue'
  BY DEF Queue, Held, UserPcs, OwnerPcs, WorkerPcs, Beginning
<1>6. Marked'
  BY DEF Marked, Beginning
<1>7. Files'
  BY DEF Files, MtxPcs, Life, Fresh, Versions, Beginning
<1> QED
  BY <1>1, <1>2, <1>3, <1>4, <1>5, <1>6, <1>7 DEF IInv

(* A step that changes nothing.                                             *)
LEMMA StutterKeeps == ASSUME IInv, UNCHANGED vars PROVE IInv'
<1> USE DEF vars, mutexes, config, job, places, store, IInv
<1>1. TypeOK'
  BY DEF TypeOK
<1>2. Places'
  BY DEF Places
<1>3. Mutexes'
  BY DEF Mutexes
<1>4. Life'
  BY DEF Life, Fresh, Ended, At
<1>5. Queue'
  BY DEF Queue, At, Held
<1>6. Marked'
  BY DEF Marked, At
<1>7. Files'
  BY DEF Files, At
<1> QED
  BY <1>1, <1>2, <1>3, <1>4, <1>5, <1>6, <1>7 DEF IInv

(* Every step.                                                              *)
LEMMA StepKeeps == IInv /\ [Next]_vars => IInv'
<1> SUFFICES ASSUME IInv, [Next]_vars PROVE IInv'
  OBVIOUS
<1>1. CASE \E t \in Callers : Acquire(t) \/ Modify(t) \/ SaveNow(t)
  BY <1>1, AcquireKeeps, ModifyKeeps, SaveNowKeeps
<1>2. CASE \E t \in Threads : Continue(t)
  BY <1>2, OpenNewKeeps, WriteNewKeeps, RenameKeeps, LockWorkerKeeps, EnqueueKeeps,
     ReleaseUnmodifiedKeeps, ReleaseModifiedKeeps DEF Continue
<1>3. CASE StartLoad \/ EnableAutoSave \/ DisableAutoSave \/ OwnerContinues
  BY <1>3, StartLoadKeeps, EnableAutoSaveKeeps, DisableAutoSaveKeeps, LoadFileKeeps,
     LoadDefaultsKeeps, SetManagerKeeps, CancelQueuedKeeps, CancelJobKeeps, LastSaveKeeps
     DEF OwnerContinues
<1>4. CASE WorkerContinues \/ LockManager
  BY <1>4, TakeJobKeeps, RetryKeeps, DropJobKeeps, SaveJobKeeps, NothingToSaveKeeps,
     LockManagerKeeps DEF WorkerContinues
<1>5. CASE Die
  BY <1>5, DieKeeps
<1>6. CASE UNCHANGED vars
  BY <1>6, StutterKeeps
<1> QED
  BY <1>1, <1>2, <1>3, <1>4, <1>5, <1>6 DEF Next

(* The strengthening holds in every reachable state.                        *)
THEOREM Invariant == Spec => []IInv
<1>1. Init => IInv
  BY InitIInv
<1>2. IInv /\ [Next]_vars => IInv'
  BY StepKeeps
<1> QED
  BY <1>1, <1>2, PTL DEF Spec

(* Type correctness; that the worker's queue never holds more than three     *)
(* copies of one job is part of it.                                          *)
THEOREM TypeCorrect == Spec => []TypeOK
<1>1. IInv => TypeOK
  BY DEF IInv
<1> QED
  BY <1>1, Invariant, PTL

(* enqueue, the worker's retry and enableAutoSave together never leave a     *)
(* marked change without a job or a thread on its way to queue it.           *)
THEOREM NoChangeForgotten == Spec => []ChangesQueued
<1>1. IInv => ChangesQueued
  <2> SUFFICES ASSUME IInv, mtx = Nobody, changed, autoSaveEnabled
               PROVE  \/ jobs > 0
                      \/ At(Worker, "haveJob")
                      \/ At(Owner, "setManager")
                      \/ \E t \in Threads : At(t, "lockWorker") \/ At(t, "lockJob")
    BY DEF ChangesQueued
  <2>1. pc[Worker] # "tried"
    BY ConfigAssumption DEF IInv, Mutexes, MtxPcs, Threads, Callers
  <2> QED
    BY <2>1 DEF IInv, Marked, At
<1> QED
  BY <1>1, Invariant, PTL

(* release sets the mark before it gives the mutex back, and only a save     *)
(* takes it away: a free, unmarked configuration is the one in the file.     *)
THEOREM UnmarkedIsSaved == Spec => []SavedWhenUnchanged
<1>1. IInv => SavedWhenUnchanged
  BY DEF IInv, Files, SavedWhenUnchanged
<1> QED
  BY <1>1, Invariant, PTL

(* cancel waits for the job's mutex, which the worker holds as long as it    *)
(* touches the manager.                                                      *)
THEOREM DisabledIsLeftAlone == Spec => []WorkerLeavesDisabled
<1>1. IInv => WorkerLeavesDisabled
  BY DEF IInv, Life, Ended, WorkerLeavesDisabled, At, Saving
<1> QED
  BY <1>1, Invariant, PTL

(* A save replaces the file with a whole one that is newer, whatever thread  *)
(* saves and whenever the process dies.                                      *)
THEOREM FileNeverGoesBack == Spec => FileOnlyAdvances
<1> DEFINE Advances == file' # file => /\ file' \in Int
                                       /\ file \in Int => file' > file
<1>1. ASSUME IInv, [Next]_vars PROVE [Advances]_vars
  <2>1. ASSUME NEW t \in Threads, Rename(t) PROVE Advances
    <3>1. file' = conf /\ conf \in Int
      BY <1>1, <2>1 DEF IInv, Rename, Files, TypeOK, Versions, At
    <3>2. mtx = t /\ t # Nobody
      BY <1>1, <2>1, ConfigAssumption DEF IInv, Rename, Mutexes, MtxPcs, Saving, At,
         Threads, Callers
    <3>3. pc[Owner] \notin {"start", "load"}
      <4>1. ~At(Owner, "start")
        BY <1>1, <3>2 DEF IInv, Life, Fresh
      <4>2. CASE t = Owner
        BY <2>1, <4>2 DEF Rename, At
      <4>3. CASE t # Owner
        BY <1>1, <3>2, <4>1, <4>3 DEF IInv, Mutexes, MtxPcs, At, Threads, Callers
      <4> QED
        BY <4>2, <4>3
    <3>4. file \in Int => file <= conf
      BY <1>1, <3>3 DEF IInv, Files
    <3> QED
      BY <3>1, <3>4
  <2>2. CASE ~ \E t \in Threads : Rename(t)
    <3>1. file' = file
      BY <1>1, <2>2, ConfigAssumption
         DEF Next, Continue, OwnerContinues, WorkerContinues, vars, store, Callers, Threads,
             OpenNew, WriteNew, LockWorker, Enqueue, Acquire, Modify, ReleaseUnmodified,
             ReleaseModified, SaveNow, StartLoad, LoadFile, LoadDefaults, EnableAutoSave,
             SetManager, DisableAutoSave, CancelQueued, CancelJob, LastSave, TakeJob,
             LockManager, Retry, DropJob, SaveJob, NothingToSave, Die
    <3> QED
      BY <3>1
  <2> QED
    BY <2>1, <2>2
<1> QED
  BY <1>1, Invariant, PTL DEF Spec, FileOnlyAdvances

(* NoCircularWait: however many threads change, save, disable and retry at     *)
(* once, none of them is in a ring of threads that wait for each other's       *)
(* mutexes: the safety that CallsReturn rests on.                            *)
THEOREM NoDeadlock == Spec => []NoCircularWait
<1>1. ASSUME IInv PROVE NoCircularWait
  <2>1. ASSUME mtx # Nobody PROVE ~HeldUp(mtx)
    <3>1. mtx \in Threads /\ pc[mtx] \in MtxPcs
      BY <1>1, <2>1 DEF IInv, TypeOK, Mutexes
    <3> QED
      BY <3>1 DEF MtxPcs, Saving, HeldUp, At
  <2>2. ASSUME jmtx # Nobody PROVE ~HeldUp(jmtx)
    <3>1. jmtx = Worker /\ pc[Worker] \in Saving \cup {"tried"}
      BY <1>1, <2>2 DEF IInv, TypeOK, Mutexes
    <3> QED
      BY <3>1 DEF Saving, HeldUp, At
  <2>3. ASSUME wmtx # Nobody, HeldUp(wmtx) PROVE wmtx # Worker /\ jmtx = Worker
    <3>1. wmtx \in Threads /\ pc[wmtx] = "lockJob"
      BY <1>1, <2>3 DEF IInv, TypeOK, Mutexes
    <3>2. jmtx # Nobody
      BY <2>3, <3>1 DEF HeldUp, At
    <3>3. jmtx = Worker /\ pc[Worker] \in Saving \cup {"tried"}
      BY <1>1, <3>2 DEF IInv, TypeOK, Mutexes
    <3> QED
      BY <3>1, <3>3 DEF Saving
  <2> QED
    BY <2>1, <2>2, <2>3 DEF NoCircularWait
<1> QED
  BY <1>1, Invariant, PTL
=============================================================================
