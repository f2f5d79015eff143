\* Three threads that use start, stop and the locked setters, or one that also
\* brackets setters as the front end does.
CONSTANTS
  Threads = {t1, t2, t3, t4}
  Bracketing = {t4}
  Teams = {{t1, t2, t3}, {t4}}
  NoThread = NoThread
SPECIFICATION Spec
INVARIANTS
  TypeOK
  ChangedWhileStopped
  OneWorker
  RunsIfRunning
PROPERTY
  CallsReturn
