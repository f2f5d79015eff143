\* One thread brackets setters without the mutex while another uses a setter.
CONSTANTS
  Threads = {t1, t2}
  Bracketing = {t1}
  Teams = {{t1, t2}}
  NoThread = NoThread
SPECIFICATION Spec
INVARIANT
  ChangedWhileStopped
