\* One user and the owner contend with the worker; two changes are enough for
\* one to be made while the other is being saved; one death at any moment.
CONSTANTS
  Users = {u1}
  Owner = owner
  Worker = worker
  Nobody = nobody
  Absent = absent
  Torn = torn
  MaxVersion = 2
  MaxDeaths = 1
SPECIFICATION Spec
INVARIANTS
  TypeOK
  ChangesQueued
  SavedWhenUnchanged
  WorkerLeavesDisabled
PROPERTIES
  FileOnlyAdvances
  ChangesSaved
  CallsReturn
