SPECIFICATION FairSpec
CONSTANTS
  Callers = {c1, c2}
  Bundles = {b1, b2}
  TaskTypes = {t1}
  Timers = {u1, u2, u3}
INVARIANTS
  IdleServiceIsReleased
  EveryRecordHasAWorker
PROPERTIES
  IdleServiceEventuallyUnloads
CHECK_DEADLOCK FALSE
