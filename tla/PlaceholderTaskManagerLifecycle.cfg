SPECIFICATION Spec
CONSTANTS
  f1 = f1  f2 = f2  f3 = f3  a1 = a1  a2 = a2
  c1 = c1  c2 = c2
  Clients = {c1, c2}
  Files = {f1}
  Apps = {a1}
  AppOf <- OneFile
  Priorities = {1}
  MaxKey = 2
  MaxEntry = 2
  MaxWrites = 0
  Operations = {"execute", "remove", "stop", "start", "switch"}
  MaxActivePerApp = 1
  MaxActiveGlobal = 1
  MaxPendingPerApp = 2
  MaxPendingGlobal = 2
  MaxRecordsPerApp = 1
  MaxRecordsGlobal = 2
  NoThread = NoThread
SYMMETRY ClientSymmetry
INVARIANTS
  NoCallbackAfterRemoval
  NoOrphanedTask
  OneTaskPerFile
  StopLeavesNoTask
CHECK_DEADLOCK FALSE
