SPECIFICATION Spec
CONSTANTS
  f1 = f1  f2 = f2  f3 = f3  a1 = a1  a2 = a2
  c1 = c1
  Clients = {c1}
  Files = {f1, f2, f3}
  Apps = {a1, a2}
  AppOf <- TwoAndOne
  Priorities = {1}
  MaxKey = 3
  MaxEntry = 2
  MaxWrites = 0
  Operations = {"cancel", "execute", "ttl"}
  MaxActivePerApp = 1
  MaxActiveGlobal = 1
  MaxPendingPerApp = 1
  MaxPendingGlobal = 2
  MaxRecordsPerApp = 1
  MaxRecordsGlobal = 2
  NoThread = NoThread
INVARIANTS
  ActiveLimitsHold
  CancellationIsRemembered
PROPERTIES
  ImplementsQueue
CHECK_DEADLOCK FALSE
