SPECIFICATION FairSpec
CONSTANTS
  f1 = f1  f2 = f2  f3 = f3  a1 = a1  a2 = a2
  c1 = c1
  Clients = {c1}
  Files = {f1, f2}
  Apps = {a1}
  AppOf <- TwoFiles
  Priorities = {1}
  MaxKey = 2
  MaxEntry = 1
  MaxWrites = 1
  Operations = {"execute", "remove", "timeout"}
  MaxActivePerApp = 1
  MaxActiveGlobal = 1
  MaxPendingPerApp = 2
  MaxPendingGlobal = 2
  MaxRecordsPerApp = 1
  MaxRecordsGlobal = 1
  NoThread = NoThread
PROPERTIES
  TerminalStatesAreFinal
  TimeoutIsCurrent
  NoOvertaking
  EveryTaskEnds
  EveryCallReturns
CHECK_DEADLOCK FALSE
