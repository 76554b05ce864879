CONSTANTS
  MaxThreads = 2
  Mutexes = {1}
  Conds = {}
  Rwlocks = {}
  MaxErrors = 5
  Programs <- MainHoldsMutex
SPECIFICATION Spec
INVARIANTS ReportsDeadlocks
CHECK_DEADLOCK FALSE
