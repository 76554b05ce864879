CONSTANTS
  MaxThreads = 3
  Mutexes = {1}
  Conds = {}
  Rwlocks = {}
  MaxErrors = 5
  Programs <- TwoWritesOne
SPECIFICATION Spec
INVARIANTS Complete
CHECK_DEADLOCK FALSE
