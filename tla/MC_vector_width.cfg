CONSTANTS
  MaxThreads = 4
  Mutexes = {1}
  Conds = {}
  Rwlocks = {}
  MaxErrors = 5
  Programs <- CreatesTree
SPECIFICATION Spec
INVARIANTS WithinWidth
CHECK_DEADLOCK FALSE
