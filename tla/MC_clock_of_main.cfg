CONSTANTS
  MaxThreads = 2
  Mutexes = {1}
  Conds = {}
  Rwlocks = {}
  MaxErrors = 5
  Programs <- RaceWithMain
SPECIFICATION Spec
INVARIANTS Complete
CHECK_DEADLOCK FALSE
