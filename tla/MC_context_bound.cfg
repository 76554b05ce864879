CONSTANTS
  MaxThreads = 4
  Mutexes = {1, 2}
  Conds = {1}
  Rwlocks = {1}
  MaxErrors = 20
  Bound = 1
  Programs <- BoundedPrograms
SPECIFICATION BoundedSpec
INVARIANTS BoundRespected BoundedComplete BoundedDeadlocks SearchStaysInStack
PROPERTY BoundedTermination
CHECK_DEADLOCK FALSE
