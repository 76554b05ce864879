CONSTANTS
  MaxThreads = 4
  Mutexes = {1}
  Conds = {}
  Rwlocks = {}
  MaxErrors = 5
  Programs <- WriterReaders
SPECIFICATION Spec
INVARIANTS Complete
CHECK_DEADLOCK FALSE
