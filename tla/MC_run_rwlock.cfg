\* Read-write locks, creation and joins.
CONSTANTS
  MaxThreads = 3
  Mutexes = {}
  Conds = {}
  Rwlocks = {1}
  Objects = {}
  ChildJoinsCreator = FALSE
SPECIFICATION Spec
INVARIANTS WriterNotForgotten
PROPERTIES RefinesPthreads
CHECK_DEADLOCK FALSE
