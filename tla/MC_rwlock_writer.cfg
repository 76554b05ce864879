\* The assertion of writer_acquire, with read-write locks.
CONSTANTS
  MaxThreads = 3
  Mutexes = {}
  Conds = {}
  Rwlocks = {1}
  Objects = {}
  ChildJoinsCreator = FALSE
SPECIFICATION Spec
INVARIANTS WriterFindsLockIdle
CHECK_DEADLOCK FALSE
