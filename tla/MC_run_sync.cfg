\* Mutexes, condition variables, creation and joins; no read-write lock.
CONSTANTS
  MaxThreads = 3
  Mutexes = {1}
  Conds = {1}
  Rwlocks = {}
  Objects = {1}
  ChildJoinsCreator = FALSE
SPECIFICATION Spec
INVARIANTS TypeOK OnePending LockEnabledExactly JoinEnabledExactly LocksetsAgree IndependentCommute SleepsetEnabled DeadlockTestExact NoAbort
PROPERTIES RefinesPthreads
CHECK_DEADLOCK FALSE
