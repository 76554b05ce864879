CONSTANTS
  MaxThreads = 4
  Mutexes = {1, 2}
  Conds = {1}
  Rwlocks = {1}
  MaxErrors = 3
  Programs <- AllPrograms
SPECIFICATION Spec
INVARIANTS TypeOK BacktrackSetsConsistent ReplayFaithful CompleteForSimple DeadlocksCounted DeadlocksReported ExploredReal RacesFound ThreadTableAgrees OwnEntryOfChains
PROPERTIES NoRepeatedTrace StepsOfSchedulerRun TakesTurns Termination
CHECK_DEADLOCK FALSE
