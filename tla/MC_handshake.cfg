CONSTANTS
  MaxThreads = 4
  Addresses = {1, 2, 3}
  Programs <- AllPrograms
  MaxRuns = 2
SPECIFICATION FairSpec
INVARIANTS TypeOK OneOutstanding PermitsExpected ThreadIdsAgree PendingAnnounced ReplayFaithful NoProcessAbort
PROPERTIES Termination ImplementsTurns
\* The exploration ends.
CHECK_DEADLOCK FALSE
