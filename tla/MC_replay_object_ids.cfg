CONSTANTS
  MaxThreads = 3
  Addresses = {1, 2, 3}
  Programs <- TwoObjects
  MaxRuns = 2
SPECIFICATION Spec
INVARIANT ReplayAsserts
\* The exploration ends.
CHECK_DEADLOCK FALSE
