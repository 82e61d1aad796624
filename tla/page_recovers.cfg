SPECIFICATION FairSpec
CONSTANTS
  Launch = {l1, l2}
  None = None
  MaxRevision = 1
  MaxFaults = 2
  MaxMoves = 1
  MaxSignals = 1
INVARIANT NeverGivesUp
INVARIANT ShellIsAlive
 
PROPERTY UpdateApplies
CHECK_DEADLOCK FALSE
