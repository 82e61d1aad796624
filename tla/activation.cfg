SPECIFICATION Spec
CONSTANTS
  Version = {v1, v2, v3}
  Setting = {c1, c2}
  Platform = {"linux", "darwin", "win32"}
  None = None
  RetentionLimit = 2
  HistoryLimit = 3
  MaxCommands = 4
  MaxRotations = 1
  MaxFaults = 3
SYMMETRY Symmetry
INVARIANT NeededIsStaged
INVARIANT SettledAgrees
INVARIANT FailedInstallUndone
PROPERTY AuthorityIsProven
CHECK_DEADLOCK FALSE
