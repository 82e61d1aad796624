SPECIFICATION Spec
CONSTANTS
  Version = {v1, v2}
  Setting = {c1}
  Platform = {"linux", "darwin", "win32"}
  None = None
  RetentionLimit = 2
  HistoryLimit = 3
  MaxCommands = 2
  MaxRotations = 0
  MaxFaults = 2
PROPERTY LeavesStopped
CHECK_DEADLOCK FALSE
