SPECIFICATION FairSpec
CONSTANTS
  NULL = NULL
  Gone = Gone
  Separator = Separator
  Pids = {p1}
  Jobs = {j1, j2}
  Devs = {nfs}
  NfsDevs = {nfs}
  WriteInterval = 1
  PidExpiry = 1
  DeviceExpiry = 2
  MaxRestarts = 2
  Faults = {"die", "setback", "mount", "write"}
  MaxLines = 2
  PipeSize = 1
  MaxChanges = 2
  MaxAge = 3
  MaxBehind = 2
INVARIANTS
  Accounted
  AttributedRight
  AgentInv
PROPERTIES
  MountsNoticed
  QueuedIsWritten
  LinesAreRead
CHECK_DEADLOCK FALSE
