SPECIFICATION FairSpec
CONSTANTS
  NULL = NULL
  NoFile = NoFile
  Header = Header
  Torn = Torn
  fas = fas
  v1 = v1
  v2 = v2
  aggr0 = aggr0
  j1 = j1
  j2 = j2
  n1 = n1
  n2 = n2
  Agents = {n1, n2}
  Jobs = {j1}
  Nodes <- TwoNodes
  Volumes <- MCVolumes
  MaxTime = 2
  MaxLines = 1
  MaxAbandoned = 1
  Works <- MCWorks
  Filers = {fas}
  Names = {v1, v2}
  Aggrs = {aggr0}
  Docs <- MCDocs
  globalThresholds <- MCGlobal
  targetThresholds <- MCTarget
  Window = 1
  NumTop = 1
  MaxWrites = 1
PROPERTY
  KeepsReading
CHECK_DEADLOCK FALSE
