SPECIFICATION AFairSpec
CONSTANTS
  DomainSize = 2
  NULL = NULL
  NoFile = NoFile
  Freed = Freed
  Blank = Blank
  fas1 = fas1
  fas10 = fas10
  v1 = v1
  v2 = v2
  aggr = aggr
  dom = dom
  home = home
  both = both
  nomap = nomap
  Filers <- MCFilers
  Names <- MCNames
  FsTags <- MCFsTags
  mounttab <- MCmounttab
  policy <- MCpolicy
  fptab <- MCfptab
  vptab <- MCvptab
  Docs <- MCDocs
  FilerObjs = {o1, o2, o3, o4}
  VolumeObjs = {p1, p2, p3, p4, p5, p6}
  XMLReread = 0
  Contains <- OwnName
  wide = wide
  dry = dry
  other = other
  Request <- RequestOf
  DryRunMode = FALSE
  MaxDepth = 0
  Faults = {"entry"}
  LastWrite = 0
  MaxTime = 1
  Jobs = {wide, dry, other}
INVARIANTS
  AInv
  DryRunNeverActs
  DecisionJustified
PROPERTY
  IdleFilersStartJobs
