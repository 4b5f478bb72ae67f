SPECIFICATION FairSpec
CONSTANTS
  DomainSize = 2
  NULL = NULL
  NoFile = NoFile
  Freed = Freed
  Blank = Blank
  fas1 = fas1
  fas10 = fas10
  v1 = v1
  v2 = v2
  aggr = aggr
  dom = dom
  home = home
  both = both
  nomap = nomap
  Filers <- OneFiler
  Names <- MCNames
  FsTags <- OneFsTag
  mounttab <- OneMounttab
  policy <- MCpolicy
  fptab <- Onefptab
  vptab <- Onevptab
  Docs <- OneDocs
  FilerObjs = {o1, o2, o3, o4}
  VolumeObjs = {p1, p2, p3, p4, p5, p6}
  Contains <- OneOwnName
  LastWrite = 0
  MaxTime = 1
  MaxDepth = 2
  XMLReread = 0
  Faults = {"overlap", "calloc"}
INVARIANTS
  FreshInv
PROPERTY
  CallReturns
CHECK_DEADLOCK FALSE
