SPECIFICATION FairSpec
CONSTANTS
  DomainSize = 2
  NULL = NULL
  NoFile = NoFile
  Freed = Freed
  Blank = Blank
  fas1 = fas1
  fas10 = fas10
  v1 = v1
  v2 = v2
  aggr = aggr
  dom = dom
  home = home
  both = both
  nomap = nomap
  Filers <- MCFilers
  Names <- MCNames
  FsTags <- MCFsTags
  mounttab <- MCmounttab
  policy <- MCpolicy
  fptab <- MCfptab
  vptab <- MCvptab
  Docs <- MCDocs
  FilerObjs = {o1, o2, o3, o4}
  VolumeObjs = {p1, p2, p3, p4, p5, p6}
  XMLReread = 1
  Contains <- OwnName
  Faults = {}
  LastWrite = 2
  MaxTime = 4
  MaxDepth = 0
INVARIANTS
  TypeOK
  NoUndefinedUse
  FreshWhenCompared
  AnswerMatchesTables
  TablesMirrorDocument
  MirrorInv
PROPERTIES
  EvictedWithFiler
  Converges
