SPECIFICATION FairSpec
CONSTANTS
  t1 = t1
  t2 = t2
  m1 = m1
  m2 = m2
  None = None
  Depth = 3
  Threads <- MCThreads
  Maps <- MCMaps
  FailingMaps <- MCOneMap
INVARIANTS
  NoStaleTranslation
  MappingsTransferred
  UpperIsClean
PROPERTY CopyUpReturns
