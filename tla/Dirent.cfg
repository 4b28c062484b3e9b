SPECIFICATION Spec
CONSTANTS
  t1 = t1
  t2 = t2
  t3 = t3
  n1 = n1
  n2 = n2
  i1 = i1
  i2 = i2
  i3 = i3
  d1 = d1
  d2 = d2
  Threads <- MCThreads3
  Dirs <- MCDirs
  Names <- MCNames
  Inodes <- MCInodes3
  Dirents <- MCDirents
  NoFile = NoFile
  None = None
  Negative = Negative
  Expired = Expired
  SameDirRename = FALSE
SYMMETRY MCSymmetry
INVARIANTS
  CacheIsFaithful
  
