SPECIFICATION Spec
CONSTANTS
  root = root
  full = full
  e = e
  c = c
  free = free
  y = y
  a = a
  b = b
  r1 = r1
  r2 = r2
  r3 = r3
  r4 = r4
  r5 = r5
  r6 = r6
  r7 = r7
  n1 = n1
  n2 = n2
  n3 = n3
  n4 = n4
  n5 = n5
  n6 = n6
  n7 = n7
  n8 = n8
  f1 = f1
  f2 = f2
  f3 = f3
  f4 = f4
  f5 = f5
  f6 = f6
  f7 = f7
  Nil = Nil
  Inodes <- MCInodes
  Root = root
  Dirs <- MCDirs
  Names <- MCNames
  Refs <- MCRefs
  Nodes <- MCNodes
  FIDs <- MCFIDs
  RenameMu = renameMu
  Handlers = {h1}
  Place0 <- MCPlace0
  File0 <- AlsoToE
  Node0 <- MCNode0
  FID0 <- MCFID0
  MaxRequests = 3
  CrossRename = TRUE
  OpenAlone = TRUE
CHECK_DEADLOCK FALSE
INVARIANT
  DeletedIsGone
