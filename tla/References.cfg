SPECIFICATION MCSpec
CONSTANTS
  Threads = {t1, t2, t3}
  WeakRefs = {w1, w2}
  NoWeakRef = NoWeakRef
  None = None
  root = root
  a = a
  b = b
  aa = aa
  ba = ba
CHECK_DEADLOCK FALSE
INVARIANTS
  DestructionIsSound
  WeakRefsLetGo
  ReferencesAddUp
PROPERTIES
  DestroyFollows
  IsLRU
