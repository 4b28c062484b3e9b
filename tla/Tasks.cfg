SPECIFICATION MCSpec
CONSTANTS
  init = init
  p = p
  q = q
  c = c
  d = d
  root = root
  par = par
  kid = kid
  NoTask = NoTask
  Tasks <- MCTasks
  Group <- MCGroup
  Leader0 <- MCLeader
  Parent0 <- MCParent
  Families <- MCFamilies
  Init0 = init
  Tracers = {p, q, init}
  Execers = {d}
  Waiters = {init, p, q}
  Ignorers <- MCIgnorers
  MaxTraces = 1
CHECK_DEADLOCK FALSE
INVARIANTS
  ZombieHasKeeper
  FamilyIsConsistent
  WaiterWakes
PROPERTIES
  
  KilledTasksExit
  ParentHears
  GroupStopEnds
