SPECIFICATION Spec
CONSTANTS
  Worker = Worker
  Net = Net
  Timers = Timers
  Threads = {Worker, Net, Timers, c1, c2}
  Goroutines = {Worker, Net, Timers, c1, c2}
  Wakers <- MCWakers
  Sleepers <- MCSleepers
  Owner <- MCOwner
  NoLock = NoLock
  SndBufSize = 2
  RcvBufSize = 1
  QueueLimit = 2
  maxSegmentsPerWake = 1
  MaxTries = 1
  MaxEvents = 3
CHECK_DEADLOCK FALSE
INVARIANTS
  MutexIsSound
  RestMeansDone
  GracefulEnd
PROPERTY
  ClosedIsCleaned
