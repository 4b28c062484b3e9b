SPECIFICATION SleepSpec
CONSTANTS
  Sleeping = t0
  Threads = {t0, t1, t2}
  Wakers = {w1, w2}
  Sleepers = {z1, z2}
  Owner <- MCOwner
  Nil = Nil
  Asserted = Asserted
INVARIANTS
  NoMissedWakeUp
  QueuesAreSound
PROPERTY
  ImplementsWaker
