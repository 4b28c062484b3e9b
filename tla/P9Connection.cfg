SPECIFICATION Spec
CONSTANTS
  Nil = Nil
  Failed = Failed
  t1 = t1
  t2 = t2
  t3 = t3
  c1 = c1
  c2 = c2
  r1 = r1
  r2 = r2
  r3 = r3
  h1 = h1
  h2 = h2
  h3 = h3
  h4 = h4
  Conns = {c1}
  Threads = {t1, t2, t3}
  ConnOf <- OneConn
  Responses = {r1, r2, r3}
  Handlers = {h1, h2, h3}
  TagLimit = 3
  MaxCalls = 3
INVARIANTS
  CallsAreAnswered
  NoHandlerAfterStop
CHECK_DEADLOCK FALSE
PROPERTIES
  NothingHangs
