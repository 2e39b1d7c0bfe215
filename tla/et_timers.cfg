SPECIFICATION FairSpec
CONSTANTS
  a1 = a1
  a2 = a2
  a3 = a3
  x = x
  y = y
  t1 = t1
  t2 = t2
  t3 = t3
  Timers = {t1, t2, t3}
  Addrs = {a1, a2, a3}
  Ids = {x, y}
  IdOf <- Truncated
  Nil = Nil
  Stale = TRUE
INVARIANTS
  Registered
PROPERTIES
  ImplementsAlarms
  EveryTimerFires
CHECK_DEADLOCK FALSE
