SPECIFICATION FairSpec
CONSTANTS
  c1 = c1
  c2 = c2
  t1 = t1
  t2 = t2
  t3 = t3
  Clients = {c1, c2}
  Owner = c1
  Tasks = {t1, t2, t3}
  Nil = Nil
  Spurious = FALSE
PROPERTIES
  ImplementsFairExecutor
  SyncWakes
  JoinReturns
  DestructorEnds
CHECK_DEADLOCK FALSE
