SPECIFICATION FairSpec
CONSTANTS
  t1 = t1
  t2 = t2
  t3 = t3
  Tasks = {t1, t2, t3}
INVARIANTS
  TargetAlive
  FaultsExplained
  LeaksExplained
PROPERTIES
  ImplementsRequests
  EveryRequestAnswered
CHECK_DEADLOCK FALSE
