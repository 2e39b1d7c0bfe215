SPECIFICATION Spec
CONSTANTS
  c1 = c1
  c2 = c2
  t1 = t1
  t2 = t2
  t3 = t3
  t4 = t4
  Clients = {c1, c2}
  Owner = c1
  Tasks = {t1, t2, t3, t4}
  Nil = Nil
  Spurious = TRUE
SYMMETRY Symmetry
INVARIANTS
  ExactlyOnceInOrder
  NoLostWakeup
  ObjectLifetime
  CleanDestruction
CHECK_DEADLOCK FALSE
