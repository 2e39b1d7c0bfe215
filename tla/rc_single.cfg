SPECIFICATION Spec
CONSTANTS
  a = a
  o1 = o1
  o2 = o2
  o3 = o3
  s1 = s1
  s2 = s2
  s3 = s3
  s4 = s4
  Threads = {a}
  Objects = {o1, o2, o3}
  Slots = {s1, s2, s3, s4}
  Nil = Nil
  WeakOps = TRUE
SYMMETRY Symmetry
INVARIANTS
  NoFault
CHECK_DEADLOCK FALSE
