SPECIFICATION FairSpec
CONSTANTS
  a = a
  b = b
  o1 = o1
  o2 = o2
  s1 = s1
  s2 = s2
  s3 = s3
  Threads = {a, b}
  Objects = {o1, o2}
  Slots = {s1, s2, s3}
  Nil = Nil
  WeakOps = FALSE
INVARIANTS
  DeletedOnce
PROPERTIES
  ImplementsOwnership
  UnreferencedIsDeleted
CHECK_DEADLOCK FALSE
