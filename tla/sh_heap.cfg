SPECIFICATION Spec
CONSTANTS
  a = a
  b = b
  h1 = h1
  h2 = h2
  Addrs = {a, b}
  Keyings <- MCKeyings
  Handles = {h1, h2}
  Emitters = {e}
  Maps = {m}
INVARIANTS
  FunctionsKept
  PointersMatch
  WeakMapsForget
PROPERTIES
  ShellsStay
CHECK_DEADLOCK FALSE
SYMMETRY Symmetry
