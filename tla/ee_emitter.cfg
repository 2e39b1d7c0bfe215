SPECIFICATION Spec
CONSTANTS
  c1 = c1
  c2 = c2
  f = f
  g = g
  Names <- MCNames
  Covers <- MCCovers
  Callbacks = {c1, c2}
  Funcs = {f, g}
  MaxEvents = 3
  MaxDepth = 2
INVARIANTS
  DueAreAlive
  HasKnows
  ForgottenWhenAlone
SYMMETRY Symmetry
CHECK_DEADLOCK FALSE
