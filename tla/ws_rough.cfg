SPECIFICATION Spec
CONSTANTS
  Frames <- Fragmented
  MaxFrames = 3
  Readings <- Anything
  Env <- Roughly
INVARIANTS
  HeardInOrder
  PayloadPreserved
CHECK_DEADLOCK FALSE
