SPECIFICATION FairSpec
CONSTANTS
  Frames <- Whole
  MaxFrames = 3
  Readings <- Anything
  Env <- Calmly
INVARIANTS
  NoFault
PROPERTIES
  ImplementsMessageStream
  EveryMessageHeard
  CloseIsHeard
CHECK_DEADLOCK FALSE
