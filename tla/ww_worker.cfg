SPECIFICATION FairSpec
CONSTANTS
  Values <- MCValues
  Payloads <- MCPayloads
  MaxToWorker = 2
  MaxToMain = 1
INVARIANTS
  OnlyOwnThreadHarms
  HeardAsPosted
PROPERTIES
  MessagesArrive
CHECK_DEADLOCK FALSE
