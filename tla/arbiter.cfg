CONSTANTS
  Words = {0, 1}
  Lanes = {0, 1}
  Values = {0, 1}
  Stores <- ZeroedNeighbour
  WA_IDLE_LIMIT = 1
SPECIFICATION FairSpec
INVARIANTS
  TypeOK
  QueuesFit
  OneRead
  StoresKept
PROPERTIES
  ImplementsSerial
  RequestsComplete
