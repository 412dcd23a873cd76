CONSTANTS
  Threads = {t1}
  Service = service
  NoOwner = nobody
  NPages = 2
  Values = {0, 1}
  Zero = 0
  Prefetch = 1
  StrictModes = {FALSE}
  Calls <- AllCalls
  IoResults <- MayFail
  MprotectResults <- Succeeds
  Disciplined = TRUE
SPECIFICATION RetrySpec
INVARIANTS
  TypeOK
  AccessesAsDocumented
  TransientsAreOutstanding
  SharedIsClean
PROPERTIES
  UpgradeMeansStore
  ImplementsCoherent
  EveryRequestCompletes
