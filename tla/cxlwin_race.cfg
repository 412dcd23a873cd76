CONSTANTS
  Threads = {t1, t2}
  Service = service
  NoOwner = nobody
  NPages = 2
  Values = {0, 1}
  Zero = 0
  Prefetch = 1
  StrictModes = {FALSE}
  Calls = {}
  IoResults <- Succeeds
  MprotectResults <- Succeeds
  Disciplined = TRUE
SPECIFICATION PrivateSpec
INVARIANTS
  SharedIsClean
