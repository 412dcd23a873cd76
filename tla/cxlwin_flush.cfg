CONSTANTS
  Threads = {t1, t2}
  Service = service
  NoOwner = nobody
  NPages = 1
  Values = {0, 1}
  Zero = 0
  Prefetch = 1
  StrictModes = {FALSE}
  Calls = {"flush"}
  IoResults <- Succeeds
  MprotectResults <- Succeeds
  Disciplined = TRUE
SPECIFICATION FlusherSpec
INVARIANTS
  SharedIsClean
