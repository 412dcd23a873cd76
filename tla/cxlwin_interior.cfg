CONSTANTS
  Threads = {t1}
  Service = service
  NoOwner = nobody
  NPages = 3
  Values = {0, 1}
  Zero = 0
  Prefetch = 3
  StrictModes = {FALSE}
  Calls = {"invalidate"}
  IoResults <- Succeeds
  MprotectResults <- Succeeds
  Disciplined = TRUE
SPECIFICATION Spec
PROPERTIES
  DirtyKept
