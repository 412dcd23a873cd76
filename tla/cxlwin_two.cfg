CONSTANTS
  Threads = {t1, t2}
  Service = service
  NoOwner = nobody
  NPages = 2
  Values = {0}
  Zero = 0
  Prefetch = 1
  StrictModes = {TRUE, FALSE}
  Calls <- AllCalls
  IoResults <- MayFail
  MprotectResults <- MayFail
  Disciplined = FALSE
SPECIFICATION Spec
SYMMETRY ThreadSymmetry
CHECK_DEADLOCK FALSE
INVARIANTS
  MutexHeld
  PostsMatchWaiters
PROPERTIES
  BiasKept
  DirtyKept
