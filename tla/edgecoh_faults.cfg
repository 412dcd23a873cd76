CONSTANTS
  BufLen = 4
  MemLen = 1
  NValues = 2
  MaxSymbol = 8
  WatchdogLimit = 1
  WatchdogLimitNmc = 2
  EngineTicks = 1
  TtyBuffer = 6
  HostTimeout = 3
  Faults = {"restart", "stray"}
  MaxFaults = 1
  Calls <- FewCalls
SPECIFICATION RepeatSpec
INVARIANTS
  IdleIsClean
PROPERTIES
  Recovers
