CONSTANTS
  BufLen = 4
  MemLen = 2
  NValues = 2
  MaxSymbol = 8
  WatchdogLimit = 1
  WatchdogLimitNmc = 2
  EngineTicks = 1
  TtyBuffer = 6
  HostTimeout = 3
  Faults = {}
  MaxFaults = 0
  Calls <- AllCalls
SPECIFICATION Spec
INVARIANTS
  TypeOK
  NothingLeftOver
  FailsOnlyByEngine
  EngineAwaited
PROPERTIES
  ImplementsRemote
