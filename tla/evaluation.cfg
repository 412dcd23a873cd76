CONSTANTS
  PipeSize = 1
  MaxScripts = 2
  MaxLoops = 2
  Sweeps <- TwoSweeps
  Cells <- TwoCells
SPECIFICATION Spec
INVARIANTS
  SamplesInWindow
  KeptAcross
  DoneIsSaved
  NeverOkAfterFailure
PROPERTIES
  SweepEnds
  SamplersGo
CHECK_DEADLOCK FALSE
