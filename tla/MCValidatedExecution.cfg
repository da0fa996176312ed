CONSTANTS
  ScratchpadBytes = 3
  DramBytes = 6
  MaxCoverageRuns = 2
  MaxIntervalsPerSlot = 2
  Layouts <- MCCompilerLayouts
  Instructions <- MCCompilerInstructions

SPECIFICATION Spec
CHECK_DEADLOCK FALSE
INVARIANTS
  ReadsAreWritten
  NeverTraps
