CONSTANTS
  ScratchpadBytes = 3
  DramBytes = 9
  MaxCoverageRuns = 2
  MaxIntervalsPerSlot = 2
  Layouts <- MCSlotLayouts
  Instructions <- MCSlotInstructions

SPECIFICATION Spec
CHECK_DEADLOCK FALSE
INVARIANTS
  CoversAnswersForEveryByte
  SlotReadsAreWritten
PROPERTY
  RunsAddUp
