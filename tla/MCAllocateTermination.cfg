SPECIFICATION FairSpec
CONSTANTS
  Alignment = 1
  None = NoBuffer
  Programs <- MCSmallPrograms
  Budgets = {2, 3}
PROPERTIES
  RunEnds
CHECK_DEADLOCK FALSE
