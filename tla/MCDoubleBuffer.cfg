SPECIFICATION HoistSpec
CONSTANTS
  Alignment = 1
  None = NoBuffer
  Programs <- MCLateLoads
  Budgets = {2, 3, 4}
INVARIANTS
  ValuesAreKept
  HoistedPressureFits
  NothingElseChanges
CHECK_DEADLOCK FALSE
