SPECIFICATION Spec
CONSTANTS
  Alignment = 1
  None = NoBuffer
  Programs <- MCPrograms
  Budgets = {3, 4}
INVARIANTS
  ValuesAreKept
PROPERTIES
  SpillingConsumesSourceBuffers
CHECK_DEADLOCK FALSE
