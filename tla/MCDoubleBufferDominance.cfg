SPECIFICATION HoistSpec
CONSTANTS
  Alignment = 1
  None = NoBuffer
  Programs <- MCAssembly
  Budgets = {3, 4}
INVARIANTS
  DefinitionsPrecedeUses
CHECK_DEADLOCK FALSE
