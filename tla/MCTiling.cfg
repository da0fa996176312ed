CONSTANTS
  Problems <- MCProblems
  Budgets <- MCBudgets
  Strategies = {"exhaustive", "fixed", "largest-fit"}
  Width = 4
  HalvingSteps = 8

SPECIFICATION Spec
CHECK_DEADLOCK FALSE
INVARIANTS
  StitchedIsTheResult
  EveryTileFits
  TilesAreVerified
  DeclinedLeavesNothingBehind
  NoBaselineBeatsTheSearch
