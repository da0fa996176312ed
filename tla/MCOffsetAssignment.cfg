SPECIFICATION Spec
CONSTANTS
  Alignment = 2
  None = NoBuffer
  Problems <- MCProblems
INVARIANTS
  TypeOK
  NoReuseWhileLive
  LowestOffset
  ArenaHoldsEveryBuffer
  PeakIsALowerBound
PROPERTIES
  PromiseKept
CHECK_DEADLOCK FALSE
