CONSTANTS
  Functions <- MCAll

SPECIFICATION Spec
CHECK_DEADLOCK FALSE
INVARIANTS
  LoweringKeepsTheMeaning
  EachValueEntersOnce
