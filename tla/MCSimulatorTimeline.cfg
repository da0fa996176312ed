SPECIFICATION Spec
CONSTANTS
  Space = {"scratchpad", "dram"}
  Opcode = {"OP", "HALT"}
  IssueOverhead = 1
  Programs <- MCSimPrograms
INVARIANTS
  DataflowSchedule
  OverlapIsAFraction
CHECK_DEADLOCK FALSE
