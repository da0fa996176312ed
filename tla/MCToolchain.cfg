SPECIFICATION Spec
CONSTANTS
  Base = 64
  FloatBytes = 2
  ShapeLimit = 1024
  DramAlignment = 4
  MaxCount = 40
  MaxDebugName = 2
  ZeroPointLimit = 16
  RequantShiftLimit = 31
  MaxMemoryBytes = 512
  Jobs <- AllJobs
INVARIANTS
  RegionsAreApart
  OverlapAnalysisMatchesAddresses
  EncodingIsFaithful
  RoundTrip
  VerifiedIsValid
  ExecutionComputesTheOperation
  NoAnswerAfterATrap
  FinishedOutputsStand
CHECK_DEADLOCK FALSE
