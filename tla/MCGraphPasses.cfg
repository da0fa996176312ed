SPECIFICATION FairSpec
CONSTANTS
  Runs <- MCRuns
  Inputs <- MCInputs
  DefaultBudget <- MCDefaultBudget
  DefaultAlignment <- MCDefaultAlignment
INVARIANTS
  PassesKeepTheMeaning
  NothingLeftToFuse
  NothingDeadReachesTheLowering
  StatisticsFollowThePipeline
  PassesAgreeOnTheMachine
PROPERTY
  PipelineFinishes
CHECK_DEADLOCK FALSE
