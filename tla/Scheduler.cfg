CONSTANTS
  Plans <- Workflows
  Run = Run
SPECIFICATION FairSpec
INVARIANTS  RunsAfterDependencies CompletedIsWhole  StopDrains
PROPERTIES Terminates
CHECK_DEADLOCK FALSE
