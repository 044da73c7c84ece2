CONSTANTS
  Plans <- PausedChain
  Run = Run
SPECIFICATION Spec
INVARIANTS SkippedForCause
CHECK_DEADLOCK FALSE
