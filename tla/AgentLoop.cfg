SPECIFICATION FairSpec
CONSTANTS
  MaxRuns = 1
  MaxSteers = 1
  MaxCalls = 2
  Limits <- MCLimits
  Bounds <- MCBounds
  NudgeBudget = 1
  TruncBudget = 1
  ParseBudget = 1
  ThinkBudget = 1
  Retries = 1
INVARIANTS CallsInv SteerIsAnswered
PROPERTIES AbortHolds SilentModelEnds
CHECK_DEADLOCK FALSE
