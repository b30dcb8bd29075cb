SPECIFICATION FairSpec
CONSTANTS
  P1 = P1
  P2 = P2
  s1 = s1
  s2 = s2
  Procs = {P1, P2}
  Schedules = {s1}
  Kinds = {"one_off", "schedule"}
  Period = 1
  ListLimit = 2
  MayCrash = TRUE
  MaxRuns = 2
  MaxRev = 1
  MaxNow = 3
CHECK_DEADLOCK FALSE
INVARIANT CatchUpOnce
PROPERTY DeletedDrains
