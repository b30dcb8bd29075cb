SPECIFICATION FairSpec
CONSTANTS
  P1 = P1
  P2 = P2
  s1 = s1
  s2 = s2
  Procs = {P1}
  Schedules = {s1}
  Kinds = {"one_off", "schedule"}
  Period = 2
  ListLimit = 2
  MayCrash = FALSE
  MaxRuns = 2
  MaxRev = 2
  MaxNow = 4
CHECK_DEADLOCK FALSE
INVARIANT SpecsInv
PROPERTIES OneOffStartsInItsRevision OneTimeRuns
