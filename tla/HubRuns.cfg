SPECIFICATION FairSpec
CONSTANTS
  s1 = s1
  c1 = c1
  Sessions = {s1}
  Clients = {c1}
  Limit = 2
  MaxRuns = 3
INVARIANT RunsInv
PROPERTIES ImplementsFifo QueuedRunsServed
