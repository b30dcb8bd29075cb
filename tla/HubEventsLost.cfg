SPECIFICATION FairSpec
CONSTANTS
  s1 = s1
  s2 = s2
  all = all
  Sessions = {s1}
  Global = all
  Keys = {s1}
  PageSize = 1
  MaxPages = 4
  MaxEvents = 2
  MaxApprovals = 0
  MaxSockets = 2
  MaxPrunes = 0
PROPERTIES DisconnectLosesNothing
CHECK_DEADLOCK FALSE
