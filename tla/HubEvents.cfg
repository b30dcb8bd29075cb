SPECIFICATION FairSpec
CONSTANTS
  s1 = s1
  s2 = s2
  all = all
  Sessions = {s1}
  Global = all
  Keys = {all}
  PageSize = 1
  MaxPages = 4
  MaxEvents = 2
  MaxApprovals = 1
  MaxSockets = 2
  MaxPrunes = 1
INVARIANTS NoGap DeliveryInv
PROPERTIES CatchesUp ApprovalReaches
CHECK_DEADLOCK FALSE
