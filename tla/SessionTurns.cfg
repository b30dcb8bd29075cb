SPECIFICATION FairSpec
CONSTANTS
  None = None
  MaxPrompts = 2
  MaxNotes = 2
  MaxEdits = 1
  MaxStops = 1
INVARIANTS NothingLost QueueInv StoppedTurnIsHalted
PROPERTIES InTurn QueueDrains
CHECK_DEADLOCK FALSE
