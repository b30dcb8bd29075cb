\* Three events within four time units, received up to one before they are accepted.
SPECIFICATION FairSpec
CONSTANTS
  Events <- MCEvents
  Keys <- MCKeys
  KeysOfEvents <- MCKeysOfEvents
  Specs <- MCSpecs
  Confs <- MCConfs
  MaxSkew = 1
  MaxTime = 5
  LastReceipt = 4
  MaxFaults = 1
INVARIANTS LoggedIsDecided BeginsAfterEvents WindowsKept
PROPERTY EventsAreRun
CHECK_DEADLOCK FALSE
