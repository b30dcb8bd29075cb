\* Two clients, three daemons, one that dies or a startup lock that is stolen.
SPECIFICATION FairSpec
CONSTANTS
  Clients <- MCClients
  MaxBuild = 2
  MaxDaemons = 3
  MaxFaults = 1
INVARIANT TypeOK
PROPERTIES OnlyOlderRetired SessionsSpared HandedBack EnsureEnds
CHECK_DEADLOCK FALSE
