SPECIFICATION FairSpec
CONSTANTS
  A = A
  B = B
  s1 = s1
  s2 = s2
  None = None
  Runners = {A, B}
  Specs = {s1}
  MaxParallel <- OnePerSpec
  Timeout <- NoTimeout
  MaxConcurrency = 2
  ClaimLimit = 25
  Lease = 1
  MaxRuns = 1
  MaxClaims = 3
  MaxNow = 2
INVARIANTS ClaimsAreWorkedOn ResultsOfLatestClaim
PROPERTIES SettledIsFinal ClaimEndsByOwnerOrExpiry AbortedNeverSucceeds StopReturns
