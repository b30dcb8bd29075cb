SPECIFICATION Spec
CONSTANTS
  A = A
  B = B
  s1 = s1
  s2 = s2
  None = None
  Runners = {A}
  Specs = {s1, s2}
  MaxParallel <- OnePerSpec
  Timeout <- NoTimeout
  MaxConcurrency = 2
  ClaimLimit = 25
  Lease = 1
  MaxRuns = 2
  MaxClaims = 2
  MaxNow = 1
INVARIANTS DispatchInv OneWorkerPerRun
SYMMETRY SpecSymmetry
