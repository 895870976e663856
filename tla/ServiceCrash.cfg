SPECIFICATION FairSpec
CONSTANTS
  c1 = c1
  c2 = c2
  p1 = p1
  p2 = p2
  r1 = r1
  r2 = r2
  NoClaim = NoClaim
  NoProc = NoProc
  Claims = {c1, c2}
  Procs = {p1, p2}
  ApiProcs = {p1}
  Reviewers = {r1}
  MaxDelivery = 3
  MaxFaults <- CrashOnly
INVARIANT AckMeansProcessed
INVARIANT ClaimNotAbandoned
PROPERTY ClaimsSettle
CHECK_DEADLOCK FALSE
