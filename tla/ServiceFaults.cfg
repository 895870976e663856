SPECIFICATION Spec
CONSTANTS
  c1 = c1
  c2 = c2
  p1 = p1
  p2 = p2
  r1 = r1
  r2 = r2
  NoClaim = NoClaim
  NoProc = NoProc
  Claims = {c1}
  Procs = {p1, p2}
  ApiProcs = {p1}
  Reviewers = {r1, r2}
  MaxDelivery = 2
  MaxFaults <- Everything
INVARIANT TypeOK
INVARIANT StatusMatchesDisposition
INVARIANT LoneVerdictStands
INVARIANT EscalatedListed
INVARIANT WorkerDiesOfIo
SYMMETRY Symmetry
CHECK_DEADLOCK FALSE
