SPECIFICATION Spec
CONSTANTS
  Requests = {q1, q2}
  GoldenSets <- MCGoldenSets
  MaxRegressed = 2
SYMMETRY Alike
INVARIANT TypeOK
INVARIANT BrokenAgentStopsMerge
INVARIANT MergeMeansMostPass
INVARIANT PerfectOpens
INVARIANT ServedIsComplete
CHECK_DEADLOCK FALSE
