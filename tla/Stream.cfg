SPECIFICATION FairSpec
CONSTANTS
  p1 = p1
  p2 = p2
  s1 = s1
  s2 = s2
  NoQueue = NoQueue
  Procs = {p1, p2}
  Streams = {s1, s2}
  Home <- Together
  Steps = 2
  MaxRuns = 2
INVARIANT TypeOK
INVARIANT InOrder
INVARIANT EarlyClientSeesAll
PROPERTY EndsNotEarly
PROPERTY StreamsEnd
CHECK_DEADLOCK FALSE
