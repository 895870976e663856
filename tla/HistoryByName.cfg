SPECIFICATION Spec
CONSTANTS
  Missing = Missing
  Bad = Bad
  NaN = NaN
  None = None
  Resembles <- MCResembles
  ClaimantRecords <- MCRecords
  PadsUnparsable = FALSE
  Tau1 = 70
  Tau2 = 30
  Tau3 = 10000
  Inputs <- MCInputs
  Retrievals <- MCRetrievals
  Replies <- MCReplies
INVARIANT HistoryIsFound
CHECK_DEADLOCK FALSE
