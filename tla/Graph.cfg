SPECIFICATION Spec
CONSTANTS
  Missing = Missing
  Bad = Bad
  NaN = NaN
  None = None
  Resembles <- MCResembles
  ClaimantRecords <- MCRecords
  PadsUnparsable = TRUE
  Tau1 = 70
  Tau2 = 30
  Tau3 = 10000
  Inputs <- MCInputs
  Retrievals <- RetrievalTimesOut
  Replies <- MCReplies
INVARIANT TypeOK
INVARIANT AutoIsGrounded
INVARIANT FlaggedNeverAuto
INVARIANT AutoPayable
INVARIANT FailureEscalates
INVARIANT AuditTrail
PROPERTY ImplementsAdjudication
CHECK_DEADLOCK FALSE
