SPECIFICATION Spec
CONSTANTS
  Requests <- MCRequests
  Initial = 2
  MaxWindow = 3
  Payload = 2
  ControlLimit = 2
  BodyMax = 2
  MaxFrames = 2
  MaxBad = 1
  H1Records = 2
  H1Held = TRUE
  H1Runs = 2
  H1Bytes = 4
INVARIANTS
  CreditReturned
  ExchangesComplete
PROPERTIES
  EverythingReturns
CHECK_DEADLOCK FALSE
