\* Two admissions over the direct run and one private run.
SPECIFICATION Spec
CONSTANTS
  Admissions = {a1, a2}
  r1 = r1
  PrivateRuns = {r1}
  Widths = {1, 2}
  MinBatchInterval <- MCInterval
  RequestsPerSecond <- MCRate
  Second = 3
  None = None
PROPERTIES
  SpacedStarts
  WaitsEnd
