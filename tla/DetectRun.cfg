SPECIFICATION Spec
CONSTANTS
  Configs <- MCConfigs
  MaxInt = 100
  Second = 4
  ReviewConnections = 2
  ReviewStreams = 4
  MaxOperations = 8
  MaxLaunch = 3
INVARIANTS
  ControlsShared
  DecisionsReported
  LeasesReturned
