SPECIFICATION Spec
CONSTANTS
  Configs <- MCConfigs
  MaxInt = 100
  Second = 4
  ReviewConnections = 2
  ReviewStreams = 4
  MaxOperations = 8
  RTTs = {1, 3}
  CycleFloor = 2
  MaxYields = 3
  MaxPriming = 1
  MaxBad = 1
INVARIANTS
  WholeCyclesOnly
  AccountsBalance
  CompletionNamesCause
