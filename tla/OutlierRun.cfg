SPECIFICATION Spec
CONSTANTS
  M = 2
  Width = 2
  CommitAt = 2
  ElimAt = 2
  Gate = 1
  Configs <- MCConfigs
  Callers = {a, b}
  Budgets = {1, 3}
  Channel = 2
  MaxTotal = 5
  Every = 2
  MaxAdvances = 2
  MaxFaults = 1
INVARIANTS
  FoldedInDispatchOrder
  RepliesAccount
PROPERTIES
  CallsReturn
CHECK_DEADLOCK FALSE
