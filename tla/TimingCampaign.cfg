SPECIFICATION Spec
CONSTANTS
  MaxUint = 100
  Plan <- MCPlan
  MaxFaults = 1
INVARIANTS
  MeasuredOnPrimed
  HonestResult
PROPERTIES
  RunReturns
