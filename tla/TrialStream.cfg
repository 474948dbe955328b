\* Two workers.
SPECIFICATION FairSpec
CONSTANTS
  Workers = {w1, w2}
  Runs <- MCRuns
  Unit = 1
  MaxReused = 1
  Unlimited = Unlimited
  NoConn = NoConn
INVARIANTS
  PrimedThenOnce
  CompleteOrExplained
  ReleasedOnReturn
PROPERTIES
  AllReturns
