\* Every kind of call against CloseIdleConnections and a failing peer.
SPECIFICATION FairSpec
CONSTANTS
  a = a
  b = b
  Callers = {a, b}
  Closers = {k}
  Conns = {x1, x2}
  NoConn = NoConn
  Unlimited = Unlimited
  Kinds <- MCKinds
  MaxConns = 2
  IdleExpiry = TRUE
  MaxEpoch = 1
  MaxFaults = 1
INVARIANTS
  TokensConserved
  ConnectionBound
PROPERTIES
  PoolRefinement
  CallsReturn
