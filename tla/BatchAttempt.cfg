\* Two requests race on one connection, which a second batch reuses.
SPECIFICATION FairSpec
CONSTANTS
  Width <- MCWidth
  HasBody = TRUE
  MaxWire = 1
  Cancellable = {1}
INVARIANTS
  RanksFollowWire
  BatchesIsolated
PROPERTIES
  CancelledEnds
