SPECIFICATION Spec
CONSTANTS
  QueueDepth = 1
  MaximumDuration = 8
  Scenarios <- MCScenarios
  Slots = {s1, s2}
  Tokens = {"a", "b", "c"}
  QuotaStoreSize = 2
  TokenAttempts = 2
  MaxPort = 8
  MaxUint32 = 8
  MaxUint64 = 7
  Measures = {0, 1, 2}
  Floor = 2
  Initial = 1
  ProbeMaximum = 4
  SampleCount = 3
  QuotaWorkMaximum = 6
  MaxRequests <- MCMaxRequests
  Utilities <- MCUtilities
  Letters <- MCLetters
  MaxInt = 50
  MaxFanSize = 6
  DefaultUserAgent <- MCUserAgent
  DefaultScheme <- MCScheme
  Jobs <- MCJobs
INVARIANTS
  OverrunsOverlap
  WithinLimits
  RelayFaithful
  SnapshotShared
  RequestsAsTyped
