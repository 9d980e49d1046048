SPECIFICATION ProcessFairSpec
CONSTANTS
  b1 = b1
  b2 = b2
  m1 = m1
  m2 = m2
  None = None
  Backends = {b1, b2}
  BackendOrder <- MCBackendOrder
  FlaggedDefault = {}
  Models = {m1, m2}
  ExplicitModels <- MCExplicitModels
  RoutingSpecs <- MCRoutingSpecs
  Thresholds <- MCThresholds
  TargetPct <- MCTargetPct
  MarginNum <- MCMarginNum
  MarginDen = 1
  RetryMin <- MCRetryMin
  RetryMax <- MCRetryMax
  FracOne = 10
  Samples <- MCSamples
  MaxAnchors <- MCMaxAnchors
  Served <- MCServed
  Interval = 1
  Refresh = 2
  StaleAfter = 1
  Healthy = {b1}
  Latency = 0
  Raising = {b1}
CHECK_DEADLOCK FALSE
INVARIANTS
  ProcessTypeOK
  ClientOutlivesPollers
  ExitCodeTruthful
PROPERTIES
  DeathEndsTheProcess
  ShutdownEnds
