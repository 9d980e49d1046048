SPECIFICATION Spec
CONSTANTS
  b1 = b1
  b2 = b2
  m1 = m1
  m2 = m2
  None = None
  Backends = {b1}
  BackendOrder <- MCOne
  FlaggedDefault = {}
  Models = {m1, m2}
  ExplicitModels <- MCExplicitModels
  RoutingSpecs <- MCRoutingSpecs
  Thresholds <- MCThresholds
  TargetPct <- MCTargetPct
  MarginNum <- MCMarginNum
  MarginDen = 1
  RetryMin <- MCRetryMin
  RetryMax <- MCRetryMax
  FracOne = 10
  Samples <- MCSamples
  MaxAnchors <- MCMaxAnchors
  Served <- MCServed
  Interval = 2
  Refresh = 3
  StaleAfter = 4
  Healthy = {b1}
  Latency = 1
  Raising = {b1}
INVARIANTS
  EndsByCancellationOnly
