SPECIFICATION Spec
CONSTANTS
  b1 = b1
  b2 = b2
  m1 = m1
  m2 = m2
  r1 = r1
  r2 = r2
  None = None
  Backends = {b1, b2}
  BackendOrder <- MCBackendOrder
  FlaggedDefault = {b2}
  Models = {m1, m2}
  ExplicitModels <- MCExplicitModels
  RoutingSpecs <- MCRoutingSpecs
  Thresholds <- MCThresholds
  TargetPct <- MCTargetPct
  MarginNum <- MCMarginNum
  MarginDen = 2
  RetryMin <- MCRetryMin
  RetryMax <- MCRetryMax
  FracOne = 10
  Samples <- MCSamples
  MaxAnchors <- MCMaxAnchors
  Served <- MCServed
  Requests = {r1, r2}
  Inputs <- MCInputs
SYMMETRY Symmetry
CHECK_DEADLOCK FALSE
INVARIANTS
  BadGatewayMeansNoAnswer
