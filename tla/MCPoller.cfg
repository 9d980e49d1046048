SPECIFICATION FairSpec
CONSTANTS
  b1 = b1
  b2 = b2
  m1 = m1
  m2 = m2
  None = None
  Backends = {b1, b2}
  BackendOrder <- MCTwo
  FlaggedDefault = {b2}
  Models = {m1, m2}
  ExplicitModels <- MCExplicitModels
  RoutingSpecs <- MCRoutingSpecs
  Thresholds <- MCThresholds
  TargetPct <- MCTargetPct
  MarginNum <- MCMarginNum
  MarginDen = 1
  RetryMin <- MCRetryMin
  RetryMax <- MCRetryMax
  FracOne = 10
  Samples <- MCSamples
  MaxAnchors <- MCMaxAnchors
  Served <- MCServed
  Interval = 1
  Refresh = 2
  StaleAfter = 3
  Healthy = {b1}
  Latency = 1
  Raising = {b2}
INVARIANTS
  AnchorMatchesUsage
  CapacityAlertTruthful
  FreshWhileAnswering
  DeadCandidatesWarned
  ListedOnce
PROPERTIES
  EffectsSpec
  OutageFailsOpen
  MapConverges
