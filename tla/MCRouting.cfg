SPECIFICATION Spec
CONSTANTS
  b1 = b1
  b2 = b2
  b3 = b3
  m1 = m1
  None = None
  Backends = {b1, b2, b3}
  BackendOrder <- MCBackendOrder
  FlaggedDefault = {}
  Models = {m1}
  ExplicitModels <- MCExplicitModels
  RoutingSpecs <- MCRoutingSpecs
  Thresholds <- MCThresholds
  TargetPct <- MCTargetPct
  MarginNum <- MCMarginNum
  MarginDen = 2
  RetryMin <- MCRetryMin
  RetryMax <- MCRetryMax
  FracOne = 10
  Snapshots <- MCSnapshots
INVARIANTS
  FillAgreesWithPrimary
  AdmissionMonotone
  RetryAfterInRange
  AdmissionReachesTargetAtMost
  
