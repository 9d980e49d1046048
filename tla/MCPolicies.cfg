SPECIFICATION FairSpec
CONSTANTS
  b1 = b1
  b2 = b2
  b3 = b3
  mFill = mFill
  mEven = mEven
  mLarge = mLarge
  mPrimary = mPrimary
  mRound = mRound
  mUnknown = mUnknown
  r1 = r1
  r2 = r2
  None = None
  Backends = {b1, b2, b3}
  BackendOrder <- MCBackendOrder
  FlaggedDefault = {}
  Models = {mFill, mEven, mLarge, mPrimary, mRound, mUnknown}
  ExplicitModels <- MCExplicitModels
  RoutingSpecs <- MCRoutingSpecs
  Thresholds <- MCThresholds
  TargetPct <- MCTargetPct
  MarginNum <- MCMarginNum
  MarginDen = 2
  RetryMin <- MCRetryMin
  RetryMax <- MCRetryMax
  FracOne = 10
  Samples <- MCSamples
  MaxAnchors <- MCMaxAnchors
  Served <- MCServed
  Requests = {r1}
  Inputs <- MCInputs
CHECK_DEADLOCK FALSE
INVARIANTS
  FailoversFollowWalk
  RefusalIsTheWalks
  CountedOnce
PROPERTIES
  WalkShortens
  EveryRequestAnswered
