SPECIFICATION Spec
CONSTANTS
  b1 = b1
  b2 = b2
  m1 = m1
  m2 = m2
  None = None
  NaN = NaN
  Unlabelled = Unlabelled
  Unit = 10
  Names = {b1, b2}
  Backends = {b1, b2}
  Models = {m1, m2}
  Files <- MCFiles
  Envs <- MCEnvs
  Bodies <- MCBodies
  Requests <- MCRequests
CHECK_DEADLOCK FALSE
INVARIANTS
  TypeOK
  AcceptedIsServable
  OneUsage
  GaugeIsTheFullest
  EstimateCovers
