SPECIFICATION FairSpec
CONSTANTS
  r1 = r1
  r2 = r2
  r3 = r3
  p1 = p1
  Requests = {r1, r2, r3}
  Streaming = {r1, r2}
  Pollers = {p1}
  Candidates = 2
  MaxConnections = 2
INVARIANTS
  TypeOK
  NothingStranded
PROPERTIES
  WaitsEnd
