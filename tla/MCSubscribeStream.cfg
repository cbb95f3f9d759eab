CONSTANTS
  c1 = c1
  c2 = c2
  c3 = c3
  p1 = p1
  p2 = p2
  Streams = {c1}
  Requests <- FullRequests
  MaxSubscriptions = 1
  Paths = {p1, p2}
  Values = {"a", "b"}
  Absent = Absent
  Current = Current
  NoPath = NoPath
  StatePaths = {p1, p2}
  ConfigPaths = {p2}
  MaxWrites = 4
SPECIFICATION FairSpec
INVARIANTS
  NothingLost
PROPERTIES
  StreamsCatchUp
\* A stream that is through and a cache at its bound have nothing left to do.
CHECK_DEADLOCK FALSE
