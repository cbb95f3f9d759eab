CONSTANTS
  c1 = c1
  c2 = c2
  c3 = c3
  p1 = p1
  p2 = p2
  Streams = {c1}
  Requests <- AllRequests
  MaxSubscriptions = 1
  Paths = {p1, p2}
  Values = {"a"}
  Absent = Absent
  Current = Current
  NoPath = NoPath
  StatePaths = {p1}
  ConfigPaths = {}
  MaxWrites = 1
SPECIFICATION FairSpec
PROPERTIES
  SubscribeReturns
\* A stream that is through and a cache at its bound have nothing left to do.
CHECK_DEADLOCK FALSE
