CONSTANTS
  n1 = n1
  l1 = l1
  e1 = e1
  e2 = e2
  k1 = k1
  p1 = p1
  c1 = c1
  c2 = c2
  NoData = NoData
  Nodes = {n1}
  Links = {l1}
  EpNames = {e1, e2}
  Kinds = {k1}
  Platforms = {p1}
  Events <- SetEvents
  Callers = {c1, c2}
  Apart = TRUE
  TopologyConfigs <- MCTopologies
  NodeConfigs <- MCNodes
  LinkConfigs <- MCLinks
  MaxUnaryRPC = 2
  Requests <- MCRequests
  NameOf <- OwnNames
  Validating = FALSE
SPECIFICATION ServerSpec
INVARIANTS
  StepsTypeOK
  RestingChildrenFollow
PROPERTIES
  CallsAreAtomic
  ImplementsServer
