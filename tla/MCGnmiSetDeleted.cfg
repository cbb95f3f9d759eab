CONSTANTS
  n1 = n1
  n2 = n2
  l1 = l1
  e1 = e1
  k1 = k1
  p1 = p1
  c1 = c1
  c2 = c2
  c3 = c3
  NoData = NoData
  Nodes = {n1, n2}
  Links = {l1}
  EpNames = {e1}
  Kinds = {k1}
  Platforms = {p1}
  TopologyConfigs <- MCTopologies
  NodeConfigs <- MCNodes
  LinkConfigs <- MCLinks
  Clients = {c1}
  MaxUnaryRPC = 1
  Requests <- SerialRequests
  NameOf <- OwnNames
  Validating = TRUE
SPECIFICATION SetSpec
INVARIANTS
  DeletedIsGone
