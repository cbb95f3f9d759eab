CONSTANTS
  n1 = n1
  n2 = n2
  l1 = l1
  e1 = e1
  k1 = k1
  p1 = p1
  c1 = c1
  c2 = c2
  c3 = c3
  NoData = NoData
  Nodes = {n1}
  Links = {l1}
  EpNames = {e1}
  Kinds = {k1}
  Platforms = {p1}
  TopologyConfigs <- MCTopologies
  NodeConfigs <- MCNodes
  LinkConfigs <- RawLinks
  Clients = {c1, c2}
  MaxUnaryRPC = 2
  Requests <- RawRequests
  NameOf <- SharedName
  Validating = FALSE
SPECIFICATION FairSetSpec
PROPERTIES
  SetReturns
