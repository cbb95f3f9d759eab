CONSTANTS
  n1 = n1
  n2 = n2
  l1 = l1
  l2 = l2
  e1 = e1
  e2 = e2
  k1 = k1
  p1 = p1
  p2 = p2
  NoData = NoData
  Nodes = {n1, n2}
  Links = {l1, l2}
  EpNames = {e1, e2}
  Kinds = {k1}
  Platforms = {p1, p2}
  TopologyConfigs <- LagTopologies
  NodeConfigs <- LagNodes
  LinkConfigs <- LagLinks
SPECIFICATION Spec
INVARIANTS
  TypeOK
  EndpointNamesUnique
PROPERTIES
  EndpointsStay
  AcceptedLinkIsReported
