CONSTANTS
  n1 = n1
  n2 = n2
  l1 = l1
  e1 = e1
  e2 = e2
  k1 = k1
  p1 = p1
  c1 = c1
  c2 = c2
  c3 = c3
  NoData = NoData
  Nodes = {n1, n2}
  Links = {}
  EpNames = {e1, e2}
  Kinds = {k1}
  Platforms = {p1}
  TopologyConfigs <- MCTopologies
  NodeConfigs <- MCNodes
  LinkConfigs <- MCLinks
  Clients = {c1, c2, c3}
  MaxUnaryRPC = 2
  Requests <- MCRequests
  NameOf <- OwnNames
  Validating = FALSE
  Owner <- OwnerOf
  History <- Changing
SPECIFICATION FairReconcileSpec
INVARIANTS
  ReconcileTypeOK
  SetTypeOK
  PermitsAccounted
  SettledIsApplied
PROPERTIES
  ImplementsServer
  ImplementsAdmission
  Converge
