CONSTANTS
  n1 = n1
  e1 = e1
  e2 = e2
  k1 = k1
  p1 = p1
  c1 = c1
  c2 = c2
  NoData = NoData
  Nodes = {n1}
  Links = {}
  EpNames = {e1, e2}
  Kinds = {k1}
  Platforms = {p1}
  Events <- RaceEvents
  Callers = {c1, c2}
  Apart = FALSE
SPECIFICATION Spec
INVARIANTS
  RestingChildrenFollow
