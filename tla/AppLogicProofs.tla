--------------------------- MODULE AppLogicProofs ---------------------------
(***************************************************************************)
(* Theorems of AppLogic, for any sets of nodes, links, names and           *)
(* configurations, invariant by invariant, one step per action.            *)
(***************************************************************************)
EXTENDS AppLogic, TopoDataProofs

(***************************************************************************)
(* What an accepted link does to the nodes: it adds endpoints, under names *)
(* that are not there, and nothing else.                                   *)
(***************************************************************************)
NodeDatas == [Nodes -> NodeData \cup {NoData}]

OnlyAddsEndpoints(d, new) ==
  /\ new \in NodeData
  /\ new.admin = d.admin
  /\ new.kind = d.kind
  /\ new.platform = d.platform
  /\ new.status = d.status
  /\ new.reason = d.reason
  /\ d.endpoint \subseteq new.endpoint
  /\ NamesUnique(d.endpoint) => NamesUnique(new.endpoint)

AddsEndpoints(f, g) ==
  /\ g \in NodeDatas
  /\ \A n \in Nodes : IF f[n] = NoData THEN g[n] = NoData
                                       ELSE OnlyAddsEndpoints(f[n], g[n])

\* Node data is a node's data or nil, never both.
LEMMA NodeDataOrNil ==
  ASSUME NEW f \in NodeDatas, NEW n \in Nodes
  PROVE  f[n] # NoData <=> f[n] \in NodeData
BY DataAssumption DEF NodeDatas

LEMMA SetEndpointAdds ==
  ASSUME NEW d \in NodeData, NEW e \in Endpoint
  PROVE  OnlyAddsEndpoints(d, SetEndpoint(d, e))
<1>1. SetEndpoint(d, e).endpoint = IF HasEndpoint(d, e.name)
                                   THEN d.endpoint ELSE d.endpoint \cup {e}
  BY DEF SetEndpoint, NodeData
<1>2. NamesUnique(d.endpoint) => NamesUnique(SetEndpoint(d, e).endpoint)
  BY <1>1 DEF NamesUnique, HasEndpoint
<1> QED
  BY <1>1, <1>2, SetEndpointType DEF OnlyAddsEndpoints

LEMMA AddsTransitive ==
  ASSUME NEW f \in NodeDatas, NEW g \in NodeDatas, NEW h \in NodeDatas,
         AddsEndpoints(f, g), AddsEndpoints(g, h)
  PROVE  AddsEndpoints(f, h)
<1> SUFFICES ASSUME NEW n \in Nodes, f[n] # NoData
             PROVE  OnlyAddsEndpoints(f[n], h[n])
  BY DEF AddsEndpoints
<1>1. OnlyAddsEndpoints(f[n], g[n])
  BY DEF AddsEndpoints
<1>2. g[n] # NoData
  BY <1>1, DataAssumption DEF OnlyAddsEndpoints
<1>3. OnlyAddsEndpoints(g[n], h[n])
  BY <1>2 DEF AddsEndpoints
<1> QED
  BY <1>1, <1>3 DEF OnlyAddsEndpoints

\* One node.SetData.
LEMMA SetOneAdds ==
  ASSUME NEW f \in NodeDatas, NEW a \in Nodes, f[a] # NoData, NEW e \in Endpoint
  PROVE  AddsEndpoints(f, [f EXCEPT ![a] = SetEndpoint(@, e)])
<1> DEFINE g == [f EXCEPT ![a] = SetEndpoint(@, e)]
<1>1. OnlyAddsEndpoints(f[a], SetEndpoint(f[a], e))
  BY SetEndpointAdds, NodeDataOrNil
<1>2. /\ g \in NodeDatas
      /\ g[a] = SetEndpoint(f[a], e)
      /\ \A n \in Nodes \ {a} : g[n] = f[n]
  BY <1>1 DEF NodeDatas, OnlyAddsEndpoints
<1>3. ASSUME NEW n \in Nodes, f[n] # NoData
      PROVE  OnlyAddsEndpoints(f[n], g[n])
  <2>1. CASE n = a
    BY <1>1, <1>2, <2>1
  <2>2. CASE n # a
    BY <1>2, <2>2, <1>3, NodeDataOrNil DEF OnlyAddsEndpoints
  <2> QED
    BY <2>1, <2>2
<1>4. ASSUME NEW n \in Nodes, f[n] = NoData
      PROVE  g[n] = NoData
  BY <1>2, <1>4
<1> QED
  BY <1>2, <1>3, <1>4 DEF AddsEndpoints

\* node.SetData on both sides of a link.
LEMMA SetBothAdds ==
  ASSUME NEW f \in NodeDatas, NEW a \in Nodes, NEW b \in Nodes,
         f[a] # NoData, f[b] # NoData, NEW ea \in Endpoint, NEW eb \in Endpoint
  PROVE  AddsEndpoints(f, SetBoth(f, a, ea, b, eb))
<1> DEFINE g == [f EXCEPT ![a] = SetEndpoint(@, ea)]
           h == [g EXCEPT ![b] = SetEndpoint(@, eb)]
<1>1. AddsEndpoints(f, g)
  BY SetOneAdds
<1>2. g \in NodeDatas /\ g[b] # NoData
  BY <1>1, NodeDataOrNil DEF AddsEndpoints, OnlyAddsEndpoints
<1> HIDE DEF g
<1>3. AddsEndpoints(g, h)
  BY <1>2, SetOneAdds
<1>4. h \in NodeDatas
  BY <1>3 DEF AddsEndpoints
<1>5. AddsEndpoints(f, h)
  BY <1>1, <1>2, <1>3, <1>4, AddsTransitive
<1> QED
  BY <1>5 DEF SetBoth, g

(***************************************************************************)
(* parseLink as a whole (link.go parseLink): whatever kind of link it is,  *)
(* both nodes keep what they have and gain endpoints with new names.       *)
(***************************************************************************)
LEMMA ParseLinkAdds ==
  ASSUME NEW f \in NodeDatas, NEW c \in LinkConfig, Len(c.endpoints) >= 2,
         \A le \in Ends(c) : f[le.node] # NoData
  PROVE  AddsEndpoints(f, ParseLink(f, c))
<1> DEFINE a == c.endpoints[1]
           b == c.endpoints[2]
           found == HasEndpoint(f[a.node], a.lagName) /\ HasEndpoint(f[b.node], b.lagName)
           g == IF found \/ ~c.lag THEN f
                ELSE SetBoth(f, a.node, LogicalLag(a), b.node, LogicalLag(b))
           Made(le) == IF c.lag THEN LagSubLink(le) ELSE PlainLink(le)
<1>1. a \in LinkEndpoint /\ b \in LinkEndpoint
  BY DEF LinkConfig
<1>2. a.node \in Nodes /\ b.node \in Nodes
  BY <1>1 DEF LinkEndpoint
<1>3. f[a.node] # NoData /\ f[b.node] # NoData
  <2>1. a \in Ends(c) /\ b \in Ends(c)
    BY DEF Ends, LinkConfig
  <2> QED
    BY <2>1
<1>4. /\ LogicalLag(a) \in Endpoint /\ LogicalLag(b) \in Endpoint
      /\ Made(a) \in Endpoint /\ Made(b) \in Endpoint
  BY <1>1, EntryType
<1>5. AddsEndpoints(f, f)
  BY NodeDataOrNil DEF AddsEndpoints, OnlyAddsEndpoints
<1>6. AddsEndpoints(f, g)
  BY <1>2, <1>3, <1>4, <1>5, SetBothAdds
<1>7. g \in NodeDatas /\ g[a.node] # NoData /\ g[b.node] # NoData
  BY <1>2, <1>3, <1>6, NodeDataOrNil DEF AddsEndpoints, OnlyAddsEndpoints
<1>8. ParseLink(f, c) = SetBoth(g, a.node, Made(a), b.node, Made(b))
  BY DEF ParseLink
<1> HIDE DEF a, b, g, Made
<1>9. AddsEndpoints(g, SetBoth(g, a.node, Made(a), b.node, Made(b)))
  BY <1>2, <1>4, <1>7, SetBothAdds
<1> QED
  BY <1>6, <1>7, <1>8, <1>9, AddsTransitive DEF AddsEndpoints

-----------------------------------------------------------------------------
(***************************************************************************)
(* What a link event finds and leaves: the link's own data.                *)
(***************************************************************************)
LEMMA LinkCopiedType ==
  ASSUME TypeOK, topologyData # NoData, NEW c \in LinkConfig
  PROVE  /\ LinkCopied(c) \in LinkData
         /\ SetStatus(LinkCopied(c), "down", "endpoint node not found") \in LinkData
<1>1. CopyLink(c) \in LinkData
  BY CopyType
<1>2. ParentStatus \in Status
  BY DEF TypeOK, TopologyData, ParentStatus
<1>3. LinkCopied(c) \in LinkData
  BY <1>1, <1>2, LinkStatusType DEF LinkCopied, HandleLinkStatus
<1>4. SetStatus(LinkCopied(c), "down", "endpoint node not found") \in LinkData
  BY <1>3 DEF SetStatus, LinkData, Status, Reason
<1> QED
  BY <1>3, <1>4

\* One write to the state cache.
LEMMA CachedType ==
  ASSUME NEW cache \in [Resources -> StateLeaves \cup {NoData}],
         NEW r \in Resources, NEW s \in StateLeaves
  PROVE  Cached(cache, r, s) \in [Resources -> StateLeaves \cup {NoData}]
BY MergeType DEF Cached

\* What the observers of a topology hold after it took a status.
LEMMA NotifiedType ==
  ASSUME TypeOK, NEW s \in Status,
         s # Nil => /\ \A n \in Observers \cap Nodes : nodeData[n] # NoData
                    /\ \A l \in Observers \cap Links : linkData[l] # NoData
  PROVE  /\ Notified(nodeData, s) \in [Nodes -> NodeData \cup {NoData}]
         /\ Notified(linkData, s) \in [Links -> LinkData \cup {NoData}]
<1>1. ASSUME NEW n \in Nodes, n \in Observers, s # Nil
      PROVE  HandleStatus(nodeData[n], s) \in NodeData
  BY <1>1, NodeStatusType DEF TypeOK
<1>2. ASSUME NEW l \in Links, l \in Observers, s # Nil
      PROVE  HandleStatus(linkData[l], s) \in LinkData
  BY <1>2, LinkStatusType DEF TypeOK
<1> QED
  BY <1>1, <1>2 DEF Notified, TypeOK

\* The topology's data after a configuration event.
LEMMA TopologyCopiedType ==
  ASSUME NEW c \in TopologyConfig
  PROVE  HandleTopologyStatus(CopyTopology(c)) \in TopologyData
BY CopyType, TopologyStatusType

\* The node's data after a configuration event.
LEMMA NodeCopiedType ==
  ASSUME TypeOK, topologyData # NoData, NEW c \in NodeConfig
  PROVE  SetPlatform(HandleStatus(CopyNode(c), ParentStatus), topologyData) \in NodeData
<1>1. topologyData \in TopologyData /\ ParentStatus \in Status
  BY DEF TypeOK, TopologyData, ParentStatus
<1>2. HandleStatus(CopyNode(c), ParentStatus) \in NodeData
  BY <1>1, CopyType, NodeStatusType
<1> QED
  BY <1>1, <1>2, PlatformType

\* The state cache after the topology wrote it, through its observers.
LEMMA CachedTopologyType ==
  ASSUME TypeOK, NEW d \in TopologyData, NEW kids \in SUBSET Children,
         NEW nd \in [Nodes -> NodeData \cup {NoData}],
         NEW ld \in [Links -> LinkData \cup {NoData}],
         d.status # Nil => /\ \A n \in Observers \cap Nodes : nd[n] # NoData
                           /\ \A l \in Observers \cap Links : ld[l] # NoData
  PROVE  CachedTopology(CachedObservers(stateCache, d.status, nd, ld), d, kids)
           \in [Resources -> StateLeaves \cup {NoData}]
<1> DEFINE cache == CachedObservers(stateCache, d.status, nd, ld)
           touched == [r \in Resources |->
                         IF r \in kids /\ cache[r] = NoData THEN EmptyState ELSE cache[r]]
<1>1. ASSUME NEW r \in Resources
      PROVE  cache[r] \in StateLeaves \cup {NoData}
  <2>1. stateCache[r] \in StateLeaves \cup {NoData}
    BY DEF TypeOK
  <2>2. CASE d.status # Nil /\ r \in Observers \cap Nodes
    <3>1. NodeState(nd[r]) \in StateLeaves
      BY <2>2, StateType
    <3> QED
      BY <2>1, <2>2, <3>1, MergeType DEF CachedObservers
  <2>3. CASE d.status # Nil /\ r \in Observers \ Nodes
    <3>1. r \in Observers \cap Links
      BY <2>3 DEF Observers, Children
    <3>2. LinkState(ld[r]) \in StateLeaves
      BY <2>3, <3>1, StateType
    <3> QED
      BY <2>1, <2>3, <3>2, MergeType DEF CachedObservers
  <2>4. CASE d.status = Nil \/ r \notin Observers
    BY <2>1, <2>4 DEF CachedObservers
  <2> QED
    BY <2>2, <2>3, <2>4
<1> HIDE DEF cache
<1>2. touched \in [Resources -> StateLeaves \cup {NoData}]
  BY <1>1, StateType
<1>3. TopologyState(d) \in StateLeaves /\ Topology \in Resources
  BY StateType DEF Resources
<1>4. Cached(touched, Topology, TopologyState(d)) \in [Resources -> StateLeaves \cup {NoData}]
  BY <1>2, <1>3, CachedType
<1> QED
  BY <1>4 DEF CachedTopology, cache

(***************************************************************************)
(* An accepted link leaves every node's data as it was but for endpoints.  *)
(***************************************************************************)
LEMMA LinkUpdateAdds ==
  ASSUME TypeOK, NEW l \in Links, NEW c \in LinkConfigs, LinkUpdate(l, c)
  PROVE  AddsEndpoints(nodeData, nodeData')
<1>1. c \in LinkConfig
  BY ConfigAssumption
<1>2. nodeData \in NodeDatas
  BY DEF TypeOK, NodeDatas
<1> QED
  BY <1>1, <1>2, ParseLinkAdds DEF LinkUpdate

(***************************************************************************)
(* Every step leaves every variable in its type, in particular every state *)
(* container a handler reports.                                            *)
(***************************************************************************)
LEMMA TypeStep == TypeOK /\ [Next]_vars => TypeOK'
<1> SUFFICES ASSUME TypeOK, [Next]_vars
             PROVE  TypeOK'
  OBVIOUS
<1>1. ASSUME NEW c \in TopologyConfigs, NEW kids \in SUBSET Children, TopologyUpdate(c, kids)
      PROVE  TypeOK'
  <2> DEFINE d == HandleTopologyStatus(CopyTopology(c))
  <2>1. d \in TopologyData /\ d.status \in Status
    BY ConfigAssumption, TopologyCopiedType DEF TopologyData
  <2>2. d.status # Nil => /\ \A n \in Observers \cap Nodes : nodeData[n] # NoData
                          /\ \A l \in Observers \cap Links : linkData[l] # NoData
    BY <1>1 DEF TopologyUpdate
  <2> HIDE DEF d
  <2>3. /\ nodeData' = Notified(nodeData, d.status)
        /\ linkData' = Notified(linkData, d.status)
        /\ topologyData' = d
        /\ handlers' = handlers \cup {Topology}
        /\ alive' = alive
        /\ stateCache' = CachedTopology(
             CachedObservers(stateCache, d.status, nodeData', linkData'), d, kids)
    BY <1>1 DEF TopologyUpdate, CreateChild, d
  <2>4. /\ nodeData' \in [Nodes -> NodeData \cup {NoData}]
        /\ linkData' \in [Links -> LinkData \cup {NoData}]
    BY <2>1, <2>2, <2>3, NotifiedType
  <2>5. ASSUME d.status # Nil
        PROVE  /\ \A n \in Observers \cap Nodes : nodeData'[n] # NoData
               /\ \A l \in Observers \cap Links : linkData'[l] # NoData
    <3>1. ASSUME NEW n \in Observers \cap Nodes
          PROVE  nodeData'[n] # NoData
      <4>1. nodeData[n] \in NodeData
        BY <2>2, <2>5 DEF TypeOK
      <4>2. nodeData'[n] = HandleStatus(nodeData[n], d.status)
        BY <2>3, <2>5 DEF Notified, TypeOK
      <4> QED
        BY <2>1, <4>1, <4>2, NodeStatusType, DataAssumption
    <3>2. ASSUME NEW l \in Observers \cap Links
          PROVE  linkData'[l] # NoData
      <4>1. linkData[l] \in LinkData
        BY <2>2, <2>5 DEF TypeOK
      <4>2. linkData'[l] = HandleStatus(linkData[l], d.status)
        BY <2>3, <2>5 DEF Notified, TypeOK
      <4> QED
        BY <2>1, <4>1, <4>2, LinkStatusType, DataAssumption
    <3> QED
      BY <3>1, <3>2
  <2>6. stateCache' \in [Resources -> StateLeaves \cup {NoData}]
    BY <2>1, <2>3, <2>4, <2>5, CachedTopologyType
  <2> QED
    BY <2>1, <2>3, <2>4, <2>6 DEF TypeOK, Resources
<1>2. ASSUME NEW n \in Nodes, NEW c \in NodeConfigs, NodeUpdate(n, c)
      PROVE  TypeOK'
  <2>1. SetPlatform(HandleStatus(CopyNode(c), ParentStatus), topologyData) \in NodeData
    BY <1>2, ConfigAssumption, NodeCopiedType DEF NodeUpdate
  <2>2. nodeData' \in [Nodes -> NodeData \cup {NoData}] /\ nodeData'[n] \in NodeData
    BY <1>2, <2>1 DEF NodeUpdate, TypeOK
  <2>3. stateCache' \in [Resources -> StateLeaves \cup {NoData}]
    <3>1. NodeState(nodeData'[n]) \in StateLeaves
      BY <2>2, StateType
    <3> QED
      BY <1>2, <3>1, CachedType DEF NodeUpdate, TypeOK, Resources, Children
  <2> QED
    BY <1>2, <2>2, <2>3 DEF NodeUpdate, TypeOK, CreateChild, Resources, Children
<1>3. ASSUME NEW l \in Links, NEW c \in LinkConfigs, LinkUpdate(l, c)
      PROVE  TypeOK'
  <2> DEFINE a == c.endpoints[1].node
             b == c.endpoints[2].node
             cache == [Resources -> StateLeaves \cup {NoData}]
  <2>1. c \in LinkConfig /\ Len(c.endpoints) >= 2 /\ topologyData # NoData
    BY <1>3, ConfigAssumption DEF LinkUpdate
  <2>2. a \in Nodes /\ b \in Nodes
    <3>1. c.endpoints[1] \in LinkEndpoint /\ c.endpoints[2] \in LinkEndpoint
      BY <2>1 DEF LinkConfig
    <3> QED
      BY <3>1 DEF LinkEndpoint
  <2>3. nodeData' \in [Nodes -> NodeData \cup {NoData}]
    BY <1>3, LinkUpdateAdds DEF AddsEndpoints, NodeDatas
  <2>4. nodeData'[a] \in NodeData /\ nodeData'[b] \in NodeData
    <3>1. c.endpoints[1] \in Ends(c) /\ c.endpoints[2] \in Ends(c)
      BY <2>1 DEF Ends, LinkConfig
    <3>2. nodeData[a] # NoData /\ nodeData[b] # NoData
      BY <1>3, <3>1 DEF LinkUpdate
    <3> QED
      BY <1>3, <2>2, <3>2, LinkUpdateAdds DEF AddsEndpoints, OnlyAddsEndpoints
  <2>5. LinkCopied(c) \in LinkData
    BY <2>1, LinkCopiedType
  <2>6. linkData' \in [Links -> LinkData \cup {NoData}] /\ linkData'[l] \in LinkData
    BY <1>3, <2>5 DEF LinkUpdate, TypeOK
  <2>7. /\ NodeState(nodeData'[a]) \in StateLeaves
        /\ NodeState(nodeData'[b]) \in StateLeaves
        /\ LinkState(linkData'[l]) \in StateLeaves
    BY <2>4, <2>6, StateType
  <2>8. stateCache \in cache /\ a \in Resources /\ b \in Resources /\ l \in Resources
    BY <2>2 DEF TypeOK, Resources, Children
  <2> DEFINE atA  == Cached(stateCache, a, NodeState(nodeData'[a]))
             atAB == Cached(atA, b, NodeState(nodeData'[b]))
  <2>9. atA \in cache
    BY <2>7, <2>8, CachedType
  <2>10. atAB \in cache
    BY <2>7, <2>8, <2>9, CachedType
  <2>11. stateCache' \in cache
    <3>1. stateCache' = Cached(atAB, l, LinkState(linkData'[l]))
      BY <1>3 DEF LinkUpdate
    <3> QED
      BY <2>7, <2>8, <2>10, <3>1, CachedType
  <2> QED
    BY <1>3, <2>3, <2>6, <2>8, <2>11 DEF LinkUpdate, TypeOK, CreateChild, Resources
<1>4. ASSUME NEW l \in Links, NEW c \in LinkConfigs, LinkRefused(l, c)
      PROVE  TypeOK'
  <2>1. SetStatus(LinkCopied(c), "down", "endpoint node not found") \in LinkData
    BY <1>4, ConfigAssumption, LinkCopiedType DEF LinkRefused
  <2>2. linkData' \in [Links -> LinkData \cup {NoData}]
    BY <1>4, <2>1 DEF LinkRefused, TypeOK
  <2> QED
    BY <1>4, <2>2 DEF LinkRefused, TypeOK, CreateChild, Resources, Children
<1>5. ASSUME NEW r \in Resources, UpdateWithoutData(r)
      PROVE  TypeOK'
  BY <1>5 DEF UpdateWithoutData, CreateChild, TypeOK, Resources
<1>6. ASSUME NEW r \in Children, ChildDelete(r)
      PROVE  TypeOK'
  BY <1>6 DEF ChildDelete, CreateChild, TypeOK, Resources
<1>7. CASE TopologyDelete
  BY <1>7 DEF TopologyDelete, TypeOK
<1>8. CASE Panic
  BY <1>8 DEF Panic, Die, TypeOK
<1>9. CASE Restart
  BY <1>9 DEF Restart, TypeOK
<1>10. CASE UNCHANGED vars
  BY <1>10 DEF vars, TypeOK
<1> QED
  BY <1>1, <1>2, <1>3, <1>4, <1>5, <1>6, <1>7, <1>8, <1>9, <1>10 DEF Next

(***************************************************************************)
(* Type correctness: the handlers and the state cache hold only the        *)
(* statuses, reasons, platforms and endpoints of TopoData.                 *)
(***************************************************************************)
THEOREM TypeCorrect == Spec => []TypeOK
<1>1. Init => TypeOK
  BY DEF Init, TypeOK, Resources
<1> QED
  BY <1>1, TypeStep, PTL DEF Spec

-----------------------------------------------------------------------------
(***************************************************************************)
(* The status invariants.  They are not inductive alone: a notification    *)
(* reaches the children with a handler, so one needs to know that what has *)
(* data has a handler.                                                     *)
(***************************************************************************)
DataHasHandler ==
  /\ \A n \in Nodes : NodeHasData(n) => n \in handlers
  /\ \A l \in Links : LinkHasData(l) => l \in handlers

(***************************************************************************)
(* The three status invariants as one statement about a child's data d and *)
(* the topology's data t.                                                  *)
(***************************************************************************)
ChildAgrees(d, t) ==
  /\ UpIsEnabled(d)
  /\ t # NoData /\ t.status = "down" => d.status = "down"
  /\ t # NoData /\ t.status = "up" /\ d.admin = "enable" =>
       d.status = "up" \/ d.reason = "endpoint node not found"

NodeAgrees(d, t) ==
  ChildAgrees(d, t) /\ d.reason # "endpoint node not found"

StatusInv ==
  /\ DataHasHandler
  /\ topologyData # NoData => UpIsEnabled(topologyData)
  /\ \A n \in Nodes : NodeHasData(n) => NodeAgrees(nodeData[n], topologyData)
  /\ \A l \in Links : LinkHasData(l) => ChildAgrees(linkData[l], topologyData)

\* A notification of a topology's status brings a child in agreement with it.
LEMMA NotifiedAgrees ==
  ASSUME NEW d \in NodeData \cup LinkData, NEW t \in TopologyData, UpIsEnabled(d),
         t.status # Nil
  PROVE  /\ ChildAgrees(HandleStatus(d, t.status), t)
         /\ d.reason # "endpoint node not found" =>
              HandleStatus(d, t.status).reason # "endpoint node not found"
BY DEF UpIsEnabled, ChildAgrees, HandleStatus, SetStatus, NodeData, LinkData,
       TopologyData, Status, AdminState, Reason, Nil

\* So does copying a configuration under the topology's status.
LEMMA CopiedAgrees ==
  ASSUME NEW t \in TopologyData
  PROVE  /\ \A c \in NodeConfig :
              NodeAgrees(SetPlatform(HandleStatus(CopyNode(c), t.status), t), t)
         /\ \A c \in LinkConfig : ChildAgrees(HandleStatus(CopyLink(c), t.status), t)
<1>1. ASSUME NEW c \in NodeConfig
      PROVE  NodeAgrees(HandleStatus(CopyNode(c), t.status), t)
  BY DEF NodeAgrees, UpIsEnabled, ChildAgrees, HandleStatus, SetStatus, CopyNode,
         NodeConfig, TopologyData, Status, AdminState, Nil
<1>2. ASSUME NEW c \in NodeConfig
      PROVE  NodeAgrees(SetPlatform(HandleStatus(CopyNode(c), t.status), t), t)
  <2> DEFINE d == HandleStatus(CopyNode(c), t.status)
  <2>1. d \in NodeData
    BY CopyType, NodeStatusType DEF TopologyData
  <2> HIDE DEF d
  <2>2. /\ SetPlatform(d, t).status = d.status
        /\ SetPlatform(d, t).reason = d.reason
        /\ SetPlatform(d, t).admin = d.admin
    BY <2>1 DEF SetPlatform, NodeData
  <2>3. NodeAgrees(d, t)
    BY <1>1 DEF d
  <2>4. NodeAgrees(SetPlatform(d, t), t)
    BY <2>2, <2>3 DEF NodeAgrees, ChildAgrees, UpIsEnabled
  <2> QED
    BY <2>4 DEF d
<1>3. ASSUME NEW c \in LinkConfig
      PROVE  ChildAgrees(HandleStatus(CopyLink(c), t.status), t)
  BY DEF UpIsEnabled, ChildAgrees, HandleStatus, SetStatus, CopyLink,
         LinkConfig, TopologyData, Status, AdminState, Nil
<1> QED
  BY <1>2, <1>3

\* A child event leaves what it does not touch in agreement.
LEMMA StatusStep == TypeOK /\ StatusInv /\ [Next]_vars => StatusInv'
<1> SUFFICES ASSUME TypeOK, StatusInv, [Next]_vars
             PROVE  StatusInv'
  OBVIOUS
<1>1. ASSUME NEW c \in TopologyConfigs, NEW kids \in SUBSET Children, TopologyUpdate(c, kids)
      PROVE  StatusInv'
  <2> DEFINE d == HandleTopologyStatus(CopyTopology(c))
  <2>1. d \in TopologyData
    BY ConfigAssumption, TopologyCopiedType
  <2>2. UpIsEnabled(d)
    BY ConfigAssumption
    DEF UpIsEnabled, HandleTopologyStatus, HandleStatus, SetStatus, CopyTopology,
        TopologyConfig, AdminState, Nil
  <2> HIDE DEF d
  <2>3. /\ nodeData' = Notified(nodeData, d.status)
        /\ linkData' = Notified(linkData, d.status)
        /\ topologyData' = d
        /\ handlers' = handlers \cup {Topology}
    BY <1>1 DEF TopologyUpdate, CreateChild, d
  <2>4. ASSUME NEW n \in Nodes, nodeData'[n] # NoData
        PROVE  n \in handlers /\ NodeAgrees(nodeData'[n], d)
    <3>1. CASE d.status = Nil
      <4>1. nodeData'[n] = nodeData[n]
        BY <2>3, <3>1 DEF Notified, TypeOK
      <4> QED
        BY <2>4, <3>1, <4>1
        DEF StatusInv, DataHasHandler, NodeHasData, NodeAgrees, ChildAgrees, Nil
    <3>2. CASE d.status # Nil /\ n \in handlers
      <4>1. n \in Observers
        BY <3>2 DEF Observers, Children
      <4>2. nodeData[n] \in NodeData
        BY <1>1, <3>2, <4>1 DEF TopologyUpdate, TypeOK, d
      <4>3. nodeData'[n] = HandleStatus(nodeData[n], d.status)
        BY <2>3, <3>2, <4>1 DEF Notified, TypeOK
      <4>4. NodeAgrees(nodeData[n], topologyData)
        BY <4>2, DataAssumption DEF StatusInv, NodeHasData
      <4>5. UpIsEnabled(nodeData[n]) /\ nodeData[n].reason # "endpoint node not found"
        BY <4>4 DEF NodeAgrees, ChildAgrees
      <4>6. /\ ChildAgrees(HandleStatus(nodeData[n], d.status), d)
            /\ HandleStatus(nodeData[n], d.status).reason # "endpoint node not found"
        BY <2>1, <3>2, <4>2, <4>5, NotifiedAgrees
      <4> QED
        BY <3>2, <4>3, <4>6 DEF NodeAgrees
    <3>3. CASE n \notin handlers
      <4>1. nodeData'[n] = nodeData[n]
        BY <2>3, <3>3 DEF Notified, Observers, TypeOK
      <4> QED
        BY <2>4, <3>3, <4>1 DEF StatusInv, DataHasHandler, NodeHasData
    <3> QED
      BY <3>1, <3>2, <3>3
  <2>5. ASSUME NEW l \in Links, linkData'[l] # NoData
        PROVE  l \in handlers /\ ChildAgrees(linkData'[l], d)
    <3>1. CASE d.status = Nil
      <4>1. linkData'[l] = linkData[l]
        BY <2>3, <3>1 DEF Notified, TypeOK
      <4> QED
        BY <2>5, <3>1, <4>1
        DEF StatusInv, DataHasHandler, LinkHasData, ChildAgrees, Nil
    <3>2. CASE d.status # Nil /\ l \in handlers
      <4>1. l \in Observers
        BY <3>2 DEF Observers, Children
      <4>2. linkData[l] \in LinkData
        BY <1>1, <3>2, <4>1 DEF TopologyUpdate, TypeOK, d
      <4>3. linkData'[l] = HandleStatus(linkData[l], d.status)
        BY <2>3, <3>2, <4>1 DEF Notified, TypeOK
      <4>4. ChildAgrees(linkData[l], topologyData)
        BY <4>2, DataAssumption DEF StatusInv, LinkHasData
      <4>5. UpIsEnabled(linkData[l])
        BY <4>4 DEF ChildAgrees
      <4>6. ChildAgrees(HandleStatus(linkData[l], d.status), d)
        BY <2>1, <3>2, <4>2, <4>5, NotifiedAgrees
      <4> QED
        BY <3>2, <4>3, <4>6
    <3>3. CASE l \notin handlers
      <4>1. linkData'[l] = linkData[l]
        BY <2>3, <3>3 DEF Notified, Observers, TypeOK
      <4> QED
        BY <2>5, <3>3, <4>1 DEF StatusInv, DataHasHandler, LinkHasData
    <3> QED
      BY <3>1, <3>2, <3>3
  <2> QED
    BY <2>2, <2>3, <2>4, <2>5 DEF StatusInv, DataHasHandler, NodeHasData, LinkHasData
<1>2. ASSUME NEW n \in Nodes, NEW c \in NodeConfigs, NodeUpdate(n, c)
      PROVE  StatusInv'
  <2>1. topologyData \in TopologyData
    BY <1>2 DEF NodeUpdate, TypeOK
  <2>2. NodeAgrees(SetPlatform(HandleStatus(CopyNode(c), topologyData.status), topologyData),
                   topologyData)
    BY <2>1, ConfigAssumption, CopiedAgrees
  <2>3. /\ nodeData'[n] = SetPlatform(HandleStatus(CopyNode(c), topologyData.status), topologyData)
        /\ \A m \in Nodes \ {n} : nodeData'[m] = nodeData[m]
        /\ handlers' = handlers \cup {Topology, n}
        /\ topologyData' = topologyData
        /\ linkData' = linkData
    BY <1>2 DEF NodeUpdate, CreateChild, ParentStatus, TypeOK
  <2>4. ASSUME NEW m \in Nodes, nodeData'[m] # NoData
        PROVE  m \in handlers' /\ NodeAgrees(nodeData'[m], topologyData)
    BY <2>2, <2>3, <2>4 DEF StatusInv, DataHasHandler, NodeHasData
  <2> QED
    BY <2>3, <2>4 DEF StatusInv, DataHasHandler, NodeHasData, LinkHasData
<1>3. ASSUME NEW l \in Links, NEW c \in LinkConfigs, LinkUpdate(l, c) \/ LinkRefused(l, c)
      PROVE  StatusInv'
  <2>1. topologyData \in TopologyData
    BY <1>3 DEF LinkUpdate, LinkRefused, TypeOK
  <2>2. ChildAgrees(LinkCopied(c), topologyData) /\ LinkCopied(c) \in LinkData
    BY <2>1, ConfigAssumption, CopiedAgrees, LinkCopiedType, DataAssumption
    DEF LinkCopied, HandleLinkStatus, ParentStatus
  <2>3. ChildAgrees(SetStatus(LinkCopied(c), "down", "endpoint node not found"), topologyData)
    BY <2>2 DEF ChildAgrees, UpIsEnabled, SetStatus, LinkData
  <2>4. /\ handlers' = handlers \cup {Topology, l}
        /\ topologyData' = topologyData
        /\ \A m \in Links \ {l} : linkData'[m] = linkData[m]
        /\ ChildAgrees(linkData'[l], topologyData)
    BY <1>3, <2>2, <2>3 DEF LinkUpdate, LinkRefused, CreateChild, TypeOK
  <2>5. ASSUME NEW n \in Nodes, nodeData'[n] # NoData
        PROVE  n \in handlers /\ NodeAgrees(nodeData'[n], topologyData)
    <3>1. CASE LinkUpdate(l, c)
      <4>1. nodeData[n] # NoData /\ OnlyAddsEndpoints(nodeData[n], nodeData'[n])
        BY <2>5, <3>1, LinkUpdateAdds DEF AddsEndpoints
      <4> QED
        BY <4>1 DEF OnlyAddsEndpoints, StatusInv, DataHasHandler, NodeHasData,
                    NodeAgrees, ChildAgrees, UpIsEnabled
    <3>2. CASE LinkRefused(l, c)
      BY <2>5, <3>2 DEF LinkRefused, StatusInv, DataHasHandler, NodeHasData
    <3> QED
      BY <1>3, <3>1, <3>2
  <2> QED
    BY <2>4, <2>5 DEF StatusInv, DataHasHandler, NodeHasData, LinkHasData
<1>4. ASSUME NEW r \in Resources, UpdateWithoutData(r)
      PROVE  StatusInv'
  BY <1>4 DEF UpdateWithoutData, CreateChild, StatusInv, DataHasHandler, NodeHasData, LinkHasData
<1>5. ASSUME NEW r \in Children, ChildDelete(r)
      PROVE  StatusInv'
  BY <1>5 DEF ChildDelete, CreateChild, StatusInv, DataHasHandler, NodeHasData, LinkHasData
<1>6. CASE TopologyDelete
  BY <1>6 DEF TopologyDelete, StatusInv, DataHasHandler, NodeHasData, LinkHasData
<1>7. CASE Panic
  BY <1>7 DEF Panic, Die, StatusInv, DataHasHandler, NodeHasData, LinkHasData
<1>8. CASE Restart
  BY <1>8 DEF Restart, StatusInv, DataHasHandler, NodeHasData, LinkHasData
<1>9. CASE UNCHANGED vars
  BY <1>9 DEF vars, StatusInv, DataHasHandler, NodeHasData, LinkHasData
<1> QED
  BY <1>1, <1>2, <1>3, <1>4, <1>5, <1>6, <1>7, <1>8, <1>9 DEF Next

\* The strengthened invariant.
THEOREM StatusCorrect == Spec => []StatusInv
<1>1. Init => StatusInv
  BY DEF Init, StatusInv, DataHasHandler, NodeHasData, LinkHasData
<1> QED
  BY <1>1, TypeCorrect, StatusStep, PTL DEF Spec

(***************************************************************************)
(* Whatever the order of the events, every child of a topology that is     *)
(* down is down (topology.go, node.go, link.go handleConfigUpdate and      *)
(* handleTopologyUpdate).                                                  *)
(***************************************************************************)
THEOREM ParentDownCorrect == Spec => []ParentDownForcesChildren
<1>1. StatusInv => ParentDownForcesChildren
  BY DEF StatusInv, ParentDownForcesChildren, NodeAgrees, ChildAgrees
<1> QED
  BY <1>1, StatusCorrect, PTL

(***************************************************************************)
(* Whatever the order of the events, nothing is up that its configuration  *)
(* does not enable (handleStatus).                                         *)
(***************************************************************************)
THEOREM UpEnabledCorrect == Spec => []UpOnlyIfEnabled
<1>1. StatusInv => UpOnlyIfEnabled
  BY DEF StatusInv, UpOnlyIfEnabled, NodeAgrees, ChildAgrees
<1> QED
  BY <1>1, StatusCorrect, PTL

(***************************************************************************)
(* Whatever the order of the events, an enabled child of a topology that   *)
(* is up is up, a refused link excepted (handleTopologyUpdate).            *)
(***************************************************************************)
THEOREM EnabledUpCorrect == Spec => []EnabledComesUp
<1>1. StatusInv => EnabledComesUp
  BY DEF StatusInv, EnabledComesUp, NodeAgrees, ChildAgrees
<1> QED
  BY <1>1, StatusCorrect, PTL

-----------------------------------------------------------------------------
(***************************************************************************)
(* The invariant.  Two things strengthen it: a handler that has a status   *)
(* has a reason, or else a stale reason would survive the merge; and what  *)
(* has data has a handler (DataHasHandler), or else a notification would   *)
(* change data without writing it.                                         *)
(***************************************************************************)
ReasonGiven(d) == d.status # Nil => d.reason # Nil

DataInv ==
  /\ \A n \in Nodes : NodeHasData(n) =>
       ReasonGiven(nodeData[n]) /\ NamesUnique(nodeData[n].endpoint)
  /\ \A l \in Links : LinkHasData(l) => ReasonGiven(linkData[l])

\* What the state cache holds of a node agrees with the node's data.
NodeShown(s, d) ==
  /\ Shows(s, d)
  /\ d # NoData /\ s # NoData /\ s.status # Nil => d.endpoint \subseteq s.endpoint
  /\ s # NoData => NamesUnique(s.endpoint)

\* What it holds of a link does, unless the link was refused.
LinkShown(s, d) ==
  (d # NoData /\ d.reason = "endpoint node not found") \/ Shows(s, d)

CacheInv ==
  /\ DataInv
  /\ \A n \in Nodes : NodeShown(stateCache[n], nodeData[n])
  /\ \A l \in Links : LinkShown(stateCache[l], linkData[l])

-----------------------------------------------------------------------------
\* A write of a node's state makes the cache show it, whatever it showed.
LEMMA MergeShowsNode ==
  ASSUME NEW s \in StateLeaves \cup {NoData}, NEW d \in NodeData, ReasonGiven(d),
         NamesUnique(d.endpoint), s # NoData => NamesUnique(s.endpoint)
  PROVE  NodeShown(MergeState(s, NodeState(d)), d)
<1> DEFINE old == IF s = NoData THEN EmptyState ELSE s
           new == MergeState(s, NodeState(d))
<1>1. new.endpoint = MergeEndpoints(old.endpoint, d.endpoint)
  BY DEF MergeState, NodeState
<1>2. NamesUnique(old.endpoint)
  BY DEF NamesUnique, EmptyState
<1>3. NamesUnique(new.endpoint) /\ d.endpoint \subseteq new.endpoint
  BY <1>1, <1>2 DEF NamesUnique, MergeEndpoints
<1>4. d.status # Nil => new.status = d.status /\ new.reason = d.reason
  BY DEF MergeState, NodeState, MergeLeaf, ReasonGiven
<1>5. d # NoData
  BY DataAssumption
<1> QED
  BY <1>3, <1>4, <1>5 DEF NodeShown, Shows

\* The same of a link.
LEMMA MergeShowsLink ==
  ASSUME NEW s \in StateLeaves \cup {NoData}, NEW d \in LinkData, ReasonGiven(d)
  PROVE  LinkShown(MergeState(s, LinkState(d)), d)
<1>1. d.status # Nil => /\ MergeState(s, LinkState(d)).status = d.status
                        /\ MergeState(s, LinkState(d)).reason = d.reason
  BY DEF MergeState, LinkState, EmptyState, MergeLeaf, ReasonGiven, LinkData, Nil
<1>2. d # NoData
  BY DataAssumption
<1> QED
  BY <1>1, <1>2 DEF LinkShown, Shows

\* The status rules give a reason and leave the endpoints alone.
LEMMA StatusGivesReason ==
  ASSUME NEW d \in NodeData \cup LinkData, ReasonGiven(d), NEW s \in Status
  PROVE  /\ ReasonGiven(HandleStatus(d, s))
         /\ d \in NodeData => HandleStatus(d, s).endpoint = d.endpoint
BY DEF ReasonGiven, HandleStatus, SetStatus, NodeData, LinkData, Nil

\* A configuration event leaves a node without endpoints.
LEMMA CopiedData ==
  ASSUME NEW s \in Status, NEW t \in TopologyData
  PROVE  /\ \A c \in NodeConfig :
              LET d == SetPlatform(HandleStatus(CopyNode(c), s), t)
              IN  ReasonGiven(d) /\ NamesUnique(d.endpoint)
         /\ \A c \in LinkConfig : ReasonGiven(HandleStatus(CopyLink(c), s))
<1>1. ASSUME NEW c \in NodeConfig
      PROVE  LET d == SetPlatform(HandleStatus(CopyNode(c), s), t)
             IN  ReasonGiven(d) /\ NamesUnique(d.endpoint)
  <2> DEFINE e == HandleStatus(CopyNode(c), s)
  <2>1. CopyNode(c) \in NodeData /\ ReasonGiven(CopyNode(c)) /\ CopyNode(c).endpoint = {}
    BY CopyType DEF CopyNode, ReasonGiven
  <2>2. e \in NodeData /\ ReasonGiven(e) /\ e.endpoint = {}
    BY <2>1, NodeStatusType, StatusGivesReason
  <2> HIDE DEF e
  <2>3. /\ SetPlatform(e, t).status = e.status
        /\ SetPlatform(e, t).reason = e.reason
        /\ SetPlatform(e, t).endpoint = e.endpoint
    BY <2>2 DEF SetPlatform, NodeData
  <2>4. ReasonGiven(SetPlatform(e, t)) /\ NamesUnique(SetPlatform(e, t).endpoint)
    BY <2>2, <2>3 DEF ReasonGiven, NamesUnique
  <2> QED
    BY <2>4 DEF e
<1>2. ASSUME NEW c \in LinkConfig
      PROVE  ReasonGiven(HandleStatus(CopyLink(c), s))
  <2>1. CopyLink(c) \in LinkData /\ ReasonGiven(CopyLink(c))
    BY CopyType DEF CopyLink, ReasonGiven
  <2> QED
    BY <2>1, StatusGivesReason
<1> QED
  BY <1>1, <1>2

\* What the state cache shows of a resource that is not in it: nothing.
LEMMA NothingShown ==
  /\ \A d : NodeShown(NoData, d)
  /\ \A d : LinkShown(NoData, d)
  /\ \A d : NodeShown(EmptyState, d)
  /\ \A d : LinkShown(EmptyState, d)
BY DEF NodeShown, LinkShown, Shows, EmptyState, NamesUnique

(***************************************************************************)
(* A configuration event of the topology: children that are notified are   *)
(* written with what they then hold, the others are left as they are.      *)
(***************************************************************************)
LEMMA TopologyShows ==
  ASSUME TypeOK, TypeOK', StatusInv, CacheInv,
         NEW c \in TopologyConfigs, NEW kids \in SUBSET Children, TopologyUpdate(c, kids)
  PROVE  CacheInv'
<1> DEFINE d == HandleTopologyStatus(CopyTopology(c))
           cache == CachedObservers(stateCache, d.status, nodeData', linkData')
<1>1. d.status \in Status
  BY ConfigAssumption, TopologyCopiedType DEF TopologyData
<1> HIDE DEF d
<1>2. /\ nodeData' = Notified(nodeData, d.status)
      /\ linkData' = Notified(linkData, d.status)
      /\ stateCache' = CachedTopology(cache, d, kids)
      /\ d.status # Nil => /\ \A n \in Observers \cap Nodes : nodeData[n] # NoData
                           /\ \A l \in Observers \cap Links : linkData[l] # NoData
  BY DEF TopologyUpdate, d
<1>3. ASSUME NEW r \in Children
      PROVE  \/ stateCache'[r] = cache[r]
             \/ cache[r] = NoData /\ stateCache'[r] = EmptyState
  BY <1>2, DataAssumption DEF CachedTopology, Cached, CachedObservers, Resources, Children, Topology
<1>4. ASSUME NEW n \in Nodes
      PROVE  /\ nodeData'[n] # NoData =>
                  ReasonGiven(nodeData'[n]) /\ NamesUnique(nodeData'[n].endpoint)
             /\ NodeShown(stateCache'[n], nodeData'[n])
  <2>1. CASE d.status # Nil /\ n \in handlers
    <3>1. n \in Observers \cap Nodes
      BY <2>1 DEF Observers, Children
    <3>2. nodeData[n] \in NodeData
      BY <1>2, <2>1, <3>1 DEF TypeOK
    <3>3. nodeData'[n] = HandleStatus(nodeData[n], d.status)
      BY <1>2, <2>1, <3>1 DEF Notified, TypeOK
    <3>4. ReasonGiven(nodeData[n]) /\ NamesUnique(nodeData[n].endpoint)
      BY <3>2, DataAssumption DEF CacheInv, DataInv, NodeHasData
    <3>5. ReasonGiven(nodeData'[n]) /\ NamesUnique(nodeData'[n].endpoint)
      BY <1>1, <3>2, <3>3, <3>4, StatusGivesReason
    <3>6. nodeData'[n] \in NodeData
      BY <1>1, <3>2, <3>3, NodeStatusType
    <3>7. cache[n] = MergeState(stateCache[n], NodeState(nodeData'[n]))
      BY <2>1, <3>1 DEF CachedObservers, Resources, Children
    <3>8. stateCache[n] \in StateLeaves \cup {NoData}
      BY DEF TypeOK, Resources, Children
    <3>9. stateCache[n] # NoData => NamesUnique(stateCache[n].endpoint)
      BY DEF CacheInv, NodeShown
    <3>10. NodeShown(cache[n], nodeData'[n])
      BY <3>5, <3>6, <3>7, <3>8, <3>9, MergeShowsNode
    <3>11. stateCache'[n] = cache[n] \/ stateCache'[n] = EmptyState
      BY <1>3 DEF Children
    <3> QED
      BY <3>5, <3>10, <3>11, NothingShown
  <2>2. CASE d.status = Nil \/ n \notin handlers
    <3>1. nodeData'[n] = nodeData[n]
      BY <1>2, <2>2 DEF Notified, Observers, TypeOK
    <3>2. cache[n] = stateCache[n]
      BY <2>2 DEF CachedObservers, Observers, Resources, Children
    <3>3. stateCache'[n] = stateCache[n] \/ stateCache'[n] = EmptyState
      BY <1>3, <3>2 DEF Children
    <3> QED
      BY <3>1, <3>3, NothingShown DEF CacheInv, DataInv, NodeHasData
  <2> QED
    BY <2>1, <2>2
<1>5. ASSUME NEW l \in Links
      PROVE  /\ linkData'[l] # NoData => ReasonGiven(linkData'[l])
             /\ LinkShown(stateCache'[l], linkData'[l])
  <2>1. CASE d.status # Nil /\ l \in handlers
    <3>1. l \in Observers \cap Links /\ l \in Observers \ Nodes
      BY <2>1, DataAssumption DEF Observers, Children
    <3>2. linkData[l] \in LinkData
      BY <1>2, <2>1, <3>1 DEF TypeOK
    <3>3. linkData'[l] = HandleStatus(linkData[l], d.status)
      BY <1>2, <2>1, <3>1 DEF Notified, TypeOK
    <3>4. ReasonGiven(linkData[l])
      BY <3>2, DataAssumption DEF CacheInv, DataInv, LinkHasData
    <3>5. ReasonGiven(linkData'[l]) /\ linkData'[l] \in LinkData
      BY <1>1, <3>2, <3>3, <3>4, StatusGivesReason, LinkStatusType
    <3>6. cache[l] = MergeState(stateCache[l], LinkState(linkData'[l]))
      BY <2>1, <3>1 DEF CachedObservers, Resources, Children
    <3>7. stateCache[l] \in StateLeaves \cup {NoData}
      BY DEF TypeOK, Resources, Children
    <3>8. LinkShown(cache[l], linkData'[l])
      BY <3>5, <3>6, <3>7, MergeShowsLink
    <3>9. stateCache'[l] = cache[l] \/ stateCache'[l] = EmptyState
      BY <1>3 DEF Children
    <3> QED
      BY <3>5, <3>8, <3>9, NothingShown
  <2>2. CASE d.status = Nil \/ l \notin handlers
    <3>1. linkData'[l] = linkData[l]
      BY <1>2, <2>2 DEF Notified, Observers, TypeOK
    <3>2. cache[l] = stateCache[l]
      BY <2>2 DEF CachedObservers, Observers, Resources, Children
    <3>3. stateCache'[l] = stateCache[l] \/ stateCache'[l] = EmptyState
      BY <1>3, <3>2 DEF Children
    <3> QED
      BY <3>1, <3>3, NothingShown DEF CacheInv, DataInv, LinkHasData
  <2> QED
    BY <2>1, <2>2
<1> QED
  BY <1>4, <1>5 DEF CacheInv, DataInv, NodeHasData, LinkHasData

\* A configuration event of a node empties its list and writes its state.
LEMMA NodeShows ==
  ASSUME TypeOK, TypeOK', CacheInv,
         NEW n \in Nodes, NEW c \in NodeConfigs, NodeUpdate(n, c)
  PROVE  CacheInv'
<1> DEFINE d == SetPlatform(HandleStatus(CopyNode(c), ParentStatus), topologyData)
<1>1. topologyData \in TopologyData /\ ParentStatus \in Status
  BY DEF NodeUpdate, TypeOK, TopologyData, ParentStatus
<1>2. ReasonGiven(d) /\ NamesUnique(d.endpoint)
  BY <1>1, ConfigAssumption, CopiedData
<1>3. d \in NodeData
  BY <1>1, ConfigAssumption, NodeCopiedType, DataAssumption
<1> HIDE DEF d
<1>4. /\ nodeData'[n] = d
      /\ \A m \in Nodes \ {n} : nodeData'[m] = nodeData[m]
      /\ linkData' = linkData
      /\ stateCache'[n] = MergeState(stateCache[n], NodeState(d))
      /\ \A r \in Resources \ {n} : stateCache'[r] = stateCache[r]
  BY DEF NodeUpdate, TypeOK, Cached, Resources, Children, d
<1>5. stateCache[n] \in StateLeaves \cup {NoData}
  BY DEF TypeOK, Resources, Children
<1>6. stateCache[n] # NoData => NamesUnique(stateCache[n].endpoint)
  BY DEF CacheInv, NodeShown
<1>7. NodeShown(stateCache'[n], nodeData'[n])
  BY <1>2, <1>3, <1>4, <1>5, <1>6, MergeShowsNode
<1>8. ASSUME NEW m \in Nodes
      PROVE  /\ nodeData'[m] # NoData =>
                  ReasonGiven(nodeData'[m]) /\ NamesUnique(nodeData'[m].endpoint)
             /\ NodeShown(stateCache'[m], nodeData'[m])
  BY <1>2, <1>4, <1>7 DEF CacheInv, DataInv, NodeHasData, Resources, Children
<1>9. ASSUME NEW l \in Links
      PROVE  stateCache'[l] = stateCache[l]
  BY <1>4, DataAssumption DEF Resources, Children
<1> QED
  BY <1>4, <1>8, <1>9 DEF CacheInv, DataInv, NodeHasData, LinkHasData

(***************************************************************************)
(* An accepted link writes both its nodes, after it added to their lists,  *)
(* and itself.                                                             *)
(***************************************************************************)
LEMMA LinkShows ==
  ASSUME TypeOK, TypeOK', CacheInv,
         NEW l \in Links, NEW c \in LinkConfigs, LinkUpdate(l, c)
  PROVE  CacheInv'
<1> DEFINE a == c.endpoints[1].node
           b == c.endpoints[2].node
           sa == NodeState(nodeData'[a])
           sb == NodeState(nodeData'[b])
           sl == LinkState(linkData'[l])
           atA  == Cached(stateCache, a, sa)
           atAB == Cached(atA, b, sb)
<1>1. c \in LinkConfig /\ Len(c.endpoints) >= 2 /\ topologyData \in TopologyData
  BY ConfigAssumption DEF LinkUpdate, TypeOK
<1>2. a \in Nodes /\ b \in Nodes
  <2>1. c.endpoints[1] \in LinkEndpoint /\ c.endpoints[2] \in LinkEndpoint
    BY <1>1 DEF LinkConfig
  <2> QED
    BY <2>1 DEF LinkEndpoint
<1>3. nodeData[a] # NoData /\ nodeData[b] # NoData
  <2>1. c.endpoints[1] \in Ends(c) /\ c.endpoints[2] \in Ends(c)
    BY <1>1 DEF Ends, LinkConfig
  <2> QED
    BY <2>1 DEF LinkUpdate
<1>4. AddsEndpoints(nodeData, nodeData')
  BY LinkUpdateAdds
<1>5. linkData'[l] = LinkCopied(c) /\ \A m \in Links \ {l} : linkData'[m] = linkData[m]
  BY DEF LinkUpdate, TypeOK
<1>6. linkData'[l] \in LinkData /\ ReasonGiven(linkData'[l])
  <2>1. ParentStatus \in Status
    BY <1>1 DEF ParentStatus, TopologyData
  <2>2. ReasonGiven(LinkCopied(c))
    BY <1>1, <2>1, CopiedData DEF LinkCopied, HandleLinkStatus
  <2> QED
    BY <1>1, <1>5, <2>2, LinkCopiedType, DataAssumption
<1>7. stateCache' = Cached(atAB, l, sl)
  BY DEF LinkUpdate
<1>8. ASSUME NEW n \in Nodes, nodeData'[n] # NoData
      PROVE  /\ nodeData[n] # NoData
             /\ nodeData'[n] \in NodeData
             /\ ReasonGiven(nodeData'[n])
             /\ NamesUnique(nodeData'[n].endpoint)
  <2>1. nodeData[n] # NoData /\ OnlyAddsEndpoints(nodeData[n], nodeData'[n])
    BY <1>4, <1>8 DEF AddsEndpoints
  <2>2. ReasonGiven(nodeData[n]) /\ NamesUnique(nodeData[n].endpoint)
    BY <2>1 DEF CacheInv, DataInv, NodeHasData
  <2> QED
    BY <2>1, <2>2 DEF OnlyAddsEndpoints, ReasonGiven
<1>9. nodeData'[a] # NoData /\ nodeData'[b] # NoData
  BY <1>2, <1>3, <1>4, DataAssumption DEF AddsEndpoints, OnlyAddsEndpoints
<1>10. a # l /\ b # l /\ l \notin Nodes /\ \A n \in Nodes : n # l
  BY <1>2, DataAssumption
<1>11. ASSUME NEW n \in Nodes
       PROVE  stateCache'[n] = IF n = b THEN MergeState(atA[b], sb)
                               ELSE IF n = a THEN MergeState(stateCache[a], sa)
                               ELSE stateCache[n]
  BY <1>2, <1>7, <1>10 DEF Cached, TypeOK, Resources, Children
<1>12. ASSUME NEW m \in Links
       PROVE  stateCache'[m] = IF m = l THEN MergeState(stateCache[l], sl)
                                        ELSE stateCache[m]
  <2>1. m # a /\ m # b /\ m \in Resources
    BY <1>2, DataAssumption DEF Resources, Children
  <2>2. atAB \in [Resources -> StateLeaves \cup {NoData}] /\ atAB[m] = stateCache[m]
    <3>1. stateCache \in [Resources -> StateLeaves \cup {NoData}]
      BY DEF TypeOK
    <3>2. atA \in [Resources -> StateLeaves \cup {NoData}] /\ atA[m] = stateCache[m]
      <4>1. sa \in StateLeaves /\ a \in Resources
        BY <1>2, <1>8, <1>9, StateType DEF Resources, Children
      <4>2. atA \in [Resources -> StateLeaves \cup {NoData}]
        BY <3>1, <4>1, CachedType
      <4> QED
        BY <2>1, <3>1, <4>2 DEF Cached
    <3>3. sb \in StateLeaves /\ b \in Resources
      BY <1>2, <1>8, <1>9, StateType DEF Resources, Children
    <3> HIDE DEF atA
    <3>4. atAB \in [Resources -> StateLeaves \cup {NoData}]
      BY <3>2, <3>3, CachedType
    <3> QED
      BY <2>1, <3>2, <3>4 DEF Cached
  <2> HIDE DEF atAB
  <2> QED
    BY <1>7, <2>1, <2>2 DEF Cached
<1>13. ASSUME NEW n \in Nodes
       PROVE  /\ stateCache[n] \in StateLeaves \cup {NoData}
              /\ NodeShown(stateCache[n], nodeData[n])
              /\ stateCache[n] # NoData => NamesUnique(stateCache[n].endpoint)
  BY DEF TypeOK, CacheInv, NodeShown, Resources, Children
<1>14. NodeShown(MergeState(stateCache[a], sa), nodeData'[a])
  BY <1>2, <1>8, <1>9, <1>13, MergeShowsNode
<1>15. /\ atA[b] \in StateLeaves \cup {NoData}
       /\ atA[b] # NoData => NamesUnique(atA[b].endpoint)
  <2>1. CASE a = b
    <3>1. atA[b] = MergeState(stateCache[a], sa)
      BY <1>2, <2>1 DEF Cached, TypeOK, Resources, Children
    <3>2. sa \in StateLeaves
      BY <1>2, <1>8, <1>9, StateType
    <3> QED
      BY <1>2, <1>13, <1>14, <3>1, <3>2, MergeType DEF NodeShown
  <2>2. CASE a # b
    <3>1. atA[b] = stateCache[b]
      BY <1>2, <2>2 DEF Cached, TypeOK, Resources, Children
    <3> QED
      BY <1>2, <1>13, <3>1
  <2> QED
    BY <2>1, <2>2
<1>16. NodeShown(MergeState(atA[b], sb), nodeData'[b])
  BY <1>2, <1>8, <1>9, <1>15, MergeShowsNode
<1>17. ASSUME NEW n \in Nodes
       PROVE  NodeShown(stateCache'[n], nodeData'[n])
  <2>1. CASE n = b
    BY <1>11, <1>16, <2>1
  <2>2. CASE n = a /\ n # b
    BY <1>11, <1>14, <2>2
  <2>3. CASE n # a /\ n # b
    <3>1. nodeData'[n] = nodeData[n]
      BY <1>2, <2>3 DEF LinkUpdate, ParseLink, SetBoth, TypeOK
    <3> QED
      BY <1>11, <1>13, <2>3, <3>1
  <2> QED
    BY <2>1, <2>2, <2>3
<1>18. LinkShown(stateCache'[l], linkData'[l])
  <2>1. stateCache[l] \in StateLeaves \cup {NoData}
    BY DEF TypeOK, Resources, Children
  <2> QED
    BY <1>6, <1>12, <2>1, MergeShowsLink
<1>19. ASSUME NEW m \in Links
       PROVE  /\ LinkShown(stateCache'[m], linkData'[m])
              /\ linkData'[m] # NoData => ReasonGiven(linkData'[m])
  BY <1>5, <1>6, <1>12, <1>18 DEF CacheInv, DataInv, LinkHasData
<1> QED
  BY <1>8, <1>17, <1>19 DEF CacheInv, DataInv, NodeHasData, LinkHasData

\* A refused link has data that says so, and is not written.
LEMMA RefusedShows ==
  ASSUME TypeOK, CacheInv, NEW l \in Links, NEW c \in LinkConfigs, LinkRefused(l, c)
  PROVE  CacheInv'
<1> DEFINE d == SetStatus(LinkCopied(c), "down", "endpoint node not found")
<1>1. LinkCopied(c) \in LinkData
  BY ConfigAssumption, LinkCopiedType DEF LinkRefused
<1>2. d.reason = "endpoint node not found" /\ ReasonGiven(d)
  BY <1>1 DEF SetStatus, LinkData, ReasonGiven, Nil
<1>3. d # NoData
  BY ConfigAssumption, LinkCopiedType, DataAssumption DEF LinkRefused
<1>4. /\ linkData'[l] = d
      /\ \A m \in Links \ {l} : linkData'[m] = linkData[m]
      /\ nodeData' = nodeData
      /\ stateCache' = stateCache
  BY DEF LinkRefused, TypeOK
<1> HIDE DEF d
<1>5. ASSUME NEW m \in Links
      PROVE  /\ LinkShown(stateCache'[m], linkData'[m])
             /\ linkData'[m] # NoData => ReasonGiven(linkData'[m])
  BY <1>2, <1>3, <1>4 DEF CacheInv, DataInv, LinkHasData, LinkShown
<1> QED
  BY <1>4, <1>5 DEF CacheInv, DataInv, NodeHasData, LinkHasData

\* A delete only takes entries out of the state cache.
LEMMA DeleteShows ==
  ASSUME TypeOK, CacheInv,
         nodeData' = nodeData, linkData' = linkData,
         \A r \in Children : stateCache'[r] \in {stateCache[r], NoData}
  PROVE  CacheInv'
BY NothingShown DEF CacheInv, DataInv, NodeHasData, LinkHasData, Children

LEMMA CacheStep == TypeOK /\ TypeOK' /\ StatusInv /\ CacheInv /\ [Next]_vars => CacheInv'
<1> SUFFICES ASSUME TypeOK, TypeOK', StatusInv, CacheInv, [Next]_vars
             PROVE  CacheInv'
  OBVIOUS
<1>1. ASSUME NEW c \in TopologyConfigs, NEW kids \in SUBSET Children, TopologyUpdate(c, kids)
      PROVE  CacheInv'
  BY <1>1, TopologyShows
<1>2. ASSUME NEW n \in Nodes, NEW c \in NodeConfigs, NodeUpdate(n, c)
      PROVE  CacheInv'
  BY <1>2, NodeShows
<1>3. ASSUME NEW l \in Links, NEW c \in LinkConfigs, LinkUpdate(l, c)
      PROVE  CacheInv'
  BY <1>3, LinkShows
<1>4. ASSUME NEW l \in Links, NEW c \in LinkConfigs, LinkRefused(l, c)
      PROVE  CacheInv'
  BY <1>4, RefusedShows
<1>5. ASSUME NEW r \in Resources, UpdateWithoutData(r)
      PROVE  CacheInv'
  BY <1>5 DEF UpdateWithoutData, CacheInv, DataInv, NodeHasData, LinkHasData
<1>6. ASSUME NEW r \in Children, ChildDelete(r)
      PROVE  CacheInv'
  BY <1>6, DeleteShows DEF ChildDelete, TypeOK, Resources
<1>7. CASE TopologyDelete
  BY <1>7, DeleteShows DEF TopologyDelete, Resources
<1>8. CASE Panic
  <2>1. /\ \A n \in Nodes : nodeData'[n] = NoData /\ stateCache'[n] = NoData
        /\ \A l \in Links : linkData'[l] = NoData /\ stateCache'[l] = NoData
    BY <1>8 DEF Panic, Die, Resources, Children
  <2> QED
    BY <2>1, NothingShown DEF CacheInv, DataInv, NodeHasData, LinkHasData
<1>9. CASE Restart
  BY <1>9 DEF Restart, CacheInv, DataInv, NodeHasData, LinkHasData
<1>10. CASE UNCHANGED vars
  BY <1>10 DEF vars, CacheInv, DataInv, NodeHasData, LinkHasData
<1> QED
  BY <1>1, <1>2, <1>3, <1>4, <1>5, <1>6, <1>7, <1>8, <1>9, <1>10 DEF Next

\* The strengthened invariant.
THEOREM CacheCorrect == Spec => []CacheInv
<1>1. Init => CacheInv
  <2>1. ASSUME Init
        PROVE  /\ \A n \in Nodes : nodeData[n] = NoData /\ stateCache[n] = NoData
               /\ \A l \in Links : linkData[l] = NoData /\ stateCache[l] = NoData
    BY <2>1 DEF Init, Resources, Children
  <2> QED
    BY <2>1, NothingShown DEF CacheInv, DataInv, NodeHasData, LinkHasData
<1> QED
  BY <1>1, TypeCorrect, StatusCorrect, CacheStep, PTL DEF Spec

(***************************************************************************)
(* Whatever the order of the events, the state cache shows of every node   *)
(* and accepted link the status, reason and endpoints its handler holds    *)
(* (the UpdateStateCache calls of node.go, link.go and topology.go).       *)
(***************************************************************************)
THEOREM StateCacheCorrect == Spec => []StateCacheFollowsData
<1>1. CacheInv => StateCacheFollowsData
  BY DEF CacheInv, NodeShown, LinkShown, NodeHasData, LinkHasData, StateCacheFollowsData
<1> QED
  BY <1>1, CacheCorrect, PTL

(***************************************************************************)
(* However many links name an interface or lag of a node, the node lists   *)
(* it once, in its handler and in the state cache (SetEndpoint).           *)
(***************************************************************************)
THEOREM EndpointsCorrect == Spec => []EndpointNamesUnique
<1>1. CacheInv => EndpointNamesUnique
  BY DEF CacheInv, DataInv, NodeShown, NodeHasData, EndpointNamesUnique
<1> QED
  BY <1>1, CacheCorrect, PTL
-----------------------------------------------------------------------------
(***************************************************************************)
(* The steps of the state cache: what it has of a node stays in it, and a  *)
(* link's endpoints come into it.                                          *)
(***************************************************************************)
\* The merge keeps the names of what is there and takes over the new ones.
LEMMA MergeKeepsNames ==
  ASSUME NEW s, NEW new
  PROVE  /\ s # NoData => EndpointNames(s) \subseteq EndpointNames(MergeState(s, new))
         /\ EndpointNames(new) \subseteq EndpointNames(MergeState(s, new))
BY DEF EndpointNames, MergeState, MergeEndpoints

EndpointsKept ==
  \A n \in Nodes :
    stateCache[n] # NoData /\ stateCache'[n] # NoData =>
      EndpointNames(stateCache[n]) \subseteq EndpointNames(stateCache'[n])

\* Notified or not, a node in the cache is merged with or left alone.
LEMMA TopologyKeepsEndpoints ==
  ASSUME TypeOK,
         NEW c \in TopologyConfigs, NEW kids \in SUBSET Children, TopologyUpdate(c, kids)
  PROVE  EndpointsKept
<1> DEFINE d == HandleTopologyStatus(CopyTopology(c))
           cache == CachedObservers(stateCache, d.status, nodeData', linkData')
<1>1. d.status \in Status
  BY ConfigAssumption, TopologyCopiedType DEF TopologyData
<1> HIDE DEF d
<1>2. /\ nodeData' = Notified(nodeData, d.status)
      /\ stateCache' = CachedTopology(cache, d, kids)
      /\ d.status # Nil => \A n \in Observers \cap Nodes : nodeData[n] # NoData
  BY DEF TopologyUpdate, d
<1> SUFFICES ASSUME NEW n \in Nodes, stateCache[n] # NoData
             PROVE  EndpointNames(stateCache[n]) \subseteq EndpointNames(stateCache'[n])
  BY DEF EndpointsKept
<1>3. stateCache[n] \in StateLeaves
  BY DEF TypeOK, Resources, Children
<1>4. cache[n] \in StateLeaves
        /\ EndpointNames(stateCache[n]) \subseteq EndpointNames(cache[n])
  <2>1. CASE d.status # Nil /\ n \in handlers
    <3>1. n \in Observers \cap Nodes
      BY <2>1 DEF Observers, Children
    <3>2. nodeData[n] \in NodeData
      BY <1>2, <2>1, <3>1 DEF TypeOK
    <3>3. nodeData'[n] = HandleStatus(nodeData[n], d.status)
      BY <1>2, <2>1, <3>1 DEF Notified, TypeOK
    <3>4. NodeState(nodeData'[n]) \in StateLeaves
      BY <1>1, <3>2, <3>3, NodeStatusType, StateType
    <3>5. cache[n] = MergeState(stateCache[n], NodeState(nodeData'[n]))
      BY <2>1, <3>1 DEF CachedObservers, Resources, Children
    <3> QED
      BY <1>3, <3>4, <3>5, MergeType, MergeKeepsNames
  <2>2. CASE d.status = Nil \/ n \notin handlers
    BY <1>3, <2>2 DEF CachedObservers, Observers, Resources, Children
  <2> QED
    BY <2>1, <2>2
<1>5. cache[n] # NoData
  BY <1>4, DataAssumption
<1>6. stateCache'[n] = cache[n]
  BY <1>2, <1>5, DataAssumption DEF CachedTopology, Cached, CachedObservers, Resources,
     Children, Topology
<1> QED
  BY <1>4, <1>6

\* An accepted link writes its nodes, the second after the first.
LEMMA LinkWritesNodes ==
  ASSUME TypeOK, NEW l \in Links, NEW c \in LinkConfigs, LinkUpdate(l, c),
         NEW n \in Nodes
  PROVE  \/ /\ n \notin {le.node : le \in Ends(c)}
            /\ stateCache'[n] = stateCache[n]
         \/ /\ stateCache'[n] \in StateLeaves
            /\ stateCache[n] # NoData =>
                 EndpointNames(stateCache[n]) \subseteq EndpointNames(stateCache'[n])
            /\ EndpointNames(nodeData'[n]) \subseteq EndpointNames(stateCache'[n])
<1> DEFINE a == c.endpoints[1].node
           b == c.endpoints[2].node
           sa == NodeState(nodeData'[a])
           sb == NodeState(nodeData'[b])
           one == Cached(stateCache, a, sa)
           two == Cached(one, b, sb)
<1>1. c \in LinkConfig /\ Len(c.endpoints) >= 2
  BY ConfigAssumption DEF LinkUpdate
<1>2. a \in Nodes /\ b \in Nodes
  <2>1. c.endpoints[1] \in LinkEndpoint /\ c.endpoints[2] \in LinkEndpoint
    BY <1>1 DEF LinkConfig
  <2> QED
    BY <2>1 DEF LinkEndpoint
<1>3. {le.node : le \in Ends(c)} = {a, b}
  BY <1>1 DEF Ends, LinkConfig
<1>4. nodeData[a] # NoData /\ nodeData[b] # NoData
  BY <1>3 DEF LinkUpdate
<1>5. nodeData'[a] \in NodeData /\ nodeData'[b] \in NodeData
  BY <1>2, <1>4, LinkUpdateAdds DEF AddsEndpoints, OnlyAddsEndpoints
<1>6. sa \in StateLeaves /\ sb \in StateLeaves
  BY <1>5, StateType
<1>7. /\ EndpointNames(sa) = EndpointNames(nodeData'[a])
      /\ EndpointNames(sb) = EndpointNames(nodeData'[b])
  BY DEF EndpointNames, NodeState
<1>8. stateCache' = Cached(two, l, LinkState(linkData'[l]))
  BY DEF LinkUpdate
<1>9. n # l /\ n \in Resources /\ a \in Resources /\ b \in Resources
  BY <1>2, DataAssumption DEF Resources, Children
<1>10. stateCache \in [Resources -> StateLeaves \cup {NoData}]
  BY DEF TypeOK
<1> HIDE DEF sa, sb
<1>11. one \in [Resources -> StateLeaves \cup {NoData}]
  BY <1>6, <1>9, <1>10, CachedType
<1>12. one[n] = IF n = a THEN MergeState(stateCache[n], sa) ELSE stateCache[n]
  BY <1>9, <1>10 DEF Cached
<1> HIDE DEF one
<1>13. two[n] = IF n = b THEN MergeState(one[n], sb) ELSE one[n]
  BY <1>9, <1>11 DEF Cached
<1>14. stateCache'[n] = two[n]
  BY <1>8, <1>9, <1>11 DEF Cached
<1> HIDE DEF two
<1>15. CASE n # a /\ n # b
  BY <1>3, <1>12, <1>13, <1>14, <1>15
<1>16. CASE n = a /\ n # b
  <2>1. stateCache'[n] = MergeState(stateCache[n], sa)
    BY <1>12, <1>13, <1>14, <1>16
  <2> QED
    BY <1>6, <1>7, <1>9, <1>10, <1>16, <2>1, MergeType, MergeKeepsNames
<1>17. CASE n = b
  <2>1. stateCache'[n] = MergeState(one[n], sb)
    BY <1>13, <1>14, <1>17
  <2>2. stateCache[n] # NoData =>
          one[n] # NoData /\ EndpointNames(stateCache[n]) \subseteq EndpointNames(one[n])
    <3>1. CASE n = a
      <4>1. one[n] = MergeState(stateCache[n], sa)
        BY <1>12, <3>1
      <4>2. one[n] \in StateLeaves
        BY <1>6, <1>9, <1>10, <4>1, MergeType
      <4> QED
        BY <4>1, <4>2, MergeKeepsNames, DataAssumption
    <3>2. CASE n # a
      BY <1>12, <3>2
    <3> QED
      BY <3>1, <3>2
  <2>3. stateCache'[n] \in StateLeaves
    BY <1>6, <1>9, <1>11, <2>1, MergeType
  <2>4. EndpointNames(sb) \subseteq EndpointNames(stateCache'[n])
    BY <2>1, MergeKeepsNames
  <2>5. stateCache[n] # NoData => EndpointNames(stateCache[n]) \subseteq EndpointNames(stateCache'[n])
    BY <2>1, <2>2, MergeKeepsNames
  <2> QED
    BY <1>7, <1>17, <2>3, <2>4, <2>5
<1> QED
  BY <1>15, <1>16, <1>17

LEMMA KeepStep == TypeOK /\ [Next]_vars => EndpointsKept
<1> SUFFICES ASSUME TypeOK, [Next]_vars
             PROVE  EndpointsKept
  OBVIOUS
<1>1. ASSUME NEW c \in TopologyConfigs, NEW kids \in SUBSET Children, TopologyUpdate(c, kids)
      PROVE  EndpointsKept
  BY <1>1, TopologyKeepsEndpoints
<1>2. ASSUME NEW n \in Nodes, NEW c \in NodeConfigs, NodeUpdate(n, c)
      PROVE  EndpointsKept
  <2>1. /\ stateCache'[n] = MergeState(stateCache[n], NodeState(nodeData'[n]))
        /\ \A m \in Nodes \ {n} : stateCache'[m] = stateCache[m]
    BY <1>2 DEF NodeUpdate, TypeOK, Cached, Resources, Children
  <2> QED
    BY <2>1, MergeKeepsNames DEF EndpointsKept
<1>3. ASSUME NEW l \in Links, NEW c \in LinkConfigs, LinkUpdate(l, c)
      PROVE  EndpointsKept
  BY <1>3, LinkWritesNodes DEF EndpointsKept
<1>4. ASSUME NEW l \in Links, NEW c \in LinkConfigs, LinkRefused(l, c)
      PROVE  EndpointsKept
  BY <1>4 DEF LinkRefused, EndpointsKept
<1>5. ASSUME NEW r \in Resources, UpdateWithoutData(r)
      PROVE  EndpointsKept
  BY <1>5 DEF UpdateWithoutData, EndpointsKept
<1>6. ASSUME NEW r \in Children, ChildDelete(r)
      PROVE  EndpointsKept
  BY <1>6 DEF ChildDelete, EndpointsKept, TypeOK, Resources, Children
<1>7. CASE TopologyDelete
  BY <1>7 DEF TopologyDelete, EndpointsKept, Resources, Children
<1>8. CASE Panic
  BY <1>8 DEF Panic, Die, EndpointsKept, Resources, Children
<1>9. CASE Restart
  BY <1>9 DEF Restart, EndpointsKept
<1>10. CASE UNCHANGED vars
  BY <1>10 DEF vars, EndpointsKept
<1> QED
  BY <1>1, <1>2, <1>3, <1>4, <1>5, <1>6, <1>7, <1>8, <1>9, <1>10 DEF Next

(***************************************************************************)
(* No event takes an endpoint of a node out of the state cache without the *)
(* node: what refers to an interface finds it as long as the node is there *)
(* (node.Copy empties the list, GnmiUpdate merges what it is given).       *)
(***************************************************************************)
THEOREM EndpointsStayCorrect == Spec => EndpointsStay
<1>1. TypeOK /\ [Next]_vars =>
        [\A n \in Nodes :
           stateCache[n] # NoData /\ stateCache'[n] # NoData =>
             EndpointNames(stateCache[n]) \subseteq EndpointNames(stateCache'[n])]_vars
  BY KeepStep DEF EndpointsKept
<1> QED
  BY <1>1, TypeCorrect, PTL DEF Spec, EndpointsStay

-----------------------------------------------------------------------------
\* A name that is set is there, and stays when others are set.
LEMMA SetEndpointHas ==
  ASSUME NEW d \in NodeData, NEW e \in Endpoint
  PROVE  HasEndpoint(SetEndpoint(d, e), e.name)
<1>1. CASE HasEndpoint(d, e.name)
  BY <1>1 DEF SetEndpoint
<1>2. CASE ~HasEndpoint(d, e.name)
  <2>1. SetEndpoint(d, e).endpoint = d.endpoint \cup {e}
    BY <1>2 DEF SetEndpoint, NodeData
  <2> QED
    BY <2>1 DEF HasEndpoint
<1> QED
  BY <1>1, <1>2

LEMMA AddsKeepsNames ==
  ASSUME NEW f \in NodeDatas, NEW g, AddsEndpoints(f, g),
         NEW n \in Nodes, f[n] # NoData, NEW name, HasEndpoint(f[n], name)
  PROVE  HasEndpoint(g[n], name)
BY DEF AddsEndpoints, OnlyAddsEndpoints, HasEndpoint

LEMMA SetBothHas ==
  ASSUME NEW f \in NodeDatas, NEW a \in Nodes, NEW b \in Nodes,
         f[a] # NoData, f[b] # NoData, NEW ea \in Endpoint, NEW eb \in Endpoint
  PROVE  /\ HasEndpoint(SetBoth(f, a, ea, b, eb)[a], ea.name)
         /\ HasEndpoint(SetBoth(f, a, ea, b, eb)[b], eb.name)
<1> DEFINE g == [f EXCEPT ![a] = SetEndpoint(@, ea)]
           h == [g EXCEPT ![b] = SetEndpoint(@, eb)]
<1>1. AddsEndpoints(f, g)
  BY SetOneAdds
<1>2. g \in NodeDatas /\ g[a] \in NodeData /\ g[b] \in NodeData
  BY <1>1 DEF AddsEndpoints, OnlyAddsEndpoints
<1>3. HasEndpoint(g[a], ea.name)
  <2>1. g[a] = SetEndpoint(f[a], ea)
    BY DEF NodeDatas
  <2> QED
    BY <2>1, NodeDataOrNil, SetEndpointHas
<1> HIDE DEF g
<1>4. g[a] # NoData /\ g[b] # NoData
  BY <1>2, DataAssumption
<1>5. AddsEndpoints(g, h)
  BY <1>2, <1>4, SetOneAdds
<1>6. HasEndpoint(h[b], eb.name)
  <2>1. h[b] = SetEndpoint(g[b], eb)
    BY <1>2 DEF NodeDatas
  <2> QED
    BY <1>2, <2>1, SetEndpointHas
<1>7. HasEndpoint(h[a], ea.name)
  BY <1>2, <1>3, <1>4, <1>5, AddsKeepsNames
<1> QED
  BY <1>6, <1>7 DEF SetBoth, g

(***************************************************************************)
(* parseLink leaves both nodes with the interface, and a lag link with the *)
(* lag, whichever of the two was there before.                             *)
(***************************************************************************)
LEMMA ParseLinkHas ==
  ASSUME NEW f \in NodeDatas, NEW c \in LinkConfig, Len(c.endpoints) >= 2,
         \A le \in Ends(c) : f[le.node] # NoData
  PROVE  \A le \in Ends(c) :
           /\ HasEndpoint(ParseLink(f, c)[le.node], le.interface)
           /\ c.lag => HasEndpoint(ParseLink(f, c)[le.node], le.lagName)
<1> DEFINE a == c.endpoints[1]
           b == c.endpoints[2]
           found == HasEndpoint(f[a.node], a.lagName) /\ HasEndpoint(f[b.node], b.lagName)
           g == IF found \/ ~c.lag THEN f
                ELSE SetBoth(f, a.node, LogicalLag(a), b.node, LogicalLag(b))
           Made(le) == IF c.lag THEN LagSubLink(le) ELSE PlainLink(le)
           h == SetBoth(g, a.node, Made(a), b.node, Made(b))
<1>1. a \in LinkEndpoint /\ b \in LinkEndpoint /\ Ends(c) = {a, b}
  BY DEF LinkConfig, Ends
<1>2. a.node \in Nodes /\ b.node \in Nodes
  BY <1>1 DEF LinkEndpoint
<1>3. f[a.node] # NoData /\ f[b.node] # NoData
  BY <1>1
<1>4. /\ LogicalLag(a) \in Endpoint /\ LogicalLag(b) \in Endpoint
      /\ Made(a) \in Endpoint /\ Made(b) \in Endpoint
  BY <1>1, EntryType
<1>5. /\ LogicalLag(a).name = a.lagName /\ LogicalLag(b).name = b.lagName
      /\ Made(a).name = a.interface /\ Made(b).name = b.interface
  BY DEF LogicalLag, LagSubLink, PlainLink
<1>6. AddsEndpoints(f, f)
  BY NodeDataOrNil DEF AddsEndpoints, OnlyAddsEndpoints
<1>7. AddsEndpoints(f, g)
  BY <1>2, <1>3, <1>4, <1>6, SetBothAdds
<1>8. g \in NodeDatas /\ g[a.node] # NoData /\ g[b.node] # NoData
  BY <1>2, <1>3, <1>7, NodeDataOrNil DEF AddsEndpoints, OnlyAddsEndpoints
<1>9. c.lag => HasEndpoint(g[a.node], a.lagName) /\ HasEndpoint(g[b.node], b.lagName)
  <2>1. CASE c.lag /\ ~found
    <3>1. g = SetBoth(f, a.node, LogicalLag(a), b.node, LogicalLag(b))
      BY <2>1
    <3> HIDE DEF a, b, g
    <3> QED
      BY <1>2, <1>3, <1>4, <1>5, <3>1, SetBothHas
  <2>2. CASE c.lag /\ found
    BY <2>2
  <2> QED
    BY <2>1, <2>2
<1>10. ParseLink(f, c) = h
  BY DEF ParseLink
<1> HIDE DEF a, b, g, Made
<1>11. AddsEndpoints(g, h)
  BY <1>2, <1>4, <1>8, SetBothAdds
<1>12. HasEndpoint(h[a.node], a.interface) /\ HasEndpoint(h[b.node], b.interface)
  BY <1>2, <1>4, <1>5, <1>8, SetBothHas
<1> HIDE DEF h
<1>13. c.lag => HasEndpoint(h[a.node], a.lagName) /\ HasEndpoint(h[b.node], b.lagName)
  BY <1>2, <1>8, <1>9, <1>11, AddsKeepsNames
<1> QED
  BY <1>1, <1>10, <1>12, <1>13

LEMMA AcceptedStep ==
  ASSUME TypeOK, NEW l \in Links, NEW c \in LinkConfigs, LinkUpdate(l, c), NEW le \in Ends(c)
  PROVE  /\ Reports(le.node, le.interface)'
         /\ c.lag => Reports(le.node, le.lagName)'
<1>1. c \in LinkConfig /\ Len(c.endpoints) >= 2 /\ nodeData \in NodeDatas
  BY ConfigAssumption DEF LinkUpdate, TypeOK, NodeDatas
<1>2. le.node \in Nodes
  <2>1. PICK i \in {1, 2} : i \in DOMAIN c.endpoints /\ le = c.endpoints[i]
    BY DEF Ends
  <2>2. le \in LinkEndpoint
    BY <1>1, <2>1 DEF LinkConfig
  <2> QED
    BY <2>2 DEF LinkEndpoint
<1>3. nodeData' = ParseLink(nodeData, c) /\ \A e \in Ends(c) : nodeData[e.node] # NoData
  BY DEF LinkUpdate
<1>4. /\ HasEndpoint(nodeData'[le.node], le.interface)
      /\ c.lag => HasEndpoint(nodeData'[le.node], le.lagName)
  BY <1>1, <1>3, ParseLinkHas
<1>5. /\ stateCache'[le.node] \in StateLeaves
      /\ EndpointNames(nodeData'[le.node]) \subseteq EndpointNames(stateCache'[le.node])
  BY <1>2, LinkWritesNodes
<1>6. stateCache'[le.node] # NoData
  BY <1>5, DataAssumption
<1>7. ASSUME NEW name, HasEndpoint(nodeData'[le.node], name)
      PROVE  name \in EndpointNames(stateCache'[le.node])
  BY <1>5, <1>7 DEF HasEndpoint, EndpointNames
<1> QED
  BY <1>4, <1>6, <1>7 DEF Reports, EndpointNames

(***************************************************************************)
(* However its lags came about, an accepted link is seen in the state of   *)
(* both its nodes (link.parseLink, node.SetData).                          *)
(***************************************************************************)
THEOREM AcceptedLinkCorrect == Spec => AcceptedLinkIsReported
<1>1. TypeOK /\ [Next]_vars =>
        [\A l \in Links, c \in LinkConfigs :
           LinkUpdate(l, c) =>
             \A le \in Ends(c) :
               /\ Reports(le.node, le.interface)'
               /\ c.lag => Reports(le.node, le.lagName)']_vars
  BY AcceptedStep
<1> QED
  BY <1>1, TypeCorrect, PTL DEF Spec, AcceptedLinkIsReported

=============================================================================
