------------------------------ MODULE AppLogic ------------------------------
(***************************************************************************)
(* The application logic of one topology: the handlers of internal/        *)
(* applogic for the topology and for its nodes and links, and the state    *)
(* cache they report to.  One call of root.HandleConfigEvent is one step.  *)
(*                                                                         *)
(* The configuration that comes with a call is any the constants allow;    *)
(* GnmiSet composes this module with the server that makes the calls.      *)
(***************************************************************************)
EXTENDS TopoData

CONSTANTS TopologyConfigs, NodeConfigs, LinkConfigs  \* what clients configure

ASSUME ConfigAssumption ==
  /\ TopologyConfigs \subseteq TopologyConfig
  /\ NodeConfigs \subseteq NodeConfig
  /\ LinkConfigs \subseteq LinkConfig

Topology  == "topology"
Children  == Nodes \cup Links
Resources == Children \cup {Topology}

VARIABLES
  alive,         \* FALSE between a panic and the restart of the process
  handlers,      \* resources that have a handler in topologies, nodes, links
  topologyData,  \* topology.data
  nodeData,      \* node.data of every node
  linkData,      \* link.data of every link
  stateCache     \* the state containers in the state cache

vars == <<alive, handlers, topologyData, nodeData, linkData, stateCache>>

Init ==
  /\ alive = TRUE
  /\ handlers = {}
  /\ topologyData = NoData
  /\ nodeData = [n \in Nodes |-> NoData]
  /\ linkData = [l \in Links |-> NoData]
  /\ stateCache = [r \in Resources |-> NoData]

-----------------------------------------------------------------------------
(***************************************************************************)
(* root.CreateChild and topology.CreateChild: an event for a child makes   *)
(* the topology's handler too.  A new child registers as an observer of    *)
(* the topology and is never removed, neither from the maps nor from the   *)
(* observer list, so the observers are the children with a handler.        *)
(***************************************************************************)
CreateChild(r) == handlers' = handlers \cup {Topology, r}

\* Fault: link.SetParent forgets to register.
OnlyNodesRegister == handlers \cap Nodes

Observers == handlers \cap Children

\* topologyData.GetStatus(); a nil topologyData panics, see Panics below.
ParentStatus == topologyData.status

\* Fault: only a topology that goes down notifies.
NotifiedDown(f, status) ==
  [c \in DOMAIN f |->
     IF c \in Observers /\ status = "down" THEN HandleStatus(f[c], status) ELSE f[c]]

\* handleTopologyUpdate of every observer, for the status the topology takes.
Notified(f, status) ==
  [c \in DOMAIN f |->
     IF c \in Observers /\ status # Nil THEN HandleStatus(f[c], status) ELSE f[c]]

\* Fault: the entry is deleted before it is written.
CachedAfterDelete(cache, r, s) == [cache EXCEPT ![r] = MergeState(NoData, s)]

\* GnmiUpdate of the state cache, one resource, or the observers.
Cached(cache, r, s) == [cache EXCEPT ![r] = MergeState(@, s)]

\* Fault: handleTopologyUpdate does not write the state cache.
UncachedObservers(cache, status, nodeState, linkState) == cache

CachedObservers(cache, status, nodeState, linkState) ==
  [r \in Resources |->
     CASE status = Nil -> cache[r]
       [] status # Nil /\ r \in Observers \cap Nodes ->
            MergeState(cache[r], NodeState(nodeState[r]))
       [] status # Nil /\ r \in Observers \ Nodes ->
            MergeState(cache[r], LinkState(linkState[r]))
       [] OTHER -> cache[r]]

(***************************************************************************)
(* topology.UpdateStateCache writes the whole topology of the              *)
(* configuration cache, and with it the configuration of its nodes and     *)
(* links: they appear in the state cache, without state.                   *)
(***************************************************************************)
CachedTopology(cache, d, kids) ==
  Cached([r \in Resources |->
            IF r \in kids /\ cache[r] = NoData THEN EmptyState ELSE cache[r]],
         Topology, TopologyState(d))

-----------------------------------------------------------------------------
(***************************************************************************)
(* Update of a resource whose configuration is gone by the time it is      *)
(* read back (d = nil): a handler is made and gets no data.                *)
(***************************************************************************)
UpdateWithoutData(r) ==
  /\ alive
  /\ CreateChild(r)
  /\ UNCHANGED <<alive, topologyData, nodeData, linkData, stateCache>>

\* Update of the topology; kids are its nodes and links configured by then.
TopologyUpdate(c, kids) ==
  LET d == HandleTopologyStatus(CopyTopology(c))
  IN  /\ alive
      /\ d.status # Nil =>
           /\ \A n \in Observers \cap Nodes : nodeData[n] # NoData
           /\ \A l \in Observers \cap Links : linkData[l] # NoData
      /\ CreateChild(Topology)
      /\ topologyData' = d
      /\ nodeData' = Notified(nodeData, d.status)
      /\ linkData' = Notified(linkData, d.status)
      /\ stateCache' =
           CachedTopology(CachedObservers(stateCache, d.status, nodeData', linkData'),
                          d, kids)
      /\ UNCHANGED alive

\* Update of a node.
NodeUpdate(n, c) ==
  /\ alive
  /\ topologyData # NoData
  /\ CreateChild(n)
  /\ nodeData' = [nodeData EXCEPT ![n] =
                    SetPlatform(HandleStatus(CopyNode(c), ParentStatus), topologyData)]
  /\ stateCache' = Cached(stateCache, n, NodeState(nodeData'[n]))
  /\ UNCHANGED <<alive, topologyData, linkData>>

-----------------------------------------------------------------------------
\* The two sides of a link; a configuration may have fewer, and panics then.
Ends(c) == {c.endpoints[i] : i \in {1, 2} \cap DOMAIN c.endpoints}

\* The handlers of a link's nodes are looked up in topology.nodes.
Known(le) == le.node \in handlers

\* node.SetData for both sides of a link, A first.
SetBoth(f, a, ea, b, eb) ==
  LET g == [f EXCEPT ![a] = SetEndpoint(@, ea)]
  IN  [g EXCEPT ![b] = SetEndpoint(@, eb)]

\* Fault: one of the two logical lag endpoints is enough to be found.
ParseLinkOneFound(f, c) ==
  LET a == c.endpoints[1]
      b == c.endpoints[2]
      found == HasEndpoint(f[a.node], a.lagName) \/ HasEndpoint(f[b.node], b.lagName)
      g == IF found \/ ~c.lag THEN f
           ELSE SetBoth(f, a.node, LogicalLag(a), b.node, LogicalLag(b))
      Made(le) == IF c.lag THEN LagSubLink(le) ELSE PlainLink(le)
  IN  SetBoth(g, a.node, Made(a), b.node, Made(b))

(***************************************************************************)
(* link.parseLink, past the look-up of the nodes: a lag link makes the     *)
(* logical lag endpoints, unless both exist already, and its two sub       *)
(* links; any other link makes its two interfaces.                         *)
(***************************************************************************)
ParseLink(f, c) ==
  LET a == c.endpoints[1]
      b == c.endpoints[2]
      found == HasEndpoint(f[a.node], a.lagName) /\ HasEndpoint(f[b.node], b.lagName)
      g == IF found \/ ~c.lag THEN f
           ELSE SetBoth(f, a.node, LogicalLag(a), b.node, LogicalLag(b))
      Made(le) == IF c.lag THEN LagSubLink(le) ELSE PlainLink(le)
  IN  SetBoth(g, a.node, Made(a), b.node, Made(b))

\* link.UpdateConfig before parseLink.
LinkCopied(c) == HandleLinkStatus(CopyLink(c), ParentStatus)

(***************************************************************************)
(* Update of a link whose nodes are both known.  Every SetData writes its  *)
(* node to the state cache; the endpoint list only grows meanwhile, so the *)
(* last write is the one that counts.                                      *)
(***************************************************************************)
LinkUpdate(l, c) ==
  /\ alive
  /\ topologyData # NoData
  /\ Len(c.endpoints) >= 2
  /\ \A le \in Ends(c) : Known(le) /\ nodeData[le.node] # NoData
  /\ CreateChild(l)
  /\ linkData' = [linkData EXCEPT ![l] = LinkCopied(c)]
  /\ nodeData' = ParseLink(nodeData, c)
  /\ stateCache' =
       LET atA  == Cached(stateCache, c.endpoints[1].node,
                          NodeState(nodeData'[c.endpoints[1].node]))
           atAB == Cached(atA, c.endpoints[2].node,
                          NodeState(nodeData'[c.endpoints[2].node]))
       IN  Cached(atAB, l, LinkState(linkData'[l]))
  /\ UNCHANGED <<alive, topologyData>>

\* parseLink gives up at the first side whose node it does not find.
NodeMissing(c) == \E le \in Ends(c) : ~Known(le)

(***************************************************************************)
(* Update of a link one of whose nodes is unknown: the event fails, after  *)
(* the handler was made and its data set, before the state cache is        *)
(* written.                                                                *)
(***************************************************************************)
LinkRefused(l, c) ==
  /\ alive
  /\ topologyData # NoData
  /\ NodeMissing(c)
  /\ CreateChild(l)
  /\ linkData' = [linkData EXCEPT ![l] =
                    SetStatus(LinkCopied(c), "down", "endpoint node not found")]
  /\ UNCHANGED <<alive, topologyData, nodeData, stateCache>>

-----------------------------------------------------------------------------
(***************************************************************************)
(* Delete of a resource takes its state container out of the state cache,  *)
(* and with a topology those of its children, if it has a handler.  The    *)
(* handler and its data stay.  A delete of a child passes through the      *)
(* topology's handler and creates it.                                      *)
(***************************************************************************)
ChildDelete(r) ==
  /\ alive
  /\ CreateChild(Topology)
  /\ stateCache' = IF r \in handlers THEN [stateCache EXCEPT ![r] = NoData]
                                     ELSE stateCache
  /\ UNCHANGED <<alive, topologyData, nodeData, linkData>>

TopologyDelete ==
  /\ alive
  /\ stateCache' = IF Topology \in handlers THEN [r \in Resources |-> NoData]
                                            ELSE stateCache
  /\ UNCHANGED <<alive, handlers, topologyData, nodeData, linkData>>

-----------------------------------------------------------------------------
(***************************************************************************)
(* What makes a handler dereference nil or index past the end: a child     *)
(* event before the topology has data, an observer without data when the   *)
(* topology takes a status, a link with fewer than two endpoints, a link   *)
(* to a node without data.  Nothing recovers; the process dies.            *)
(***************************************************************************)
TopologyPanics(c) ==
  /\ HandleTopologyStatus(CopyTopology(c)).status # Nil
  /\ \/ \E n \in Observers \cap Nodes : nodeData[n] = NoData
     \/ \E l \in Observers \cap Links : linkData[l] = NoData

NodePanics(c) == topologyData = NoData

LinkPanics(c) ==
  \/ topologyData = NoData
  \/ /\ ~NodeMissing(c)
     /\ \/ Len(c.endpoints) < 2
        \/ \E le \in Ends(c) : nodeData[le.node] = NoData

\* The process dies, its memory with it; nothing restores the caches
\* (GetInitialState), so the next process starts from nothing.
Die ==
  /\ alive
  /\ alive' = FALSE
  /\ handlers' = {}
  /\ topologyData' = NoData
  /\ nodeData' = [n \in Nodes |-> NoData]
  /\ linkData' = [l \in Links |-> NoData]
  /\ stateCache' = [r \in Resources |-> NoData]

Panic ==
  /\ \/ \E c \in TopologyConfigs : TopologyPanics(c)
     \/ \E c \in NodeConfigs : NodePanics(c)
     \/ \E c \in LinkConfigs : LinkPanics(c)
  /\ Die

Restart ==
  /\ ~alive
  /\ alive' = TRUE
  /\ UNCHANGED <<handlers, topologyData, nodeData, linkData, stateCache>>

Next ==
  \/ \E c \in TopologyConfigs, kids \in SUBSET Children : TopologyUpdate(c, kids)
  \/ \E n \in Nodes, c \in NodeConfigs : NodeUpdate(n, c)
  \/ \E l \in Links, c \in LinkConfigs : LinkUpdate(l, c) \/ LinkRefused(l, c)
  \/ \E r \in Resources : UpdateWithoutData(r)
  \/ \E r \in Children : ChildDelete(r)
  \/ TopologyDelete
  \/ Panic
  \/ Restart

Spec == Init /\ [][Next]_vars

-----------------------------------------------------------------------------
TypeOK ==
  /\ alive \in BOOLEAN
  /\ handlers \subseteq Resources
  /\ topologyData \in TopologyData \cup {NoData}
  /\ nodeData \in [Nodes -> NodeData \cup {NoData}]
  /\ linkData \in [Links -> LinkData \cup {NoData}]
  /\ stateCache \in [Resources -> StateLeaves \cup {NoData}]

NodeHasData(n) == nodeData[n] # NoData
LinkHasData(l) == linkData[l] # NoData

(***************************************************************************)
(* Every child of a topology that is down is down, whatever order they     *)
(* were configured in: the handlers of the children read the parent's      *)
(* status (node.go, link.go handleConfigUpdate) and are notified of its    *)
(* changes (topology.go handleConfigUpdate).                               *)
(***************************************************************************)
ParentDownForcesChildren ==
  topologyData # NoData /\ topologyData.status = "down" =>
    /\ \A n \in Nodes : NodeHasData(n) => nodeData[n].status = "down"
    /\ \A l \in Links : LinkHasData(l) => linkData[l].status = "down"

(***************************************************************************)
(* Nothing is up that its own configuration does not enable, and what is   *)
(* up gives no reason for being down.                                      *)
(***************************************************************************)
UpIsEnabled(d) == d.status = "up" => d.admin = "enable" /\ d.reason = ""

UpOnlyIfEnabled ==
  /\ topologyData # NoData => UpIsEnabled(topologyData)
  /\ \A n \in Nodes : NodeHasData(n) => UpIsEnabled(nodeData[n])
  /\ \A l \in Links : LinkHasData(l) => UpIsEnabled(linkData[l])

(***************************************************************************)
(* Under a topology that is up an enabled child is up: the notification of *)
(* a topology that comes up reaches every child, also one configured while *)
(* it was down.  Only a link that was refused stays down.                  *)
(***************************************************************************)
EnabledComesUp ==
  topologyData # NoData /\ topologyData.status = "up" =>
    /\ \A n \in Nodes : NodeHasData(n) /\ nodeData[n].admin = "enable" =>
         nodeData[n].status = "up"
    /\ \A l \in Links : LinkHasData(l) /\ linkData[l].admin = "enable" =>
         linkData[l].status = "up" \/ linkData[l].reason = "endpoint node not found"

(***************************************************************************)
(* What the state cache shows of a child is what its handler holds: the    *)
(* same status and reason, and every endpoint.  The exceptions are the     *)
(* code's: a status the handler has lost by a reconfiguration without      *)
(* admin state keeps its old value in the cache, and a refused link is not *)
(* written at all.                                                         *)
(***************************************************************************)
Shows(s, d) ==
  s # NoData /\ s.status # Nil =>
    /\ d # NoData
    /\ d.status # Nil => s.status = d.status /\ s.reason = d.reason

StateCacheFollowsData ==
  /\ \A n \in Nodes :
       /\ Shows(stateCache[n], nodeData[n])
       /\ NodeHasData(n) /\ stateCache[n] # NoData /\ stateCache[n].status # Nil =>
            nodeData[n].endpoint \subseteq stateCache[n].endpoint
  /\ \A l \in Links :
       \/ LinkHasData(l) /\ linkData[l].reason = "endpoint node not found"
       \/ Shows(stateCache[l], linkData[l])

(***************************************************************************)
(* A node lists an interface or lag once, in its handler and in the state  *)
(* cache, however many links name it.                                      *)
(***************************************************************************)
NamesUnique(S) == \A e, f \in S : e.name = f.name => e = f

EndpointNamesUnique ==
  \A n \in Nodes :
    /\ NodeHasData(n) => NamesUnique(nodeData[n].endpoint)
    /\ stateCache[n] # NoData => NamesUnique(stateCache[n].endpoint)

(***************************************************************************)
(* An endpoint that other resources may refer to does not vanish from the  *)
(* state cache while its node is there: neither a reconfiguration of the   *)
(* node, which empties the handler's list, nor one of a link removes it.   *)
(***************************************************************************)
EndpointNames(s) == {e.name : e \in s.endpoint}

EndpointsStay ==
  [][\A n \in Nodes :
       stateCache[n] # NoData /\ stateCache'[n] # NoData =>
         EndpointNames(stateCache[n]) \subseteq EndpointNames(stateCache'[n])]_vars

(***************************************************************************)
(* When a link is accepted both its nodes report the interface it names,   *)
(* and for a lag link the lag as well, also when only one of the lags was  *)
(* there before.                                                           *)
(***************************************************************************)
Reports(n, name) == stateCache[n] # NoData /\ name \in EndpointNames(stateCache[n])

AcceptedLinkIsReported ==
  [][\A l \in Links, c \in LinkConfigs :
       LinkUpdate(l, c) =>
         \A le \in Ends(c) :
           /\ Reports(le.node, le.interface)'
           /\ c.lag => Reports(le.node, le.lagName)']_vars
=============================================================================
