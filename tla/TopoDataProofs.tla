--------------------------- MODULE TopoDataProofs ---------------------------
(***************************************************************************)
(* What the operators of TopoData return and keep, for any nodes, links,   *)
(* names and data: the lemmas the proofs about AppLogic and about          *)
(* HandlerSteps share.                                                     *)
(***************************************************************************)
EXTENDS TopoData, TLAPS

(***************************************************************************)
(* What the status rules return.  d is a node's or a link's data, s the    *)
(* status of its parent.                                                   *)
(***************************************************************************)
\* The status rules keep data well typed (node.go, link.go handleStatus).
LEMMA NodeStatusType ==
  ASSUME NEW d \in NodeData, NEW s \in Status
  PROVE  HandleStatus(d, s) \in NodeData
BY DEF NodeData, HandleStatus, SetStatus, Status, Reason

\* The same of a link.
LEMMA LinkStatusType ==
  ASSUME NEW d \in LinkData, NEW s \in Status
  PROVE  HandleStatus(d, s) \in LinkData
BY DEF LinkData, HandleStatus, SetStatus, Status, Reason

\* The same of a topology, which has no parent.
LEMMA TopologyStatusType ==
  ASSUME NEW d \in TopologyData
  PROVE  HandleTopologyStatus(d) \in TopologyData
BY DEF TopologyData, HandleTopologyStatus, HandleStatus, SetStatus, Status, Reason, Nil

\* What is copied from the configuration cache is data (Copy).
LEMMA CopyType ==
  /\ \A c \in TopologyConfig : CopyTopology(c) \in TopologyData
  /\ \A c \in NodeConfig : CopyNode(c) \in NodeData
  /\ \A c \in LinkConfig : CopyLink(c) \in LinkData
BY DEF TopologyConfig, NodeConfig, LinkConfig, TopologyData, NodeData, LinkData,
       CopyTopology, CopyNode, CopyLink, Status, Reason, Platform, Nil

\* setPlatform finds a platform for every node.
LEMMA PlatformType ==
  ASSUME NEW d \in NodeData, NEW t \in TopologyData
  PROVE  SetPlatform(d, t) \in NodeData
<1>1. ResolvePlatform(d, t) \in Platform
  BY DEF ResolvePlatform, NodeData, TopologyData, Platform, Nil
<1> QED
  BY <1>1 DEF SetPlatform, NodeData

\* SetEndpoint keeps a node's data well typed and touches its list only.
LEMMA SetEndpointType ==
  ASSUME NEW d \in NodeData, NEW e \in Endpoint
  PROVE  /\ SetEndpoint(d, e) \in NodeData
         /\ SetEndpoint(d, e).status = d.status
         /\ SetEndpoint(d, e).reason = d.reason
         /\ SetEndpoint(d, e).admin = d.admin
         /\ SetEndpoint(d, e).kind = d.kind
         /\ SetEndpoint(d, e).platform = d.platform
BY DEF SetEndpoint, NodeData

\* The entries parseLink makes are endpoints.
LEMMA EntryType ==
  ASSUME NEW le \in LinkEndpoint
  PROVE  /\ LogicalLag(le) \in Endpoint
         /\ LagSubLink(le) \in Endpoint
         /\ PlainLink(le) \in Endpoint
BY DEF LinkEndpoint, LogicalLag, LagSubLink, PlainLink, Endpoint

\* The state cache merges state containers into a state container.
LEMMA MergeType ==
  ASSUME NEW s \in StateLeaves \cup {NoData}, NEW new \in StateLeaves
  PROVE  MergeState(s, new) \in StateLeaves
<1> DEFINE old == IF s = NoData THEN EmptyState ELSE s
<1>1. old \in StateLeaves
  BY DEF EmptyState, StateLeaves, Status, Reason, Platform, Nil
<1>2. MergeEndpoints(old.endpoint, new.endpoint) \in SUBSET Endpoint
  BY <1>1 DEF MergeEndpoints, StateLeaves
<1> QED
  BY <1>1, <1>2 DEF MergeState, MergeLeaf, StateLeaves

\* What a handler writes to the state cache is a state container.
LEMMA StateType ==
  /\ EmptyState \in StateLeaves
  /\ \A d \in TopologyData : TopologyState(d) \in StateLeaves
  /\ \A d \in NodeData : NodeState(d) \in StateLeaves
  /\ \A d \in LinkData : LinkState(d) \in StateLeaves
BY DEF EmptyState, TopologyState, NodeState, LinkState, StateLeaves,
       TopologyData, NodeData, LinkData, Status, Reason, Platform, Nil
=============================================================================
