------------------------------ MODULE TopoData ------------------------------
(***************************************************************************)
(* The data of the three topology resources, and the pure functions the    *)
(* application logic applies to it: accessors of apis/topo/v1alpha1, the   *)
(* status rules of the handlers, the platform resolution of a node, and    *)
(* the endpoint list a node keeps for the links attached to it.            *)
(*                                                                         *)
(* Descriptions, timestamps and tags other than platform, lag and lag-name *)
(* never influence control flow and are left out.                          *)
(***************************************************************************)
EXTENDS Naturals, Sequences

CONSTANTS
  Nodes,      \* identities of the node resources of one topology
  Links,      \* identities of its link resources
  EpNames,    \* interface and lag names
  Kinds,      \* names of node kinds
  Platforms,  \* platform names
  NoData      \* a nil data pointer, an absent cache entry

(***************************************************************************)
(* A nil *string.  The getters turn it into "", but a nil leaf is left out *)
(* of the JSON that goes to the state cache, where "" is written.          *)
(***************************************************************************)
Nil == "nil"

AdminState == {"enable", "disable", Nil}
Status     == {"up", "down", Nil}
Reason     == {"", "admin disabled", "parent status down",
               "endpoint node not found", Nil}

\* The platform setPlatform falls back on.
DefaultPlatform == "ixrd2"
Platform        == Platforms \cup {DefaultPlatform, Nil}

\* An entry of a node's state/endpoint list.
Endpoint == [name : EpNames \cup {Nil}, lag : BOOLEAN, lagSubLink : BOOLEAN]

\* One side of a link: the node, its interface and, in a tag, the lag name.
LinkEndpoint == [node : Nodes, interface : EpNames, lagName : EpNames \cup {Nil}]

TopologyConfig ==
  [admin : AdminState, kind : [Kinds -> Platforms \cup {Nil}],
   defaults : Platforms \cup {Nil}]
NodeConfig ==
  [admin : AdminState, kind : Kinds \cup {Nil}, platform : Platforms \cup {Nil}]
LinkConfig ==
  [admin : AdminState, lag : BOOLEAN, endpoints : Seq(LinkEndpoint)]

\* A handler's data: the configuration and the state container.
TopologyData ==
  [admin : AdminState, kind : [Kinds -> Platforms \cup {Nil}],
   defaults : Platforms \cup {Nil}, status : Status, reason : Reason]
NodeData ==
  [admin : AdminState, kind : Kinds \cup {Nil},
   platform : Platforms \cup {Nil}, status : Status, reason : Reason,
   endpoint : SUBSET Endpoint, statePlatform : Platform]
LinkData ==
  [admin : AdminState, lag : BOOLEAN, endpoints : Seq(LinkEndpoint),
   status : Status, reason : Reason]

\* What the state cache holds of a resource's state container.
StateLeaves ==
  [status : Status, reason : Reason, endpoint : SUBSET Endpoint,
   statePlatform : Platform]

\* A nil pointer is no data, and a node and a link are different objects.
ASSUME DataAssumption ==
  /\ NoData \notin TopologyConfig \cup NodeConfig \cup LinkConfig
  /\ NoData \notin TopologyData \cup NodeData \cup LinkData \cup StateLeaves
  /\ Nodes \cap Links = {}
  /\ "topology" \notin Nodes \cup Links
  /\ Nil \notin Platforms \cup Kinds \cup EpNames

-----------------------------------------------------------------------------
(***************************************************************************)
(* Copy: a configuration event replaces the handler's data by what the     *)
(* configuration cache holds.  The configuration has no state container,   *)
(* so the state of before is dropped.                                      *)
(***************************************************************************)
CopyTopology(c) ==
  [admin |-> c.admin, kind |-> c.kind, defaults |-> c.defaults,
   status |-> Nil, reason |-> Nil]

CopyNode(c) ==
  [admin |-> c.admin, kind |-> c.kind, platform |-> c.platform,
   status |-> Nil, reason |-> Nil, endpoint |-> {}, statePlatform |-> Nil]

CopyLink(c) ==
  [admin |-> c.admin, lag |-> c.lag, endpoints |-> c.endpoints,
   status |-> Nil, reason |-> Nil]

\* Fault: a reason that is cleared by writing no reason.
SetStatusKeepsReason(d, s, why) ==
  [d EXCEPT !.status = s, !.reason = IF why = "" THEN @ ELSE why]

SetStatus(d, s, why) == [d EXCEPT !.status = s, !.reason = why]

(***************************************************************************)
(* node.handleStatus and link.handleStatus: a parent that is down wins;    *)
(* otherwise the own admin state decides, and a child without admin state  *)
(* stays as it is.                                                         *)
(***************************************************************************)
HandleStatus(d, parentStatus) ==
  IF parentStatus = "down"
  THEN SetStatus(d, "down", "parent status down")
  ELSE IF d.admin = "disable" /\ d.status # "down"
  THEN SetStatus(d, "down", "admin disabled")
  ELSE IF d.admin = "enable" /\ d.status # "up"
  THEN SetStatus(d, "up", "")
  ELSE d

\* link.handleStatus is written out a second time in link.go.
HandleLinkStatus(d, parentStatus) == HandleStatus(d, parentStatus)

\* topology.handleConfigUpdate: the same rules, without a parent.
HandleTopologyStatus(d) == HandleStatus(d, Nil)

(***************************************************************************)
(* node.setPlatform: the platform of the node's tag, else the one of its   *)
(* kind, else the topology's default, else the global default; only a      *)
(* platform that is not the node's own goes to the state.                  *)
(***************************************************************************)
\* Fault: GetName for GetPlatform of the kind.
ResolvePlatformByName(d, t) == IF d.kind # Nil THEN d.kind ELSE DefaultPlatform

ResolvePlatform(d, t) ==
  CASE d.kind # Nil /\ t.kind[d.kind] # Nil -> t.kind[d.kind]
    [] (d.kind = Nil \/ t.kind[d.kind] = Nil) /\ t.defaults # Nil -> t.defaults
    [] OTHER -> DefaultPlatform

SetPlatform(d, t) ==
  IF d.platform = Nil THEN [d EXCEPT !.statePlatform = ResolvePlatform(d, t)]
                      ELSE d

-----------------------------------------------------------------------------
(***************************************************************************)
(* The endpoint list of a node.  SetEndpoint finds an entry of that name   *)
(* and assigns the new value to its loop variable, which leaves the list   *)
(* as it was; a name that is not there is appended.                        *)
(***************************************************************************)
HasEndpoint(d, name) == \E e \in d.endpoint : e.name = name

\* Fault: the entry is appended whether its name was found or not.
AppendEndpoint(d, e) == [d EXCEPT !.endpoint = @ \cup {e}]

SetEndpoint(d, e) ==
  IF HasEndpoint(d, e.name) THEN d
                            ELSE [d EXCEPT !.endpoint = @ \cup {e}]

\* The three kinds of entry parseLink makes.
LogicalLag(le)  == [name |-> le.lagName,   lag |-> TRUE,  lagSubLink |-> FALSE]
LagSubLink(le)  == [name |-> le.interface, lag |-> FALSE, lagSubLink |-> TRUE]
PlainLink(le)   == [name |-> le.interface, lag |-> FALSE, lagSubLink |-> FALSE]

-----------------------------------------------------------------------------
(***************************************************************************)
(* UpdateStateCache writes every leaf that is not nil; the cache merges it *)
(* with the leaves it has, endpoint entries by name.  It deletes nothing.  *)
(***************************************************************************)
EmptyState ==
  [status |-> Nil, reason |-> Nil, endpoint |-> {}, statePlatform |-> Nil]

TopologyState(d) == [EmptyState EXCEPT !.status = d.status, !.reason = d.reason]
LinkState(d)     == [EmptyState EXCEPT !.status = d.status, !.reason = d.reason]
NodeState(d) ==
  [status |-> d.status, reason |-> d.reason, endpoint |-> d.endpoint,
   statePlatform |-> d.statePlatform]

MergeLeaf(old, new) == IF new = Nil THEN old ELSE new

MergeEndpoints(old, new) ==
  new \cup {e \in old : \A f \in new : f.name # e.name}

MergeState(cached, new) ==
  LET old == IF cached = NoData THEN EmptyState ELSE cached
  IN  [status        |-> MergeLeaf(old.status, new.status),
       reason        |-> MergeLeaf(old.reason, new.reason),
       endpoint      |-> MergeEndpoints(old.endpoint, new.endpoint),
       statePlatform |-> MergeLeaf(old.statePlatform, new.statePlatform)]
=============================================================================
