------------------------------- MODULE Schema -------------------------------
(***************************************************************************)
(* The YANG schema that is built at start (internal/yangschema): a tree of *)
(* containers and lists, some of which are resources of their own, and the *)
(* leaf references between them.  GnmiSet reads from it what a validator   *)
(* asks and which list entries the caches take for one.                    *)
(***************************************************************************)
EXTENDS Naturals, Sequences

\* An entry of the tree.  The init functions differ in the entry they are
\* called by and in these fields.
Container(parent, name) ==
  [parent |-> parent, Name |-> name, Key |-> {}, ResourceBoundary |-> FALSE, LeafRefs |-> {}]

List(parent, name, key) == [Container(parent, name) EXCEPT !.Key = key]

Resource(parent, name) == [List(parent, name, {"name"}) EXCEPT !.ResourceBoundary = TRUE]

LeafRef(local, remote) == [LocalPath |-> local, RemotePath |-> remote]

-----------------------------------------------------------------------------
InitRoot == Container("", "nddo-topology")

initTopology == Resource("root", "topology")

initTopologyDefaults     == Container("topology", "defaults")
initTopologyDefaultsTag  == List("topologyDefaults", "tag", {"key"})
initTopologyKind         == List("topology", "kind", {"name"})
initTopologyKindTag      == List("topologyKind", "tag", {"key"})
initTopologyState        == Container("topology", "state")
initTopologyStateTag     == List("topologyState", "tag", {"key"})

initTopologyNode ==
  [Resource("topology", "node") EXCEPT
     !.LeafRefs = {LeafRef(<<"kind-name">>, <<"topology", "kind">>)}]

initTopologyNodeTag           == List("topologyNode", "tag", {"key"})
initTopologyNodeState         == Container("topologyNode", "state")
initTopologyNodeStateTag      == List("topologyNodeState", "tag", {"key"})
initTopologyNodeStateEndpoint == List("topologyNodeState", "endpoint", {"name"})

initTopologyLink == Resource("topology", "link")

initTopologyLinkEndpoints ==
  [List("topologyLink", "endpoints", {"interface-name", "node-name"}) EXCEPT
     !.LeafRefs = {LeafRef(<<"node-name">>, <<"topology", "node">>)}]

initTopologyLinkEndpointsTag == List("topologyLinkEndpoints", "tag", {"key"})
initTopologyLinkTag          == List("topologyLink", "tag", {"key"})
initTopologyLinkState        == Container("topologyLink", "state")
initTopologyLinkStateTag     == List("topologyLinkState", "tag", {"key"})

\* The entries by the init functions that make them.
Entries ==
  [root                     |-> InitRoot,
   topology                 |-> initTopology,
   topologyDefaults         |-> initTopologyDefaults,
   topologyDefaultsTag      |-> initTopologyDefaultsTag,
   topologyKind             |-> initTopologyKind,
   topologyKindTag          |-> initTopologyKindTag,
   topologyState            |-> initTopologyState,
   topologyStateTag         |-> initTopologyStateTag,
   topologyNode             |-> initTopologyNode,
   topologyNodeTag          |-> initTopologyNodeTag,
   topologyNodeState        |-> initTopologyNodeState,
   topologyNodeStateTag     |-> initTopologyNodeStateTag,
   topologyNodeStateEndpoint |-> initTopologyNodeStateEndpoint,
   topologyLink             |-> initTopologyLink,
   topologyLinkEndpoints    |-> initTopologyLinkEndpoints,
   topologyLinkEndpointsTag |-> initTopologyLinkEndpointsTag,
   topologyLinkTag          |-> initTopologyLinkTag,
   topologyLinkState        |-> initTopologyLinkState,
   topologyLinkStateTag     |-> initTopologyLinkStateTag]

-----------------------------------------------------------------------------
\* The path of an entry from the root: the names GetRootPath spells out.
RootPath[e \in DOMAIN Entries] ==
  IF e = "root" THEN <<>> ELSE Append(RootPath[Entries[e].parent], Entries[e].Name)

\* The resource an entry belongs to, and its path from there.
ResourceOf[e \in DOMAIN Entries] ==
  IF e = "root" \/ Entries[e].ResourceBoundary THEN e ELSE ResourceOf[Entries[e].parent]

LocalPath(e) ==
  SubSeq(RootPath[e], Len(RootPath[ResourceOf[e]]) + 1, Len(RootPath[e]))

\* GetLeafRefsLocal: the references of a resource and of what it contains.
LeafRefsLocal(r) ==
  UNION {{LeafRef(LocalPath(e) \o ref.LocalPath, ref.RemotePath) : ref \in Entries[e].LeafRefs} :
           e \in {f \in DOMAIN Entries : ResourceOf[f] = r}}

\* Fault: off by one, a path of two elements has no parent.
GrandparentDependency(r) ==
  IF Len(RootPath[r]) <= 2 THEN {} ELSE {SubSeq(RootPath[r], 1, Len(RootPath[r]) - 1)}

\* GetParentDependency: the path without its last element, if one with a key
\* is left.
ParentDependency(r) ==
  IF Len(RootPath[r]) < 2 THEN {} ELSE {SubSeq(RootPath[r], 1, Len(RootPath[r]) - 1)}
=============================================================================
