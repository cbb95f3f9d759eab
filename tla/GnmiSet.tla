------------------------------- MODULE GnmiSet -------------------------------
(***************************************************************************)
(* The Set RPC of the gNMI server (internal/gnmiserver/set.go) and the     *)
(* configuration cache, composed with the application logic it calls.      *)
(*                                                                         *)
(* Every RPC runs in a goroutine of its own and takes no lock, so its      *)
(* steps - a write or delete in the configuration cache, a read of it, a   *)
(* call of HandleConfigEvent - interleave with those of the other RPCs.    *)
(*                                                                         *)
(* A call of HandleConfigEvent is one step here, which it is not in the    *)
(* code: ServerSteps takes the calls apart, and shows for which of them    *)
(* one step is enough.                                                     *)
(***************************************************************************)
EXTENDS AppLogic, Schema, FiniteSets

LOCAL INSTANCE SequencesExt

CONSTANTS
  Clients,      \* those who call Set: the controllers and other gNMI clients
  MaxUnaryRPC,  \* the weight of unaryRPCsem, 64 in the code
  Requests,     \* what each of them may send
  NameOf,       \* the name (the key leaf) of every resource
  Validating    \* whether they validate a request before they send it

\* The values of a resource's configuration.
ConfigsOf(r) == CASE r = Topology -> TopologyConfigs
                  [] r \in Nodes -> NodeConfigs
                  [] r \in Links -> LinkConfigs

\* The leaves of a configuration that may be deleted on their own.
LeavesOf(r) == CASE r = Topology -> {"admin", "defaults"}
                 [] r \in Nodes -> {"admin", "kind", "platform"}
                 [] r \in Links -> {"admin"}
LeafPaths == UNION {{r} \X LeavesOf(r) : r \in Resources}

WithoutLeaf(c, leaf) == [c EXCEPT ![leaf] = Nil]

(***************************************************************************)
(* A request writes (replaces or updates) some resources, deletes some,    *)
(* and deletes leaves of some; a bad one has an element that the           *)
(* configuration cache rejects.                                            *)
(***************************************************************************)
ASSUME RequestAssumption ==
  /\ IsFiniteSet(Clients)
  /\ MaxUnaryRPC \in Nat \ {0}
  /\ Validating \in BOOLEAN
  /\ \A k \in Clients : \A q \in Requests[k] :
       /\ q # NoData
       /\ DOMAIN q.write \subseteq Resources
       /\ \A r \in DOMAIN q.write : q.write[r] \in ConfigsOf(r)
       /\ q.delete \subseteq Resources
       /\ q.leaf \subseteq LeafPaths
       /\ q.bad \in BOOLEAN

\* A client never changes the endpoints of a link (MergeConfig relies on it).
ASSUME EndpointAssumption ==
  \A j, k \in Clients : \A p \in Requests[j], q \in Requests[k] :
    \A l \in Links \cap DOMAIN p.write \cap DOMAIN q.write :
      p.write[l].endpoints = q.write[l].endpoints

VARIABLES
  configCache,    \* the configuration of every resource
  permits,        \* what is left of unaryRPCsem
  pc,             \* where in Set an RPC is, "idle" without one
  req,            \* its request
  todo,           \* the writes, deletes and leaf deletes still to do
  updateObjects,  \* the resources it has to hand to the application logic
  deleteObjects,  \* those it has to delete there
  got             \* the resource it handles and what GetJson returned for it

appVars == vars
rpcVars == <<permits, pc, req, todo, updateObjects, deleteObjects, got>>
setVars == <<appVars, configCache, rpcVars>>

NoWork == [write |-> {}, delete |-> {}, leaf |-> {}]

SetInit ==
  /\ Init
  /\ configCache = [r \in Resources |-> NoData]
  /\ permits = MaxUnaryRPC
  /\ pc = [k \in Clients |-> "idle"]
  /\ req = [k \in Clients |-> NoData]
  /\ todo = [k \in Clients |-> NoWork]
  /\ updateObjects = [k \in Clients |-> {}]
  /\ deleteObjects = [k \in Clients |-> {}]
  /\ got = [k \in Clients |-> NoData]

-----------------------------------------------------------------------------
Kids == {c \in Children : configCache[c] # NoData}

\* The topology's entry exists in the cache with any leaf below it.
TopologyConfigured == configCache[Topology] # NoData \/ Kids # {}

NoTopologyLeaves ==
  [admin |-> Nil, kind |-> [k \in Kinds |-> Nil], defaults |-> Nil]

\* GetConfigCache().GetJson of a resource.
Json(r) == IF r = Topology /\ configCache[r] = NoData /\ Kids # {}
           THEN NoTopologyLeaves ELSE configCache[r]

\* The schema's entry of a resource, which its root path leads to.
EntryOf(r) == CASE r = Topology -> "topology"
                [] r \in Nodes -> "topologyNode"
                [] r \in Links -> "topologyLink"

\* The values of a leaf that refers to something.
Values(c, path) ==
  CASE path = <<"kind-name">> -> {c.kind} \ {Nil}
    [] path = <<"endpoints", "node-name">> ->
         {c.endpoints[i].node : i \in DOMAIN c.endpoints}

\* Whether the configuration has what is referred to; a kind has a platform.
Resolved(path, v) ==
  CASE path = <<"topology">> -> TopologyConfigured
    [] path = <<"topology", "kind">> ->
         configCache[Topology] # NoData /\ configCache[Topology].kind[v] # Nil
    [] path = <<"topology", "node">> -> configCache[v] # NoData

(***************************************************************************)
(* ValidateExternalleafRef and ValidateParentDependency of the three       *)
(* controllers, on the configuration they got from the server: a node's    *)
(* kind, a link's nodes and a child's topology are configured.             *)
(***************************************************************************)
Valid(q) ==
  \A r \in DOMAIN q.write :
    /\ \A ref \in LeafRefsLocal(EntryOf(r)) :
         \A v \in Values(q.write[r], ref.LocalPath) : Resolved(ref.RemotePath, v)
    /\ \A path \in ParentDependency(EntryOf(r)) : Resolved(path, Topology)

\* A Get takes a permit and keeps it while it answers; without one it fails.
Get(k) ==
  /\ alive
  /\ pc[k] = "idle"
  /\ permits > 0
  /\ permits' = permits - 1
  /\ pc' = [pc EXCEPT ![k] = "get"]
  /\ UNCHANGED <<appVars, configCache, req, todo, updateObjects, deleteObjects, got>>

\* A client that has no RPC running, or the answer to its Get (whose permit
\* returns), decides to send a request.
Issue(k, q) ==
  /\ alive
  /\ pc[k] \in {"idle", "get"}
  /\ Validating => Valid(q)
  /\ permits' = IF pc[k] = "get" THEN permits + 1 ELSE permits
  /\ pc' = [pc EXCEPT ![k] = "sent"]
  /\ req' = [req EXCEPT ![k] = q]
  /\ UNCHANGED <<appVars, configCache, todo, updateObjects, deleteObjects, got>>

\* Fault: a return that does not release the permit.
EndKeepsPermit(k, released) ==
  /\ pc' = [pc EXCEPT ![k] = "idle"]
  /\ req' = [req EXCEPT ![k] = NoData]
  /\ todo' = [todo EXCEPT ![k] = NoWork]
  /\ updateObjects' = [updateObjects EXCEPT ![k] = {}]
  /\ deleteObjects' = [deleteObjects EXCEPT ![k] = {}]
  /\ got' = [got EXCEPT ![k] = NoData]
  /\ permits' = permits

\* Fault: the release is deferred before the permit is asked for.
EndReleasesAlways(k, released) ==
  /\ pc' = [pc EXCEPT ![k] = "idle"]
  /\ req' = [req EXCEPT ![k] = NoData]
  /\ todo' = [todo EXCEPT ![k] = NoWork]
  /\ updateObjects' = [updateObjects EXCEPT ![k] = {}]
  /\ deleteObjects' = [deleteObjects EXCEPT ![k] = {}]
  /\ got' = [got EXCEPT ![k] = NoData]
  /\ permits' = permits + 1

\* The RPC ends: its locals go, and unless it was refused its permit returns.
End(k, released) ==
  /\ pc' = [pc EXCEPT ![k] = "idle"]
  /\ req' = [req EXCEPT ![k] = NoData]
  /\ todo' = [todo EXCEPT ![k] = NoWork]
  /\ updateObjects' = [updateObjects EXCEPT ![k] = {}]
  /\ deleteObjects' = [deleteObjects EXCEPT ![k] = {}]
  /\ got' = [got EXCEPT ![k] = NoData]
  /\ permits' = permits + released

\* The client has the answer, and sends nothing.
GetReturns(k) ==
  /\ alive
  /\ pc[k] = "get"
  /\ End(k, 1)
  /\ UNCHANGED <<appVars, configCache>>

\* Fault: TryAcquire of more than the one permit that is released.
RefuseLast(k) ==
  /\ alive
  /\ pc[k] = "sent"
  /\ permits <= 1
  /\ End(k, 0)
  /\ UNCHANGED <<appVars, configCache>>

\* TryAcquire fails: ResourceExhausted.
Refuse(k) ==
  /\ alive
  /\ pc[k] = "sent"
  /\ permits = 0
  /\ End(k, 0)
  /\ UNCHANGED <<appVars, configCache>>

Empty(q) == DOMAIN q.write = {} /\ q.delete = {} /\ q.leaf = {}

Receive(k) ==
  /\ alive
  /\ pc[k] = "sent"
  /\ permits > 0
  /\ permits' = permits - 1
  /\ pc' = [pc EXCEPT ![k] = IF Empty(req[k]) THEN "reply" ELSE "config"]
  /\ todo' = [todo EXCEPT ![k] = [write |-> DOMAIN req[k].write,
                                  delete |-> req[k].delete, leaf |-> req[k].leaf]]
  /\ UNCHANGED <<appVars, configCache, req, updateObjects, deleteObjects, got>>

-----------------------------------------------------------------------------
EndpointKey(le) ==
  [key \in initTopologyLinkEndpoints.Key |->
     CASE key = "node-name" -> le.node [] key = "interface-name" -> le.interface]

\* Endpoints with the same keys are one entry of the list.
Listed(endpoints) ==
  LET Put(list, le) ==
        IF \E i \in DOMAIN list : EndpointKey(list[i]) = EndpointKey(le)
        THEN [i \in DOMAIN list |->
                IF EndpointKey(list[i]) = EndpointKey(le)
                THEN [le EXCEPT !.lagName = MergeLeaf(list[i].lagName, @)] ELSE list[i]]
        ELSE Append(list, le)
  IN  FoldLeft(Put, <<>>, endpoints)

Stored(r, new) == IF r \in Links THEN [new EXCEPT !.endpoints = Listed(@)] ELSE new

(***************************************************************************)
(* GnmiUpdate of the configuration cache: a replace is an update, what it  *)
(* does not name stays.  A link's endpoints never change in Requests.      *)
(***************************************************************************)
MergeConfig(r, old, new) ==
  CASE old = NoData -> Stored(r, new)
    [] old # NoData /\ r = Topology ->
         [admin |-> MergeLeaf(old.admin, new.admin),
          kind |-> [k \in Kinds |-> MergeLeaf(old.kind[k], new.kind[k])],
          defaults |-> MergeLeaf(old.defaults, new.defaults)]
    [] old # NoData /\ r \in Nodes ->
         [admin |-> MergeLeaf(old.admin, new.admin),
          kind |-> MergeLeaf(old.kind, new.kind),
          platform |-> MergeLeaf(old.platform, new.platform)]
    [] old # NoData /\ r \in Links ->
         [admin |-> MergeLeaf(old.admin, new.admin), lag |-> old.lag \/ new.lag,
          endpoints |-> Listed(new.endpoints)]

\* What is configured stays one of the configurations the constants name.
ASSUME ClosedAssumption ==
  /\ NoTopologyLeaves \in TopologyConfigs
  /\ \A r \in Resources : \A new \in ConfigsOf(r) :
       /\ Stored(r, new) \in ConfigsOf(r)
       /\ \A leaf \in LeavesOf(r) : WithoutLeaf(new, leaf) \in ConfigsOf(r)
       /\ \A old \in ConfigsOf(r) : MergeConfig(r, old, new) \in ConfigsOf(r)

\* Fault: the key is the name of the path element, not of the resource.
KeyOfElement(r) == IF r \in Nodes THEN "node" ELSE NameOf[r]

(***************************************************************************)
(* getPath2Process returns a path and its key; only the first path with a  *)
(* key is kept.  The loop over the path's strings assigns to the key       *)
(* instead of appending, so it is the resource's own name.                 *)
(***************************************************************************)
KeyOf(r) == NameOf[r]

AddObject(S, r) == IF \E s \in S : KeyOf(s) = KeyOf(r) THEN S ELSE S \cup {r}

\* One replace or update: UpdateConfigCache.
WriteConfig(k, r) ==
  /\ alive
  /\ pc[k] = "config"
  /\ r \in todo[k].write
  /\ configCache' =
       [configCache EXCEPT ![r] = MergeConfig(r, @, req[k].write[r])]
  /\ todo' = [todo EXCEPT ![k].write = @ \ {r}]
  /\ updateObjects' = [updateObjects EXCEPT ![k] = AddObject(@, r)]
  /\ UNCHANGED <<appVars, permits, pc, req, deleteObjects, got>>

\* What a delete takes out of the configuration cache.
Without(S) == [r \in Resources |-> IF r \in S THEN NoData ELSE configCache[r]]

\* One delete of a resource; with the topology go its nodes and links.
DeleteConfig(k, r) ==
  /\ alive
  /\ pc[k] = "config"
  /\ todo[k].write = {}
  /\ r \in todo[k].delete
  /\ configCache' = Without(IF r = Topology THEN Resources ELSE {r})
  /\ todo' = [todo EXCEPT ![k].delete = @ \ {r}]
  /\ deleteObjects' = [deleteObjects EXCEPT ![k] = AddObject(@, r)]
  /\ UNCHANGED <<appVars, permits, pc, req, updateObjects, got>>

\* One delete of a leaf; its path is cut down to that of the resource.
DeleteLeaf(k, p) ==
  /\ alive
  /\ pc[k] = "config"
  /\ todo[k].write = {}
  /\ p \in todo[k].leaf
  /\ configCache' = IF configCache[p[1]] = NoData THEN configCache
                    ELSE [configCache EXCEPT ![p[1]] = WithoutLeaf(@, p[2])]
  /\ todo' = [todo EXCEPT ![k].leaf = @ \ {p}]
  /\ deleteObjects' = [deleteObjects EXCEPT ![k] = AddObject(@, p[1])]
  /\ UNCHANGED <<appVars, permits, pc, req, updateObjects, got>>

\* The configuration cache rejects an element; what was written stays.
ConfigFails(k) ==
  /\ alive
  /\ pc[k] = "config"
  /\ req[k].bad
  /\ pc' = [pc EXCEPT ![k] = "reply"]
  /\ UNCHANGED <<appVars, configCache, permits, req, todo, updateObjects, deleteObjects, got>>

ConfigDone(k) ==
  /\ alive
  /\ pc[k] = "config"
  /\ todo[k] = NoWork
  /\ ~req[k].bad
  /\ pc' = [pc EXCEPT ![k] = "deletes"]
  /\ UNCHANGED <<appVars, configCache, permits, req, todo, updateObjects, deleteObjects, got>>

-----------------------------------------------------------------------------
\* Fault: every delete is handed over with the path of the topology.
HandleDeleteOfTopology(r) == TopologyDelete

\* HandleConfigEvent with OperationDelete; maps are iterated in any order.
HandleDelete(r) == IF r = Topology THEN TopologyDelete ELSE ChildDelete(r)

\* The call returns.
DeleteReturns(k, r) ==
  /\ pc[k] = "deletes"
  /\ r \in deleteObjects[k]
  /\ deleteObjects' = [deleteObjects EXCEPT ![k] = @ \ {r}]
  /\ UNCHANGED <<configCache, permits, pc, req, todo, updateObjects, got>>

DeleteEvent(k, r) == DeleteReturns(k, r) /\ HandleDelete(r)

DeletesDone(k) ==
  /\ alive
  /\ pc[k] = "deletes"
  /\ deleteObjects[k] = {}
  /\ pc' = [pc EXCEPT ![k] = "updates"]
  /\ UNCHANGED <<appVars, configCache, permits, req, todo, updateObjects, deleteObjects, got>>

\* GetJson of the next resource, "a big json blob", with the children's.
ReadConfig(k, r) ==
  /\ alive
  /\ pc[k] = "updates"
  /\ r \in updateObjects[k]
  /\ got' = [got EXCEPT ![k] = [resource |-> r, data |-> Json(r), kids |-> Kids]]
  /\ pc' = [pc EXCEPT ![k] = "event"]
  /\ UNCHANGED <<appVars, configCache, permits, req, todo, updateObjects, deleteObjects>>

\* HandleConfigEvent with OperationUpdate, when it returns no error.
HandleUpdate(r, d, kids) ==
  \/ d = NoData /\ UpdateWithoutData(r)
  \/ d # NoData /\ r = Topology /\ TopologyUpdate(d, kids)
  \/ d # NoData /\ r \in Nodes /\ NodeUpdate(r, d)
  \/ d # NoData /\ r \in Links /\ LinkUpdate(r, d)

\* The call returns, and the next resource is due.
UpdateReturns(k) ==
  /\ pc[k] = "event"
  /\ updateObjects' = [updateObjects EXCEPT ![k] = @ \ {got[k].resource}]
  /\ pc' = [pc EXCEPT ![k] = "updates"]
  /\ got' = [got EXCEPT ![k] = NoData]
  /\ UNCHANGED <<configCache, permits, req, todo, deleteObjects>>

UpdateEvent(k) ==
  UpdateReturns(k) /\ HandleUpdate(got[k].resource, got[k].data, got[k].kids)

\* It returns an error.
UpdateFails(k) ==
  /\ pc[k] = "event"
  /\ pc' = [pc EXCEPT ![k] = "rollback"]
  /\ UNCHANGED <<configCache, permits, req, todo, updateObjects, deleteObjects, got>>

\* Only a link is ever refused.
UpdateRefused(k) ==
  /\ UpdateFails(k)
  /\ got[k].resource \in Links
  /\ got[k].data # NoData
  /\ LinkRefused(got[k].resource, got[k].data)

\* Fault: a refused resource is tried again instead.
RollbackRetries(k) ==
  /\ alive
  /\ pc[k] = "rollback"
  /\ pc' = [pc EXCEPT ![k] = "updates"]
  /\ UNCHANGED <<appVars, configCache, permits, req, todo, updateObjects, deleteObjects, got>>

\* The resource is deleted from the configuration cache and the RPC fails.
Rollback(k) ==
  /\ alive
  /\ pc[k] = "rollback"
  /\ configCache' = Without({got[k].resource})
  /\ pc' = [pc EXCEPT ![k] = "reply"]
  /\ UNCHANGED <<appVars, permits, req, todo, updateObjects, deleteObjects, got>>

\* The RPC returns, well or not.
Reply(k) ==
  /\ alive
  /\ \/ pc[k] = "reply"
     \/ pc[k] = "updates" /\ updateObjects[k] = {}
  /\ End(k, 1)
  /\ UNCHANGED <<appVars, configCache>>

\* What a dying process does to its RPCs.
DropRpcs ==
  /\ permits' = MaxUnaryRPC
  /\ pc' = [j \in Clients |-> "idle"]
  /\ req' = [j \in Clients |-> NoData]
  /\ todo' = [j \in Clients |-> NoWork]
  /\ updateObjects' = [j \in Clients |-> {}]
  /\ deleteObjects' = [j \in Clients |-> {}]
  /\ got' = [j \in Clients |-> NoData]

\* HandleConfigEvent with OperationUpdate, when it does not return.
HandlePanics(r, d) ==
  /\ d # NoData
  /\ CASE r = Topology -> TopologyPanics(d)
       [] r \in Nodes -> NodePanics(d)
       [] r \in Links -> LinkPanics(d)

\* Fault: a configuration cache that outlives the process.
EventPanicsKeepsConfig(k) ==
  /\ pc[k] = "event"
  /\ HandlePanics(got[k].resource, got[k].data)
  /\ Die
  /\ DropRpcs
  /\ UNCHANGED configCache

\* A handler panics: the process dies with its caches and all its RPCs.
EventPanics(k) ==
  /\ pc[k] = "event"
  /\ HandlePanics(got[k].resource, got[k].data)
  /\ Die
  /\ DropRpcs
  /\ configCache' = Without(Resources)

ProcessRestart == Restart /\ UNCHANGED <<configCache, rpcVars>>

\* The steps of a Set once it is sent.
RpcStep(k) ==
  \/ Refuse(k)
  \/ Receive(k)
  \/ \E r \in Resources : WriteConfig(k, r) \/ DeleteConfig(k, r)
  \/ \E p \in LeafPaths : DeleteLeaf(k, p)
  \/ ConfigFails(k)
  \/ ConfigDone(k)
  \/ \E r \in Resources : DeleteEvent(k, r)
  \/ DeletesDone(k)
  \/ \E r \in Resources : ReadConfig(k, r)
  \/ UpdateEvent(k)
  \/ UpdateRefused(k)
  \/ Rollback(k)
  \/ Reply(k)
  \/ EventPanics(k)

SetNext ==
  \/ \E k \in Clients : \E q \in Requests[k] : Issue(k, q)
  \/ \E k \in Clients : Get(k) \/ GetReturns(k) \/ RpcStep(k)
  \/ ProcessRestart

SetSpec == SetInit /\ [][SetNext]_setVars

\* A goroutine that can run is run, and the process is restarted.
FairSetSpec ==
  /\ SetSpec
  /\ \A k \in Clients : WF_setVars(GetReturns(k) \/ RpcStep(k))
  /\ WF_setVars(ProcessRestart)

-----------------------------------------------------------------------------
SetTypeOK ==
  /\ DOMAIN configCache = Resources
  /\ \A r \in Resources : configCache[r] \in ConfigsOf(r) \cup {NoData}
  /\ permits \in 0..MaxUnaryRPC
  /\ pc \in [Clients -> {"idle", "get", "sent", "config", "deletes", "updates", "event",
                         "rollback", "reply"}]
  /\ DOMAIN req = Clients
  /\ \A k \in Clients :
       req[k] \in IF pc[k] \in {"idle", "get"} THEN {NoData} ELSE Requests[k]
  /\ todo \in [Clients -> [write : SUBSET Resources, delete : SUBSET Resources,
                           leaf : SUBSET LeafPaths]]
  /\ updateObjects \in [Clients -> SUBSET Resources]
  /\ deleteObjects \in [Clients -> SUBSET Resources]
  /\ DOMAIN got = Clients
  /\ \A k \in Clients : pc[k] \in {"event", "rollback"} =>
       /\ got[k].resource \in Resources
       /\ got[k].data \in ConfigsOf(got[k].resource) \cup {NoData}
       /\ got[k].kids \subseteq Children

(***************************************************************************)
(* Permits and running RPCs add up whichever way an RPC ends, so the       *)
(* server never serves more than MaxUnaryRPC and never less than it could. *)
(***************************************************************************)
Running == {k \in Clients : pc[k] \notin {"idle", "sent"}}

PermitsAccounted == permits + Cardinality(Running) = MaxUnaryRPC

(***************************************************************************)
(* An RPC is served when a permit is left and refused when none is, never  *)
(* otherwise, through failures, panics and restarts: permits are what the  *)
(* RPCs that run leave of MaxUnaryRPC (TryAcquire and Release in Set).     *)
(***************************************************************************)
Place == [k \in Clients |-> CASE pc[k] = "idle" -> "outside"
                              [] pc[k] = "sent" -> "asking"
                              [] OTHER -> "inside"]

Unary == INSTANCE Admission WITH
  Callers <- Clients, Limit <- MaxUnaryRPC, place <- Place

ImplementsAdmission == Unary!Spec

(***************************************************************************)
(* Careful clients validate what they send, wait for the Set of another    *)
(* to return before they change anything, write or delete in one request,  *)
(* and never delete a leaf on its own.  The resources they write in one    *)
(* request have names of their own, and their links two endpoints.         *)
(***************************************************************************)
Careful(q) ==
  /\ ~q.bad
  /\ q.leaf = {}
  /\ DOMAIN q.write = {} \/ q.delete = {}
  /\ \A r, s \in DOMAIN q.write : KeyOf(r) = KeyOf(s) => r = s
  /\ \A l \in Links \cap DOMAIN q.write :
       /\ Len(q.write[l].endpoints) >= 2
       /\ Listed(q.write[l].endpoints) = q.write[l].endpoints

CarefulRequests ==
  Validating /\ \A k \in Clients : \A q \in Requests[k] : Empty(q) \/ Careful(q)

\* The Sets that change something, or are about to.
ChangingRPCs == {k \in Clients : pc[k] \notin {"idle", "get"} /\ ~Empty(req[k])}

TakeTurns == \A j, k \in ChangingRPCs : j = k

(***************************************************************************)
(* Clients that validate and wait for each other never make a handler      *)
(* panic, although a topology's handler dereferences the data of every     *)
(* child and a child's that of the topology and of the other children -    *)
(* if their links have two endpoints, which nothing validates.             *)
(***************************************************************************)
NoPanic == alive

\* No RPC has anything left to do with the resource.
Settled(r) ==
  \A k \in Clients :
    /\ r \notin todo[k].write \cup todo[k].delete
    /\ \A p \in todo[k].leaf : p[1] # r
    /\ r \notin updateObjects[k] \cup deleteObjects[k]

DataOf(r) == CASE r = Topology -> topologyData
               [] r \in Nodes -> nodeData[r]
               [] r \in Links -> linkData[r]

\* The configuration in a handler's data.
ConfigIn(r, d) ==
  CASE r = Topology -> [admin |-> d.admin, kind |-> d.kind, defaults |-> d.defaults]
    [] r \in Nodes  -> [admin |-> d.admin, kind |-> d.kind, platform |-> d.platform]
    [] r \in Links  -> [admin |-> d.admin, lag |-> d.lag, endpoints |-> d.endpoints]

Holds(r, c) == DataOf(r) # NoData /\ ConfigIn(r, DataOf(r)) = c

(***************************************************************************)
(* A resource that no Set is busy with has its configuration applied: the  *)
(* handler holds what the configuration cache holds, though the two are    *)
(* written in different steps and the second from a read of the first.     *)
(***************************************************************************)
SettledIsApplied ==
  \A r \in Resources :
    configCache[r] # NoData /\ Settled(r) => Holds(r, configCache[r])

(***************************************************************************)
(* Such a resource is in the state cache as well: no delete of another     *)
(* resource, and none of its own that came earlier, hides it.              *)
(***************************************************************************)
SettledIsShown ==
  \A r \in Resources :
    configCache[r] # NoData /\ Settled(r)
      /\ (r \in Children => Settled(Topology)) => stateCache[r] # NoData

(***************************************************************************)
(* Every Set returns, with an answer or with the process: TryAcquire never *)
(* blocks, and no failure leaves the handler waiting.                      *)
(***************************************************************************)
SetReturns == \A k \in Clients : pc[k] # "idle" ~> pc[k] = "idle"

-----------------------------------------------------------------------------
(***************************************************************************)
(* "Delete the resources in the application logic as a single transaction" *)
(* (Set): a resource that is not configured, and that no Set is busy with, *)
(* has no state.                                                           *)
(***************************************************************************)
DeletedIsGone ==
  \A r \in Children :
    configCache[r] = NoData /\ Settled(r) /\ Settled(Topology) =>
      stateCache[r] = NoData
=============================================================================
