-------------------------- MODULE ReconcileProofs --------------------------
(***************************************************************************)
(* Proofs about Reconcile: that the reconcilers use the server as GnmiSet  *)
(* has it, so that what is proved of the server holds under them, and the  *)
(* types, with what the state cache shows of every resource's              *)
(* configuration, and that what the reconcilers configure is applied.      *)
(***************************************************************************)
EXTENDS Reconcile, GnmiSetProofs

(***************************************************************************)
(* The invariant.  The handlers hold configurations; an RPC hands over     *)
(* what its worker owns, so that only the topology's worker is ever        *)
(* between the read and the event of the topology; and then the children   *)
(* that were read have been copied.                                        *)
(***************************************************************************)
DataConfigured ==
  \A r \in Resources : DataOf(r) # NoData => ConfigIn(r, DataOf(r)) \in ConfigsOf(r)

OwnedObjects ==
  \A k \in Clients :
    /\ \A r \in updateObjects[k] : Owner[r] = k
    /\ pc[k] \in {"event", "rollback"} => Owner[got[k].resource] = k

KidsCopied ==
  \A k \in Clients :
    pc[k] = "event" /\ got[k].resource = Topology =>
      \A c \in got[k].kids : copied[c] # NoData

ServerInv == SetInv /\ TypeOK /\ DataConfigured /\ OwnedObjects

ReconcileInv == ServerInv /\ KidsCopied /\ ReconcileTypeOK

-----------------------------------------------------------------------------
(***************************************************************************)
(* What a server step keeps.                                               *)
(***************************************************************************)
\* A configuration is never a nil pointer.
LEMMA ConfigIsData ==
  ASSUME NEW r \in Resources, NEW c \in ConfigsOf(r)
  PROVE  c # NoData
  BY ResourceKinds, ConfigAssumption, DataAssumption DEF ConfigsOf

\* Holding some configuration is having data.
LEMMA HoldsSome ==
  ASSUME NEW r
  PROVE  /\ DataOf(r) # NoData <=> \E c : Holds(r, c)
         /\ \A c : Holds(r, c) => ConfigIn(r, DataOf(r)) = c
  BY DEF Holds

LEMMA KeptConfigured ==
  ASSUME NEW r \in Resources, ConfigKept(r),
         DataOf(r) # NoData => ConfigIn(r, DataOf(r)) \in ConfigsOf(r)
  PROVE  (DataOf(r) # NoData => ConfigIn(r, DataOf(r)) \in ConfigsOf(r))'
  BY DEF ConfigKept, Holds

LEMMA HeldConfigured ==
  ASSUME NEW r \in Resources, NEW c \in ConfigsOf(r), Holds(r, c)'
  PROVE  (DataOf(r) # NoData => ConfigIn(r, DataOf(r)) \in ConfigsOf(r))'
  BY DEF Holds

\* A refused link holds the configuration that was refused.
LEMMA RefusedHolds ==
  ASSUME TypeOK, NEW l \in Links, NEW c \in LinkConfigs, LinkRefused(l, c)
  PROVE  Holds(l, c)' /\ \A r \in Resources \ {l} : ConfigKept(r)
<1> DEFINE e == LinkCopied(c)
           d == SetStatus(e, "down", "endpoint node not found")
<1>1. c \in LinkConfig /\ CopyLink(c) \in LinkData
  BY ConfigAssumption, CopyType
<1>2. ParentStatus \in Status
  BY DEF LinkRefused, TypeOK, TopologyData, ParentStatus
<1>3. e \in LinkData /\ d \in LinkData
  BY <1>1, LinkCopiedType DEF LinkRefused
<1>4. e.admin = c.admin /\ e.lag = c.lag /\ e.endpoints = c.endpoints
  <2>1. /\ e.admin = CopyLink(c).admin /\ e.lag = CopyLink(c).lag
        /\ e.endpoints = CopyLink(c).endpoints
    BY <1>1, <1>2, RulesKeepConfig DEF LinkCopied, HandleLinkStatus
  <2> QED
    BY <2>1 DEF CopyLink
<1> HIDE DEF e
<1>5. d.admin = c.admin /\ d.lag = c.lag /\ d.endpoints = c.endpoints
  BY <1>3, <1>4 DEF SetStatus, LinkData
<1>6. /\ linkData'[l] = d
      /\ \A m \in Links \ {l} : linkData'[m] = linkData[m]
      /\ topologyData' = topologyData /\ nodeData' = nodeData
  BY DEF LinkRefused, TypeOK, e
<1> HIDE DEF d
<1>7. Holds(l, c)'
  <2>1. [admin |-> d.admin, lag |-> d.lag, endpoints |-> d.endpoints] = c
    BY <1>1, <1>5 DEF LinkConfig
  <2>2. d # NoData /\ l # Topology /\ l \notin Nodes
    BY <1>3, DataAssumption, ResourceKinds
  <2> QED
    BY <1>6, <2>1, <2>2 DEF Holds, DataOf, ConfigIn
<1> QED
  BY <1>6, <1>7, SameDataKept, ResourceKinds

\* What an RPC has read, while it is between the read and the event.
LEMMA GotTyped ==
  ASSUME SetInv, NEW k \in Clients, pc[k] = "event"
  PROVE  /\ got[k].resource \in Resources
         /\ got[k].data \in ConfigsOf(got[k].resource) \cup {NoData}
         /\ got[k].kids \in SUBSET Children
  BY DEF SetInv, SetTypeOK

\* The steps that change what the handlers hold.
LEMMA DataSteps ==
  ASSUME SetInv, [SetNext]_setVars,
         \A k \in Clients : ~UpdateEvent(k) /\ ~UpdateRefused(k) /\ ~EventPanics(k)
  PROVE  UNCHANGED <<topologyData, nodeData, linkData>>
<1>1. ASSUME NEW k \in Clients,
             \/ \E q \in Requests[k] : Issue(k, q)
             \/ Get(k) \/ GetReturns(k)
             \/ Refuse(k) \/ Receive(k) \/ ConfigFails(k) \/ ConfigDone(k)
             \/ \E r \in Resources : WriteConfig(k, r) \/ DeleteConfig(k, r)
             \/ \E p \in LeafPaths : DeleteLeaf(k, p)
             \/ DeletesDone(k) \/ Rollback(k) \/ Reply(k)
             \/ \E r \in Resources : ReadConfig(k, r)
      PROVE  UNCHANGED <<topologyData, nodeData, linkData>>
  BY <1>1 DEF Issue, Get, GetReturns, Refuse, Receive, ConfigFails, ConfigDone, WriteConfig,
     DeleteConfig, DeleteLeaf, DeletesDone, Rollback, Reply, ReadConfig, appVars, vars
<1>2. ASSUME NEW k \in Clients, NEW r \in Resources, DeleteEvent(k, r)
      PROVE  UNCHANGED <<topologyData, nodeData, linkData>>
  BY <1>2 DEF DeleteEvent, DeleteReturns, HandleDelete, TopologyDelete, ChildDelete
<1>3. CASE ProcessRestart
  BY <1>3 DEF ProcessRestart, Restart
<1>4. CASE UNCHANGED setVars
  BY <1>4 DEF setVars, appVars, vars
<1> QED
  BY <1>1, <1>2, <1>3, <1>4 DEF SetNext, RpcStep

\* No handler ever holds what is not a configuration.
LEMMA DataStep ==
  ASSUME SetInv, TypeOK, DataConfigured, [SetNext]_setVars
  PROVE  DataConfigured'
<1>1. ASSUME UNCHANGED <<topologyData, nodeData, linkData>>
      PROVE  DataConfigured'
  BY <1>1 DEF DataConfigured, DataOf
<1>2. ASSUME NEW r \in Resources, NEW c \in ConfigsOf(r), Holds(r, c)',
             \A s \in Resources \ {r} : ConfigKept(s)
      PROVE  DataConfigured'
  <2>1. ASSUME NEW s \in Resources
        PROVE  (DataOf(s) # NoData => ConfigIn(s, DataOf(s)) \in ConfigsOf(s))'
    <3>1. CASE s = r
      BY <1>2, <3>1, HeldConfigured
    <3>2. CASE s # r
      <4>1. ConfigKept(s) /\ (DataOf(s) # NoData => ConfigIn(s, DataOf(s)) \in ConfigsOf(s))
        BY <1>2, <3>2 DEF DataConfigured
      <4> QED
        BY <4>1, KeptConfigured
    <3> QED
      BY <3>1, <3>2
  <2> QED
    BY <2>1 DEF DataConfigured
<1>3. ASSUME NEW k \in Clients, UpdateEvent(k)
      PROVE  DataConfigured'
  <2>0. PICK r \in Resources : \E d \in ConfigsOf(r) \cup {NoData} :
          \E kids \in SUBSET Children : HandleUpdate(r, d, kids)
    BY <1>3, GotTyped DEF UpdateEvent, UpdateReturns
  <2>1. PICK d \in ConfigsOf(r) \cup {NoData}, kids \in SUBSET Children :
          HandleUpdate(r, d, kids)
    BY <2>0
  <2>2. CASE d = NoData
    BY <1>1, <2>1, <2>2 DEF HandleUpdate, UpdateWithoutData
  <2>3. CASE d # NoData
    <3>1. Holds(r, d)' /\ \A s \in Resources \ {r} : ConfigKept(s)
      BY <2>1, <2>3, HandleApplies
    <3> QED
      BY <1>2, <2>3, <3>1
  <2> QED
    BY <2>2, <2>3
<1>4. ASSUME NEW k \in Clients, UpdateRefused(k)
      PROVE  DataConfigured'
  <2>1. PICK l \in Links, c \in LinkConfigs : LinkRefused(l, c)
    BY <1>4, GotTyped, ResourceKinds DEF UpdateRefused, UpdateFails, ConfigsOf
  <2>2. l \in Resources /\ c \in ConfigsOf(l)
    BY ResourceKinds DEF ConfigsOf
  <2>3. Holds(l, c)' /\ \A r \in Resources \ {l} : ConfigKept(r)
    BY <2>1, RefusedHolds
  <2> QED
    BY <1>2, <2>2, <2>3
<1>5. ASSUME NEW k \in Clients, EventPanics(k)
      PROVE  DataConfigured'
  BY <1>5, ResourceKinds DEF EventPanics, Die, DataConfigured, DataOf
<1> QED
  BY <1>1, <1>3, <1>4, <1>5, DataSteps

-----------------------------------------------------------------------------
(***************************************************************************)
(* The reconcilers' steps are steps of the server.                         *)
(***************************************************************************)
\* What a reconciler sees of a resource is a configuration, or nothing.
LEMMA ObservedType ==
  ASSUME ReconcileTypeOK, NEW r \in Resources
  PROVE  Observed(r) \in ConfigsOf(r) \cup {NoData}
<1>1. NoTopologyLeaves \in ConfigsOf(Topology)
  BY ClosedAssumption, DataAssumption DEF ConfigsOf, Topology
<1> QED
  BY <1>1 DEF Observed, ReconcileTypeOK

\* What is at work is the worker's own.
LEMMA WorkType ==
  ASSUME ReconcileTypeOK, NEW k \in Clients, work[k] # NoData
  PROVE  /\ work[k].resource \in Resources
         /\ Owner[work[k].resource] = k
         /\ work[k].spec \in Specs(work[k].resource) \cup {NoData}
  BY DEF ReconcileTypeOK, Works

LEMMA ObserveAsks ==
  ASSUME ReconcileTypeOK, NEW k \in Clients, Observe(k)
  PROVE  (\E q \in Requests[k] : Issue(k, q)) \/ GetReturns(k)
<1> DEFINE r == work[k].resource
           spec == work[k].spec
<1>1. At(k, "observe")
  BY DEF Observe, UpToDate, Create, Update, Delete, Release, ObservesWanted, ObservesDeleted
<1>2. r \in Resources /\ Owner[r] = k /\ spec \in Specs(r) \cup {NoData}
  BY <1>1, WorkType DEF At
<1>3. Seen(k) \in ConfigsOf(r) \cup {NoData}
  BY <1>2, ObservedType DEF Seen
<1>4. CASE UpToDate(k) \/ Release(k)
  BY <1>4 DEF UpToDate, Release
<1>5. CASE Create(k)
  <2>1. spec \in Specs(r)
    BY <1>2, <1>5 DEF Create, ObservesWanted
  <2>2. CreateRequest(r, spec) \in Requests[k]
    BY <1>2, <2>1, WorkersAssumption
  <2> QED
    BY <1>5, <2>2 DEF Create, SendSet
<1>6. CASE Update(k)
  <2>1. spec \in Specs(r) /\ Seen(k) \in ConfigsOf(r)
    BY <1>2, <1>3, <1>6 DEF Update, ObservesWanted
  <2>2. UpdateRequest(r, spec, Seen(k)) \in Requests[k]
    BY <1>2, <2>1, WorkersAssumption
  <2> QED
    BY <1>6, <2>2 DEF Update, SendSet
<1>7. CASE Delete(k)
  <2>1. DeleteRequest(r) \in Requests[k]
    BY <1>2, WorkersAssumption
  <2> QED
    BY <1>7, <2>1 DEF Delete, SendSet
<1> QED
  BY <1>4, <1>5, <1>6, <1>7 DEF Observe

LEMMA ServerStepped == ReconcileTypeOK /\ [RNext]_allVars => [SetNext]_setVars
<1> SUFFICES ASSUME ReconcileTypeOK, [RNext]_allVars
             PROVE  [SetNext]_setVars
  OBVIOUS
<1>1. ASSUME NEW r \in Resources, User(r)
      PROVE  UNCHANGED setVars
  BY <1>1 DEF User
<1>2. ASSUME NEW k \in Clients, Observe(k)
      PROVE  [SetNext]_setVars
  BY <1>2, ObserveAsks DEF SetNext
<1>3. ASSUME NEW k \in Clients, AskRefused(k)
      PROVE  UNCHANGED setVars
  BY <1>3 DEF AskRefused
<1>7. ASSUME NEW k \in Clients,
             (\E r \in Resources : Fetch(k, r)) \/ Validate(k) \/ AskState(k)
      PROVE  SetNext
  BY <1>7 DEF Fetch, Validate, AskState, SetNext
<1>4. ASSUME NEW k \in Clients, ServerStep(k)
      PROVE  SetNext
  BY <1>4 DEF ServerStep, SetNext
<1>5. CASE ReconcilerRestart
  BY <1>5 DEF ReconcilerRestart, SetNext
<1>6. CASE UNCHANGED allVars
  BY <1>6 DEF allVars
<1> QED
  BY <1>1, <1>2, <1>3, <1>4, <1>5, <1>6, <1>7 DEF RNext

\* So they keep what the server keeps.
LEMMA ServerInvStep ==
  ASSUME SetInv, TypeOK, DataConfigured, [SetNext]_setVars
  PROVE  SetInv' /\ TypeOK' /\ DataConfigured'
  BY SetStep, StepImplements, TypeStep, DataStep

(***************************************************************************)
(* An RPC hands over what its worker owns.                                 *)
(***************************************************************************)
LEMMA OwnedStep ==
  ASSUME SetInv, OwnedObjects, [SetNext]_setVars
  PROVE  OwnedObjects'
<1> USE DEF SetInv, SetTypeOK
<1>1. ASSUME pc' = pc, updateObjects' = updateObjects, got' = got
      PROVE  OwnedObjects'
  BY <1>1 DEF OwnedObjects
<1>2. ASSUME NEW k \in Clients, NEW to,
             to \notin {"event", "rollback"} \/ (to = "rollback" /\ pc[k] = "event"),
             pc' = [pc EXCEPT ![k] = to], got' = got,
             \A j \in Clients : updateObjects'[j] \subseteq updateObjects[j]
      PROVE  OwnedObjects'
  BY <1>2 DEF OwnedObjects
<1>3. ASSUME NEW k \in Clients, NEW r \in Resources, WriteConfig(k, r)
      PROVE  OwnedObjects'
  <2>1. req[k] \in Requests[k] /\ r \in DOMAIN req[k].write
    BY <1>3 DEF WriteConfig, TodoInRequest
  <2>2. Owner[r] = k
    BY <2>1, WorkersAssumption
  <2>3. \A S : AddObject(S, r) \subseteq S \cup {r}
    BY DEF AddObject
  <2> QED
    BY <1>3, <2>2, <2>3 DEF WriteConfig, OwnedObjects
<1>4. ASSUME NEW k \in Clients,
             \/ \E r \in Resources : DeleteConfig(k, r) \/ DeleteEvent(k, r)
             \/ \E p \in LeafPaths : DeleteLeaf(k, p)
      PROVE  OwnedObjects'
  BY <1>1, <1>4 DEF DeleteConfig, DeleteEvent, DeleteReturns, DeleteLeaf
<1>5. ASSUME NEW k \in Clients, NEW r \in Resources, ReadConfig(k, r)
      PROVE  OwnedObjects'
  BY <1>5 DEF ReadConfig, OwnedObjects
<1>6. ASSUME NEW k \in Clients,
             \/ Get(k) \/ \E q \in Requests[k] : Issue(k, q)
             \/ Receive(k) \/ ConfigFails(k) \/ ConfigDone(k) \/ DeletesDone(k)
             \/ UpdateRefused(k) \/ Rollback(k)
      PROVE  OwnedObjects'
  BY <1>2, <1>6 DEF Get, Issue, Receive, ConfigFails, ConfigDone, DeletesDone,
     UpdateRefused, UpdateFails, Rollback
<1>7. ASSUME NEW k \in Clients, UpdateEvent(k)
      PROVE  OwnedObjects'
  BY <1>7 DEF UpdateEvent, UpdateReturns, OwnedObjects
<1>8. ASSUME NEW k \in Clients, GetReturns(k) \/ Refuse(k) \/ Reply(k)
      PROVE  OwnedObjects'
  BY <1>8 DEF GetReturns, Refuse, Reply, End, OwnedObjects
<1>9. ASSUME NEW k \in Clients, EventPanics(k)
      PROVE  OwnedObjects'
  BY <1>9 DEF EventPanics, DropRpcs, OwnedObjects
<1>10. CASE ProcessRestart \/ UNCHANGED setVars
  BY <1>1, <1>10 DEF ProcessRestart, setVars, rpcVars
<1> QED
  BY <1>3, <1>4, <1>5, <1>6, <1>7, <1>8, <1>9, <1>10 DEF SetNext, RpcStep

-----------------------------------------------------------------------------
(***************************************************************************)
(* What the state cache shows.                                             *)
(***************************************************************************)
\* Having data, after a step.
LEMMA HoldsSomeNext ==
  ASSUME NEW r, NEW c, Holds(r, c)'
  PROVE  DataOf(r)' # NoData
  BY DEF Holds

\* Data that is there is there after a step that keeps the configuration.
LEMMA KeptData ==
  ASSUME NEW r, DataOf(r) # NoData, ConfigKept(r)
  PROVE  DataOf(r)' # NoData
<1>1. PICK c : Holds(r, c)
  BY HoldsSome
<1> QED
  BY <1>1, HoldsSomeNext DEF ConfigKept

\* The handlers that write themselves to the state cache have data.
LEMMA WritersHaveData ==
  ASSUME SetInv, TypeOK, NEW k \in Clients, UpdateEvent(k), got[k].data # NoData,
         NEW r \in Resources, r \in Writers(k)
  PROVE  DataOf(r)' # NoData
<1>0. PICK s \in Resources : s = got[k].resource
  BY GotTyped DEF UpdateEvent, UpdateReturns
<1>1. PICK d \in ConfigsOf(s), kids \in SUBSET Children :
        d = got[k].data /\ HandleUpdate(s, d, kids)
  BY <1>0, GotTyped DEF UpdateEvent, UpdateReturns
<1>2. d # NoData
  BY <1>1
<1>3. Holds(s, d)' /\ \A t \in Resources \ {s} : ConfigKept(t)
  BY <1>1, <1>2, HandleApplies
<1>4. CASE r = s
  BY <1>3, <1>4, HoldsSomeNext
<1>5. ASSUME r # s, DataOf(r) # NoData
      PROVE  DataOf(r)' # NoData
  BY <1>3, <1>5, KeptData
<1>6. CASE r # s /\ s = Topology
  <2>1. r \in Observers /\ topologyData'.status # Nil
    BY <1>0, <1>6, ResourceKinds DEF Writers
  <2>2. TopologyUpdate(d, kids)
    BY <1>1, <1>2, <1>6, ResourceKinds DEF HandleUpdate
  <2>3. \/ r \in Nodes /\ nodeData[r] # NoData
        \/ r \in Links /\ linkData[r] # NoData
    BY <2>1, <2>2 DEF TopologyUpdate, Observers, Children
  <2>4. DataOf(r) # NoData
    BY <2>3, ResourceKinds DEF DataOf
  <2> QED
    BY <1>5, <1>6, <2>4
<1>7. CASE r # s /\ s \in Nodes
  <2>1. Writers(k) = {s}
    BY <1>0, <1>7, ResourceKinds DEF Writers
  <2> QED
    BY <1>7, <2>1
<1>8. CASE r # s /\ s \in Links
  <2>1. PICK le \in Ends(d) : r = le.node
    BY <1>0, <1>1, <1>8, ResourceKinds DEF Writers
  <2>2. LinkUpdate(s, d) /\ d \in LinkConfig
    BY <1>1, <1>2, <1>8, ResourceKinds, ConfigAssumption DEF HandleUpdate, ConfigsOf
  <2>3. nodeData[r] # NoData
    BY <2>1, <2>2 DEF LinkUpdate
  <2>4. r \in Nodes
    <3>1. PICK i \in DOMAIN d.endpoints : le = d.endpoints[i]
      BY DEF Ends
    <3>2. d.endpoints \in Seq(LinkEndpoint)
      BY <2>2 DEF LinkConfig
    <3>3. le \in LinkEndpoint
      BY <3>1, <3>2
    <3> QED
      BY <2>1, <3>3 DEF LinkEndpoint
  <2>5. DataOf(r) # NoData
    BY <2>3, <2>4, ResourceKinds DEF DataOf
  <2> QED
    BY <1>5, <1>8, <2>5
<1> QED
  BY <1>4, <1>6, <1>7, <1>8, ResourceKinds

\* An event of the topology makes what it writes appear, and nothing else.
LEMMA TopologyAppears ==
  ASSUME TypeOK, NEW c \in TopologyConfigs, NEW kids \in SUBSET Children,
         TopologyUpdate(c, kids), NEW r \in Resources,
         stateCache[r] = NoData, stateCache'[r] # NoData
  PROVE  r = Topology \/ r \in kids \/ (topologyData'.status # Nil /\ r \in Observers)
<1> DEFINE s == topologyData'.status
           cache == CachedObservers(stateCache, s, nodeData', linkData')
<1>1. stateCache' = CachedTopology(cache, topologyData', kids)
  BY DEF TopologyUpdate
<1>2. ASSUME r # Topology, r \notin kids
      PROVE  stateCache'[r] = cache[r]
  BY <1>1, <1>2, ResourceKinds DEF CachedTopology, Cached
<1>3. ASSUME s = Nil \/ r \notin Observers
      PROVE  cache[r] = stateCache[r]
  BY <1>3 DEF CachedObservers
<1> QED
  BY <1>2, <1>3

\* What appears in the state cache has been written there.
LEMMA StateAppears ==
  ASSUME SetInv, TypeOK, NEW k \in Clients, RpcStep(k), NEW r \in Resources,
         stateCache[r] = NoData, stateCache'[r] # NoData
  PROVE  Applies(k) /\ r \in Writers(k) \cup WrittenByTopology(k)
<1>0. stateCache' # stateCache
  OBVIOUS
<1>1. UpdateEvent(k)
  <2>1. ASSUME \/ Refuse(k) \/ Receive(k) \/ ConfigFails(k) \/ ConfigDone(k)
               \/ \E s \in Resources : WriteConfig(k, s) \/ DeleteConfig(k, s)
               \/ \E p \in LeafPaths : DeleteLeaf(k, p)
               \/ DeletesDone(k) \/ Rollback(k) \/ Reply(k)
               \/ \E s \in Resources : ReadConfig(k, s)
        PROVE  FALSE
    BY <1>0, <2>1 DEF Refuse, Receive, ConfigFails, ConfigDone, WriteConfig,
       DeleteConfig, DeleteLeaf, DeletesDone, Rollback, Reply, ReadConfig, appVars, vars
  <2>2. ASSUME NEW s \in Resources, DeleteEvent(k, s)
        PROVE  FALSE
    BY <2>2 DEF DeleteEvent, DeleteReturns, HandleDelete, TopologyDelete, ChildDelete, TypeOK
  <2>3. ~UpdateRefused(k)
    BY <1>0 DEF UpdateRefused, UpdateFails, LinkRefused
  <2>4. ~EventPanics(k)
    BY DEF EventPanics, Die
  <2> QED
    BY <2>1, <2>2, <2>3, <2>4 DEF RpcStep
<1>2. PICK s \in Resources : s = got[k].resource
  BY <1>1, GotTyped DEF UpdateEvent, UpdateReturns
<1>3. PICK d \in ConfigsOf(s) \cup {NoData}, kids \in SUBSET Children :
        d = got[k].data /\ kids = got[k].kids /\ HandleUpdate(s, d, kids)
  BY <1>1, <1>2, GotTyped DEF UpdateEvent, UpdateReturns
<1>4. d # NoData
  BY <1>0, <1>3 DEF HandleUpdate, UpdateWithoutData
<1>5. Applies(k)
  BY <1>1, <1>3, <1>4 DEF UpdateEvent, UpdateReturns, Applies, SetInv, SetTypeOK
<1>6. CASE s = Topology
  <2>1. TopologyUpdate(d, kids) /\ d \in TopologyConfigs
    BY <1>3, <1>4, <1>6, ResourceKinds DEF HandleUpdate, ConfigsOf
  <2>2. r = Topology \/ r \in kids \/ (topologyData'.status # Nil /\ r \in Observers)
    BY <2>1, TopologyAppears
  <2> QED
    BY <1>2, <1>3, <1>5, <1>6, <2>2, ResourceKinds DEF Writers, WrittenByTopology
<1>7. CASE s \in Nodes
  <2>1. NodeUpdate(s, d)
    BY <1>3, <1>4, <1>7, ResourceKinds DEF HandleUpdate
  <2>2. r = s
    BY <2>1 DEF NodeUpdate, Cached, TypeOK
  <2> QED
    BY <1>2, <1>5, <1>7, <2>2, ResourceKinds DEF Writers
<1>8. CASE s \in Links
  <2>1. LinkUpdate(s, d) /\ d \in LinkConfig
    BY <1>3, <1>4, <1>8, ResourceKinds, ConfigAssumption DEF HandleUpdate, ConfigsOf
  <2>2. r \in {s, d.endpoints[1].node, d.endpoints[2].node}
    BY <2>1 DEF LinkUpdate, Cached, TypeOK
  <2>3. d.endpoints[1] \in Ends(d) /\ d.endpoints[2] \in Ends(d)
    BY <2>1 DEF LinkUpdate, Ends, LinkConfig
  <2>4. r \in {s} \cup {le.node : le \in Ends(d)}
    BY <2>2, <2>3
  <2> QED
    BY <1>2, <1>3, <1>5, <1>8, <2>4, ResourceKinds DEF Writers
<1> QED
  BY <1>6, <1>7, <1>8, ResourceKinds

\* Whoever applies what it read is at the update event.
LEMMA AppliesIsUpdate ==
  ASSUME SetInv, NEW k \in Clients, RpcStep(k), Applies(k)
  PROVE  UpdateEvent(k)
<1> USE DEF Applies, SetInv, SetTypeOK
<1>1. ~UpdateRefused(k) /\ ~EventPanics(k)
  BY DEF UpdateRefused, UpdateFails, EventPanics, DropRpcs
<1>2. ASSUME \/ Refuse(k) \/ Receive(k) \/ ConfigFails(k) \/ ConfigDone(k)
             \/ \E s \in Resources : WriteConfig(k, s) \/ DeleteConfig(k, s)
             \/ \E p \in LeafPaths : DeleteLeaf(k, p)
             \/ \E s \in Resources : DeleteEvent(k, s)
             \/ DeletesDone(k) \/ Rollback(k) \/ Reply(k)
             \/ \E s \in Resources : ReadConfig(k, s)
      PROVE  FALSE
  BY <1>2 DEF Refuse, Receive, ConfigFails, ConfigDone, WriteConfig, DeleteConfig,
     DeleteLeaf, DeleteEvent, DeleteReturns, DeletesDone, Rollback, Reply, ReadConfig
<1> QED
  BY <1>1, <1>2 DEF RpcStep

ShownTyped ==
  /\ DOMAIN shown = Resources
  /\ \A r \in Resources : shown[r] \in ConfigsOf(r) \cup {NoData}
  /\ \A r \in Resources : shown[r] = NoData <=> stateCache[r] = NoData

CopiedTyped ==
  /\ DOMAIN copied = Children
  /\ \A c \in Children : copied[c] \in ConfigsOf(c) \cup {NoData}

\* A server step shows configurations, of what the state cache has.
LEMMA ShownStep ==
  ASSUME ReconcileInv, DataConfigured', NEW k \in Clients, ServerStep(k)
  PROVE  ShownTyped'
<1> DEFINE own == [r \in Resources |->
                     IF Applies(k) /\ r \in Writers(k)
                     THEN MergeConfig(r, shown[r], ConfigIn(r, DataOf(r)')) ELSE shown[r]]
           all == [r \in Resources |->
                     IF Applies(k) /\ r \in WrittenByTopology(k)
                     THEN MergeConfig(r, own[r], copied[r]) ELSE own[r]]
<1>1. /\ SetInv /\ TypeOK /\ ShownTyped /\ CopiedTyped /\ KidsCopied
      /\ RpcStep(k) /\ shown' = ShownAfter(k)
  BY DEF ReconcileInv, ServerInv, ReconcileTypeOK, ShownTyped, CopiedTyped, ServerStep
<1>2. shown' = [r \in Resources |-> IF stateCache'[r] = NoData THEN NoData ELSE all[r]]
  BY <1>1 DEF ShownAfter
<1>3. ASSUME NEW r \in Resources
      PROVE  /\ own[r] \in ConfigsOf(r) \cup {NoData}
             /\ Applies(k) /\ r \in Writers(k) => own[r] # NoData
             /\ ~(Applies(k) /\ r \in Writers(k)) => own[r] = shown[r]
  <2>1. CASE Applies(k) /\ r \in Writers(k)
    <3>1. UpdateEvent(k) /\ got[k].data # NoData
      BY <1>1, <2>1, AppliesIsUpdate DEF Applies
    <3>2. DataOf(r)' # NoData
      BY <1>1, <2>1, <3>1, WritersHaveData
    <3>3. ConfigIn(r, DataOf(r)') \in ConfigsOf(r)
      BY <3>2 DEF DataConfigured
    <3>4. MergeConfig(r, shown[r], ConfigIn(r, DataOf(r)')) \in ConfigsOf(r)
      BY <1>1, <3>3, ConfigsClosed DEF ShownTyped
    <3> QED
      BY <2>1, <3>4, ConfigIsData
  <2>2. CASE ~(Applies(k) /\ r \in Writers(k))
    BY <1>1, <2>2 DEF ShownTyped
  <2> QED
    BY <2>1, <2>2
<1> HIDE DEF own
<1>4. ASSUME NEW r \in Resources
      PROVE  /\ all[r] \in ConfigsOf(r) \cup {NoData}
             /\ Applies(k) /\ r \in WrittenByTopology(k) => all[r] # NoData
             /\ ~(Applies(k) /\ r \in WrittenByTopology(k)) => all[r] = own[r]
  <2>1. CASE Applies(k) /\ r \in WrittenByTopology(k)
    <3>1. /\ pc[k] = "event" /\ got[k].resource = Topology /\ r \in got[k].kids
          /\ r \in Children
      BY <1>1, <2>1, GotTyped DEF Applies, WrittenByTopology
    <3>2. copied[r] \in ConfigsOf(r)
      BY <1>1, <3>1 DEF KidsCopied, CopiedTyped
    <3>3. MergeConfig(r, own[r], copied[r]) \in ConfigsOf(r)
      BY <1>3, <3>2, ConfigsClosed
    <3> QED
      BY <2>1, <3>3, ConfigIsData
  <2>2. CASE ~(Applies(k) /\ r \in WrittenByTopology(k))
    BY <1>3, <2>2
  <2> QED
    BY <2>1, <2>2
<1> HIDE DEF all
<1>5. ASSUME NEW r \in Resources
      PROVE  /\ shown'[r] \in ConfigsOf(r) \cup {NoData}
             /\ shown'[r] = NoData <=> stateCache'[r] = NoData
  <2>1. shown'[r] = IF stateCache'[r] = NoData THEN NoData ELSE all[r]
    BY <1>2
  <2>2. ASSUME stateCache'[r] # NoData
        PROVE  all[r] # NoData
    <3>1. CASE stateCache[r] = NoData
      <4>1. Applies(k) /\ r \in Writers(k) \cup WrittenByTopology(k)
        BY <1>1, <2>2, <3>1, StateAppears
      <4> QED
        BY <1>3, <1>4, <4>1
    <3>2. CASE stateCache[r] # NoData
      <4>1. shown[r] # NoData
        BY <1>1, <3>2 DEF ShownTyped
      <4> QED
        BY <1>3, <1>4, <4>1
    <3> QED
      BY <3>1, <3>2
  <2> QED
    BY <1>4, <2>1, <2>2
<1> QED
  BY <1>2, <1>5 DEF ShownTyped

-----------------------------------------------------------------------------
(***************************************************************************)
(* What a topology's event writes of its children it has read.             *)
(***************************************************************************)
\* A step that takes the process with it takes every RPC.
LEMMA DeadIsIdle ==
  ASSUME SetInv, NEW k \in Clients, RpcStep(k), ~alive'
  PROVE  pc' = [j \in Clients |-> "idle"]
<1>1. CASE EventPanics(k)
  BY <1>1 DEF EventPanics, DropRpcs
<1>2. ASSUME alive, alive' = alive
      PROVE  FALSE
  BY <1>2, Zenon
<1>3. ASSUME \/ Refuse(k) \/ Receive(k) \/ ConfigFails(k) \/ ConfigDone(k)
             \/ \E s \in Resources : WriteConfig(k, s) \/ DeleteConfig(k, s)
             \/ \E p \in LeafPaths : DeleteLeaf(k, p)
             \/ DeletesDone(k) \/ Rollback(k) \/ Reply(k)
             \/ \E s \in Resources : ReadConfig(k, s)
      PROVE  FALSE
  <2>1. alive /\ alive' = alive
    BY <1>3 DEF Refuse, Receive, ConfigFails, ConfigDone, WriteConfig, DeleteConfig,
       DeleteLeaf, DeletesDone, Rollback, Reply, ReadConfig, appVars, vars
  <2> QED
    BY <1>2, <2>1
<1>4. ASSUME \E s \in Resources : DeleteEvent(k, s)
      PROVE  FALSE
  BY <1>2, <1>4 DEF DeleteEvent, DeleteReturns, HandleDelete, TopologyDelete, ChildDelete
<1>5. ASSUME UpdateEvent(k) \/ UpdateRefused(k)
      PROVE  FALSE
  <2>1. alive /\ alive' = alive
    BY <1>5 DEF UpdateEvent, UpdateReturns, HandleUpdate, UpdateWithoutData, TopologyUpdate, NodeUpdate,
       LinkUpdate, UpdateRefused, UpdateFails, LinkRefused
  <2> QED
    BY <1>2, <2>1
<1> QED
  BY <1>1, <1>3, <1>4, <1>5 DEF RpcStep

\* Where the others are does not change while the process lives.
LEMMA OthersStay ==
  ASSUME SetInv, NEW k \in Clients, RpcStep(k), alive'
  PROVE  \A j \in Clients \ {k} : pc'[j] = pc[j] /\ got'[j] = got[j]
<1> USE DEF SetInv, SetTypeOK
<1>1. ASSUME \/ Refuse(k) \/ Receive(k) \/ ConfigFails(k) \/ ConfigDone(k)
             \/ DeletesDone(k) \/ Rollback(k) \/ Reply(k)
             \/ UpdateEvent(k) \/ UpdateRefused(k)
             \/ \E s \in Resources : ReadConfig(k, s)
      PROVE  \A j \in Clients \ {k} : pc'[j] = pc[j] /\ got'[j] = got[j]
  BY <1>1 DEF Refuse, Receive, ConfigFails, ConfigDone, DeletesDone, Rollback, Reply,
     End, UpdateEvent, UpdateReturns, UpdateRefused, UpdateFails, ReadConfig
<1>2. ASSUME \/ \E s \in Resources : \/ WriteConfig(k, s) \/ DeleteConfig(k, s)
                                     \/ DeleteEvent(k, s)
             \/ \E p \in LeafPaths : DeleteLeaf(k, p)
      PROVE  \A j \in Clients \ {k} : pc'[j] = pc[j] /\ got'[j] = got[j]
  BY <1>2 DEF WriteConfig, DeleteConfig, DeleteEvent, DeleteReturns, DeleteLeaf
<1>3. ~EventPanics(k)
  BY DEF EventPanics, Die
<1> QED
  BY <1>1, <1>2, <1>3 DEF RpcStep

\* An RPC that takes a step is a Set, and does not become a Get.
LEMMA StepOfSet ==
  ASSUME SetInv, NEW k \in Clients, RpcStep(k)
  PROVE  pc[k] \notin {"idle", "get"} /\ pc'[k] # "get"
<1> USE DEF SetInv, SetTypeOK
<1>1. ASSUME \/ Refuse(k) \/ Receive(k) \/ ConfigFails(k) \/ ConfigDone(k)
             \/ DeletesDone(k) \/ Rollback(k) \/ Reply(k)
             \/ UpdateEvent(k) \/ UpdateRefused(k)
             \/ \E s \in Resources : ReadConfig(k, s)
      PROVE  pc[k] \notin {"idle", "get"} /\ pc'[k] # "get"
  BY <1>1 DEF Refuse, Receive, ConfigFails, ConfigDone, DeletesDone, Rollback, Reply,
     End, UpdateEvent, UpdateReturns, UpdateRefused, UpdateFails, ReadConfig
<1>2. ASSUME \/ \E s \in Resources : \/ WriteConfig(k, s) \/ DeleteConfig(k, s)
                                     \/ DeleteEvent(k, s)
             \/ \E p \in LeafPaths : DeleteLeaf(k, p)
      PROVE  pc[k] \notin {"idle", "get"} /\ pc'[k] # "get"
  BY <1>2 DEF WriteConfig, DeleteConfig, DeleteEvent, DeleteReturns, DeleteLeaf
<1>3. CASE EventPanics(k)
  BY <1>3 DEF EventPanics, DropRpcs
<1> QED
  BY <1>1, <1>2, <1>3 DEF RpcStep

\* A step that brings an RPC to its event is a read, from "updates".
LEMMA ReadsBefore ==
  ASSUME SetInv, NEW k \in Clients, RpcStep(k), pc'[k] = "event"
  PROVE  /\ pc[k] = "updates"
         /\ got'[k].kids = Kids
<1> USE DEF SetInv, SetTypeOK
<1>1. ASSUME \/ Refuse(k) \/ Receive(k) \/ ConfigFails(k) \/ ConfigDone(k)
             \/ DeletesDone(k) \/ Rollback(k) \/ Reply(k)
             \/ UpdateEvent(k) \/ UpdateRefused(k) \/ EventPanics(k)
      PROVE  FALSE
  BY <1>1 DEF Refuse, Receive, ConfigFails, ConfigDone, DeletesDone, Rollback, Reply,
     End, UpdateEvent, UpdateReturns, UpdateRefused, UpdateFails, EventPanics, DropRpcs
<1>2. ASSUME \/ \E s \in Resources : \/ WriteConfig(k, s) \/ DeleteConfig(k, s)
                                     \/ DeleteEvent(k, s)
             \/ \E p \in LeafPaths : DeleteLeaf(k, p)
      PROVE  FALSE
  BY <1>2 DEF WriteConfig, DeleteConfig, DeleteEvent, DeleteReturns, DeleteLeaf
<1>3. PICK s \in Resources : ReadConfig(k, s)
  BY <1>1, <1>2 DEF RpcStep
<1> QED
  BY <1>3 DEF ReadConfig

LEMMA CopiedStep ==
  ASSUME ReconcileInv, OwnedObjects', NEW k \in Clients, ServerStep(k)
  PROVE  CopiedTyped' /\ KidsCopied'
<1>1. /\ SetInv /\ CopiedTyped /\ KidsCopied /\ OwnedObjects
      /\ RpcStep(k) /\ copied' = CopiedAfter(k)
  BY DEF ReconcileInv, ServerInv, ReconcileTypeOK, CopiedTyped, ServerStep
<1>2. CopiedTyped'
  BY <1>1 DEF CopiedAfter, CopiedTyped, SetInv, SetTypeOK, Resources
<1>3. CASE ~alive'
  <2>1. pc' = [j \in Clients |-> "idle"]
    BY <1>1, <1>3, DeadIsIdle
  <2> QED
    BY <1>2, <2>1 DEF KidsCopied
<1>4. CASE alive'
  <2> SUFFICES ASSUME NEW j \in Clients, pc'[j] = "event", got'[j].resource = Topology,
                      NEW c \in got'[j].kids
               PROVE  copied'[c] # NoData
    BY <1>2 DEF KidsCopied
  <2>0. Owner[Topology] = j
    BY DEF OwnedObjects
  <2>1. CASE j = k
    <3>1. pc[k] = "updates" /\ got'[k].kids = Kids
      BY <1>1, <2>1, ReadsBefore
    <3>2. copied' = [s \in Children |-> configCache[s]]
      BY <1>1, <2>1, <3>1 DEF CopiedAfter
    <3> QED
      BY <2>1, <3>1, <3>2 DEF Kids
  <2>2. CASE j # k
    <3>1. pc[j] = "event" /\ got[j] = got'[j]
      BY <1>1, <1>4, <2>2, OthersStay
    <3>2. ~(pc'[k] = "event" /\ got'[k].resource = Topology)
      BY <2>0, <2>2 DEF OwnedObjects
    <3>3. ~(pc[k] = "event" /\ got[k].resource = Topology)
      BY <1>1, <2>0, <2>2 DEF OwnedObjects
    <3>4. copied' = copied
      BY <1>1, <1>4, <3>2, <3>3 DEF CopiedAfter
    <3> QED
      BY <1>1, <3>1, <3>4 DEF KidsCopied
  <2> QED
    BY <2>1, <2>2
<1> QED
  BY <1>2, <1>3, <1>4

-----------------------------------------------------------------------------
(***************************************************************************)
(* The reconcilers' own state.                                             *)
(***************************************************************************)
WorkTyped ==
  /\ DOMAIN position = Resources
  /\ \A r \in Resources : position[r] \in 0..Len(History[r])
  /\ objects \subseteq Resources
  /\ DOMAIN work = Clients
  /\ \A k \in Clients : work[k] # NoData =>
       /\ work[k].resource \in objects
       /\ Owner[work[k].resource] = k
       /\ work[k] \in Works(work[k].resource)

\* A reconciler holds a permit while its Get is answered.
GetsTyped ==
  \A k \in Clients :
    /\ pc[k] = "get" <=> At(k, "validate") \/ At(k, "observe")
    /\ At(k, "ask") => pc[k] = "idle"

LEMMA TypedParts == ReconcileTypeOK <=> WorkTyped /\ GetsTyped /\ ShownTyped /\ CopiedTyped
  BY DEF ReconcileTypeOK, WorkTyped, GetsTyped, ShownTyped, CopiedTyped

LEMMA HistoryType ==
  ASSUME NEW r \in Resources
  PROVE  History[r] \in Seq(ConfigsOf(r) \cup {NoData}) /\ Len(History[r]) \in Nat
  BY HistoryAssumption

LEMMA DesiredType ==
  ASSUME WorkTyped, NEW r \in Resources
  PROVE  Desired(r) \in Specs(r) \cup {NoData}
<1>1. History[r] \in Seq(ConfigsOf(r) \cup {NoData}) /\ position[r] \in 0..Len(History[r])
  BY HistoryType DEF WorkTyped
<1>2. position[r] # 0 => position[r] \in DOMAIN History[r]
  BY <1>1
<1> QED
  BY <1>2 DEF Desired, Specs

\* What a reconciler fetches, and a reconciler whose work goes on.
LEMMA WorkFetched ==
  ASSUME WorkTyped, NEW r \in Resources
  PROVE  LET w == [resource |-> r, spec |-> Desired(r), step |-> "validate"]
         IN  w \in Works(r) /\ w # NoData
<1>1. [resource |-> r, spec |-> Desired(r), step |-> "validate"] \in Works(r)
  BY DesiredType DEF Works
<1> QED
  BY <1>1, WorkAssumption

LEMMA WorkGoesOn ==
  ASSUME NEW r \in Resources, NEW w \in Works(r), NEW step \in {"ask", "observe"},
         NEW v, v = [w EXCEPT !.step = step]
  PROVE  v \in Works(r) /\ v # NoData /\ v.step = step /\ v.resource = r
BY WorkAssumption DEF Works

LEMMA WorkStep ==
  ASSUME WorkTyped, [RNext]_allVars
  PROVE  WorkTyped'
<1>1. ASSUME UNCHANGED <<position, objects>>,
             work' = work \/ (\E k \in Clients : WorkDone(k))
                \/ work' = [j \in Clients |-> NoData]
      PROVE  WorkTyped'
  BY <1>1 DEF WorkTyped, WorkDone
<1>2. ASSUME NEW r \in Resources, User(r)
      PROVE  WorkTyped'
  <2>1. /\ DOMAIN position' = Resources
        /\ \A s \in Resources : position'[s] \in 0..Len(History[s])
    <3>1. position[r] + 1 \in 0..Len(History[r])
      BY <1>2, HistoryType DEF User, WorkTyped
    <3> QED
      BY <1>2, <3>1 DEF User, WorkTyped
  <2>2. objects \subseteq objects' /\ objects' \subseteq Resources
    BY <1>2 DEF User, WorkTyped
  <2> QED
    BY <1>2, <2>1, <2>2 DEF User, WorkTyped
<1>3. ASSUME NEW k \in Clients, NEW r \in Resources, Fetch(k, r)
      PROVE  WorkTyped'
  <2>1. Desired(r) \in Specs(r) \cup {NoData}
    BY DesiredType
  <2>2. /\ work' = [work EXCEPT ![k] = [resource |-> r, spec |-> Desired(r),
                                       step |-> "validate"]]
        /\ r \in objects /\ Owner[r] = k /\ UNCHANGED <<position, objects>>
    BY <1>3 DEF Fetch
  <2>3. [resource |-> r, spec |-> Desired(r), step |-> "validate"] \in Works(r)
    BY WorkFetched
  <2> QED
    BY <2>1, <2>2, <2>3 DEF WorkTyped
<1>8. ASSUME NEW k \in Clients, NEW step \in {"ask", "observe"}, work[k] # NoData,
             work' = [work EXCEPT ![k].step = step], UNCHANGED <<position, objects>>
      PROVE  WorkTyped'
  <2>1. \A j \in Clients \ {k} : work'[j] = work[j]
    BY <1>8 DEF WorkTyped
  <2>2. /\ work[k].resource \in Resources /\ work[k] \in Works(work[k].resource)
        /\ work'[k] = [work[k] EXCEPT !.step = step]
    BY <1>8 DEF WorkTyped
  <2>3. /\ work'[k] \in Works(work[k].resource)
        /\ work'[k].resource = work[k].resource
    BY <2>2, WorkGoesOn
  <2>4. DOMAIN work' = Clients
    BY <1>8 DEF WorkTyped
  <2> QED
    BY <1>8, <2>1, <2>3, <2>4 DEF WorkTyped
<1>9. ASSUME NEW k \in Clients, Validate(k) \/ AskState(k)
      PROVE  WorkTyped'
  BY <1>1, <1>8, <1>9 DEF Validate, AskState, At
<1>4. ASSUME NEW k \in Clients,
             UpToDate(k) \/ Create(k) \/ Update(k) \/ Delete(k) \/ AskRefused(k)
      PROVE  WorkTyped'
  BY <1>1, <1>4 DEF UpToDate, Create, Update, Delete, SendSet, AskRefused
<1>5. ASSUME NEW k \in Clients, Release(k)
      PROVE  WorkTyped'
  <2>1. /\ work[k] # NoData
        /\ work' = [work EXCEPT ![k] = NoData]
        /\ objects' = objects \ {work[k].resource}
        /\ position' = position
    BY <1>5 DEF Release, ObservesDeleted, At, WorkDone
  <2>2. ASSUME NEW j \in Clients, work'[j] # NoData
        PROVE  /\ work'[j] = work[j]
               /\ work[j].resource \in objects'
    <3>1. j # k /\ work'[j] = work[j]
      BY <2>1, <2>2 DEF WorkTyped
    <3>2. work[j].resource # work[k].resource
      BY <2>1, <2>2, <3>1 DEF WorkTyped
    <3> QED
      BY <2>1, <2>2, <3>1, <3>2 DEF WorkTyped
  <2> QED
    BY <2>1, <2>2 DEF WorkTyped
<1>6. ASSUME NEW k \in Clients, ServerStep(k)
      PROVE  WorkTyped'
  BY <1>1, <1>6 DEF ServerStep
<1>7. CASE ReconcilerRestart \/ UNCHANGED allVars
  BY <1>1, <1>7 DEF ReconcilerRestart, reconcileVars, allVars
<1> QED
  BY <1>2, <1>3, <1>4, <1>5, <1>6, <1>7, <1>9 DEF RNext, Observe

LEMMA GetsStep ==
  ASSUME SetInv, WorkTyped, GetsTyped, [RNext]_allVars
  PROVE  GetsTyped'
<1> USE DEF SetInv, SetTypeOK, WorkTyped, GetsTyped, At
<1>1. ASSUME UNCHANGED <<pc, work>>
      PROVE  GetsTyped'
  BY <1>1
<1>2. ASSUME NEW r \in Resources, User(r)
      PROVE  GetsTyped'
  BY <1>1, <1>2 DEF User, setVars, rpcVars
<1>3. ASSUME NEW k \in Clients, NEW r \in Resources, Fetch(k, r)
      PROVE  GetsTyped'
  <2>1. /\ work' = [work EXCEPT ![k] = [resource |-> r, spec |-> Desired(r),
                                       step |-> "validate"]]
        /\ pc' = [pc EXCEPT ![k] = "get"]
    BY <1>3 DEF Fetch, Get
  <2>2. work'[k] = [resource |-> r, spec |-> Desired(r), step |-> "validate"]
    BY <2>1
  <2>3. work'[k].step = "validate" /\ work'[k] # NoData
    BY <2>2, WorkFetched
  <2> QED
    BY <2>1, <2>3
<1>4. ASSUME NEW k \in Clients, Validate(k)
      PROVE  GetsTyped'
  <2>1. /\ pc' = [pc EXCEPT ![k] = "idle"]
        /\ \/ work' = [work EXCEPT ![k].step = "ask"]
           \/ work' = [work EXCEPT ![k] = NoData]
    BY <1>4 DEF Validate, GetReturns, End, WorkDone
  <2>2. CASE work' = [work EXCEPT ![k].step = "ask"]
    <3>1. \A j \in Clients : work'[j] = IF j = k THEN [work[k] EXCEPT !.step = "ask"] ELSE work[j]
      BY <2>2
    <3>2. /\ work[k].resource \in Resources /\ work[k] \in Works(work[k].resource)
          /\ work'[k] = [work[k] EXCEPT !.step = "ask"]
      BY <1>4, <3>1 DEF Validate
    <3>3. work'[k].step = "ask"
      BY <3>2, WorkGoesOn
    <3> QED
      BY <2>1, <3>1, <3>3, <1>4 DEF Validate
  <2>3. CASE work' = [work EXCEPT ![k] = NoData]
    BY <2>1, <2>3
  <2> QED
    BY <2>1, <2>2, <2>3
<1>5. ASSUME NEW k \in Clients, AskState(k)
      PROVE  GetsTyped'
  <2>1. /\ pc' = [pc EXCEPT ![k] = "get"]
        /\ work' = [work EXCEPT ![k].step = "observe"]
    BY <1>5 DEF AskState, Get
  <2>2. /\ work[k].resource \in Resources /\ work[k] \in Works(work[k].resource)
        /\ work'[k] = [work[k] EXCEPT !.step = "observe"]
    BY <2>1, <1>5 DEF AskState
  <2>3. work'[k] # NoData /\ work'[k].step = "observe"
    BY <2>2, WorkGoesOn
  <2> QED
    BY <2>1, <2>3
<1>6. ASSUME NEW k \in Clients, AskRefused(k)
      PROVE  GetsTyped'
  <2>1. pc' = pc /\ work' = [work EXCEPT ![k] = NoData] /\ pc[k] = "idle"
    BY <1>6 DEF AskRefused, WorkDone, setVars, rpcVars
  <2> QED
    BY <2>1
<1>7. ASSUME NEW k \in Clients, Observe(k)
      PROVE  GetsTyped'
  <2>1. work' = [work EXCEPT ![k] = NoData]
    BY <1>7 DEF Observe, UpToDate, Create, Update, Delete, Release, SendSet, WorkDone
  <2>2. \E to \in {"idle", "sent"} : pc' = [pc EXCEPT ![k] = to]
    BY <1>7 DEF Observe, UpToDate, Create, Update, Delete, Release, SendSet, Issue,
       GetReturns, End
  <2> QED
    BY <2>1, <2>2
<1>8. ASSUME NEW k \in Clients, ServerStep(k)
      PROVE  GetsTyped'
  <2>1. RpcStep(k) /\ work' = IF alive' THEN work ELSE [j \in Clients |-> NoData]
    BY <1>8 DEF ServerStep
  <2>2. CASE ~alive'
    <3>1. pc' = [j \in Clients |-> "idle"]
      BY <2>1, <2>2, DeadIsIdle
    <3> QED
      BY <2>1, <2>2, <3>1
  <2>3. CASE alive'
    <3>1. \A j \in Clients \ {k} : pc'[j] = pc[j]
      BY <2>1, <2>3, OthersStay
    <3>2. pc[k] \notin {"idle", "get"} /\ pc'[k] # "get"
      BY <2>1, StepOfSet
    <3> QED
      BY <2>1, <2>3, <3>1, <3>2
  <2> QED
    BY <2>2, <2>3
<1>9. CASE ReconcilerRestart \/ UNCHANGED allVars
  BY <1>1, <1>9 DEF ReconcilerRestart, ProcessRestart, reconcileVars, allVars, setVars, rpcVars
<1> QED
  BY <1>2, <1>3, <1>4, <1>5, <1>6, <1>7, <1>8, <1>9 DEF RNext

\* Only a server step changes what is shown and copied.
LEMMA ShownKept ==
  ASSUME SetInv, [RNext]_allVars, \A k \in Clients : ~ServerStep(k)
  PROVE  /\ UNCHANGED <<stateCache, shown, copied>>
         /\ \A j \in Clients : pc'[j] = "event" => pc[j] = "event" /\ got'[j] = got[j]
<1> USE DEF SetInv, SetTypeOK
<1>1. ASSUME UNCHANGED <<setVars, shown, copied>>
      PROVE  UNCHANGED <<stateCache, shown, copied, got, pc>>
  BY <1>1 DEF setVars, appVars, vars, rpcVars
<1>2. ASSUME NEW k \in Clients, Get(k) \/ GetReturns(k) \/ \E q : Issue(k, q)
      PROVE  /\ stateCache' = stateCache
             /\ \A j \in Clients : pc'[j] = "event" => pc[j] = "event" /\ got'[j] = got[j]
  BY <1>2 DEF Get, GetReturns, End, Issue, appVars, vars
<1>3. ASSUME (\E r \in Resources : User(r)) \/ (\E k \in Clients : AskRefused(k))
               \/ UNCHANGED allVars
      PROVE  UNCHANGED <<setVars, shown, copied>>
  BY <1>3 DEF User, AskRefused, allVars, reconcileVars
<1>4. ASSUME NEW k \in Clients,
             (\E r \in Resources : Fetch(k, r)) \/ Validate(k) \/ AskState(k) \/ Observe(k)
      PROVE  /\ UNCHANGED <<shown, copied>>
             /\ Get(k) \/ GetReturns(k) \/ \E q : Issue(k, q)
  BY <1>4 DEF Fetch, Validate, AskState, Observe, UpToDate, Release, Create, Update, Delete, SendSet
<1>5. CASE ReconcilerRestart
  BY <1>5 DEF ReconcilerRestart, ProcessRestart, Restart, reconcileVars, rpcVars
<1> QED
  BY <1>1, <1>2, <1>3, <1>4, <1>5 DEF RNext

-----------------------------------------------------------------------------
LEMMA ReconcileInitial == RInit => ReconcileInv
<1> SUFFICES ASSUME RInit
             PROVE  ReconcileInv
  OBVIOUS
<1>1. SetInit
  BY DEF RInit
<1>2. SetInv
  BY <1>1, SetInitial
<1>3. Init => TypeOK
  BY DEF Init, TypeOK
<1>4. TypeOK
  BY <1>1, <1>3 DEF SetInit
<1>5. DataConfigured
  BY <1>1, ResourceKinds DEF SetInit, Init, DataConfigured, DataOf
<1>6. OwnedObjects /\ KidsCopied
  BY <1>1 DEF SetInit, OwnedObjects, KidsCopied
<1>7. ReconcileTypeOK
  BY <1>1, HistoryType DEF RInit, SetInit, Init, ReconcileTypeOK, At
<1> QED
  BY <1>2, <1>4, <1>5, <1>6, <1>7 DEF ReconcileInv, ServerInv

LEMMA ReconcileStep == ReconcileInv /\ [RNext]_allVars => ReconcileInv'
<1> SUFFICES ASSUME ReconcileInv, [RNext]_allVars
             PROVE  ReconcileInv'
  OBVIOUS
<1>0. /\ SetInv /\ TypeOK /\ DataConfigured /\ OwnedObjects /\ KidsCopied
      /\ ReconcileTypeOK
  BY DEF ReconcileInv, ServerInv
<1>1. [SetNext]_setVars
  BY <1>0, ServerStepped
<1>2. SetInv' /\ TypeOK' /\ DataConfigured'
  BY <1>0, <1>1, ServerInvStep
<1>3. OwnedObjects'
  BY <1>0, <1>1, OwnedStep
<1>4. WorkTyped /\ GetsTyped /\ ShownTyped /\ CopiedTyped
  BY <1>0, TypedParts
<1>5. WorkTyped' /\ GetsTyped'
  BY <1>0, <1>4, WorkStep, GetsStep
<1>6. ShownTyped' /\ CopiedTyped' /\ KidsCopied'
  <2>1. CASE \E k \in Clients : ServerStep(k)
    BY <1>2, <1>3, <2>1, ShownStep, CopiedStep
  <2>2. CASE \A k \in Clients : ~ServerStep(k)
    <3>1. /\ UNCHANGED <<stateCache, shown, copied>>
          /\ \A j \in Clients : pc'[j] = "event" => pc[j] = "event" /\ got'[j] = got[j]
      BY <1>0, <2>2, ShownKept
    <3>2. ShownTyped' /\ CopiedTyped'
      BY <1>4, <3>1 DEF ShownTyped, CopiedTyped
    <3>3. KidsCopied'
      BY <1>0, <3>1 DEF KidsCopied, SetInv, SetTypeOK
    <3> QED
      BY <3>2, <3>3
  <2> QED
    BY <2>1, <2>2
<1>7. ReconcileTypeOK'
  BY <1>5, <1>6 DEF ReconcileTypeOK, WorkTyped, GetsTyped, ShownTyped, CopiedTyped
<1> QED
  BY <1>2, <1>3, <1>6, <1>7 DEF ReconcileInv, ServerInv

LEMMA ReconcileInvariant == ReconcileSpec => []ReconcileInv
  BY ReconcileInitial, ReconcileStep, PTL DEF ReconcileSpec

(***************************************************************************)
(* Whatever users and reconcilers do, everybody works on what is his, what *)
(* the state cache shows of a resource's configuration is one, and it is   *)
(* there exactly when its state is (handlers and topology write both).     *)
(***************************************************************************)
THEOREM ReconcileTypeCorrect == ReconcileSpec => []ReconcileTypeOK
<1>1. ReconcileInv => ReconcileTypeOK
  BY DEF ReconcileInv
<1> QED
  BY <1>1, ReconcileInvariant, PTL

(***************************************************************************)
(* The server under its own reconcilers is the server of GnmiSet: whatever *)
(* they observe, what they send is among the requests its theorems are     *)
(* about (Create, Update and Delete of the three controllers).             *)
(***************************************************************************)
THEOREM ReconcilersUseServer == ReconcileSpec => ImplementsServer
<1>1. RInit => SetInit
  BY DEF RInit
<1>2. ReconcileInv /\ [RNext]_allVars => [SetNext]_setVars
  BY ServerStepped DEF ReconcileInv
<1> QED
  BY <1>1, <1>2, ReconcileInvariant, PTL DEF ReconcileSpec, ImplementsServer, SetSpec

(***************************************************************************)
(* So the permits add up under them, and everything the application logic  *)
(* promises holds in the whole program.                                    *)
(***************************************************************************)
THEOREM ReconcilersPermits == ReconcileSpec => []PermitsAccounted
  BY ReconcilersUseServer, PermitsCorrect, PTL DEF ImplementsServer

-----------------------------------------------------------------------------
(***************************************************************************)
(* What the reconcilers configure is applied.  Each of them writes a       *)
(* resource of its own, one a request; what SettledWhileSeparate asks for  *)
(* beyond that is that an Update which deletes leaves writes some as well, *)
(* as a delete of leaves alone is handed over as one of the resource, and  *)
(* the handler keeps what it has.                                          *)
(***************************************************************************)
LeavesGoWithWrites ==
  \A k \in Clients : pc[k] \notin {"idle", "get"} =>
    \A p \in req[k].leaf : p[1] \in DOMAIN req[k].write

OneResource ==
  \A k \in Clients : pc[k] \notin {"idle", "get"} =>
    ~req[k].bad /\ \A r, s \in DOMAIN req[k].write : r = s

\* A request stays what it is until its RPC ends.
LEMMA RequestsStay ==
  ASSUME SetInv,
         ProcessRestart \/ UNCHANGED setVars
           \/ \E k \in Clients : Get(k) \/ GetReturns(k) \/ RpcStep(k)
  PROVE  \A j \in Clients : pc'[j] \notin {"idle", "get"} =>
           pc[j] \notin {"idle", "get"} /\ req'[j] = req[j]
<1> USE DEF SetInv, SetTypeOK
<1>1. ASSUME NEW k \in Clients, Get(k) \/ GetReturns(k) \/ Refuse(k) \/ Reply(k)
      PROVE  \A j \in Clients : pc'[j] \notin {"idle", "get"} =>
               pc[j] \notin {"idle", "get"} /\ req'[j] = req[j]
  BY <1>1 DEF Get, GetReturns, Refuse, Reply, End
<1>2. ASSUME NEW k \in Clients, EventPanics(k)
      PROVE  \A j \in Clients : pc'[j] = "idle"
  BY <1>2 DEF EventPanics, DropRpcs
<1>3. ASSUME NEW k \in Clients,
             \/ Receive(k) \/ ConfigFails(k) \/ ConfigDone(k) \/ DeletesDone(k)
             \/ UpdateEvent(k) \/ UpdateRefused(k) \/ Rollback(k)
             \/ \E r \in Resources : ReadConfig(k, r)
      PROVE  req' = req /\ pc[k] \notin {"idle", "get"} /\ \A j \in Clients \ {k} : pc'[j] = pc[j]
  BY <1>3 DEF Receive, ConfigFails, ConfigDone, DeletesDone, UpdateEvent, UpdateReturns,
     UpdateRefused, UpdateFails, Rollback, ReadConfig
<1>4. ASSUME NEW k \in Clients,
             \/ \E r \in Resources : WriteConfig(k, r) \/ DeleteConfig(k, r)
                                      \/ DeleteEvent(k, r)
             \/ \E p \in LeafPaths : DeleteLeaf(k, p)
      PROVE  req' = req /\ pc' = pc
  BY <1>4 DEF WriteConfig, DeleteConfig, DeleteEvent, DeleteReturns, DeleteLeaf
<1>5. CASE ProcessRestart \/ UNCHANGED setVars
  BY <1>5 DEF ProcessRestart, setVars, rpcVars
<1> QED
  BY <1>1, <1>2, <1>3, <1>4, <1>5 DEF RpcStep

\* What the reconcilers send is about one resource.
LEMMA SentIsOne ==
  ASSUME NEW k \in Clients, Observe(k), ~GetReturns(k)
  PROVE  \E q : Issue(k, q) /\ ~q.bad /\ \A r, s \in DOMAIN q.write : r = s
<1> DEFINE r == work[k].resource
           spec == work[k].spec
<1>1. CASE Create(k)
  <2> DEFINE q == CreateRequest(r, spec)
  <2>1. Issue(k, q)
    BY <1>1 DEF Create, SendSet
  <2>2. ~q.bad /\ \A s, t \in DOMAIN q.write : s = t
    BY DEF CreateRequest, Writes, One
  <2> QED
    BY <2>1, <2>2
<1>2. CASE Update(k)
  <2> DEFINE q == UpdateRequest(r, spec, Seen(k))
  <2>1. Issue(k, q)
    BY <1>2 DEF Update, SendSet
  <2>2. ~q.bad /\ \A s, t \in DOMAIN q.write : s = t
    BY DEF UpdateRequest
  <2> QED
    BY <2>1, <2>2
<1>3. CASE Delete(k)
  <2> DEFINE q == DeleteRequest(r)
  <2>1. Issue(k, q)
    BY <1>3 DEF Delete, SendSet
  <2>2. ~q.bad /\ \A s, t \in DOMAIN q.write : s = t
    BY DEF DeleteRequest, Writes
  <2> QED
    BY <2>1, <2>2
<1>4. CASE UpToDate(k) \/ Release(k)
  BY <1>4 DEF UpToDate, Release
<1> QED
  BY <1>1, <1>2, <1>3, <1>4 DEF Observe

LEMMA OneResourceStep == ReconcileInv /\ OneResource /\ [RNext]_allVars => OneResource'
<1> SUFFICES ASSUME SetInv, OneResource, [RNext]_allVars
             PROVE  OneResource'
  BY DEF ReconcileInv, ServerInv
<1>1. ASSUME ProcessRestart \/ UNCHANGED setVars
               \/ \E k \in Clients : Get(k) \/ GetReturns(k) \/ RpcStep(k)
      PROVE  OneResource'
  <2>1. \A j \in Clients : pc'[j] \notin {"idle", "get"} =>
          pc[j] \notin {"idle", "get"} /\ req'[j] = req[j]
    BY <1>1, RequestsStay
  <2> QED
    BY <2>1 DEF OneResource
<1>2. ASSUME NEW k \in Clients, Observe(k), ~GetReturns(k)
      PROVE  OneResource'
  <2>1. PICK q : Issue(k, q) /\ ~q.bad /\ \A r, s \in DOMAIN q.write : r = s
    BY <1>2, SentIsOne
  <2>2. req' = [req EXCEPT ![k] = q] /\ pc' = [pc EXCEPT ![k] = "sent"]
    BY <2>1 DEF Issue
  <2> QED
    BY <2>1, <2>2 DEF OneResource, SetInv, SetTypeOK
<1>3. ASSUME NEW k \in Clients,
             \/ \E r \in Resources : User(r) \/ Fetch(k, r)
             \/ Validate(k) \/ AskState(k) \/ AskRefused(k)
      PROVE  UNCHANGED setVars \/ Get(k) \/ GetReturns(k)
  BY <1>3 DEF User, Fetch, Validate, AskState, AskRefused
<1>4. ASSUME NEW r \in Resources, User(r)
      PROVE  UNCHANGED setVars
  BY <1>4 DEF User
<1> QED
  BY <1>1, <1>2, <1>3, <1>4 DEF RNext, ServerStep, ReconcilerRestart, allVars

(***************************************************************************)
(* In the whole program, what is configured and no Set is busy with is     *)
(* what its handler holds, for any number of resources and workers,        *)
(* through refusals, roll-backs, panics and restarts and whatever stale    *)
(* state the reconcilers observe, as long as no Update only drops leaves   *)
(* (Update of the three controllers, Set).                                 *)
(***************************************************************************)
THEOREM ReconcilersApply ==
  ReconcileSpec /\ []LeavesGoWithWrites => []SettledIsApplied
<1>1. RInit => OneResource
  BY DEF RInit, SetInit, OneResource
<1>2. ReconcileSpec => []OneResource
  BY <1>1, ReconcileInvariant, OneResourceStep, PTL DEF ReconcileSpec
<1>3. SetInv /\ OneResource /\ LeavesGoWithWrites => SeparateRequests
  <2> SUFFICES ASSUME SetInv, OneResource, LeavesGoWithWrites
               PROVE  SeparateRequests
    OBVIOUS
  <2>1. ASSUME NEW k \in Clients, pc[k] \notin {"idle", "get"}, NEW r \in DOMAIN req[k].write
        PROVE  Owner[r] = k
    BY <2>1, WorkersAssumption DEF SetInv, SetTypeOK
  <2>2. ASSUME NEW j \in Clients, NEW k \in Clients, j # k,
               {pc[j], pc[k]} \cap {"idle", "get"} = {}
        PROVE  DOMAIN req[j].write \cap DOMAIN req[k].write = {}
    <3>1. pc[j] \notin {"idle", "get"} /\ pc[k] \notin {"idle", "get"}
      BY <2>2
    <3> QED
      BY <2>1, <2>2, <3>1
  <2> QED
    BY <2>2 DEF SeparateRequests, OneResource, LeavesGoWithWrites
<1> QED
  BY <1>2, <1>3, ReconcilersUseServer, SetInvariant, SettledWhileSeparate, PTL
     DEF ImplementsServer

=============================================================================
