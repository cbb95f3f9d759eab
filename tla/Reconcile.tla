------------------------------ MODULE Reconcile ------------------------------
(***************************************************************************)
(* The controllers of internal/controllers/topo on top of the gNMI server: *)
(* users apply, change and delete the three kinds of resources, and the    *)
(* reconcilers validate a resource against the configuration the server    *)
(* has, observe it in the server's state cache, and create, update or      *)
(* delete it with a Set.                                                   *)
(*                                                                         *)
(* The managed reconciler that calls the controllers (ndd-runtime) is a    *)
(* library: it reads the object, validates it unless it is being deleted,  *)
(* observes, acts on what was observed, and comes back after a failure or  *)
(* the poll interval.  Controllers and server are one process.             *)
(***************************************************************************)
EXTENDS GnmiSet

CONSTANTS
  Owner,    \* the worker that reconciles a resource
  History   \* the specs users give a resource, in order; NoData deletes it

VARIABLES
  position,  \* how far users are in the history of every resource
  objects,   \* the resources Kubernetes has an object of
  work,      \* the object a reconciler is at, as it read it, and what is next
  shown,     \* the configuration leaves of every resource in the state cache
  copied     \* the children's configuration that a topology's Set has read

reconcileVars == <<position, objects, work, shown, copied>>
allVars == <<setVars, reconcileVars>>

Specs(r) == {History[r][i] : i \in DOMAIN History[r]} \ {NoData}

\* Leaf deletes of a list entry are left out: no spec drops a kind or the lag.
ASSUME HistoryAssumption ==
  /\ ~Validating
  /\ \A r \in Resources :
       /\ Owner[r] \in Clients
       /\ History[r] \in Seq(ConfigsOf(r) \cup {NoData})
       /\ \A c, d \in Specs(r) :
            /\ r = Topology => \A k \in Kinds : c.kind[k] = Nil <=> d.kind[k] = Nil
            /\ r \in Links => c.lag = d.lag

\* What a reconciler of a resource is at.
Works(r) == [resource : {r}, spec : Specs(r) \cup {NoData}, step : {"validate", "ask", "observe"}]

ASSUME WorkAssumption == \A r \in Resources : NoData \notin Works(r)

RInit ==
  /\ SetInit
  /\ position = [r \in Resources |-> 0]
  /\ objects = {}
  /\ work = [k \in Clients |-> NoData]
  /\ shown = [r \in Resources |-> NoData]
  /\ copied = [c \in Children |-> NoData]

-----------------------------------------------------------------------------
\* The spec of a resource; without one it has no object or is being deleted.
Desired(r) == IF position[r] = 0 THEN NoData ELSE History[r][position[r]]

(***************************************************************************)
(* A user applies the next spec, or deletes the object.  Its finalizer     *)
(* keeps the object until the controller is done with it; only then can a  *)
(* user create it again.                                                   *)
(***************************************************************************)
User(r) ==
  /\ position[r] < Len(History[r])
  /\ position' = [position EXCEPT ![r] = @ + 1]
  /\ Desired(r)' # NoData /\ Desired(r) = NoData => r \notin objects
  /\ objects' = IF Desired(r)' = NoData THEN objects ELSE objects \cup {r}
  /\ UNCHANGED <<setVars, work, shown, copied>>

One(r, c) == [s \in {r} |-> c]
Writes(w) == [write |-> w, delete |-> {}, leaf |-> {}, bad |-> FALSE]

\* Fault: a resource that has no object any more is reconciled.
FetchAnyway(k, r) ==
  /\ work[k] = NoData
  /\ Owner[r] = k
  /\ Get(k)
  /\ work' = [work EXCEPT ![k] = [resource |-> r, spec |-> Desired(r), step |-> "validate"]]
  /\ UNCHANGED <<position, objects, shown, copied>>

(***************************************************************************)
(* A reconciler reads an object and gets the configuration (GetConfig).  A *)
(* Get that is refused is tried again later.                               *)
(***************************************************************************)
Fetch(k, r) ==
  /\ work[k] = NoData
  /\ Owner[r] = k
  /\ r \in objects
  /\ Get(k)
  /\ work' = [work EXCEPT ![k] = [resource |-> r, spec |-> Desired(r), step |-> "validate"]]
  /\ UNCHANGED <<position, objects, shown, copied>>

At(k, step) == work[k] # NoData /\ work[k].step = step

WorkDone(k) == work' = [work EXCEPT ![k] = NoData]

\* The validators; a resource that is invalid is tried again later.
Validate(k) ==
  /\ At(k, "validate")
  /\ GetReturns(k)
  /\ IF work[k].spec # NoData => Valid(Writes(One(work[k].resource, work[k].spec)))
     THEN work' = [work EXCEPT ![k].step = "ask"] ELSE WorkDone(k)
  /\ UNCHANGED <<position, objects, shown, copied>>

\* Observe asks for the state of the resource ...
AskState(k) ==
  /\ At(k, "ask")
  /\ Get(k)
  /\ work' = [work EXCEPT ![k].step = "observe"]
  /\ UNCHANGED <<position, objects, shown, copied>>

\* ... and is refused: the object is tried again later.
AskRefused(k) ==
  /\ alive
  /\ At(k, "ask")
  /\ permits = 0
  /\ WorkDone(k)
  /\ UNCHANGED <<setVars, position, objects, shown, copied>>

-----------------------------------------------------------------------------
\* GetStateCache().GetJson of a resource, without what is hierarchically
\* below it and without state: what processObserve compares the spec with.
Observed(r) ==
  IF r = Topology /\ shown[r] = NoData /\ \E c \in Children : shown[c] # NoData
  THEN NoTopologyLeaves ELSE shown[r]

NewLeaf(spec, seen) == IF spec = seen THEN Nil ELSE spec

\* FindResourceDelta: the leaves to write and those to delete.
Delta(r, spec, seen) ==
  CASE r = Topology ->
         [admin |-> NewLeaf(spec.admin, seen.admin),
          kind |-> [k \in Kinds |-> NewLeaf(spec.kind[k], seen.kind[k])],
          defaults |-> NewLeaf(spec.defaults, seen.defaults)]
    [] r \in Nodes ->
         [admin |-> NewLeaf(spec.admin, seen.admin), kind |-> NewLeaf(spec.kind, seen.kind),
          platform |-> NewLeaf(spec.platform, seen.platform)]
    [] r \in Links ->
         [admin |-> NewLeaf(spec.admin, seen.admin), lag |-> spec.lag /\ ~seen.lag,
          endpoints |-> spec.endpoints]

\* Fault: leaves that the spec no longer has are not deleted.
DropsNothing(r, spec, seen) == {}

Dropped(r, spec, seen) == {leaf \in LeavesOf(r) : spec[leaf] = Nil /\ seen[leaf] # Nil}

Adds(r, spec, seen) == MergeConfig(r, seen, spec) # seen

InSync(r, spec, seen) == ~Adds(r, spec, seen) /\ Dropped(r, spec, seen) = {}

-----------------------------------------------------------------------------
\* The Get of an Observe is answered, of an object that is wanted or not.
ObservesWanted(k) == alive /\ At(k, "observe") /\ work[k].spec # NoData

ObservesDeleted(k) == alive /\ At(k, "observe") /\ work[k].spec = NoData

Seen(k) == Observed(work[k].resource)

\* What is found decides on a Set.
SendSet(k, q) ==
  /\ Issue(k, q)
  /\ WorkDone(k)
  /\ UNCHANGED <<position, objects, shown, copied>>

\* Fault: removeState works on the cache's own tree.
UpToDateRemovesState(k) ==
  /\ ObservesWanted(k)
  /\ Seen(k) # NoData
  /\ InSync(work[k].resource, work[k].spec, Seen(k))
  /\ stateCache' = [stateCache EXCEPT ![work[k].resource] = EmptyState]
  /\ End(k, 1)
  /\ WorkDone(k)
  /\ UNCHANGED <<alive, handlers, topologyData, nodeData, linkData, configCache,
                 position, objects, shown, copied>>

\* Observe finds the resource up to date.
UpToDate(k) ==
  /\ ObservesWanted(k)
  /\ Seen(k) # NoData
  /\ InSync(work[k].resource, work[k].spec, Seen(k))
  /\ GetReturns(k)
  /\ WorkDone(k)
  /\ UNCHANGED <<position, objects, shown, copied>>

\* Observe does not find it: Create replaces it by the spec.
CreateRequest(r, spec) == Writes(One(r, spec))

Create(k) ==
  /\ ObservesWanted(k)
  /\ Seen(k) = NoData
  /\ SendSet(k, CreateRequest(work[k].resource, work[k].spec))

\* Observe finds something else: Update sends the difference.
UpdateRequest(r, spec, seen) ==
  [write  |-> [s \in IF Adds(r, spec, seen) THEN {r} ELSE {} |-> Delta(r, spec, seen)],
   delete |-> {},
   leaf   |-> {r} \X Dropped(r, spec, seen),
   bad    |-> FALSE]

Update(k) ==
  /\ ObservesWanted(k)
  /\ Seen(k) # NoData
  /\ ~InSync(work[k].resource, work[k].spec, Seen(k))
  /\ SendSet(k, UpdateRequest(work[k].resource, work[k].spec, Seen(k)))

DeleteRequest(r) == [Writes([s \in {} |-> NoData]) EXCEPT !.delete = {r}]

\* Nobody but its worker writes a resource, and Requests has what that sends.
ASSUME WorkersAssumption ==
  /\ \A k \in Clients : \A q \in Requests[k] : \A r \in DOMAIN q.write : Owner[r] = k
  /\ \A r \in Resources :
       /\ \A c \in Specs(r) :
            /\ CreateRequest(r, c) \in Requests[Owner[r]]
            /\ \A seen \in ConfigsOf(r) : UpdateRequest(r, c, seen) \in Requests[Owner[r]]
       /\ DeleteRequest(r) \in Requests[Owner[r]]

Delete(k) ==
  /\ ObservesDeleted(k)
  /\ Seen(k) # NoData
  /\ SendSet(k, DeleteRequest(work[k].resource))

\* Nothing is left to delete: the finalizer goes, and the object with it.
Release(k) ==
  /\ ObservesDeleted(k)
  /\ Seen(k) = NoData
  /\ objects' = objects \ {work[k].resource}
  /\ GetReturns(k)
  /\ WorkDone(k)
  /\ UNCHANGED <<position, shown, copied>>

Observe(k) == UpToDate(k) \/ Create(k) \/ Update(k) \/ Delete(k) \/ Release(k)

-----------------------------------------------------------------------------
\* The step is an event that brings data and is not refused.
Applies(k) == pc[k] = "event" /\ pc'[k] = "updates" /\ got[k].data # NoData

(***************************************************************************)
(* The handlers that write themselves to the state cache in that event,    *)
(* and the children that a topology writes out of the configuration it was *)
(* given.                                                                  *)
(***************************************************************************)
Writers(k) ==
  CASE got[k].resource = Topology ->
         {Topology} \cup IF topologyData'.status # Nil THEN Observers ELSE {}
    [] got[k].resource \in Nodes -> {got[k].resource}
    [] got[k].resource \in Links ->
         {got[k].resource} \cup {le.node : le \in Ends(got[k].data)}

WrittenByTopology(k) == IF got[k].resource = Topology THEN got[k].kids ELSE {}

\* The configuration leaves of the state cache after a step of the server.
ShownAfter(k) ==
  LET own == [r \in Resources |->
                IF Applies(k) /\ r \in Writers(k)
                THEN MergeConfig(r, shown[r], ConfigIn(r, DataOf(r)')) ELSE shown[r]]
      all == [r \in Resources |->
                IF Applies(k) /\ r \in WrittenByTopology(k)
                THEN MergeConfig(r, own[r], copied[r]) ELSE own[r]]
  IN  [r \in Resources |-> IF stateCache'[r] = NoData THEN NoData ELSE all[r]]

CopiedAfter(k) ==
  CASE pc[k] = "updates" /\ pc'[k] = "event" /\ got'[k].resource = Topology ->
         [c \in Children |-> configCache[c]]
    [] pc[k] = "event" /\ got[k].resource = Topology -> [c \in Children |-> NoData]
    [] OTHER -> IF alive' THEN copied ELSE [c \in Children |-> NoData]

\* A panic takes the reconcilers with it, the objects are in Kubernetes.
ServerStep(k) ==
  /\ RpcStep(k)
  /\ shown' = ShownAfter(k)
  /\ copied' = CopiedAfter(k)
  /\ work' = IF alive' THEN work ELSE [j \in Clients |-> NoData]
  /\ UNCHANGED <<position, objects>>

ReconcilerRestart == ProcessRestart /\ UNCHANGED reconcileVars

RNext ==
  \/ \E r \in Resources : User(r)
  \/ \E k \in Clients, r \in Resources : Fetch(k, r)
  \/ \E k \in Clients :
       Validate(k) \/ AskState(k) \/ AskRefused(k) \/ Observe(k) \/ ServerStep(k)
  \/ ReconcilerRestart

ReconcileSpec == RInit /\ [][RNext]_allVars

(***************************************************************************)
(* Every object is reconciled again and again (work queue and poll), the   *)
(* server runs what can run, a dead process is restarted, and no           *)
(* reconciler is refused for ever: it comes back whatever the load, and    *)
(* the load is not always there when it does.                              *)
(***************************************************************************)
Admitted(k) == ServerStep(k) /\ permits' < permits

FairReconcileSpec ==
  /\ ReconcileSpec
  /\ \A r \in Resources : SF_allVars(Fetch(Owner[r], r))
  /\ \A k \in Clients : SF_allVars(AskState(k)) /\ SF_allVars(Admitted(k))
                         /\ WF_allVars(Validate(k) \/ Observe(k)) /\ WF_allVars(ServerStep(k))
  /\ WF_allVars(ReconcilerRestart)

-----------------------------------------------------------------------------
ReconcileTypeOK ==
  /\ DOMAIN position = Resources
  /\ \A r \in Resources : position[r] \in 0..Len(History[r])
  /\ objects \subseteq Resources
  /\ DOMAIN work = Clients
  /\ \A k \in Clients : work[k] # NoData =>
       /\ work[k].resource \in objects
       /\ Owner[work[k].resource] = k
       /\ work[k] \in Works(work[k].resource)
  /\ \A k \in Clients : pc[k] = "get" <=> At(k, "validate") \/ At(k, "observe")
  /\ \A k \in Clients : At(k, "ask") => pc[k] = "idle"
  /\ DOMAIN shown = Resources
  /\ \A r \in Resources : shown[r] \in ConfigsOf(r) \cup {NoData}
  /\ \A r \in Resources : shown[r] = NoData <=> stateCache[r] = NoData
  /\ DOMAIN copied = Children
  /\ \A c \in Children : copied[c] \in ConfigsOf(c) \cup {NoData}

(***************************************************************************)
(* The server under its own reconcilers is the server of GnmiSet: they ask *)
(* nothing of it that its theorems do not cover, whatever they observe and *)
(* compute (Create, Update and Delete of the three controllers).           *)
(***************************************************************************)
ImplementsServer == SetSpec

\* Whether a resource and everything it depends on is to be configured.
Needs(r) ==
  CASE r = Topology -> {Topology}
    [] r \in Nodes  -> {Topology, r}
    [] r \in Links  -> {Topology, r} \cup {le.node : le \in Ends(Desired(r))}

Wanted(r) == Desired(r) # NoData /\ \A s \in Needs(r) : Desired(s) # NoData

\* The spec is configured, applied by the handler, and shown.
Reconciled(r) ==
  /\ configCache[r] = Desired(r)
  /\ Holds(r, Desired(r))
  /\ shown[r] = Desired(r)

(***************************************************************************)
(* If the process stops dying, every resource whose dependencies are       *)
(* wanted gets configured as its spec says, and every deleted one goes,    *)
(* whatever users did before, in whatever order the reconcilers ran, and   *)
(* wherever the process died: observe, create, update and delete together  *)
(* make up for what single Sets get wrong.  And then no reconciler sends a *)
(* Set: what the server derives from a configuration is never taken for a  *)
(* difference to the spec.                                                 *)
(***************************************************************************)
Converge ==
  <>[]alive =>
    <>[]/\ \A r \in Resources : /\ Wanted(r) => Reconciled(r)
                                /\ Desired(r) = NoData => r \notin objects
        /\ \A k \in Clients : pc[k] \in {"idle", "get"}

(***************************************************************************)
(* "observes, then either creates, updates, or deletes an external         *)
(* resource to ensure it reflects the managed resource's desired state"    *)
(* (externalTopologyNode): when nothing is under way, a resource that      *)
(* Observe finds up to date is configured as its spec says.                *)
(***************************************************************************)
UpToDateIsConfigured ==
  \A r \in objects :
    /\ Desired(r) # NoData
    /\ Observed(r) # NoData
    /\ InSync(r, Desired(r), Observed(r))
    /\ \A k \in Clients : pc[k] = "idle"
    => configCache[r] = Desired(r)
=============================================================================
