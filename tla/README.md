# A verification project for nddo-topology

nddo-topology is a Kubernetes operator that keeps network topologies: a
topology, its nodes and its links. Controllers watch custom resources and send
them, with gNMI, to a server in the same process; the server keeps a
configuration cache, hands configuration to an *application logic* that works
out status, platform and endpoints, and that logic writes what it found into a
state cache that gNMI clients read and subscribe to.

This directory models that program in TLA+, checks it with TLC on small
instances, and proves with TLAPS what matters most for every instance.

## 1. Inventory

| component | state | operations | properties that make it correct |
|---|---|---|---|
| application logic, `internal/applogic/{root,topology,node,link}.go` | a tree of handlers (`topologies`, `nodes`, `links`), each with its data; the observer list of a topology | `HandleConfigEvent` (update, delete), `handleTopologyUpdate`, `parseLink`, `UpdateStateCache`, `DeleteStateCache` | status follows admin state and parent; the state cache shows the handler's data; endpoint lists name an endpoint once and lose none |
| resource accessors, `apis/topo/v1alpha1/*.go` | none | getters, setters, `SetEndpoint` | a setter changes what it says |
| gNMI Set, `internal/gnmiserver/set.go` | configuration cache, semaphore of unary RPCs | `Set`, `UpdateConfigCache`, `DeleteConfigCache`, `getPath2Process` | configured means applied; every RPC returns its permit; a failed Set has no effect |
| gNMI Get, `internal/gnmiserver/get.go` | a permit of the same semaphore while it answers | `Get` of either cache | takes a permit or is refused, and returns it |
| gNMI Subscribe, `internal/gnmiserver/subscribe.go` | semaphore of subscriptions, match tree, one coalescing queue per stream | `Subscribe`, cache events, walker and sender goroutines | slots return, streams end, no change is lost between walk and events |
| reconcilers, `internal/controllers/topo` | custom resources in Kubernetes | validate, observe, create, update, delete through gNMI | spec and configuration converge, also after a restart |
| YANG schema, `internal/yangschema` | a static tree | keys, leaf references, hierarchical resources | what a resource refers to, and its parent, are asked for before it is sent |
| target watcher, `internal/applogic/target.go` | list of targets | all commented out | - |
| restconf, kapi, shared, cmd | none that matters | logging, clients, flags | - |

How they interact: a controller validates a resource against the configuration
it gets from the server, observes it in the *state* cache, and sends a Set. Set
writes the configuration cache (a callback publishes the change to
subscribers), reads the resource back, and calls `HandleConfigEvent` on the
root handler, which passes the event down the tree, makes missing handlers, and
has the handler copy the data, compute, and write the state cache (whose
callback publishes again). Children register at their topology's handler and
are called back when its status changes.

What is hard: nothing takes a lock, every RPC has a goroutine, and a Set is a
sequence of separate steps on two caches and the handlers; handlers survive
the deletion of their resource; several events of one topology depend on each
other's order; a panic anywhere takes the process and both caches with it; a
refused resource is rolled back in one place only. The list, with lines, is
`hazards` in `PROJECT.json`.

## 2. Modules

    TopoData              data and pure functions
      TopoDataProofs      what the functions return, as lemmas
      AppLogic            the handlers of one topology, one event a step
        MCAppLogic          instances
        AppLogicProofs      types, status, state cache and endpoint lists
      HandlerSteps        the same calls, one access a step (refines AppLogic)
        MCHandlerSteps      the instance whose calls meet
        HandlerStepsProofs  types, and the invariant of calls that do not meet
          HandlerAtomicProofs  such calls are atomic, and what follows by it
    Schema                the YANG tree
    Admission             what a semaphore of the server promises
    GnmiSet               the server's RPCs, a call of the application logic one
                          step: AppLogic + Schema (refines Admission)
      MCGnmiSet             instances
      GnmiSetProofs         types, permits, admission, what is configured is
                            applied and shown, no panic
    ServerSteps           the same RPCs, with their calls taken apart:
                          HandlerSteps + GnmiSet (refines GnmiSet where calls
                          do not meet)
      MCServerSteps         the instance whose calls do not meet
      ServerStepsProofs     the refinement, types, and what follows by it
      Reconcile           the controllers on top of the server (refines GnmiSet)
        MCReconcile         instances
        ReconcileProofs     types, the refinement and what follows by it
    Subscribe             the server's streams, on caches written at will
                          (refines Admission)
      MCSubscribe           instances
      SubscribeProofs       types, slots, the refinement, no change is lost

**TopoData** has the records the handlers work on and the functions they apply:
`HandleStatus` (node and link `handleStatus`; the topology's rules are the same
without a parent), `ResolvePlatform` and `SetPlatform`, `SetEndpoint` with its
assignment to the loop variable, and `MergeState`, what writing a container to
a cache does to what is there. A nil leaf (`Nil`) and an empty string differ,
because only the first is left out of what is written: a reason is cleared, a
status that was lost is not. Endpoint lists are sets: their order is never
read. Descriptions, time stamps and other tags influence nothing and are left
out.

**AppLogic** has one topology, as topologies share no state. Its variables are
the handlers that exist, the data of each, and the state containers in the
state cache. Observers are not a variable: children register when they are made
and are never removed, so they are the children with a handler. One call of
`root.HandleConfigEvent` is one action: `TopologyUpdate`, `NodeUpdate`,
`LinkUpdate` and `LinkRefused` (which fails half-way, after the data was set),
`UpdateWithoutData`, `ChildDelete`, `TopologyDelete`. Each contains all the
call does, the notification of every observer and every state cache write
included. Whatever would dereference nil or index out of range is `Panic`: no
code recovers, so the process and all it holds goes (`Die`), and a new one
starts empty (`Restart`; `GetInitialState` is commented out).

**HandlerSteps** takes the calls of `HandleConfigEvent` apart. A goroutine looks
up or makes a handler, registers it (which reads the observer list and replaces
it in a later step), puts it into the map, replaces its data, reads its
parent's status, sets its own, and then calls back observers or the nodes of a
link one after the other, each of which changes its data and writes the state
cache. A step touches one object that is shared, in the order of the code. Four
things are coarser than the code: making the topology's own handler is one
step; the topology's status rules (both `if`s) are one step, followed by the
callbacks of the observers that are on the list then; a child's data is changed
and marshalled in one step, and written to the cache in another; and the time
stamps by which the cache drops an older write are left out. Two calls that
each make a handler for the same child are numbered apart (`Objects`), as the
one that loses the race stays an observer. With `Apart` a call waits for the
calls that work on a resource it works on (`Footprint`), which a lock per
resource would give and the code does not have. Then a call is one step of
AppLogic: `CallsAreAtomic` maps the state to AppLogic's by showing, until a
call returns, the resources it works on as it met them (`ghost`, `Seen`), so
that AppLogic's step is the return, or the panic. Without it the calls
interleave as they do today. That the topology's handler is made in one step
bears on those calls only: two calls that may both make it meet, as a child
without a handler has its topology in its `Footprint`, and a child with one has
a topology whose handler is made (`root.CreateChild`). So no run or theorem with
`Apart` depends on it; without `Apart`, `together` has one counterexample that
does not need it, and the types (`StepsTypeOK`) are those of one handler.

**Schema** is the tree that `internal/yangschema` builds at start: every entry
with its keys, its resource boundary and its leaf references, and what is
computed from them - the path of an entry, the references of a resource
(`LeafRefsLocal`), its parent (`ParentDependency`). GnmiSet reads it: `Valid`
asks for each value of each local reference whether the configuration has what
it refers to, and for the parent; `Listed` gives the entries of a link's
endpoint list as a cache keeps them, where two endpoints with the same keys are
one. Leaves that are no keys are not in the tree of the code either.

**Admission** is an abstract specification of both semaphores
(`unaryRPCsem`, `subscribeRPCsem`): callers ask, are admitted or turned away,
and leave; at most `Limit` are inside, one is turned away only when as many as
that are, and nobody waits. GnmiSet and Subscribe say where each client and
stream is (`Place`) and implement it (`ImplementsAdmission`). A stream whose
slot is lost is inside for ever.

**GnmiSet** is the server. A Set of a client is a program counter
(`idle, sent, config, deletes, updates, event, rollback, reply`), the request,
what is left to write, and the two maps of resources to hand over. A Get holds a
permit while it is answered (`get`); a client may send what it decided on by the
answer, or nothing. Steps that touch shared state are steps of their own - one
write or delete of the configuration cache, the read-back, the call of the
application logic, the roll-back - so that RPCs interleave exactly there. The
calls are AppLogic's actions, **one step each, which they are not in the code**:
Set takes no lock. What rests on the permits and the configuration cache alone
does not depend on that; what is said of the handlers and the state cache holds
of calls that do not meet in a resource, as ServerSteps shows. The maps are iterated in any order, as in Go. `KeyOf` is the key that
merges the paths of one resource. The caches, the dispatcher's path lookup and
JSON conversions are library code, modelled by what `src/` relies on and marked
external. `Valid` is what the controllers validate before they send. All
updates of one resource in a request are one step (`WriteConfig`), though a
controller sends an update per leaf; so are a delete and the deletes below it.

**ServerSteps** composes GnmiSet and HandlerSteps. The RPCs' own steps are
GnmiSet's, which it has by `INSTANCE` (`Server`), with the state of the handlers
as `Seen`; a call begins with a step of HandlerSteps (`CallDelete`,
`CallUpdate`), goes on while other RPCs write, read and delete (`CallRuns`), and
returns with its last step, to which is joined what Set does at once when
`HandleConfigEvent` has returned (`DeleteCallReturns`, `UpdateCallReturns`,
`UpdateCallFails`); a panic takes all RPCs and both caches (`CallPanics`). With
`Apart`, `ImplementsServer` says that this is GnmiSet's server: nothing that Set
does between the steps of other RPCs' calls - the read-back of a configuration
that is being rolled back, a write under a call that runs - can tell a call from
one step. What `Apart` excludes is not small: two calls meet whenever one is the
topology's, both are of one child, both make a child, or a link's node is the other's
child. For those GnmiSet is coarser than the code, and `together` shows
what then goes wrong.

**Reconcile** puts the controllers on top. Its state is how far users are in a
history of specs for each resource (`position`), the objects that exist, which
a finalizer keeps after a deletion until the controller is done, the object
each worker is at with the spec it read, and the configuration leaves in the
state cache (`shown`), which AppLogic leaves out: handlers write all their data
there, and a topology also the configuration of its children as it stood in the
blob its Set read (`copied`). A worker reads an object and gets the
configuration (`Fetch`), validates the object against it (`Validate`), asks for
the state (`AskState`, or `AskRefused`, when no permit is left) and compares
(`Observe`; `Observed`
drops what is hierarchically lower and the state, `Delta` and `Dropped` are the
updates and deletes of `FindResourceDelta`), and then it is done (`UpToDate`),
sends a Set (`Create`, `Update`, `Delete`) or lets a deleted object go
(`Release`). Between these steps, and while its Set is served, other workers and
users go on, and a Get that is being answered holds a permit that others lack. A worker is at one object at a time, and an object has one worker
at a time, as the work queue sees to. An invalid object, or one whose Get was
refused, is simply not taken further; the queue brings it back. The managed
reconciler of ndd-runtime that calls the controllers is modelled by the order
in which it calls them.

**Subscribe** has all streams of the server. A call is three processes: the
handler, which takes a slot, registers the queries and then waits on `errChan`
(`Refuse`, `SubscribeOnce`, `SubscribePoll`, `SubscribeStream`,
`SubscribeUnknown`); the walker (`handleSubscriptionRequest`, or the goroutine
of mode ONCE), which inserts the leaves of the state cache one a step, in any
order, and then the sync marker; and the sender (`sendStreamingResults`), which
takes one item a step until the client is gone or the queue closed. A write of
a cache and the event it makes are one step, as the library calls back under
the write. The abstractions: a write changes one leaf; the queue is unbounded,
as in the library; a stream makes one call; which walker step finds an invalid
request is open (`WalkFails` may come after any number of leaves); a slot that
was taken and that nobody will release is a sender that is `missing`. Caches
are written at will, which includes what Set and the application logic write.

The alternatives named *Fault* in the modules are never used: each is the form
a definition would have with a plausible bug, and replacing the definition by
it makes the property named beside it in `PROJECT.json` fail.

## 3. Runs

| run | question | bounds | outcome |
|---|---|---|---|
| `status` | does the status of topology and children agree, whatever the order of events? | 2 nodes, 1 link, every admin state of each, a link without endpoints | holds |
| `lag` | are endpoint lists right under shared interfaces and lags? | 2 nodes, 2 links that change between plain, lag and loop, 2 names | holds |
| `apart` | is a call of `HandleConfigEvent` one step of AppLogic, and the server that makes it GnmiSet's, and do the children of a topology that is down stay down, where calls that meet in a resource wait for each other? | 2 clients, of which one enables, disables and deletes the topology and the other writes a node and swaps it for a lag link that loops on it; 2 permits | holds, refused links and panics included |
| `serial` | does one careful client ever see a panic, or something configured that is not applied or not shown? | 1 client, 2 nodes, 1 link, creates, changes, deletes; another client that sends nothing and takes up the only permit | holds, refusals included |
| `raw` | does every RPC return, whichever way it ends? | 2 clients that call Get, and Set with anything: leaf deletes, bad elements, a name shared by a node and a link, a link whose two ends are one entry of its list | holds, panics and restarts included |
| `slots` | do slots add up, is a stream refused only when all are taken, and do slots return however a stream ends? | 3 streams of any mode, 2 slots, nothing written | holds |
| `stream` | does the client of a stream end with what the state cache holds? | 1 stream, 2 leaves, one of them in both caches, 2 values, 4 writes | holds |
| `converge` | does the server under its reconcilers do what GnmiSet says, and is what is configured applied? do the reconcilers make everything agree with the specs, and then stop? | 3 workers, 2 permits, a topology with 2 nodes; one node loses its kind, gets a platform and is disabled, the other is deleted | holds, refusals, panics and restarts included |
| `together` | do the children of a topology that is down stay down when calls are not kept apart? | 2 callers, a topology that is enabled and disabled, 1 node | violated |
| `deleted` | is a deleted resource gone from the state cache? | 1 client | violated |
| `lost_link` | is a resource configured when Observe finds it up to date? | 3 workers, a topology, a node and a link applied once | violated |
| `returns` | does Subscribe return once its sender has ended? | 1 stream | violated |

Why the bounds are enough: a child looks at its topology, itself, and, if it is
a link, at two nodes, never at a sibling of its own kind; two links suffice to
meet in one interface or lag, two clients to interleave, three to exceed two
permits. One topology is all there is to a handler tree. The configuration of a
link's endpoints is the same in all requests (`EndpointAssumption`), so that
merging two configurations stays in the finite set of configurations. Streams
share the slots and the caches and nothing else, so that one stream shows what
it can miss and three what two slots can do; four writes (`MaxWrites`) set,
change, delete and set again a leaf around the walk. Deadlock is checked in
every run but those of Subscribe, where streams that have ended and caches that
are no longer written have nothing left to do. The requests in `apart` are few, as
every call they lead to is taken apart; between them a child is made before and
after its topology has data, a link is refused, rolled back and tried again, is
handed over in a Set that has deleted its node, and every RPC may be anywhere in
Set while the other's call runs.

`Reconcile` is checked for histories that do not come back to an earlier spec
and that delete no topology whose children are still wanted: their reconcilers
would create it again as a container of children while its own deletes it, and
nothing in the code keeps the two from taking turns for ever. Two or three specs
per resource are enough to create, change, drop a leaf and delete, each before,
during or after any other. A change of a spec that only drops a leaf is in none
of these histories: its Set deletes the leaf and is handed over as a delete of
the resource, whose state goes, so that the reconciler creates it anew.

The violated runs are disagreements between the code and what a comment or an
error message of it says; `findings` in `PROJECT.json` quotes them.

* "delete as a single transaction" removes the state cache entry; the next
  status change of the topology brings it back.
* "update as a single transaction" takes no lock: a node that has read its
  topology's status before it was disabled sets its own from that after the
  topology has notified its observers, and stays up.
* "ensure it reflects the managed resource's desired state": a link that was
  refused and rolled back stays in the topology's blob, whose handler shows it;
  its reconciler compares with what is shown and never configures it.
* Subscribe never returns: nobody closes the channel it ranges over.

Others are in the models as the code has them, and plain enough to need no run:

* A Set is not isolated: another RPC that finds the topology configured, while
  the topology's own Set has not called the application logic yet, calls a child
  whose topology has no data, which panics. `NoPanic` therefore holds for clients
  that take turns (`serial`, and `NoPanicCorrect` for any number of them).
* A link between an interface and itself has two endpoints in the request and
  one in the cache, and `parseLink` indexes the second.
* A refused link is still an observer; when its topology is enabled again it
  is turned up without its endpoints being parsed.
* A Set that fails keeps the writes before the failing one, and a roll-back
  deletes the whole resource, with what earlier Sets wrote of it.
* `SetEndpoint` assigns the new endpoint to the loop variable, so that an
  interface keeps the lag flags of the first link that named it.
* The key in `getPath2Process` is assigned, not appended, in the loop, so that a
  node and a link of one name in one Set collide.
* A delete of a leaf is handed over as the delete of the whole resource.
* Subscribe with an unknown mode keeps its slot for good (a `missing` sender).
* Events of the configuration cache reach the streams, whose initial values come
  from the state cache; a leaf that is in both shows whichever was written last.

### Fairness

Safety runs use no fairness. `SetReturns` is checked under `FairSetSpec`: weak
fairness of each RPC's next step - a goroutine that can run is eventually run,
and every step of a Set is enabled until it is taken, as nothing blocks (the
semaphore is tried, not waited for) - and of the restart of a process that
died, which Kubernetes does. Clients need not send anything.

`SlotsReturn`, `StreamsCatchUp` and `SubscribeReturns` are checked under
`FairSpec`: weak fairness of the walker and of the sender of each stream, two
goroutines that nothing else blocks. A client may stay or go, and is not
assumed to call.

`Converge` is checked under `FairReconcileSpec`. Every object comes back to its
worker (the poll interval and the queue's retries), but it can be taken only when
a permit is left, which comes and goes: strong fairness of `Fetch` for each
resource, and of `AskState` and of the admission of a Set (`Admitted`) for each
worker, as a worker that is refused comes back after a back-off that does not
keep time with the load. What a worker does with an answer (`Validate`,
`Observe`), the server's steps and the restart have weak
fairness as above: nothing blocks them. Users need do nothing. The property assumes `<>[]alive`: the
panics that the runs find may otherwise go on for ever, and no fairness rules
them out.

## 4. Proofs

All in TLAPS, for any sets of nodes, links, names, configurations and clients
that satisfy the named assumptions (`DataAssumption`, `ConfigAssumption`,
`RequestAssumption`, `EndpointAssumption`, `ClosedAssumption`,
`HistoryAssumption`, `WorkersAssumption`, `SubscribeAssumption`,
`EventAssumption`), which TLC evaluates in the runs of the modules that state
them.

* `TopoDataProofs` has the lemmas on the functions of TopoData that the proofs
  of both AppLogic and HandlerSteps need: what they return, that a merge keeps
  what its update has, that `SetEndpoint` only adds.

* `AppLogicProofs`: `TypeCorrect` (`TypeOK` is inductive; the work is in
  showing that `ParseLink` and the notification keep data well-formed), then
  `StatusCorrect`: the inductive invariant `StatusInv`. It strengthens the
  three status properties by what they silently rely on: a child with data has
  a handler, so it is notified; its status is the one `HandleStatus` gives for
  the topology's; what is up has no reason. `ParentDownCorrect`,
  `UpEnabledCorrect` and `EnabledUpCorrect` follow from it.
* There too: `CacheCorrect`, an invariant that relates each entry
  of the state cache to the handler's data (the merge of a write leaves no
  stale status, and the endpoints of the handler are among those of the cache,
  which never names one twice). `StateCacheCorrect` and `EndpointsCorrect`
  follow, and two action properties: `EndpointsStayCorrect` (a merge adds to a
  keyed list and takes nothing out) and `AcceptedLinkCorrect` (each of the two
  or four endpoints that `ParseLink` sets is in the node's data after it, as
  `SetEndpoint` keeps the others, and so in the cache). `CacheInv` needs
  `StatusInv`: a child without data is not notified, which would write an empty
  entry over a full one.
* `GnmiSetProofs`: `SetTypeCorrect` and `PermitsCorrect` (permits and running
  RPCs, Gets included, add up, by the cardinality of the running set), and
  `ServerAdmits`: the server implements Admission. These do not depend on a call
  of the application logic being one step. The next two items do where they
  speak of handlers and the state cache: they hold of the program as long as
  concurrent calls do not meet in a resource.
* There too: `SettledCorrect`, that what is configured and not
  being worked on is what its handler holds. The inductive invariant
  `AppliedInv` follows a resource through a Set: from its write to its event it
  is in `updateObjects` of its RPC, what was read for the event is what is still
  configured or was deleted since, and an RPC that gives up leaves nothing
  configured. It is proved for `SeparateWriters`: clients that write resources of
  their own, one a request, as the reconcilers do, with no bad element and no
  leaf deleted on its own. Each part is needed: a bad element leaves the writes
  before it in the cache, after a refused resource the others of the request are
  never handed over, another writer may come between the read and the event, and
  a handler keeps a leaf that was deleted on its own.
* And there: `NoPanicCorrect`, `ShownCorrect` and `CarefulApplied`, for any number
  of clients of which some are careful (`CarefulRequests`: they validate, a
  request writes or deletes, names its resources apart, its links have two
  endpoints, and no leaf is deleted on its own), take turns (`TakeTurns`: no two
  have a Set that changes anything on its way), and the others send nothing.
  The inductive invariant `CarefulInv` has what a handler dereferences: the
  observers of a topology have data, a configured link's nodes and a configured
  child's topology do, and so do those of what a running request writes
  (`RequestReady`), from its validation to its end. What is configured is in place or
  still in `updateObjects` of the RPC that wrote it (`InPlaceOrBusy`). It rests on
  what validation tells, that a child's topology and a link's nodes are
  configured, which has to be read off the schema: `RootPath` and `ResourceOf`
  recurse from an entry to its parent, so that they are shown to satisfy their
  equations by the four levels the entries have (`EntryLevels`, `RootPathDef`,
  `ResourceOfDef`), before `ParentIsTopology` and `EndpointsRefer` can say what a
  node or a link depends on. Each hypothesis is needed: without turns, the Set of section 3 that is
  not isolated panics; without validation a child may come before its topology;
  a link with one endpoint panics in `parseLink`. The clients of `serial` are an
  instance: every request that changes anything is careful (`SerialRequests`),
  and one client sends them all.
* `ReconcileProofs`: `ReconcileTypeCorrect` and `ReconcilersUseServer`, that a
  step of the reconcilers is a step of GnmiSet with a request that
  `RequestAssumption` allows, or none. The invariant `ReconcileInv` says what
  makes their requests well-formed: what the state cache shows of a resource is
  a configuration (`shown` has an entry where the state cache has one), which
  needs that handlers hold configurations (`DataConfigured`), that RPCs hand over
  what their worker owns (`OwnedObjects`), and that the children a topology's
  blob had were copied when it was read (`KidsCopied`). By the refinement the
  theorems of the server hold under the reconcilers: `ReconcilersPermits`.
  `ReconcilersApply` is `SettledIsApplied` for the
  whole program. The reconcilers are separate writers by what they send
  (`OneResource` and `WorkersAssumption`), up to Updates that delete leaves and
  write none, which the server hands over as the delete of a resource: the
  theorem holds of behaviours that have none (`LeavesGoWithWrites`), as `converge`
  has none. Like `SettledCorrect` it takes a call as one step. `SettledWhileSeparate`, of which `SettledCorrect` is the case of
  clients that could not send anything else, is what both rest on.
* `SubscribeProofs`: `SubscribeTypes`, `SlotsCorrect` and `SubscribeAdmits` (it
  implements Admission) from `SubInv`, which adds that every goroutine reports once, so that the channel of three never
  blocks, and that a call not made yet has left nothing behind.
* There too: `NothingLostCorrect`, for any number of streams,
  leaves and writes. `NothingLost` alone is not inductive: that a queued pointer
  is not queued again is right only if it is the last of its leaf in the queue
  (`Tidy`: a deletion detaches what was queued before), and for a leaf the
  walker has not reached the queue must promise its value or nothing
  (`Promise`), or the walk would not repair it. Both are part of `LossInv`.

* `HandlerStepsProofs`: `StepsTypeCorrect`, for any number of callers, whether
  or not they work apart. Of two calls that both make the handler of one child
  only one is in the map, so that the number of handlers made is bounded by the
  calls that can be making one (`MadeByMakers`); a call that has found or made
  its handler holds an object that exists (`OwnOK`), or its last job would
  change nothing (`StepsInv`).
* There too, and in `HandlerAtomicProofs`: `ApartCallsAtomic`, that calls
  which meet in a resource only one after the other are atomic, as `Spec` of
  AppLogic says, for any number of callers. The invariant `ApartInv` relates
  each program counter to `ghost`, what the call met: the resources it works on
  are the ghost's, changed as far as the call is. A node has set its own data; a
  topology has told the observers it has no job left for, and shown those of them
  whose write is done (`TopologyWorks`); a link has done a prefix of its four or
  six jobs, and the endpoint lists of its nodes are what that prefix makes of
  them (`LinkWorks`, `After`). Grounds of running calls are disjoint, so a
  step of one call touches nothing the invariant says of another
  (`OthersStay`). A step that does not return is seen by nobody; one that does,
  by its last write, an error, a delete or a panic, is exactly one action of
  AppLogic: for a topology the jobs told one by one are `Notified` and
  `CachedObservers`, for a link the prefix is all of `ParseLink`, and the writes
  in between, which the last ones cover, leave nothing behind, as merging twice
  is merging the last time (`SameAgain`). With no callers, `Restart` alone is
  left (`Unused`).
  By the refinement the theorems of AppLogic hold of such calls, of what is seen
  at any time and so of the memory when no call runs: `ApartChildrenFollow`,
  which is what the run `together` refutes for calls that meet, and
  `ApartCacheFollows`.
* `ServerStepsProofs`: `ApartServerAtomic`, that the server whose calls do not
  meet is GnmiSet's, for any number of clients, requests and permits. First,
  whether calls meet or not, what Set hands over is an event of HandlerSteps
  (`ServerInv` has the types of every RPC and of the configuration cache), so
  that its behaviours are HandlerSteps' behaviours (`ServerCalls`, and by it
  `ServerStepsTyped`). Then a call that runs is the one its RPC waits for
  (`CallsFit`: an RPC in `event` hands over what it has in `got`, one in
  `deletes` a member of `deleteObjects`), so that the step of AppLogic that
  `ApartCallsAtomic` makes of its return is the one that GnmiSet takes for
  *this* RPC (`UpdateServed`, `RefusalServed`, `DeleteServed`, `PanicServed`);
  for that the lemma behind `ApartCallsAtomic` names the action, not only
  AppLogic's `Next`. All other steps leave what is seen of the handlers alone
  (`QuietServer`). By the first result the theorems of calls that do not meet
  hold of the server: `ServerChildrenFollow`, `ServerCacheFollows`. By the
  second those of GnmiSet hold of it too; no theorem repeats them, as each
  would be its instance.

Only model-checked: `SetReturns`, `SlotsReturn`, `StreamsCatchUp` and `Converge`
(liveness is out of the prover's reach). Every safety property that a run finds
to hold is stated by a theorem.
Only the three theorems on careful clients use `Valid` and `Schema`: the others
hold for clients that validate nothing.

## 5. Not modelled

* The time stamps on which the caches drop an update as stale, without an error.
* The length of an observer list that is extended while it is iterated, and Go's
  check that ends a process in which two goroutines meet in one map: the calls of
  HandlerSteps read and write the list and the maps whole.
* In the reconcilers: resource indexes (a renamed resource), specs that drop an
  entry of a list (a kind, the lag of a link), a topology that is deleted while
  its children are wanted.
* Two first calls at the same time that each make a handler for the topology, of
  which the map keeps one (root.go:147-153): HandlerSteps makes it in one step.
  Calls that do not meet cannot do it (section 2).
* The whole program with its calls taken apart: the reconcilers run on GnmiSet.
* `setPlatform` is not done again when the kinds or defaults of a topology
  change; no text says it should be.
* Target watcher (commented out), restconf (answers nothing), Kubernetes
  clients, flags, logging, TLS, generated deep copies: I/O or no behaviour.

## 6. What is left

* The reconcilers on ServerSteps, and what of their convergence survives calls
  that meet.
* `SettledIsShown` and `NoPanic` for the reconcilers, which do not take turns,
  under the assumption that no validation is stale when its Set arrives.
* `Converge` for histories that delete a topology whose children are wanted,
  once the code decides which of the two reconcilers should win.
