----------------------------- MODULE HandlerSteps -----------------------------
(***************************************************************************)
(* The calls of HandleConfigEvent taken apart: what AppLogic does in one   *)
(* step is here done by a goroutine that looks up or makes a handler,      *)
(* registers it, replaces its data, reads its parent's status, sets its    *)
(* own, calls back the observers or the nodes of a link one by one, and    *)
(* writes each to the state cache.  No lock is taken, so that other calls  *)
(* come in between.                                                        *)
(*                                                                         *)
(* A step touches one object that is shared.  Making the topology's own    *)
(* handler is one step; a child's data is changed and marshalled for the   *)
(* state cache in one, and written to the cache in another.                *)
(***************************************************************************)
EXTENDS TopoData, FiniteSets, SequencesExt

CONSTANTS
  Events,   \* what HandleConfigEvent is called with
  Callers,  \* the goroutines that call it
  Apart     \* whether calls that meet in a resource wait for each other

Topology  == "topology"
Children  == Nodes \cup Links
Resources == Children \cup {Topology}

\* Two calls may each make a handler for a child; they are numbered.
Objects == Children \X (1..Cardinality(Callers))

Operation == {"update", "delete"}

\* The data of an update, NoData if it is not configured any more; a topology
\* comes with its children.
Event(r) ==
  [operation : Operation, resource : {r},
   config : (CASE r = Topology -> TopologyConfig
               [] r \in Nodes  -> NodeConfig
               [] r \in Links  -> LinkConfig) \cup {NoData},
   kids : IF r = Topology THEN SUBSET Children ELSE {{}}]

\* A call that runs: its event, and the handler it found or made.
Calls == [event : Events, object : Objects \cup {Topology, NoData}]

\* A nil pointer is no call, and a child's handler is not the topology's.
ASSUME EventAssumption ==
  /\ \A e \in Events : e.resource \in Resources /\ e \in Event(e.resource)
  /\ NoData \notin Calls
  /\ \A o \in Objects : o # Topology
  /\ IsFiniteSet(Callers)
  /\ Apart \in BOOLEAN

VARIABLES
  alive,         \* FALSE between a panic and the restart of the process
  topologyMade,  \* the topology has a handler in root.topologies
  made,          \* how many handlers were made for each child
  inMap,         \* the one in topology.nodes or topology.links, 0 without
  observers,     \* topology.observerList, whose order nothing depends on
  topologyData,  \* topology.data
  data,          \* node.data or link.data of every object
  stateCache,    \* the state containers in the state cache
  pc,            \* where in HandleConfigEvent a call is, "idle" without one
  call,          \* its event, and the handler it found or made
  read,          \* what it has read and not used yet
  jobs,          \* the handlers it has still to change and write
  ghost          \* what it met when it began (see the refinement below)

memory == <<topologyMade, made, inMap, observers, topologyData, data, stateCache>>
locals == <<pc, call, read, jobs, ghost>>
vars   == <<alive, memory, locals>>

Init ==
  /\ alive = TRUE
  /\ topologyMade = FALSE
  /\ made = [r \in Children |-> 0]
  /\ inMap = [r \in Children |-> 0]
  /\ observers = {}
  /\ topologyData = NoData
  /\ data = [o \in Objects |-> NoData]
  /\ stateCache = [r \in Resources |-> NoData]
  /\ pc = [k \in Callers |-> "idle"]
  /\ call = [k \in Callers |-> NoData]
  /\ read = [k \in Callers |-> NoData]
  /\ jobs = [k \in Callers |-> <<>>]
  /\ ghost = [k \in Callers |-> NoData]

-----------------------------------------------------------------------------
Handler(r)    == <<r, inMap[r]>>
HasHandler(r) == IF r = Topology THEN topologyMade ELSE inMap[r] # 0
DataOf(r) ==
  IF r = Topology THEN topologyData
  ELSE IF HasHandler(r) THEN data[Handler(r)] ELSE NoData

Ends(c) == {c.endpoints[i] : i \in {1, 2} \cap DOMAIN c.endpoints}

(***************************************************************************)
(* What a call works on: all there is for the topology, which calls back   *)
(* its children; a child, the nodes of a link, and the topology's own      *)
(* lists when the child is new.                                            *)
(***************************************************************************)
Footprint(r, c) ==
  IF r = Topology THEN Resources
  ELSE {r} \cup (IF HasHandler(r) THEN {} ELSE {Topology})
           \cup (IF r \in Links /\ c # NoData THEN {le.node : le \in Ends(c)} ELSE {})

\* A resource as AppLogic has it.
View(r) == [made |-> HasHandler(r), data |-> DataOf(r), shown |-> stateCache[r]]

Busy == {k \in Callers : pc[k] # "idle"}

\* HandleConfigEvent is called.
Call(k, e) ==
  /\ alive
  /\ pc[k] = "idle"
  /\ Apart => \A j \in Busy : ghost[j].footprint \cap Footprint(e.resource, e.config) = {}
  /\ pc' = [pc EXCEPT ![k] = IF e.operation = "update" THEN "create" ELSE "delete"]
  /\ call' = [call EXCEPT ![k] = [event |-> e, object |-> NoData]]
  /\ ghost' = [ghost EXCEPT ![k] = [footprint |-> Footprint(e.resource, e.config),
                                   before |-> [r \in Resources |-> View(r)]]]
  /\ UNCHANGED <<alive, memory, read, jobs>>

\* The call returns, with an error or without.
Return(k) ==
  /\ pc' = [pc EXCEPT ![k] = "idle"]
  /\ call' = [call EXCEPT ![k] = NoData]
  /\ read' = [read EXCEPT ![k] = NoData]
  /\ jobs' = [jobs EXCEPT ![k] = <<>>]
  /\ ghost' = [ghost EXCEPT ![k] = NoData]

At(k, label) == alive /\ pc[k] = label
Goto(k, label) == pc' = [pc EXCEPT ![k] = label]
Target(k) == call[k].event.resource
Config(k) == call[k].event.config
Own(k) == call[k].object

\* CreateChild is through: without data that is all there is to an update.
Created(k, object) ==
  IF Config(k) = NoData
  THEN Return(k)
  ELSE /\ Goto(k, "copy")
       /\ call' = [call EXCEPT ![k].object = object]
       /\ read' = [read EXCEPT ![k] = NoData]
       /\ UNCHANGED <<jobs, ghost>>

-----------------------------------------------------------------------------
\* root.CreateChild.
CreateTopology(k) ==
  /\ At(k, "create")
  /\ Target(k) = Topology
  /\ topologyMade' = TRUE
  /\ Created(k, Topology)
  /\ UNCHANGED <<alive, made, inMap, observers, topologyData, data, stateCache>>

\* root.CreateChild and topology.CreateChild of a child that is in the maps.
FindChild(k) ==
  /\ At(k, "create")
  /\ Target(k) # Topology
  /\ HasHandler(Target(k))
  /\ topologyMade' = TRUE
  /\ Created(k, Handler(Target(k)))
  /\ UNCHANGED <<alive, made, inMap, observers, topologyData, data, stateCache>>

\* ... and of one that is not: a handler is made, and SetParent reads the
\* observer list to append to it.
MakeChild(k) ==
  /\ At(k, "create")
  /\ Target(k) # Topology
  /\ ~HasHandler(Target(k))
  /\ topologyMade' = TRUE
  /\ Goto(k, "register")
  /\ made' = [made EXCEPT ![Target(k)] = @ + 1]
  /\ call' = [call EXCEPT ![k].object = <<Target(k), made'[Target(k)]>>]
  /\ read' = [read EXCEPT ![k] = observers]
  /\ UNCHANGED <<alive, inMap, observers, topologyData, data, stateCache, jobs, ghost>>

\* Fault: link.SetParent forgets to register.
RegisterNodesOnly(k) ==
  /\ At(k, "register")
  /\ observers' = read[k] \cup (IF Target(k) \in Nodes THEN {Own(k)} ELSE {})
  /\ Goto(k, "insert")
  /\ UNCHANGED <<alive, topologyMade, made, inMap, topologyData, data, stateCache, call, read,
                 jobs, ghost>>

\* RegisterTopologyObserver.
Register(k) ==
  /\ At(k, "register")
  /\ observers' = read[k] \cup {Own(k)}
  /\ Goto(k, "insert")
  /\ UNCHANGED <<alive, topologyMade, made, inMap, topologyData, data, stateCache, call, read,
                 jobs, ghost>>

\* The new handler goes into topology.nodes or topology.links.
Insert(k) ==
  /\ At(k, "insert")
  /\ inMap' = [inMap EXCEPT ![Target(k)] = Own(k)[2]]
  /\ Created(k, Own(k))
  /\ UNCHANGED <<alive, topologyMade, made, observers, topologyData, data, stateCache>>

-----------------------------------------------------------------------------
\* Fault: the data is what was unmarshalled, without its state container.
CopyConfigAsIs(k) ==
  LET c == Config(k)
  IN  /\ At(k, "copy")
      /\ IF Target(k) = Topology
         THEN topologyData' = c /\ Goto(k, "status") /\ UNCHANGED data
         ELSE /\ data' = [data EXCEPT ![Own(k)] = c]
              /\ Goto(k, "parent")
              /\ UNCHANGED topologyData
      /\ UNCHANGED <<alive, topologyMade, made, inMap, observers, stateCache, call, read,
                     jobs, ghost>>

\* Copy: the data is replaced.
CopyConfig(k) ==
  LET c == Config(k)
  IN  /\ At(k, "copy")
      /\ IF Target(k) = Topology
         THEN topologyData' = CopyTopology(c) /\ Goto(k, "status") /\ UNCHANGED data
         ELSE /\ data' = [data EXCEPT ![Own(k)] =
                            IF Target(k) \in Nodes THEN CopyNode(c) ELSE CopyLink(c)]
              /\ Goto(k, "parent")
              /\ UNCHANGED topologyData
      /\ UNCHANGED <<alive, topologyMade, made, inMap, observers, stateCache, call, read,
                     jobs, ghost>>

\* The argument of handleStatus: r.parent.data.GetStatus().
ReadParent(k) ==
  /\ At(k, "parent")
  /\ topologyData # NoData
  /\ read' = [read EXCEPT ![k] = topologyData.status]
  /\ Goto(k, "status")
  /\ UNCHANGED <<alive, memory, call, jobs, ghost>>

\* A handler to change, and how: by the topology's status, by an endpoint, or
\* not at all.
Notify(o)   == [object |-> o, by |-> "status", endpoint |-> NoData]
SetOn(o, e) == [object |-> o, by |-> "endpoint", endpoint |-> e]
Report(o)   == [object |-> o, by |-> "nothing", endpoint |-> NoData]

\* A handler writes itself when it is configured, and HandleConfigEvent has it
\* do so once more.
Reports(o) == <<Report(o), Report(o)>>

Start(k, list) ==
  /\ jobs' = [jobs EXCEPT ![k] = list]
  /\ read' = [read EXCEPT ![k] = NoData]
  /\ Goto(k, "work")
  /\ UNCHANGED <<call, ghost>>

(***************************************************************************)
(* topology.handleConfigUpdate: when the status changes, the observers on  *)
(* the list by then are called back, one after the other.                  *)
(***************************************************************************)
TopologyStatus(k) ==
  LET d == HandleTopologyStatus(topologyData)
  IN  /\ At(k, "status")
      /\ Target(k) = Topology
      /\ topologyData' = d
      /\ \E list \in SetToSeqs(IF d.status = topologyData.status THEN {} ELSE observers) :
           Start(k, [i \in DOMAIN list |-> Notify(list[i])] \o Reports(Topology))
      /\ UNCHANGED <<alive, topologyMade, made, inMap, observers, data, stateCache>>

\* node.handleStatus and setPlatform, with the status read before.
NodeStatus(k) ==
  /\ At(k, "status")
  /\ Target(k) \in Nodes
  /\ data' = [data EXCEPT ![Own(k)] = SetPlatform(HandleStatus(@, read[k]), topologyData)]
  /\ Start(k, Reports(Own(k)))
  /\ UNCHANGED <<alive, topologyMade, made, inMap, observers, topologyData, stateCache>>

\* link.handleStatus.
LinkStatus(k) ==
  /\ At(k, "status")
  /\ Target(k) \in Links
  /\ data' = [data EXCEPT ![Own(k)] = HandleLinkStatus(@, read[k])]
  /\ Goto(k, "parse")
  /\ UNCHANGED <<alive, topologyMade, made, inMap, observers, topologyData, stateCache, call,
                 read, jobs, ghost>>

NodeMissing(d) == \E le \in Ends(d) : ~HasHandler(le.node)

\* parseLink reads the lags of both nodes if the link is part of one.
LagFound(d) ==
  /\ HasEndpoint(DataOf(d.endpoints[1].node), d.endpoints[1].lagName)
  /\ HasEndpoint(DataOf(d.endpoints[2].node), d.endpoints[2].lagName)

LagUnread(d) == d.lag /\ \E le \in Ends(d) : DataOf(le.node) = NoData

EndpointJobs(d) ==
  LET On(i, Made(_)) == SetOn(Handler(d.endpoints[i].node), Made(d.endpoints[i]))
  IN  IF ~d.lag
      THEN <<On(1, PlainLink), On(2, PlainLink)>>
      ELSE (IF LagFound(d) THEN <<>> ELSE <<On(1, LogicalLag), On(2, LogicalLag)>>)
             \o <<On(1, LagSubLink), On(2, LagSubLink)>>

\* parseLink finds both nodes: what is to be set on them.
ParseLink(k) ==
  LET d == data[Own(k)]
  IN  /\ At(k, "parse")
      /\ Len(d.endpoints) >= 2
      /\ ~NodeMissing(d)
      /\ ~LagUnread(d)
      /\ Start(k, EndpointJobs(d) \o Reports(Own(k)))
      /\ UNCHANGED <<alive, memory>>

\* ... or misses one: the event fails.
ParseRefused(k) ==
  /\ At(k, "parse")
  /\ NodeMissing(data[Own(k)])
  /\ data' = [data EXCEPT ![Own(k)] = SetStatus(@, "down", "endpoint node not found")]
  /\ Return(k)
  /\ UNCHANGED <<alive, topologyMade, made, inMap, observers, topologyData, stateCache>>

-----------------------------------------------------------------------------
Job(k) == Head(jobs[k])

Changed(d, job) ==
  CASE job.by = "status"   -> HandleStatus(d, topologyData.status)
    [] job.by = "endpoint" -> SetEndpoint(d, job.endpoint)
    [] job.by = "nothing"  -> d

\* handleTopologyUpdate or SetData of a handler, and the marshalling of its data.
Work(k) ==
  LET o == Job(k).object
      d == Changed(data[o], Job(k))
  IN  /\ At(k, "work")
      /\ o # Topology
      /\ data[o] # NoData
      /\ data' = [data EXCEPT ![o] = d]
      /\ read' = [read EXCEPT ![k] = IF o[1] \in Nodes THEN NodeState(d) ELSE LinkState(d)]
      /\ Goto(k, "write")
      /\ UNCHANGED <<alive, topologyMade, made, inMap, observers, topologyData, stateCache, call,
                     jobs, ghost>>

WorkTopology(k) ==
  /\ At(k, "work")
  /\ Job(k).object = Topology
  /\ read' = [read EXCEPT ![k] = TopologyState(topologyData)]
  /\ Goto(k, "write")
  /\ UNCHANGED <<alive, memory, call, jobs, ghost>>

Done(k) ==
  IF Len(jobs[k]) = 1 THEN Return(k)
  ELSE /\ jobs' = [jobs EXCEPT ![k] = Tail(@)]
       /\ read' = [read EXCEPT ![k] = NoData]
       /\ Goto(k, "work")
       /\ UNCHANGED <<call, ghost>>

\* GnmiUpdate of the state cache; the topology writes its children's
\* configuration as well, and they appear, without state.
WriteState(k) ==
  LET o == Job(k).object
      r == IF o = Topology THEN Topology ELSE o[1]
      kids == IF o = Topology THEN call[k].event.kids ELSE {}
  IN  /\ At(k, "write")
      /\ stateCache' =
           [s \in Resources |->
              IF s = r THEN MergeState(stateCache[r], read[k])
              ELSE IF s \in kids /\ stateCache[s] = NoData THEN EmptyState
              ELSE stateCache[s]]
      /\ Done(k)
      /\ UNCHANGED <<alive, topologyMade, made, inMap, observers, topologyData, data>>

-----------------------------------------------------------------------------
\* DeleteStateCache of a resource that has a handler; with a topology go its
\* children.  The delete of a child makes the topology's handler.
DeleteState(k) ==
  LET r == Target(k)
  IN  /\ At(k, "delete")
      /\ topologyMade' = (topologyMade \/ r # Topology)
      /\ stateCache' = [s \in Resources |->
                          IF HasHandler(r) /\ (r = Topology \/ s = r) THEN NoData
                          ELSE stateCache[s]]
      /\ Return(k)
      /\ UNCHANGED <<alive, made, inMap, observers, topologyData, data>>

\* A nil topology, a link with too few endpoints, a handler without data.
Panics(k) ==
  \/ pc[k] = "parent" /\ topologyData = NoData
  \/ /\ pc[k] = "parse"
     /\ ~NodeMissing(data[Own(k)])
     /\ Len(data[Own(k)].endpoints) < 2 \/ LagUnread(data[Own(k)])
  \/ pc[k] = "work" /\ Job(k).object # Topology /\ data[Job(k).object] = NoData

\* The process dies, its memory with it.
Panic(k) ==
  /\ alive
  /\ Panics(k)
  /\ alive' = FALSE
  /\ topologyMade' = FALSE
  /\ made' = [r \in Children |-> 0]
  /\ inMap' = [r \in Children |-> 0]
  /\ observers' = {}
  /\ topologyData' = NoData
  /\ data' = [o \in Objects |-> NoData]
  /\ stateCache' = [r \in Resources |-> NoData]
  /\ pc' = [j \in Callers |-> "idle"]
  /\ call' = [j \in Callers |-> NoData]
  /\ read' = [j \in Callers |-> NoData]
  /\ jobs' = [j \in Callers |-> <<>>]
  /\ ghost' = [j \in Callers |-> NoData]

Restart == ~alive /\ alive' = TRUE /\ UNCHANGED <<memory, locals>>

Step(k) ==
  \/ CreateTopology(k) \/ FindChild(k) \/ MakeChild(k) \/ Register(k) \/ Insert(k)
  \/ CopyConfig(k) \/ ReadParent(k)
  \/ TopologyStatus(k) \/ NodeStatus(k) \/ LinkStatus(k)
  \/ ParseLink(k) \/ ParseRefused(k)
  \/ Work(k) \/ WorkTopology(k) \/ WriteState(k)
  \/ DeleteState(k)
  \/ Panic(k)

Next ==
  \/ \E k \in Callers, e \in Events : Call(k, e)
  \/ \E k \in Callers : Step(k)
  \/ Restart

Spec == Init /\ [][Next]_vars

-----------------------------------------------------------------------------
Labels == {"idle", "create", "register", "insert", "copy", "parent", "status", "parse",
           "work", "write", "delete"}

StepsTypeOK ==
  /\ alive \in BOOLEAN
  /\ topologyMade \in BOOLEAN
  /\ made \in [Children -> 0..Cardinality(Callers)]
  /\ \A r \in Children : inMap[r] \in 0..made[r]
  /\ observers \subseteq Objects
  /\ topologyData \in TopologyData \cup {NoData}
  /\ \A o \in Objects :
       data[o] \in (IF o[1] \in Nodes THEN NodeData ELSE LinkData) \cup {NoData}
  /\ stateCache \in [Resources -> StateLeaves \cup {NoData}]
  /\ pc \in [Callers -> Labels]
  /\ \A k \in Callers : (call[k] = NoData <=> k \notin Busy) /\ (jobs[k] # <<>> => k \in Busy)

(***************************************************************************)
(* The refinement.  AppLogic sees a call when it returns: until then the   *)
(* resources it works on are shown as the call met them.                   *)
(***************************************************************************)
Seen(r) ==
  IF \E k \in Busy : r \in ghost[k].footprint
  THEN LET k == CHOOSE k \in Busy : r \in ghost[k].footprint IN ghost[k].before[r]
  ELSE View(r)

Configured(S) == {e.config : e \in {f \in Events : f.resource \in S}} \ {NoData}

Atomic == INSTANCE AppLogic WITH
  TopologyConfigs <- Configured({Topology}),
  NodeConfigs     <- Configured(Nodes),
  LinkConfigs     <- Configured(Links),
  alive           <- alive,
  handlers        <- {r \in Resources : Seen(r).made},
  topologyData    <- Seen(Topology).data,
  nodeData        <- [n \in Nodes |-> Seen(n).data],
  linkData        <- [l \in Links |-> Seen(l).data],
  stateCache      <- [r \in Resources |-> Seen(r).shown]

(***************************************************************************)
(* A call of HandleConfigEvent is one step of AppLogic, whatever it calls  *)
(* and whatever it fails at, and whatever calls about other resources do   *)
(* in between (root.go, topology.go HandleConfigEvent).                    *)
(***************************************************************************)
CallsAreAtomic == Atomic!Spec

(***************************************************************************)
(* "Update the resources in the application logic as a single transaction" *)
(* (Set): when no call is running, the children of a topology that is down *)
(* are down, as after any of the calls one by one.                         *)
(***************************************************************************)
RestingChildrenFollow == Busy = {} => Atomic!ParentDownForcesChildren
=============================================================================
