----------------------- MODULE HandlerAtomicProofs -----------------------
(***************************************************************************)
(* The refinement of AppLogic by HandlerSteps, for calls that work apart.  *)
(*                                                                         *)
(* A call is seen when it returns: by its last write, by an error, by its  *)
(* delete or by a panic.  Every such step is one action of AppLogic, with  *)
(* the resources the call worked on as it met them before and as memory    *)
(* holds them after; every other step of a call is seen by nobody.         *)
(***************************************************************************)
EXTENDS HandlerStepsProofs

\* Only a call of the topology writes the topology.
LEMMA ChildJob ==
  ASSUME ApartInv, NEW k \in Callers, pc[k] \in {"work", "write"}, Target(k) # Topology
  PROVE  Job(k).object # Topology
<1>1. pc[k] \in Configuring
  BY DEF Configuring
<1>2. Target(k) \in Children /\ (Target(k) \in Nodes \/ Target(k) \in Links)
  BY <1>1, PastCreate, ResourceFacts
<1>3. \A r \in Children : Obj(r) # Topology
  BY ObjFacts
<1>4. CASE Target(k) \in Nodes
  <2>1. NodeWorks(k)
    BY <1>1, <1>2, <1>4, PastCreate DEF CallInv
  <2>2. Job(k) = Report(Obj(Target(k)))
    BY <2>1 DEF NodeWorks, Job
  <2> QED
    BY <1>2, <1>3, <2>2, SetOnFacts
<1>5. CASE Target(k) \in Links
  <2>1. PICK L, N, w : L = LinkJobs(k) /\ N = Len(L) /\ w = Wrote(k)
    OBVIOUS
  <2>2. /\ N \in {4, 6} /\ w \in 0..(N - 1) /\ Job(k) = L[w + 1]
        /\ Len(Config(k).endpoints) >= 2
    BY <1>5, <2>1, LinkWorksIs
  <2>3. w + 1 \in 1..(N - 2) \/ w + 1 \in (N - 1)..N
    BY <2>2
  <2>4. \/ L[w + 1].object[1] \in EndNodes(k) /\ L[w + 1].object = Obj(L[w + 1].object[1])
        \/ L[w + 1].object = Obj(Target(k))
    BY <1>1, <1>5, <2>1, <2>2, <2>3, LinkJobsAre
  <2>5. \A n \in EndNodes(k) : n \in Children
    BY <1>1, <1>5, <2>2, EndFacts
  <2> QED
    BY <1>2, <1>3, <2>2, <2>4, <2>5
<1> QED
  BY <1>2, <1>4, <1>5

\* The jobs of any call.
LEMMA WorkApart ==
  ASSUME ApartInv, NEW k \in Callers, Work(k) \/ WorkTopology(k)
  PROVE  ApartInv' /\ UNCHANGED Atomic!vars
<1>1. pc[k] = "work" /\ pc[k] \in Configuring
  BY DEF Work, WorkTopology, At, Configuring
<1>2. Target(k) = Topology \/ Target(k) \in Nodes \/ Target(k) \in Links
  BY <1>1, PastCreate, ResourceFacts
<1>3. CASE Work(k)
  BY <1>2, <1>3, TopologyWorkApart, NodeWorkApart, LinkWorkApart
<1>4. CASE WorkTopology(k)
  <2>1. Target(k) = Topology
    BY <1>1, <1>4, ChildJob DEF WorkTopology
  <2> QED
    BY <1>4, <2>1, WorkTopologyApart
<1> QED
  BY <1>3, <1>4

\* A write to the state cache that does not end its call.
LEMMA WriteApart ==
  ASSUME ApartInv, NEW k \in Callers, WriteState(k), Len(jobs[k]) # 1
  PROVE  ApartInv' /\ UNCHANGED Atomic!vars
<1>1. pc[k] = "write" /\ pc[k] \in Configuring
  BY WriteIs
<1>2. Target(k) = Topology \/ Target(k) \in Nodes \/ Target(k) \in Links
  BY <1>1, PastCreate, ResourceFacts
<1> QED
  BY <1>2, NotifiedWriteApart, ReportedWriteApart, NodeWriteApart, LinkWriteApart

-----------------------------------------------------------------------------
(***************************************************************************)
(* A call that returns is a step of AppLogic.                              *)
(***************************************************************************)
LEMMA ReturnSeen ==
  ASSUME ApartInv, NEW k \in Busy, Local(k), StepsInv', HandlersInv', pc'[k] = "idle",
         topologyMade => topologyMade'
  PROVE  /\ ApartInv'
         /\ \A r \in Ground(k) : /\ Seen(r) = Before(k, r)
                                 /\ Seen(r)'.made = HasHandler(r)'
                                 /\ Seen(r)'.data = Held(r)'
                                 /\ Seen(r)'.shown = stateCache'[r]
         /\ \A r \in Resources \ Ground(k) : Seen(r)' = Seen(r)
<1>0. k \in Callers /\ pc[k] # "idle"
  BY DEF Busy
<1>1. /\ \A r \in Ground(k) : Seen(r) = Before(k, r) /\ Seen(r)' = View(r)'
      /\ \A r \in Resources \ Ground(k) : Seen(r)' = Seen(r)
  BY SeenReturns
<1>2. /\ Target(k) \in Resources /\ Target(k) \in Ground(k) /\ Ground(k) \subseteq Resources
      /\ Target(k) = Topology => Ground(k) = Resources
      /\ MadeSoFar(k)
  BY <1>0, CallerFacts
<1>3. \A r \in Resources : View(r)'.made = HasHandler(r)' /\ View(r)'.shown = stateCache'[r]
  BY DEF View
<1>4. ASSUME NEW r \in Children, Seen(r)'.made PROVE Seen(Topology)'.made
  <2>1. r \in Resources /\ Topology \in Resources /\ r # Topology
    BY ResourceFacts
  <2>2. CASE Topology \in Ground(k)
    <3>1. Seen(Topology)'.made = topologyMade'
      BY <1>1, <1>3, <2>1, <2>2 DEF HasHandler, Topology
    <3>2. CASE r \in Ground(k)
      <4>1. HasHandler(r)'
        BY <1>1, <1>3, <1>4, <2>1, <3>2
      <4>2. inMap'[r] # 0
        BY <2>1, <4>1 DEF HasHandler, Topology
      <4>3. made'[r] \in 0..Cardinality(Callers) /\ inMap'[r] \in 0..made'[r] /\ made'[r] <= 1
        BY DEF StepsInv, MemoryOK, HandlersInv
      <4>4. made'[r] = 1
        BY <4>2, <4>3, ObjectFacts
      <4> QED
        BY <3>1, <4>4 DEF HandlersInv
    <3>3. CASE r \notin Ground(k)
      <4>1. Before(k, Topology).made
        BY <1>1, <1>4, <2>1, <2>2, <3>3 DEF ApartInv
      <4>2. topologyMade
        BY <1>2, <2>2, <4>1 DEF MadeSoFar
      <4> QED
        BY <3>1, <4>2
    <3> QED
      BY <3>2, <3>3
  <2>3. CASE Topology \notin Ground(k)
    <3>1. Seen(Topology)' = Seen(Topology)
      BY <1>1, <2>1, <2>3
    <3>2. Seen(Topology).made
      <4>1. CASE r \in Ground(k)
        <5>1. Target(k) # Topology
          BY <1>2, <2>1, <2>3
        <5>2. Before(k, Target(k)).made /\ Target(k) \in Children
          BY <1>0, <2>3, <5>1, ChildFacts
        <5> QED
          BY <1>1, <1>2, <5>2 DEF ApartInv
      <4>2. CASE r \notin Ground(k)
        BY <1>1, <1>4, <2>1, <4>2 DEF ApartInv
      <4> QED
        BY <4>1, <4>2
    <3> QED
      BY <3>1, <3>2
  <2> QED
    BY <2>2, <2>3
<1>5. ApartInv'
  BY <1>4, ReturnsKeeps
<1>6. \A r \in Resources : View(r)'.data = Held(r)'
  <2> TAKE r \in Resources
  <2>1. CASE r = Topology
    BY <2>1 DEF View, DataOf, Held, Topology
  <2>2. CASE r \in Children
    <3>1. /\ r # Topology /\ made'[r] \in 0..Cardinality(Callers) /\ inMap'[r] \in 0..made'[r]
          /\ made'[r] <= 1 /\ (~HasHandler(r)' => data'[Obj(r)] = NoData)
      BY <2>2, ResourceFacts DEF StepsInv, MemoryOK, HandlersInv, Obj
    <3>2. inMap'[r] \in {0, 1}
      BY <3>1, ObjectFacts
    <3>3. HasHandler(r)' => Handler(r)' = Obj(r)
      BY <3>1, <3>2 DEF HasHandler, Handler, Obj, Topology
    <3>4. Held(r)' = data'[Obj(r)] /\ View(r)'.data = (IF HasHandler(r)' THEN data'[Handler(r)'] ELSE NoData)
      BY <3>1 DEF View, DataOf, Held, Obj, Topology
    <3> QED
      BY <3>1, <3>3, <3>4
  <2> QED
    BY <2>1, <2>2, ResourceFacts
<1> QED
  BY <1>1, <1>2, <1>3, <1>5, <1>6

\* The topology's data is what every call of a child met.
LEMMA TopologyDataSeen ==
  ASSUME ApartInv, NEW k \in Busy, Target(k) # Topology
  PROVE  Seen(Topology).data = topologyData
<1>1. CASE \A j \in Busy : Topology \notin Ground(j)
  BY <1>1, SeenFree DEF View, DataOf
<1>2. CASE \E j \in Busy : Topology \in Ground(j)
  <2>1. PICK j \in Busy : Topology \in Ground(j)
    BY <1>2
  <2>2. /\ j \in Callers /\ pc[j] # "idle" /\ k \in Callers /\ pc[k] # "idle"
    BY DEF Busy
  <2>3. /\ CallInv(j) /\ Target(j) \in Resources /\ (Target(j) = Topology => Ground(j) = Resources)
        /\ EndNodes(j) \subseteq Nodes
        /\ Target(k) \in Ground(k) /\ Target(k) \in Resources
    BY <2>2, CallerFacts
  <2>4. Target(j) # Topology
    <3>1. j # k => Ground(j) \cap Ground(k) = {}
      BY DEF ApartInv, GroundsApart
    <3> QED
      BY <2>3, <3>1
  <2>5. Topology \notin EndNodes(j) /\ (Target(j) \in Nodes => Target(j) \notin Links)
    BY <2>3, ResourceFacts
  <2>6. Held(Topology) = Before(j, Topology).data
    <3>1. CASE pc[j] \notin {"work", "write"}
      BY <2>1, <2>3, <2>4, <3>1 DEF CallInv, Preparing, DataKept
    <3>2. CASE pc[j] \in {"work", "write"} /\ Target(j) \in Nodes
      BY <2>1, <2>3, <2>4, <3>2 DEF CallInv, NodeWorks, DataKept
    <3>3. CASE pc[j] \in {"work", "write"} /\ Target(j) \notin Nodes
      <4>1. DataKept(j, Ground(j) \ ({Target(j)} \cup EndNodes(j)))
        BY <2>3, <2>4, <3>3 DEF CallInv, LinkWorks, LinkRuns, EndWorks, OwnWorks
      <4> QED
        BY <2>1, <2>4, <2>5, <4>1 DEF DataKept
    <3> QED
      BY <3>1, <3>2, <3>3
  <2>7. Seen(Topology) = Before(j, Topology)
    BY <2>1, SeenBusy DEF ApartInv
  <2> QED
    BY <2>6, <2>7 DEF Held
<1> QED
  BY <1>1, <1>2

\* The functions on the data are those of AppLogic.
LEMMA SameNames ==
  /\ Atomic!Topology = Topology /\ Atomic!Children = Children /\ Atomic!Resources = Resources
  /\ Atomic!Nil = Nil /\ Atomic!EmptyState = EmptyState
  BY DEF Atomic!Topology, Topology, Atomic!Children, Children, Atomic!Resources, Resources,
         Atomic!Nil, Nil, Atomic!EmptyState, EmptyState

\* AppLogic, and HandlerSteps, extend the same operators: copies of a configuration,
LEMMA SameCopies ==
  /\ \A c : Atomic!CopyTopology(c) = CopyTopology(c)
  /\ \A c : Atomic!CopyNode(c) = CopyNode(c)
  /\ \A c : Atomic!CopyLink(c) = CopyLink(c)
  BY DEF Atomic!CopyTopology, CopyTopology, Atomic!CopyNode, CopyNode, Atomic!CopyLink, CopyLink,
         Atomic!Nil, Nil

\* the status handlers,
LEMMA SameStatus ==
  /\ \A d, s, why : Atomic!SetStatus(d, s, why) = SetStatus(d, s, why)
  /\ \A d, s : Atomic!HandleStatus(d, s) = HandleStatus(d, s)
  /\ \A d, s : Atomic!HandleLinkStatus(d, s) = HandleLinkStatus(d, s)
  /\ \A d : Atomic!HandleTopologyStatus(d) = HandleTopologyStatus(d)
  BY DEF Atomic!SetStatus, SetStatus, Atomic!HandleStatus, HandleStatus,
         Atomic!HandleLinkStatus, HandleLinkStatus,
         Atomic!HandleTopologyStatus, HandleTopologyStatus, Atomic!Nil, Nil

\* the platform,
LEMMA SamePlatform == \A d, t : Atomic!SetPlatform(d, t) = SetPlatform(d, t)
  BY DEF Atomic!SetPlatform, SetPlatform, Atomic!ResolvePlatform, ResolvePlatform,
         Atomic!Nil, Nil, Atomic!DefaultPlatform, DefaultPlatform

\* the endpoints of nodes,
LEMMA SameEndpoints ==
  /\ \A d, name : Atomic!HasEndpoint(d, name) <=> HasEndpoint(d, name)
  /\ \A d, e : Atomic!SetEndpoint(d, e) = SetEndpoint(d, e)
  /\ \A le : /\ Atomic!LogicalLag(le) = LogicalLag(le)
             /\ Atomic!LagSubLink(le) = LagSubLink(le)
             /\ Atomic!PlainLink(le) = PlainLink(le)
  /\ \A c : Atomic!Ends(c) = Ends(c)
  BY DEF Atomic!HasEndpoint, HasEndpoint, Atomic!SetEndpoint, SetEndpoint,
         Atomic!LogicalLag, LogicalLag, Atomic!LagSubLink, LagSubLink,
         Atomic!PlainLink, PlainLink, Atomic!Ends, Ends

\* and what is written to the state cache.
LEMMA SameStates ==
  /\ \A d : Atomic!TopologyState(d) = TopologyState(d)
  /\ \A d : Atomic!NodeState(d) = NodeState(d)
  /\ \A d : Atomic!LinkState(d) = LinkState(d)
  /\ \A c, s : Atomic!MergeState(c, s) = MergeState(c, s)
  BY DEF Atomic!TopologyState, TopologyState, Atomic!NodeState, NodeState,
         Atomic!LinkState, LinkState, Atomic!MergeState, MergeState,
         Atomic!MergeLeaf, MergeLeaf, Atomic!MergeEndpoints, MergeEndpoints,
         Atomic!EmptyState, EmptyState, Atomic!Nil, Nil

\* A call that returns is idle; the other calls go on.
LEMMA ReturnIs ==
  ASSUME ApartInv, NEW k \in Callers, Return(k)
  PROVE  /\ pc'[k] = "idle"
         /\ \A j \in Callers \ {k} : SameCall(j) /\ ghost'[j] = ghost[j]
  BY DEF Return, SameCall, ApartInv, StepsInv, LocalsShape

\* An update that returns has made the handlers.
LEMMA UpdateReturns ==
  ASSUME ApartInv, NEW k \in Callers, pc[k] \notin {"idle", "delete"}, Local(k),
         StepsInv', HandlersInv', pc'[k] = "idle", topologyMade',
         \A r \in Children : HasHandler(r)' <=> HasHandler(r) \/ r = Target(k)
  PROVE  /\ ApartInv' /\ alive
         /\ \A r \in Ground(k) : /\ Seen(r) = Before(k, r)
                                 /\ Seen(r)'.data = Held(r)'
                                 /\ Seen(r)'.shown = stateCache'[r]
         /\ \A r \in Resources \ Ground(k) : Seen(r)' = Seen(r)
         /\ {r \in Resources : Seen(r).made}'
              = {r \in Resources : Seen(r).made} \cup {Topology, Target(k)}
<1>1. k \in Busy /\ alive
  BY DEF Busy, ApartInv
<1>2. /\ ApartInv'
      /\ \A r \in Ground(k) : /\ Seen(r) = Before(k, r)
                              /\ Seen(r)'.made = HasHandler(r)'
                              /\ Seen(r)'.data = Held(r)'
                              /\ Seen(r)'.shown = stateCache'[r]
      /\ \A r \in Resources \ Ground(k) : Seen(r)' = Seen(r)
  BY <1>1, ReturnSeen
<1>3. /\ MadeSoFar(k) /\ GhostOK(k) /\ Target(k) \in Ground(k) /\ Ground(k) \subseteq Resources
      /\ Target(k) \in Resources /\ (Target(k) = Topology => Ground(k) = Resources)
  BY CallerFacts
<1>4. ASSUME NEW s \in Resources
      PROVE  Seen(s)'.made <=> Seen(s).made \/ s = Topology \/ s = Target(k)
  <2>1. CASE s \in Ground(k) /\ s = Topology
    BY <1>2, <2>1 DEF HasHandler, Topology
  <2>2. CASE s \in Ground(k) /\ s # Topology
    <3>1. s \in Children
      BY <2>2, ResourceFacts
    <3>2. Seen(s)'.made <=> HasHandler(s) \/ s = Target(k)
      BY <1>2, <2>2, <3>1
    <3>3. HasHandler(s) <=> Seen(s).made \/ (s = Target(k) /\ pc[k] \in Configuring)
      BY <1>2, <1>3, <2>2, <3>1 DEF MadeSoFar
    <3> QED
      BY <2>2, <3>2, <3>3
  <2>3. CASE s \notin Ground(k) /\ s # Topology
    BY <1>2, <1>3, <2>3
  <2>4. CASE s \notin Ground(k) /\ s = Topology
    <3>1. Target(k) # Topology
      BY <1>3, <2>4
    <3>2. Before(k, Target(k)).made /\ Target(k) \in Children
      BY <2>4, <3>1, ChildFacts
    <3>3. Seen(Topology).made
      BY <1>2, <1>3, <3>2 DEF ApartInv
    <3> QED
      BY <1>2, <2>4, <3>3
  <2> QED
    BY <2>1, <2>2, <2>3, <2>4
<1>5. {r \in Resources : Seen(r).made}'
        = {r \in Resources : Seen(r).made} \cup {Topology, Target(k)}
  <2>1. {r \in Resources : Seen(r).made}' = {r \in Resources : Seen(r)'.made}
    OBVIOUS
  <2>2. Topology \in Resources
    BY ResourceFacts
  <2> QED
    BY <1>3, <1>4, <2>1, <2>2
<1> QED
  BY <1>1, <1>2, <1>5

\* An update without data.
LEMMA WithoutData ==
  ASSUME ApartInv, NEW k \in Callers, pc[k] \in {"create", "insert"}, Return(k),
         UNCHANGED <<alive, topologyData, data, stateCache>>, topologyMade',
         StepsInv', HandlersInv',
         \A r \in Children : HasHandler(r)' <=> HasHandler(r) \/ r = Target(k),
         \A r \in Children \ Ground(k) : made'[r] = made[r] /\ inMap'[r] = inMap[r],
         observers' = observers, Topology \notin Ground(k) => topologyMade
  PROVE  ApartInv' /\ Atomic!UpdateWithoutData(Target(k))
<1>1. /\ pc[k] # "idle" /\ pc[k] # "delete" /\ pc[k] \notin {"work", "write"}
      /\ Target(k) \in Resources /\ Target(k) \in Ground(k) /\ CallInv(k)
      /\ Ground(k) \subseteq Resources
  BY CallerFacts
<1>2. pc'[k] = "idle" /\ \A j \in Callers \ {k} : SameCall(j) /\ ghost'[j] = ghost[j]
  BY ReturnIs
<1>3. Local(k)
  <2>1. Topology \notin Ground(k) => topologyMade' = topologyMade
    <3>1. topologyMade \in BOOLEAN /\ topologyMade' \in BOOLEAN
      BY DEF ApartInv, StepsInv, MemoryOK
    <3> QED
      BY <3>1
  <2> QED
    BY <1>2, <2>1 DEF Local
<1>4. /\ ApartInv' /\ alive
      /\ \A r \in Ground(k) : /\ Seen(r) = Before(k, r)
                              /\ Seen(r)'.data = Held(r)'
                              /\ Seen(r)'.shown = stateCache'[r]
      /\ \A r \in Resources \ Ground(k) : Seen(r)' = Seen(r)
      /\ {r \in Resources : Seen(r).made}'
           = {r \in Resources : Seen(r).made} \cup {Topology, Target(k)}
  BY <1>1, <1>2, <1>3, UpdateReturns
<1>5. ASSUME NEW r \in Resources
      PROVE  Seen(r)'.data = Seen(r).data /\ Seen(r)'.shown = Seen(r).shown
  <2>1. CASE r \in Ground(k)
    <3>1. Held(r)' = Held(r) /\ stateCache'[r] = stateCache[r]
      BY DEF Held, Obj
    <3>2. Preparing(k)
      BY <1>1 DEF CallInv
    <3>3. Held(r) = Before(k, r).data /\ stateCache[r] = Before(k, r).shown
      BY <2>1, <3>2 DEF Preparing, DataKept, ShownKept
    <3> QED
      BY <1>4, <2>1, <3>1, <3>3
  <2>2. CASE r \notin Ground(k)
    BY <1>4, <2>2
  <2> QED
    BY <2>1, <2>2
<1>6. /\ Seen(Topology).data' = Seen(Topology).data
      /\ [n \in Nodes |-> Seen(n).data]' = [n \in Nodes |-> Seen(n).data]
      /\ [l \in Links |-> Seen(l).data]' = [l \in Links |-> Seen(l).data]
      /\ [r \in Resources |-> Seen(r).shown]' = [r \in Resources |-> Seen(r).shown]
  <2>1. Nodes \subseteq Resources /\ Links \subseteq Resources /\ Topology \in Resources
    BY ResourceFacts
  <2>2. [n \in Nodes |-> Seen(n).data]' = [n \in Nodes |-> Seen(n)'.data]
    OBVIOUS
  <2>3. [l \in Links |-> Seen(l).data]' = [l \in Links |-> Seen(l)'.data]
    OBVIOUS
  <2>4. [r \in Resources |-> Seen(r).shown]' = [r \in Resources |-> Seen(r)'.shown]
    OBVIOUS
  <2>5. Seen(Topology).data' = Seen(Topology)'.data
    OBVIOUS
  <2> QED
    BY <1>5, <2>1, <2>2, <2>3, <2>4, <2>5
<1> QED
  BY <1>4, <1>6, SameNames DEF Atomic!UpdateWithoutData, Atomic!CreateChild

\* An update without data of a resource that has its handler.
LEMMA FoundWithoutData ==
  ASSUME ApartInv, NEW k \in Callers, CreateTopology(k) \/ FindChild(k), Config(k) = NoData
  PROVE  ApartInv' /\ Atomic!UpdateWithoutData(Target(k))
<1>1. /\ pc[k] = "create" /\ Return(k) /\ topologyMade' = TRUE
      /\ UNCHANGED <<alive, made, inMap, observers, topologyData, data, stateCache>>
      /\ Target(k) \in Children => HasHandler(Target(k))
  BY ResourceFacts DEF CreateTopology, FindChild, Created, At
<1>2. /\ k \in Busy /\ Target(k) \in Resources /\ (Target(k) = Topology => Ground(k) = Resources)
      /\ MadeSoFar(k) /\ Target(k) \in Ground(k)
  BY <1>1, CallerFacts
<1>3. pc'[k] = "idle" /\ \A j \in Callers \ {k} : SameCall(j) /\ ghost'[j] = ghost[j]
  BY <1>1, ReturnIs
<1>4. HandlersInv' /\ \A r \in Children : HasHandler(r)' = HasHandler(r)
  BY <1>1, <1>2, <1>3, HandlersSame
<1>5. StepsInv'
  BY FoundTypes DEF ApartInv
<1>6. Topology \notin Ground(k) => topologyMade
  <2>1. Topology \notin Ground(k) => Target(k) \in Children
    BY <1>2, ResourceFacts
  <2> QED
    BY <1>1, <2>1, OneHandler
<1>7. \A r \in Children : HasHandler(r)' <=> HasHandler(r) \/ r = Target(k)
  BY <1>1, <1>4
<1> QED
  BY <1>1, <1>4, <1>5, <1>6, <1>7, WithoutData

\* An update without data of a child whose handler it has made.
LEMMA InsertWithoutData ==
  ASSUME ApartInv, NEW k \in Callers, Insert(k), Config(k) = NoData
  PROVE  ApartInv' /\ Atomic!UpdateWithoutData(Target(k))
<1>1. /\ pc[k] = "insert" /\ Return(k)
      /\ UNCHANGED <<alive, topologyMade, made, observers, topologyData, data, stateCache>>
  BY DEF Insert, Created, At
<1>2. pc'[k] = "idle" /\ \A j \in Callers \ {k} : SameCall(j) /\ ghost'[j] = ghost[j]
  BY <1>1, ReturnIs
<1>3. /\ HandlersInv'
      /\ \A s \in Children : HasHandler(s)' <=> HasHandler(s) \/ s = Target(k)
      /\ \A s \in Children \ {Target(k)} : inMap'[s] = inMap[s]
      /\ Topology \in Ground(k) /\ topologyMade
  BY <1>2, InsertedHandlers
<1>4. StepsInv'
  BY InsertTypes DEF ApartInv
<1>5. Target(k) \in Ground(k)
  BY <1>1, CallerFacts
<1>6. \A s \in Children \ Ground(k) : inMap'[s] = inMap[s]
  BY <1>3, <1>5
<1> QED
  BY <1>1, <1>3, <1>4, <1>6, WithoutData

\* What AppLogic sees after a step.
LEMMA SeenAfter ==
  /\ Seen(Topology).data' = Seen(Topology)'.data
  /\ [n \in Nodes |-> Seen(n).data]' = [n \in Nodes |-> Seen(n)'.data]
  /\ [l \in Links |-> Seen(l).data]' = [l \in Links |-> Seen(l)'.data]
  /\ [r \in Resources |-> Seen(r).shown]' = [r \in Resources |-> Seen(r)'.shown]
  OBVIOUS

\* The configuration of a call is one that AppLogic allows.
LEMMA ConfigIs ==
  ASSUME ApartInv, NEW k \in Callers, pc[k] \in Configuring
  PROVE  \A S : Target(k) \in S => Config(k) \in Configured(S)
<1>1. Config(k) # NoData /\ call[k].event \in Events
  BY PastCreate, CallerFacts
<1> QED
  BY <1>1 DEF Configured, Target, Config

\* The topology's data stays what it is when the call of a child returns.
LEMMA TopologyDataStays ==
  ASSUME ApartInv, NEW k \in Busy, Target(k) # Topology,
         topologyData' = topologyData,
         \A r \in Ground(k) : Seen(r)'.data = Held(r)',
         \A r \in Resources \ Ground(k) : Seen(r)' = Seen(r)
  PROVE  Seen(Topology)'.data = Seen(Topology).data /\ Seen(Topology).data = topologyData
<1>1. Seen(Topology).data = topologyData
  BY TopologyDataSeen
<1>2. Topology \in Resources
  BY ResourceFacts
<1> QED
  BY <1>1, <1>2 DEF Held

-----------------------------------------------------------------------------
\* A link that is refused.
LEMMA RefusedReturns ==
  ASSUME ApartInv, NEW k \in Callers, ParseRefused(k)
  PROVE  ApartInv' /\ Atomic!LinkRefused(Target(k), Config(k))
<1>0. PICK l, c, d : /\ l = Target(k) /\ c = Config(k)
                     /\ d = SetStatus(LinkCopied(k), "down", "endpoint node not found")
  OBVIOUS
<1>1. /\ pc[k] = "parse" /\ pc[k] \in Configuring /\ Return(k)
      /\ NodeMissing(data[Own(k)])
      /\ data' = [data EXCEPT ![Own(k)] = SetStatus(data[Own(k)], "down", "endpoint node not found")]
      /\ UNCHANGED <<alive, topologyMade, made, inMap, observers, topologyData, stateCache>>
  BY DEF ParseRefused, At, Configuring
<1>2. /\ k \in Busy /\ MemoryOK /\ CallOK(k) /\ CallInv(k) /\ MadeSoFar(k)
      /\ l \in Ground(k) /\ c \in LinkConfig
      /\ l \in Children /\ l \in Links /\ Own(k) = Obj(l) /\ Obj(l) \in Objects
      /\ HasHandler(l) /\ Held(l) = data[Obj(l)] /\ l # Topology
  <2>1. l \in Links /\ l # Topology
    BY <1>0, <1>1, PastCreate, ResourceFacts DEF CallOK
  <2> QED
    BY <1>0, <1>1, <2>1, PastCreate
<1>3. pc'[k] = "idle" /\ \A j \in Callers \ {k} : SameCall(j) /\ ghost'[j] = ghost[j]
  BY <1>1, ReturnIs
<1>4. Preparing(k) /\ Held(l) = LinkCopied(k)
  BY <1>0, <1>1, <1>2 DEF CallInv, Preparing
<1>5. /\ data'[Obj(l)] = d /\ Held(l)' = d
      /\ \A s \in Children \ {l} : data'[Obj(s)] = data[Obj(s)] /\ Held(s)' = Held(s)
  <2>1. data' = [data EXCEPT ![Obj(l)] = d]
    BY <1>0, <1>1, <1>2, <1>4
  <2> QED
    BY <1>2, <2>1, DataSet
<1>6. HandlersInv' /\ \A r \in Children : HasHandler(r)' = HasHandler(r)
  BY <1>1, <1>2, <1>3, <1>5, HandlersSame
<1>7. StepsInv'
  BY RefusedTypes DEF ApartInv
<1>8. Local(k)
  BY <1>0, <1>1, <1>2, <1>3, <1>5 DEF Local
<1>9. topologyMade' /\ \A r \in Children : HasHandler(r)' <=> HasHandler(r) \/ r = l
  BY <1>1, <1>2, <1>6, OneHandler
<1>10. pc[k] \notin {"idle", "delete"}
  BY <1>1
<1>11. /\ ApartInv' /\ alive
       /\ \A r \in Ground(k) : /\ Seen(r) = Before(k, r)
                               /\ Seen(r)'.data = Held(r)'
                               /\ Seen(r)'.shown = stateCache'[r]
       /\ \A r \in Resources \ Ground(k) : Seen(r)' = Seen(r)
       /\ {r \in Resources : Seen(r).made}'
            = {r \in Resources : Seen(r).made} \cup {Topology, l}
  BY <1>0, <1>3, <1>6, <1>7, <1>8, <1>9, <1>10, UpdateReturns
<1>12. Seen(Topology)'.data = Seen(Topology).data /\ Seen(Topology).data = topologyData
  BY <1>0, <1>1, <1>2, <1>11, TopologyDataStays
<1>13. topologyData # NoData
  BY <1>1, <1>2 DEF CallOK
<1>14. /\ \A r \in Resources : Seen(r)'.shown = Seen(r).shown
       /\ \A r \in Children \ {l} : Seen(r)'.data = Seen(r).data
       /\ Seen(l)'.data = d
  <2>1. ASSUME NEW r \in Resources PROVE Seen(r)'.shown = Seen(r).shown
    <3>1. r \in Ground(k) => stateCache[r] = Before(k, r).shown
      BY <1>4 DEF Preparing, ShownKept
    <3> QED
      BY <1>1, <1>11, <3>1
  <2>2. ASSUME NEW r \in Children \ {l} PROVE Seen(r)'.data = Seen(r).data
    <3>1. r \in Ground(k) => Held(r) = Before(k, r).data
      BY <1>0, <1>4 DEF Preparing, DataKept
    <3>2. r \in Resources
      BY ResourceFacts
    <3> QED
      BY <1>5, <1>11, <3>1, <3>2
  <2>3. Seen(l)'.data = d
    BY <1>2, <1>5, <1>11
  <2> QED
    BY <2>1, <2>2, <2>3
<1>15. Atomic!NodeMissing(c)
  <2>1. PICK le \in Ends(data[Own(k)]) : ~HasHandler(le.node)
    BY <1>1 DEF NodeMissing
  <2>2. Ends(data[Own(k)]) = Ends(c)
    BY <1>0, <1>2, <1>4 DEF Ends, LinkCopied, HandleLinkStatus, HandleStatus, SetStatus, CopyLink
  <2>3. le.node \in EndNodes(k)
    BY <1>0, <1>1, <1>2, <2>1, <2>2, PastCreate DEF EndNodes
  <2>4. le.node \in Ground(k) /\ le.node \in Nodes /\ le.node \in Children /\ le.node # l
    BY <1>1, <1>2, <2>3, CallerFacts, ResourceFacts
  <2>5. ~Before(k, le.node).made
    BY <1>0, <1>2, <2>1, <2>4 DEF MadeSoFar
  <2>6. le.node \notin {r \in Resources : Seen(r).made}
    BY <1>11, <2>4, <2>5
  <2> QED
    BY <2>1, <2>2, <2>6, SameEndpoints DEF Atomic!NodeMissing, Atomic!Known
<1>16. d = Atomic!SetStatus(Atomic!LinkCopied(c), "down", "endpoint node not found")
  BY <1>0, <1>12, SameCopies, SameStatus DEF Atomic!LinkCopied, Atomic!ParentStatus, LinkCopied
<1>17. /\ [n \in Nodes |-> Seen(n).data]' = [n \in Nodes |-> Seen(n).data]
       /\ [s \in Links |-> Seen(s).data]' = [[s \in Links |-> Seen(s).data] EXCEPT ![l] = d]
       /\ [r \in Resources |-> Seen(r).shown]' = [r \in Resources |-> Seen(r).shown]
       /\ Seen(Topology).data' = Seen(Topology).data
  <2>1. \A n \in Nodes : n \in Children \ {l}
    BY <1>2, ResourceFacts
  <2>2. \A s \in Links : s \in Children
    BY ResourceFacts
  <2> QED
    BY <1>2, <1>12, <1>14, <2>1, <2>2, SeenAfter
<1> QED
  BY <1>0, <1>1, <1>11, <1>12, <1>13, <1>15, <1>16, <1>17, SameNames
  DEF Atomic!LinkRefused, Atomic!CreateChild

\* A delete.
LEMMA DeleteReturns ==
  ASSUME ApartInv, NEW k \in Callers, DeleteState(k)
  PROVE  /\ ApartInv'
         /\ Target(k) \in Children => Atomic!ChildDelete(Target(k))
         /\ Target(k) = Topology => Atomic!TopologyDelete
<1>0. PICK r : r = Target(k)
  OBVIOUS
<1>1. /\ pc[k] = "delete" /\ Return(k)
      /\ topologyMade' = (topologyMade \/ r # Topology)
      /\ stateCache' = [s \in Resources |->
                          IF HasHandler(r) /\ (r = Topology \/ s = r) THEN NoData
                          ELSE stateCache[s]]
      /\ UNCHANGED <<alive, made, inMap, observers, topologyData, data>>
  BY <1>0 DEF DeleteState, At
<1>2. /\ k \in Busy /\ pc[k] # "idle" /\ CallInv(k) /\ MadeSoFar(k)
      /\ r \in Resources /\ r \in Ground(k) /\ Ground(k) \subseteq Resources
      /\ r = Topology => Ground(k) = Resources
  BY <1>0, <1>1, CallerFacts
<1>3. pc'[k] = "idle" /\ \A j \in Callers \ {k} : SameCall(j) /\ ghost'[j] = ghost[j]
  BY <1>1, ReturnIs
<1>4. Preparing(k) /\ pc[k] \notin Configuring
  BY <1>1, <1>2 DEF CallInv, Configuring
<1>5. HandlersInv' /\ \A s \in Children : HasHandler(s)' = HasHandler(s)
  BY <1>1, <1>2, <1>3, HandlersSame
<1>6. StepsInv'
  BY DeleteTypes DEF ApartInv
<1>7. /\ alive /\ topologyMade \in BOOLEAN /\ (topologyMade => topologyMade')
      /\ topologyMade' \in BOOLEAN
  BY <1>1, <1>2 DEF ApartInv, StepsInv, MemoryOK
<1>8. r # Topology /\ Topology \notin Ground(k) =>
        r \in Children /\ Before(k, r).made /\ topologyMade
  <2>1. r # Topology /\ Topology \notin Ground(k) => r \in Children /\ Before(k, r).made
    BY <1>0, <1>2, ChildFacts
  <2>2. r \in Children /\ Before(k, r).made => HasHandler(r)
    BY <1>2 DEF MadeSoFar
  <2> QED
    BY <2>1, <2>2, OneHandler
<1>9. \A s \in Resources \ Ground(k) : stateCache'[s] = stateCache[s]
  BY <1>1, <1>2
<1>10. Local(k)
  <2>1. Topology \notin Ground(k) => topologyMade' = topologyMade
    BY <1>1, <1>2, <1>7, <1>8
  <2> QED
    BY <1>1, <1>3, <1>9, <2>1, ResourceFacts DEF Local
<1>11. /\ ApartInv'
       /\ \A s \in Ground(k) : /\ Seen(s) = Before(k, s)
                               /\ Seen(s)'.made = HasHandler(s)'
                               /\ Seen(s)'.data = Held(s)'
                               /\ Seen(s)'.shown = stateCache'[s]
       /\ \A s \in Resources \ Ground(k) : Seen(s)' = Seen(s)
  BY <1>2, <1>3, <1>5, <1>6, <1>7, <1>10, ReturnSeen
<1>12. \A s \in Ground(k) : Held(s)' = Seen(s).data /\ stateCache[s] = Seen(s).shown
  <2> TAKE s \in Ground(k)
  <2>1. Held(s)' = Held(s)
    BY <1>1 DEF Held, Obj
  <2>2. Held(s) = Before(k, s).data /\ stateCache[s] = Before(k, s).shown
    BY <1>0, <1>1, <1>4 DEF Preparing, DataKept, ShownKept
  <2> QED
    BY <1>11, <2>1, <2>2
<1>13. \A s \in Resources : Seen(s)'.data = Seen(s).data
  BY <1>11, <1>12
<1>14. /\ Seen(Topology).data' = Seen(Topology).data
       /\ [n \in Nodes |-> Seen(n).data]' = [n \in Nodes |-> Seen(n).data]
       /\ [l \in Links |-> Seen(l).data]' = [l \in Links |-> Seen(l).data]
  <2>1. Nodes \subseteq Resources /\ Links \subseteq Resources /\ Topology \in Resources
    BY ResourceFacts
  <2>2. /\ \A n \in Nodes : Seen(n)'.data = Seen(n).data
        /\ \A l \in Links : Seen(l)'.data = Seen(l).data
        /\ Seen(Topology)'.data = Seen(Topology).data
    BY <1>13, <2>1
  <2>3. /\ [n \in Nodes |-> Seen(n).data]' = [n \in Nodes |-> Seen(n)'.data]
        /\ [l \in Links |-> Seen(l).data]' = [l \in Links |-> Seen(l)'.data]
        /\ Seen(Topology).data' = Seen(Topology)'.data
    BY SeenAfter
  <2> QED
    BY <2>2, <2>3
<1>15. \A s \in Ground(k) \cap Children : HasHandler(s) <=> Seen(s).made
  BY <1>2, <1>4, <1>11 DEF MadeSoFar
<1>16. Topology \in Ground(k) => (topologyMade <=> Seen(Topology).made)
  BY <1>1, <1>2, <1>11 DEF MadeSoFar
<1>17. HasHandler(r) <=> Seen(r).made
  BY <1>2, <1>15, <1>16, ResourceFacts DEF HasHandler
<1>18. {s \in Resources : Seen(s).made}' = {s \in Resources : Seen(s)'.made}
  OBVIOUS
<1>19. \A s \in Resources :
         Seen(s)'.made <=> Seen(s).made \/ (r # Topology /\ s = Topology)
  <2> TAKE s \in Resources
  <2>1. CASE s \in Ground(k) /\ s = Topology
    BY <1>1, <1>11, <1>16, <2>1 DEF HasHandler
  <2>2. CASE s \in Ground(k) /\ s # Topology
    BY <1>5, <1>11, <1>15, <2>2, ResourceFacts
  <2>3. CASE s \notin Ground(k) /\ s # Topology
    BY <1>11, <2>3
  <2>4. CASE s \notin Ground(k) /\ s = Topology
    <3>1. r # Topology
      BY <1>2, <2>4
    <3>2. Seen(Topology).made
      BY <1>2, <1>8, <1>11, <2>4, <3>1 DEF ApartInv
    <3> QED
      BY <1>11, <2>4, <3>2
  <2> QED
    BY <2>1, <2>2, <2>3, <2>4
<1>20. \A s \in Resources :
         Seen(s)'.shown = IF HasHandler(r) /\ (r = Topology \/ s = r) THEN NoData
                          ELSE Seen(s).shown
  BY <1>1, <1>2, <1>11, <1>12
<1>21. CASE r = Topology
  <2>1. {s \in Resources : Seen(s).made}' = {s \in Resources : Seen(s).made}
    BY <1>18, <1>19, <1>21
  <2>2. [s \in Resources |-> Seen(s).shown]' =
          IF Topology \in {s \in Resources : Seen(s).made} THEN [s \in Resources |-> NoData]
          ELSE [s \in Resources |-> Seen(s).shown]
    BY <1>2, <1>17, <1>20, <1>21, SeenAfter
  <2>3. Atomic!TopologyDelete
    BY <1>1, <1>7, <1>14, <2>1, <2>2, SameNames DEF Atomic!TopologyDelete
  <2> QED
    BY <1>0, <1>11, <1>21, <2>3, ResourceFacts
<1>22. CASE r # Topology
  <2>1. {s \in Resources : Seen(s).made}' = {s \in Resources : Seen(s).made} \cup {Topology}
    BY <1>18, <1>19, <1>22, ResourceFacts
  <2>2. [s \in Resources |-> Seen(s).shown]' =
          IF r \in {s \in Resources : Seen(s).made}
          THEN [[s \in Resources |-> Seen(s).shown] EXCEPT ![r] = NoData]
          ELSE [s \in Resources |-> Seen(s).shown]
    BY <1>2, <1>17, <1>20, <1>22, SeenAfter
  <2>3. Atomic!ChildDelete(r)
    BY <1>1, <1>7, <1>14, <2>1, <2>2, SameNames DEF Atomic!ChildDelete, Atomic!CreateChild
  <2> QED
    BY <1>0, <1>11, <1>22, <2>3
<1> QED
  BY <1>21, <1>22

\* The last write of a child is that of the child itself.
LEMMA ChildReturns ==
  ASSUME ApartInv, NEW k \in Callers, WriteState(k), Len(jobs[k]) = 1,
         NEW r \in Children, r = Target(k), Job(k).object = Obj(r)
  PROVE  /\ ApartInv' /\ alive /\ alive' = alive
         /\ \A s \in Ground(k) :
              /\ Seen(s) = Before(k, s) /\ Seen(s)'.data = Held(s)
              /\ Seen(s)'.shown = IF s = r THEN MergeState(stateCache[s], read[k])
                                  ELSE stateCache[s]
         /\ \A s \in Resources \ Ground(k) : Seen(s)' = Seen(s)
         /\ Seen(Topology)'.data = Seen(Topology).data /\ Seen(Topology).data = topologyData
         /\ {s \in Resources : Seen(s).made}'
              = {s \in Resources : Seen(s).made} \cup {Topology, r}
<1>1. /\ pc[k] = "write" /\ pc[k] \in Configuring /\ pc[k] \notin {"idle", "delete"}
      /\ Return(k) /\ pc'[k] = "idle"
      /\ \A j \in Callers \ {k} : SameCall(j) /\ ghost'[j] = ghost[j]
      /\ UNCHANGED <<alive, topologyMade, made, inMap, observers, topologyData, data>>
  BY WriteIs, ReturnIs
<1>2. /\ k \in Busy /\ r \in Ground(k) /\ HasHandler(r) /\ r # Topology /\ r \in Resources
      /\ Ground(k) \subseteq Resources
  BY <1>1, PastCreate, CallerFacts, ResourceFacts
<1>3. stateCache' = [s \in Resources |-> IF s = r THEN MergeState(stateCache[s], read[k])
                                         ELSE stateCache[s]]
  <2>1. Job(k).object # Topology /\ Job(k).object[1] = r
    BY ObjFacts
  <2> QED
    BY <2>1, WriteChild
<1>4. \A s : Held(s)' = Held(s)
  BY <1>1 DEF Held, Obj
<1>5. HandlersInv' /\ \A s \in Children : HasHandler(s)' = HasHandler(s)
  BY <1>1, <1>2, HandlersSame
<1>6. StepsInv'
  BY WriteTypes DEF ApartInv
<1>7. Local(k)
  BY <1>1, <1>2, <1>3, ResourceFacts DEF Local
<1>8. topologyMade'
  BY <1>1, <1>2, OneHandler
<1>9. \A s \in Children : HasHandler(s)' <=> HasHandler(s) \/ s = r
  BY <1>2, <1>5
<1>10. /\ ApartInv' /\ alive
       /\ \A s \in Ground(k) : /\ Seen(s) = Before(k, s)
                               /\ Seen(s)'.data = Held(s)'
                               /\ Seen(s)'.shown = stateCache'[s]
       /\ \A s \in Resources \ Ground(k) : Seen(s)' = Seen(s)
       /\ {s \in Resources : Seen(s).made}'
            = {s \in Resources : Seen(s).made} \cup {Topology, r}
  BY <1>1, <1>5, <1>6, <1>7, <1>8, <1>9, UpdateReturns
<1>11. Seen(Topology)'.data = Seen(Topology).data /\ Seen(Topology).data = topologyData
  BY <1>1, <1>2, <1>10, TopologyDataStays
<1> QED
  BY <1>1, <1>2, <1>3, <1>4, <1>10, <1>11

\* A node that is configured.
LEMMA NodeReturns ==
  ASSUME ApartInv, NEW k \in Callers, WriteState(k), Len(jobs[k]) = 1, Target(k) \in Nodes
  PROVE  ApartInv' /\ Atomic!NodeUpdate(Target(k), Config(k))
<1>0. PICK r, c, d : r = Target(k) /\ c = Config(k) /\ d = NodeCopied(k)
  OBVIOUS
<1>1. /\ pc[k] = "write" /\ pc[k] \in Configuring
  BY WriteIs
<1>2. /\ r \in Nodes /\ r \in Children /\ r \in Resources /\ r # Topology
      /\ r \in Ground(k) /\ CallInv(k) /\ c \in NodeConfig
  BY <1>0, <1>1, PastCreate, ResourceFacts
<1>3. NodeWorks(k)
  BY <1>0, <1>1, <1>2 DEF CallInv
<1>4. /\ topologyData # NoData /\ Held(r) = d
      /\ Job(k).object = Obj(r)
      /\ stateCache[r] = MergeState(Before(k, r).shown, NodeState(d))
      /\ read[k] = NodeState(d)
      /\ DataKept(k, Ground(k) \ {r}) /\ ShownKept(k, Ground(k) \ {r})
  BY <1>0, <1>1, <1>3 DEF NodeWorks, Job, Report
<1>5. /\ ApartInv' /\ alive /\ alive' = alive
      /\ \A s \in Ground(k) :
           /\ Seen(s) = Before(k, s) /\ Seen(s)'.data = Held(s)
           /\ Seen(s)'.shown = IF s = r THEN MergeState(stateCache[s], read[k])
                               ELSE stateCache[s]
      /\ \A s \in Resources \ Ground(k) : Seen(s)' = Seen(s)
      /\ Seen(Topology)'.data = Seen(Topology).data /\ Seen(Topology).data = topologyData
      /\ {s \in Resources : Seen(s).made}'
           = {s \in Resources : Seen(s).made} \cup {Topology, r}
  BY <1>0, <1>2, <1>4, ChildReturns
<1>6. /\ Before(k, r).shown \in StateLeaves \cup {NoData}
      /\ NodeState(d) \in StateLeaves
  BY <1>1, <1>2, <1>4, CallerFacts DEF GhostOK, CallOK
<1>7. Seen(r)'.shown = MergeState(Seen(r).shown, NodeState(d)) /\ Seen(r)'.data = d
  BY <1>2, <1>4, <1>5, <1>6, SameAgain
<1>8. \A s \in Resources \ {r} : Seen(s)'.data = Seen(s).data /\ Seen(s)'.shown = Seen(s).shown
  BY <1>4, <1>5 DEF DataKept, ShownKept
<1>9. d = Atomic!SetPlatform(Atomic!HandleStatus(Atomic!CopyNode(c), Seen(Topology).data.status),
                             Seen(Topology).data)
  BY <1>0, <1>5, SameCopies, SameStatus, SamePlatform DEF NodeCopied
<1>10. /\ \A n \in Nodes : Seen(n)'.data = IF n = r THEN d ELSE Seen(n).data
       /\ \A n \in Links : Seen(n)'.data = Seen(n).data
       /\ \A s \in Resources :
            Seen(s)'.shown = IF s = r THEN MergeState(Seen(s).shown, NodeState(d))
                             ELSE Seen(s).shown
  BY <1>2, <1>7, <1>8, ResourceFacts
<1>11. /\ [n \in Nodes |-> Seen(n).data]' = [[n \in Nodes |-> Seen(n).data] EXCEPT ![r] = d]
       /\ [n \in Links |-> Seen(n).data]' = [n \in Links |-> Seen(n).data]
       /\ [s \in Resources |-> Seen(s).shown]' =
            [[s \in Resources |-> Seen(s).shown] EXCEPT ![r] = MergeState(@, NodeState(d))]
       /\ Seen(Topology).data' = Seen(Topology).data
  <2>1. /\ [n \in Nodes |-> Seen(n).data]' = [n \in Nodes |-> Seen(n)'.data]
        /\ [l \in Links |-> Seen(l).data]' = [l \in Links |-> Seen(l)'.data]
        /\ [s \in Resources |-> Seen(s).shown]' = [s \in Resources |-> Seen(s)'.shown]
        /\ Seen(Topology).data' = Seen(Topology)'.data
    BY SeenAfter
  <2> QED
    BY <1>2, <1>5, <1>10, <2>1
<1>12. [n \in Nodes |-> Seen(n).data]'[r] = d
  BY <1>2, <1>11
<1> QED
  BY <1>0, <1>2, <1>4, <1>5, <1>9, <1>11, <1>12, SameNames, SameStates
  DEF Atomic!NodeUpdate, Atomic!CreateChild, Atomic!ParentStatus, Atomic!Cached

\* f and g agree on the nodes a and b, and g is h elsewhere.
AgreeOn(f, g, h, a, b) ==
  /\ f = [s \in Nodes |-> f[s]] /\ g = [s \in Nodes |-> g[s]]
  /\ f[a] = g[a] /\ f[b] = g[b]
  /\ \A s \in Nodes \ {a, b} : g[s] = h[s]

\* Both sides of a link, in a function of the nodes' data.
LEMMA BothSet ==
  ASSUME NEW f, NEW g, NEW h, NEW a \in Nodes, NEW b \in Nodes, NEW x, NEW y,
         AgreeOn(f, g, h, a, b)
  PROVE  AgreeOn(Atomic!SetBoth(f, a, x, b, y), Atomic!SetBoth(g, a, x, b, y), h, a, b)
<1> DEFINE f1 == [f EXCEPT ![a] = SetEndpoint(f[a], x)]
           g1 == [g EXCEPT ![a] = SetEndpoint(g[a], x)]
<1>1. AgreeOn(f1, g1, h, a, b)
  BY DEF AgreeOn
<1>2. /\ Atomic!SetBoth(f, a, x, b, y) = [f1 EXCEPT ![b] = SetEndpoint(f1[b], y)]
      /\ Atomic!SetBoth(g, a, x, b, y) = [g1 EXCEPT ![b] = SetEndpoint(g1[b], y)]
  BY SameEndpoints DEF Atomic!SetBoth
<1> HIDE DEF f1, g1
<1>3. AgreeOn([f1 EXCEPT ![b] = SetEndpoint(f1[b], y)],
              [g1 EXCEPT ![b] = SetEndpoint(g1[b], y)], h, a, b)
  BY <1>1 DEF AgreeOn
<1> QED
  BY <1>2, <1>3

\* parseLink looks at the two nodes of the link and changes them only.
LEMMA ParsedApart ==
  ASSUME NEW f, NEW g, NEW c, NEW a, NEW b, a = c.endpoints[1], b = c.endpoints[2],
         NEW m \in Nodes, NEW n \in Nodes, m = a.node, n = b.node,
         AgreeOn(f, g, g, m, n)
  PROVE  AgreeOn(Atomic!ParseLink(f, c), Atomic!ParseLink(g, c), g, m, n)
<1> DEFINE found == HasEndpoint(f[m], a.lagName) /\ HasEndpoint(f[n], b.lagName)
           F == IF found \/ ~c.lag THEN f
                ELSE Atomic!SetBoth(f, m, LogicalLag(a), n, LogicalLag(b))
           G == IF found \/ ~c.lag THEN g
                ELSE Atomic!SetBoth(g, m, LogicalLag(a), n, LogicalLag(b))
<1>1. PICK u, v : u = (IF c.lag THEN LagSubLink(a) ELSE PlainLink(a))
                  /\ v = (IF c.lag THEN LagSubLink(b) ELSE PlainLink(b))
  OBVIOUS
<1>2. /\ Atomic!ParseLink(f, c) = Atomic!SetBoth(F, m, u, n, v)
      /\ Atomic!ParseLink(g, c) = Atomic!SetBoth(G, m, u, n, v)
  BY <1>1, SameEndpoints DEF Atomic!ParseLink, AgreeOn
<1>3. AgreeOn(F, G, g, m, n)
  <2>1. AgreeOn(Atomic!SetBoth(f, m, LogicalLag(a), n, LogicalLag(b)),
                Atomic!SetBoth(g, m, LogicalLag(a), n, LogicalLag(b)), g, m, n)
    BY BothSet
  <2> QED
    BY <2>1
<1> HIDE DEF F, G
<1>4. AgreeOn(Atomic!SetBoth(F, m, u, n, v), Atomic!SetBoth(G, m, u, n, v), g, m, n)
  BY <1>3, BothSet
<1> QED
  BY <1>2, <1>4

\* The jobs of a link do what parseLink does.
LEMMA JobsParse ==
  ASSUME ApartInv, NEW k \in Callers, pc[k] \in Configuring, Target(k) \in Links,
         Len(Config(k).endpoints) >= 2
  PROVE  After(NodesBefore(k), LinkJobs(k), Len(LinkJobs(k)))
           = Atomic!ParseLink(NodesBefore(k), Config(k))
<1>0. PICK f, L, c, a, b :
        f = NodesBefore(k) /\ L = LinkJobs(k) /\ c = Config(k) /\ a = End(k, 1) /\ b = End(k, 2)
  OBVIOUS
<1>1. /\ a = c.endpoints[1] /\ b = c.endpoints[2] /\ a.node \in Nodes /\ b.node \in Nodes
  <2>1. a \in LinkEndpoint /\ b \in LinkEndpoint
    BY <1>0, EndFacts
  <2> QED
    BY <1>0, <2>1 DEF End, LinkEndpoint
<1>3. \A g, o : SetJob(g, Report(o)) = g
  BY DEF SetJob, Report
<1>4. BothFound(k) <=> HasEndpoint(f[a.node], a.lagName) /\ HasEndpoint(f[b.node], b.lagName)
  <2>1. f[a.node] = Before(k, a.node).data /\ f[b.node] = Before(k, b.node).data
    BY <1>0, <1>1 DEF NodesBefore
  <2> QED
    BY <1>0, <2>1 DEF BothFound
<1>5. \A g, m, n, x, y : Atomic!SetBoth(g, m, x, n, y)
                           = SetJob(SetJob(g, SetOn(Obj(m), x)), SetOn(Obj(n), y))
  <2> TAKE g, m, n, x, y
  <2>1. \A h, s, e : SetJob(h, SetOn(Obj(s), e)) = [h EXCEPT ![s] = SetEndpoint(h[s], e)]
    BY DEF SetJob, SetOn, Obj
  <2>2. PICK h : h = [g EXCEPT ![m] = SetEndpoint(g[m], x)]
    OBVIOUS
  <2>3. Atomic!SetBoth(g, m, x, n, y) = [h EXCEPT ![n] = SetEndpoint(h[n], y)]
    BY <2>2, SameEndpoints DEF Atomic!SetBoth
  <2> QED
    BY <2>1, <2>2, <2>3
<1>6. CASE ~c.lag
  <2>1. L = <<SetOn(Obj(a.node), PlainLink(a)), SetOn(Obj(b.node), PlainLink(b)),
              OwnReport(k), OwnReport(k)>>
    BY <1>0, <1>6 DEF LinkJobs, SetEnd
  <2>2. After(f, L, Len(L))
          = SetJob(SetJob(f, SetOn(Obj(a.node), PlainLink(a))), SetOn(Obj(b.node), PlainLink(b)))
    BY <1>3, <2>1 DEF After, OwnReport
  <2>3. Atomic!ParseLink(f, c) = Atomic!SetBoth(f, a.node, PlainLink(a), b.node, PlainLink(b))
    BY <1>1, <1>6, SameEndpoints DEF Atomic!ParseLink
  <2> QED
    BY <1>0, <1>5, <2>2, <2>3
<1>7. CASE c.lag /\ BothFound(k)
  <2>1. L = <<SetOn(Obj(a.node), LagSubLink(a)), SetOn(Obj(b.node), LagSubLink(b)),
              OwnReport(k), OwnReport(k)>>
    BY <1>0, <1>7 DEF LinkJobs, SetEnd
  <2>2. After(f, L, Len(L))
          = SetJob(SetJob(f, SetOn(Obj(a.node), LagSubLink(a))), SetOn(Obj(b.node), LagSubLink(b)))
    BY <1>3, <2>1 DEF After, OwnReport
  <2>3. Atomic!ParseLink(f, c) = Atomic!SetBoth(f, a.node, LagSubLink(a), b.node, LagSubLink(b))
    BY <1>1, <1>4, <1>7, SameEndpoints DEF Atomic!ParseLink
  <2> QED
    BY <1>0, <1>5, <2>2, <2>3
<1>8. CASE c.lag /\ ~BothFound(k)
  <2>1. L = <<SetOn(Obj(a.node), LogicalLag(a)), SetOn(Obj(b.node), LogicalLag(b)),
              SetOn(Obj(a.node), LagSubLink(a)), SetOn(Obj(b.node), LagSubLink(b)),
              OwnReport(k), OwnReport(k)>>
    BY <1>0, <1>8 DEF LinkJobs, SetEnd
  <2>2. After(f, L, Len(L))
          = SetJob(SetJob(SetJob(SetJob(f, SetOn(Obj(a.node), LogicalLag(a))),
                                 SetOn(Obj(b.node), LogicalLag(b))),
                          SetOn(Obj(a.node), LagSubLink(a))), SetOn(Obj(b.node), LagSubLink(b)))
    BY <2>1 DEF After
  <2>3. Atomic!ParseLink(f, c)
          = Atomic!SetBoth(Atomic!SetBoth(f, a.node, LogicalLag(a), b.node, LogicalLag(b)),
                           a.node, LagSubLink(a), b.node, LagSubLink(b))
    BY <1>1, <1>4, <1>8, SameEndpoints DEF Atomic!ParseLink
  <2> QED
    BY <1>0, <1>5, <2>2, <2>3
<1> QED
  BY <1>6, <1>7, <1>8

\* The nodes of a link hold and show F.
EndsWritten(k, F) ==
  \A n \in EndNodes(k) :
    /\ Before(k, n).made /\ Before(k, n).data # NoData
    /\ Held(n) = F[n] /\ F[n] # NoData
    /\ stateCache[n] = MergeState(Before(k, n).shown, NodeState(F[n]))

\* What the state cache holds of the nodes of a link before its last write.
LEMMA LinkShown ==
  ASSUME ApartInv, NEW k \in Callers, pc[k] = "write", Len(jobs[k]) = 1, Target(k) \in Links,
         NEW F, F = After(NodesBefore(k), LinkJobs(k), Len(LinkJobs(k)))
  PROVE  /\ pc[k] \in Configuring /\ Len(Config(k).endpoints) >= 2 /\ topologyData # NoData
         /\ DataKept(k, Ground(k) \ ({Target(k)} \cup EndNodes(k)))
         /\ ShownKept(k, Ground(k) \ ({Target(k)} \cup EndNodes(k)))
         /\ Held(Target(k)) = LinkCopied(k)
         /\ Job(k).object = Obj(Target(k)) /\ read[k] = LinkState(LinkCopied(k))
         /\ stateCache[Target(k)] = MergeState(Before(k, Target(k)).shown, read[k])
         /\ F \in SomeNodes
         /\ EndsWritten(k, F)
<1>1. PICK f, L, N, w, v : /\ f = NodesBefore(k) /\ L = LinkJobs(k) /\ N = Len(L)
                           /\ w = Wrote(k) /\ v = Worked(k)
  OBVIOUS
<1>2. /\ pc[k] \in Configuring /\ LinkWorks(k) /\ Len(Config(k).endpoints) >= 2
      /\ N \in {4, 6} /\ LinkJobsOK(L, N) /\ f \in SomeNodes
      /\ w \in 0..(N - 1) /\ v = w + 1 /\ Len(jobs[k]) = N - w
      /\ Job(k) = L[w + 1]
      /\ After(f, L, v) \in SomeNodes /\ SameNodes(After(f, L, v), f)
  BY <1>1, LinkWorksIs
<1>3. w = N - 1 /\ v = N /\ w + 1 = N /\ N \in (N - 1)..N /\ 1 \in 1..(N - 2) /\ 2 \in 1..(N - 2)
      /\ 1 \in 1..w /\ 2 \in 1..w /\ 1 \in 1..v /\ 2 \in 1..v /\ N - 1 \in 0..(N - 1)
  <2>1. N \in {4, 6} /\ w \in 0..(N - 1) /\ v = w + 1 /\ 1 = N - w
    BY <1>2
  <2> QED
    BY ONLY <2>1
<1>4. /\ L[N].by = "nothing" /\ L[N].object = Obj(Target(k))
      /\ L[1].by = "endpoint" /\ L[2].by = "endpoint"
      /\ L[1].object = Obj(End(k, 1).node) /\ L[2].object = Obj(End(k, 2).node)
  BY <1>1, <1>2, <1>3, LinkJobsAre
<1>5. After(f, L, w) = After(f, L, v)
  <2>1. After(f, L, (N - 1) + 1) = SetJob(After(f, L, N - 1), L[(N - 1) + 1])
    BY <1>2, <1>3, AfterNext
  <2>2. (N - 1) + 1 = N
    BY <1>2
  <2> QED
    BY <1>3, <1>4, <2>1, <2>2 DEF SetJob
<1>6. F = After(f, L, v)
  BY <1>1, <1>3
<1>7. /\ topologyData # NoData
      /\ DataKept(k, Ground(k) \ ({Target(k)} \cup EndNodes(k)))
      /\ ShownKept(k, Ground(k) \ ({Target(k)} \cup EndNodes(k)))
      /\ Held(Target(k)) = LinkCopied(k)
      /\ stateCache[Target(k)] =
           MergeState(Before(k, Target(k)).shown, LinkState(LinkCopied(k)))
      /\ read[k] = LinkState(LinkCopied(k))
  BY <1>1, <1>2, <1>3, <1>4 DEF LinkWorks, LinkRuns, EndWorks, OwnWorks
<1>8. EndNodes(k) = {End(k, 1).node, End(k, 2).node} /\ EndNodes(k) \subseteq Nodes
  BY <1>2, EndFacts
<1>9. ASSUME NEW n \in EndNodes(k)
      PROVE  /\ Before(k, n).made /\ Before(k, n).data # NoData
             /\ Held(n) = F[n] /\ F[n] # NoData
             /\ stateCache[n] = MergeState(Before(k, n).shown, NodeState(F[n]))
  <2>1. PICK i \in {1, 2} : L[i].object = Obj(n) /\ n = End(k, i).node
    BY <1>4, <1>8
  <2>2. i \in 1..w /\ i \in 1..v /\ L[i].by = "endpoint" /\ L[i].object[1] = n
    BY <1>3, <1>4, <2>1, ObjFacts
  <2>3. Before(k, n).made /\ Before(k, n).data # NoData
    BY <1>1, <1>2, <2>2 DEF LinkWorks, LinkRuns, EndWorks, OwnWorks
  <2>4. /\ Held(n) = After(f, L, v)[n]
        /\ stateCache[n] =
             IF \E j \in 1..w : L[j].by = "endpoint" /\ L[j].object = Obj(n)
             THEN MergeState(Before(k, n).shown, NodeState(After(f, L, w)[n]))
             ELSE Before(k, n).shown
    BY <1>1, <1>2 DEF LinkWorks, LinkRuns, EndWorks, OwnWorks
  <2>5. F[n] # NoData
    <3>1. f[n] # NoData
      BY <1>1, <1>8, <2>3 DEF NodesBefore
    <3> QED
      BY <1>2, <1>6, <1>8, <3>1 DEF SameNodes
  <2> QED
    BY <1>5, <1>6, <2>1, <2>2, <2>3, <2>4, <2>5
<1>10. Job(k).object = Obj(Target(k))
  BY <1>2, <1>3, <1>4
<1>11. F \in SomeNodes
  BY <1>2, <1>6
<1>12. EndsWritten(k, F)
  BY <1>9 DEF EndsWritten
<1> QED
  BY <1>2, <1>7, <1>10, <1>11, <1>12

\* What AppLogic writes to the state cache for both nodes of a link and the link.
CachedLink(cache, m, n, r, F, d) ==
  [s \in Resources |-> IF s = r THEN MergeState(cache[s], LinkState(d))
                       ELSE IF s \in {m, n} THEN MergeState(cache[s], NodeState(F[s]))
                       ELSE cache[s]]

\* What the state cache shows once a link has written everything.
LEMMA LinkCached ==
  ASSUME NEW cache, cache = [s \in Resources |-> cache[s]],
         NEW m \in Nodes, NEW n \in Nodes, NEW r \in Links, NEW F \in SomeNodes, NEW d,
         cache[n] \in StateLeaves \cup {NoData}, F[n] # NoData
  PROVE  Atomic!Cached(Atomic!Cached(Atomic!Cached(cache, m, NodeState(F[m])), n, NodeState(F[n])),
                       r, LinkState(d))
           = CachedLink(cache, m, n, r, F, d)
<1>1. /\ m \in Resources /\ n \in Resources /\ r \in Resources /\ r # m /\ r # n
  BY ResourceFacts
<1>2. PICK x, y, z : x = NodeState(F[m]) /\ y = NodeState(F[n]) /\ z = LinkState(d)
  OBVIOUS
<1>3. y \in StateLeaves
  BY <1>2, StateType DEF SomeNodes
<1>4. MergeState(MergeState(cache[n], y), y) = MergeState(cache[n], y)
  BY <1>3, SameAgain
<1>5. PICK A : A = [cache EXCEPT ![m] = MergeState(cache[m], x)]
  OBVIOUS
<1>6. PICK B : B = [A EXCEPT ![n] = MergeState(A[n], y)]
  OBVIOUS
<1>7. \A s \in Resources \ {m} : A[s] = cache[s]
  BY <1>5
<1>8. A[m] = MergeState(cache[m], x) /\ A = [s \in Resources |-> A[s]]
  BY <1>1, <1>5
<1>9. /\ B[n] = MergeState(A[n], y) /\ \A s \in Resources \ {n} : B[s] = A[s]
      /\ B = [s \in Resources |-> B[s]]
  BY <1>1, <1>6, <1>8
<1>10. B[n] = MergeState(cache[n], y)
  <2>1. CASE m = n
    BY <1>2, <1>4, <1>8, <1>9, <2>1
  <2>2. CASE m # n
    BY <1>1, <1>7, <1>9, <2>2
  <2> QED
    BY <2>1, <2>2
<1>11. \A s \in Resources : B[s] = IF s \in {m, n} THEN MergeState(cache[s], NodeState(F[s]))
                                   ELSE cache[s]
  BY <1>1, <1>2, <1>7, <1>8, <1>9, <1>10
<1>12. [B EXCEPT ![r] = MergeState(B[r], z)] = CachedLink(cache, m, n, r, F, d)
  BY <1>1, <1>2, <1>9, <1>11 DEF CachedLink
<1> QED
  BY <1>2, <1>5, <1>6, <1>12, SameStates DEF Atomic!Cached

\* A link that is configured and parsed.
LEMMA LinkReturns ==
  ASSUME ApartInv, NEW k \in Callers, WriteState(k), Len(jobs[k]) = 1, Target(k) \in Links
  PROVE  ApartInv' /\ Atomic!LinkUpdate(Target(k), Config(k))
<1>0. PICK r, c, d, f, F, m, n :
        /\ r = Target(k) /\ c = Config(k) /\ d = LinkCopied(k) /\ f = NodesBefore(k)
        /\ F = After(NodesBefore(k), LinkJobs(k), Len(LinkJobs(k)))
        /\ m = End(k, 1).node /\ n = End(k, 2).node
  OBVIOUS
<1>1. pc[k] = "write" /\ pc[k] # "idle" /\ pc[k] \in Configuring
  BY WriteIs DEF Configuring
<1>2. /\ r \in Links /\ r \in Children /\ r \in Resources /\ r # Topology /\ r \notin Nodes
      /\ r \in Ground(k) /\ GhostOK(k) /\ CallOK(k) /\ Ground(k) \subseteq Resources
  BY <1>0, <1>1, CallerFacts, ResourceFacts
<1>3. /\ Len(c.endpoints) >= 2 /\ topologyData # NoData
      /\ DataKept(k, Ground(k) \ ({r} \cup EndNodes(k)))
      /\ ShownKept(k, Ground(k) \ ({r} \cup EndNodes(k)))
      /\ Held(r) = d
      /\ Job(k).object = Obj(r) /\ read[k] = LinkState(d)
      /\ stateCache[r] = MergeState(Before(k, r).shown, read[k])
      /\ F \in SomeNodes
  BY <1>0, <1>1, LinkShown
<1>4. /\ Ends(c) = {End(k, 1), End(k, 2)}
      /\ EndNodes(k) = {m, n}
      /\ m \in Nodes /\ n \in Nodes /\ m \in Ground(k) /\ n \in Ground(k)
      /\ m \in Resources /\ n \in Resources
      /\ End(k, 1) = c.endpoints[1] /\ End(k, 2) = c.endpoints[2]
  BY <1>0, <1>1, <1>3, EndFacts DEF End
<1>5. \A s \in {m, n} :
        /\ Before(k, s).made /\ Before(k, s).data # NoData
        /\ Held(s) = F[s] /\ F[s] # NoData
        /\ stateCache[s] = MergeState(Before(k, s).shown, NodeState(F[s]))
  <2>1. EndsWritten(k, F)
    BY <1>0, <1>1, LinkShown
  <2> QED
    BY <1>4, <2>1 DEF EndsWritten
<1>6. /\ ApartInv' /\ alive /\ alive' = alive
      /\ \A s \in Ground(k) :
           /\ Seen(s) = Before(k, s) /\ Seen(s)'.data = Held(s)
           /\ Seen(s)'.shown = IF s = r THEN MergeState(stateCache[s], read[k])
                               ELSE stateCache[s]
      /\ \A s \in Resources \ Ground(k) : Seen(s)' = Seen(s)
      /\ Seen(Topology)'.data = Seen(Topology).data /\ Seen(Topology).data = topologyData
      /\ {s \in Resources : Seen(s).made}'
           = {s \in Resources : Seen(s).made} \cup {Topology, r}
  BY <1>0, <1>2, <1>3, ChildReturns
<1>7. /\ \A s \in Ground(k) : Before(k, s).shown \in StateLeaves \cup {NoData}
      /\ read[k] \in StateLeaves
  BY <1>1, <1>2 DEF GhostOK, CallOK
<1>8. Seen(r)'.shown = MergeState(Seen(r).shown, LinkState(d)) /\ Seen(r)'.data = d
  BY <1>2, <1>3, <1>6, <1>7, SameAgain
<1>9. \A s \in {m, n} : /\ Seen(s)'.data = F[s] /\ Seen(s).data # NoData /\ Seen(s).made
                        /\ Seen(s)'.shown = MergeState(Seen(s).shown, NodeState(F[s]))
  BY <1>2, <1>4, <1>5, <1>6
<1>10. \A s \in Resources \ {r, m, n} :
         Seen(s)'.data = Seen(s).data /\ Seen(s)'.shown = Seen(s).shown
  BY <1>3, <1>4, <1>6 DEF DataKept, ShownKept
<1>11. PICK g, cache : /\ g = [s \in Nodes |-> Seen(s).data]
                       /\ cache = [s \in Resources |-> Seen(s).shown]
  OBVIOUS
<1>12. AgreeOn(f, g, g, m, n)
  BY <1>0, <1>4, <1>6, <1>11 DEF AgreeOn, NodesBefore
<1>13. F = Atomic!ParseLink(f, c)
  BY <1>0, <1>1, <1>2, <1>3, JobsParse
<1>14. AgreeOn(F, Atomic!ParseLink(g, c), g, m, n)
  BY <1>0, <1>4, <1>12, <1>13, ParsedApart
<1>15. [s \in Nodes |-> Seen(s).data]' = Atomic!ParseLink(g, c)
  <2>1. PICK G : G = Atomic!ParseLink(g, c)
    OBVIOUS
  <2>2. \A s \in Nodes : Seen(s)'.data = G[s]
    <3>1. \A s \in {m, n} : Seen(s)'.data = G[s]
      BY <1>9, <1>14, <2>1 DEF AgreeOn
    <3>2. \A s \in Nodes \ {m, n} : s \in Resources \ {r, m, n}
      BY <1>2, ResourceFacts
    <3>3. \A s \in Nodes \ {m, n} : G[s] = g[s] /\ g[s] = Seen(s).data
      BY <1>11, <1>14, <2>1 DEF AgreeOn
    <3> QED
      BY <1>10, <3>1, <3>2, <3>3
  <2>3. G = [s \in Nodes |-> G[s]]
    BY <1>14, <2>1 DEF AgreeOn
  <2>4. [s \in Nodes |-> Seen(s).data]' = [s \in Nodes |-> Seen(s)'.data]
    BY SeenAfter
  <2> QED
    BY <2>1, <2>2, <2>3, <2>4
<1>16. [s \in Resources |-> Seen(s).shown]' = CachedLink(cache, m, n, r, F, d)
  <2>1. \A s \in Resources : Seen(s)'.shown = CachedLink(cache, m, n, r, F, d)[s]
    BY <1>2, <1>4, <1>8, <1>9, <1>10, <1>11 DEF CachedLink
  <2>2. CachedLink(cache, m, n, r, F, d)
          = [s \in Resources |-> CachedLink(cache, m, n, r, F, d)[s]]
    BY DEF CachedLink
  <2>3. [s \in Resources |-> Seen(s).shown]' = [s \in Resources |-> Seen(s)'.shown]
    BY SeenAfter
  <2> QED
    BY <2>1, <2>2, <2>3
<1>17. Atomic!Cached(Atomic!Cached(Atomic!Cached(cache, m, NodeState(F[m])), n, NodeState(F[n])),
                     r, LinkState(d))
         = CachedLink(cache, m, n, r, F, d)
  <2>1. cache = [s \in Resources |-> cache[s]] /\ cache[n] = Seen(n).shown
    BY <1>4, <1>11
  <2>2. cache[n] \in StateLeaves \cup {NoData} /\ F[n] # NoData
    BY <1>4, <1>5, <1>6, <1>7, <2>1
  <2> QED
    BY <1>2, <1>3, <1>4, <2>1, <2>2, LinkCached
<1>18. [s \in Links |-> Seen(s).data]' = [[s \in Links |-> Seen(s).data] EXCEPT ![r] = d]
  <2>1. \A s \in Links \ {r} : s \in Resources \ {r, m, n}
    BY <1>4, ResourceFacts
  <2>2. [s \in Links |-> Seen(s).data]' = [s \in Links |-> Seen(s)'.data]
    BY SeenAfter
  <2> QED
    BY <1>2, <1>8, <1>10, <2>1, <2>2
<1>19. d = Atomic!LinkCopied(c)
  BY <1>0, <1>6, SameCopies, SameStatus DEF Atomic!LinkCopied, Atomic!ParentStatus, LinkCopied
<1>20. \A le \in Atomic!Ends(c) :
         /\ le.node \in {s \in Resources : Seen(s).made}
         /\ [s \in Nodes |-> Seen(s).data][le.node] # NoData
  BY <1>0, <1>4, <1>9, SameEndpoints
<1>21. /\ [s \in Nodes |-> Seen(s).data]'[m] = F[m]
       /\ [s \in Nodes |-> Seen(s).data]'[n] = F[n]
       /\ [s \in Links |-> Seen(s).data]'[r] = d
  BY <1>2, <1>14, <1>15, <1>18 DEF AgreeOn
<1>22. Seen(Topology).data' = Seen(Topology).data
  BY <1>6, SeenAfter
<1>23. /\ [s \in Resources |-> Seen(s).shown]'
            = LET atA  == Atomic!Cached([s \in Resources |-> Seen(s).shown], c.endpoints[1].node,
                            Atomic!NodeState([s \in Nodes |-> Seen(s).data]'[c.endpoints[1].node]))
                  atAB == Atomic!Cached(atA, c.endpoints[2].node,
                            Atomic!NodeState([s \in Nodes |-> Seen(s).data]'[c.endpoints[2].node]))
              IN  Atomic!Cached(atAB, r, Atomic!LinkState([s \in Links |-> Seen(s).data]'[r]))
  BY <1>0, <1>4, <1>11, <1>16, <1>17, <1>21, SameStates
<1>24. /\ [s \in Nodes |-> Seen(s).data]' = Atomic!ParseLink([s \in Nodes |-> Seen(s).data], c)
       /\ [s \in Links |-> Seen(s).data]'
            = [[s \in Links |-> Seen(s).data] EXCEPT ![r] = Atomic!LinkCopied(c)]
  BY <1>11, <1>15, <1>18, <1>19
<1> QED
  BY <1>0, <1>3, <1>6, <1>20, <1>22, <1>23, <1>24, SameNames
  DEF Atomic!LinkUpdate, Atomic!CreateChild, Atomic!Known

\* What a topology has done before its last write.
TopologyWritten(k, d, kids) ==
  /\ topologyData = d
  /\ \A r \in Children :
       LET told == d.status # Nil /\ Before(k, r).made
       IN  /\ told => Before(k, r).data # NoData
           /\ Held(r) = IF told THEN HandleStatus(Before(k, r).data, d.status)
                        ELSE Before(k, r).data
           /\ stateCache[r] =
                IF told THEN MergeState(Before(k, r).shown, ChildState(r, Held(r)))
                ELSE IF r \in kids /\ Before(k, r).shown = NoData THEN EmptyState
                ELSE Before(k, r).shown
  /\ stateCache[Topology] = MergeState(Before(k, Topology).shown, TopologyState(d))
  /\ read[k] = TopologyState(d)

\* What the state cache shows once a topology has written everything.
LEMMA TopologyShown ==
  ASSUME ApartInv, NEW k \in Callers, pc[k] = "write", Len(jobs[k]) = 1, Target(k) = Topology,
         NEW d, d = HandleTopologyStatus(CopyTopology(Config(k))),
         NEW kids, kids = call[k].event.kids
  PROVE  /\ TopologyWritten(k, d, kids) /\ Job(k).object = Topology
         /\ \A r \in Children : d.status # Nil /\ Before(k, r).made => Written(k, r)
<1>1. /\ TopologyWorks(k) /\ TopologyJobs(k) /\ Job(k) = jobs[k][1]
      /\ Job(k) = Report(Topology)
      /\ \A r \in Children : ~Pending(k, r)
  <2>1. TopologyWorks(k) /\ TopologyJobs(k) /\ Job(k) = jobs[k][1]
    BY TopologyJobIs
  <2>2. \/ Len(jobs[k]) > 2
        \/ Job(k) = Report(Topology) /\ \A r \in Children : ~Pending(k, r)
    BY TopologyJobIs
  <2> QED
    BY <2>1, <2>2
<1>2. topologyData = d /\ Job(k).object = Topology
  BY <1>1, NotifyFacts DEF TopologyWorks, ChildWorks, ReportWorks
<1>3. \A r \in Children : /\ Told(k, r) <=> d.status # Nil /\ Before(k, r).made
                          /\ Written(k, r) <=> d.status # Nil /\ Before(k, r).made
  BY <1>1, <1>2 DEF Told, Written
<1>4. /\ \A r \in Children :
           /\ Told(k, r) => Before(k, r).data # NoData
           /\ Held(r) = IF Told(k, r) THEN HandleStatus(Before(k, r).data, topologyData.status)
                        ELSE Before(k, r).data
           /\ stateCache[r] =
                IF Written(k, r) THEN MergeState(Before(k, r).shown, ChildState(r, Held(r)))
                ELSE IF Len(jobs[k]) = 1 /\ r \in call[k].event.kids /\ Before(k, r).shown = NoData
                     THEN EmptyState
                ELSE Before(k, r).shown
      /\ stateCache[Topology] =
           IF Len(jobs[k]) = 1
           THEN MergeState(Before(k, Topology).shown, TopologyState(topologyData))
           ELSE Before(k, Topology).shown
      /\ read[k] = TopologyState(topologyData)
  BY <1>1 DEF TopologyWorks, ChildWorks, ReportWorks
<1> QED
  BY <1>2, <1>3, <1>4 DEF TopologyWritten

\* A topology that is configured.
LEMMA TopologyReturns ==
  ASSUME ApartInv, NEW k \in Callers, WriteState(k), Len(jobs[k]) = 1, Target(k) = Topology
  PROVE  ApartInv' /\ Atomic!TopologyUpdate(Config(k), call[k].event.kids)
<1>0. PICK c, d, kids : /\ c = Config(k) /\ d = HandleTopologyStatus(CopyTopology(c))
                        /\ kids = call[k].event.kids
  OBVIOUS
<1>1. /\ pc[k] = "write" /\ pc[k] \in Configuring /\ pc[k] \notin {"idle", "delete"}
      /\ pc[k] # "insert"
      /\ Return(k) /\ pc'[k] = "idle"
      /\ \A j \in Callers \ {k} : SameCall(j) /\ ghost'[j] = ghost[j]
      /\ UNCHANGED <<alive, topologyMade, made, inMap, observers, topologyData, data>>
  BY WriteIs, ReturnIs
<1>2. /\ k \in Busy /\ Ground(k) = Resources /\ MadeSoFar(k) /\ GhostOK(k) /\ CallOK(k)
      /\ kids \subseteq Children
  <2>1. call[k].event.kids \subseteq Children
    BY <1>1, CallerFacts, EventFacts
  <2> QED
    BY <1>0, <1>1, <2>1, CallerFacts
<1>3. TopologyWritten(k, d, kids) /\ Job(k).object = Topology
  BY <1>0, <1>1, TopologyShown
<1>4. \A s \in Children : s \in Resources /\ s # Topology
  BY ResourceFacts
<1>5. /\ Topology \in Resources /\ read[k] \in StateLeaves
      /\ Before(k, Topology).shown \in StateLeaves \cup {NoData}
  BY <1>1, <1>2, ResourceFacts DEF CallOK, GhostOK
<1>6. /\ \A s \in Children : stateCache'[s] = stateCache[s]
      /\ stateCache'[Topology] = MergeState(Before(k, Topology).shown, TopologyState(d))
  <2>1. stateCache' = [s \in Resources |->
                         IF s = Topology THEN MergeState(stateCache[s], read[k])
                         ELSE IF s \in kids /\ stateCache[s] = NoData THEN EmptyState
                         ELSE stateCache[s]]
    BY <1>0, <1>3, WriteTopology
  <2>2. stateCache'[Topology] = MergeState(Before(k, Topology).shown, TopologyState(d))
    <3>1. /\ stateCache[Topology] = MergeState(Before(k, Topology).shown, read[k])
          /\ read[k] = TopologyState(d)
      BY <1>3 DEF TopologyWritten
    <3> QED
      BY <1>5, <2>1, <3>1, SameAgain
  <2>3. ASSUME NEW s \in Children, s \in kids PROVE stateCache[s] # NoData
    <3>1. Before(k, s).shown \in StateLeaves \cup {NoData}
      BY <1>2, <1>4 DEF GhostOK
    <3>2. EmptyState # NoData
      <4>1. EmptyState \in StateLeaves
        BY StateType
      <4> QED
        BY <4>1, DataAssumption
    <3>3. CASE d.status # Nil /\ Before(k, s).made
      <4>1. Written(k, s)
        BY <1>0, <1>1, <3>3, TopologyShown
      <4> QED
        BY <1>1, <4>1, WrittenShows
    <3>4. CASE ~(d.status # Nil /\ Before(k, s).made)
      BY <1>3, <2>3, <3>1, <3>2, <3>4 DEF TopologyWritten
    <3> QED
      BY <3>3, <3>4
  <2> QED
    BY <1>4, <2>1, <2>2, <2>3
<1>7. \A s : Held(s)' = Held(s)
  BY <1>1 DEF Held, Obj
<1>8. HandlersInv' /\ \A s \in Children : HasHandler(s)' = HasHandler(s)
  BY <1>1, <1>2, HandlersSame
<1>9. StepsInv'
  BY WriteTypes DEF ApartInv
<1>10. Local(k)
  BY <1>1, <1>2, <1>4, ResourceFacts DEF Local
<1>11. topologyMade'
  BY <1>1, <1>2, ResourceFacts DEF MadeSoFar
<1>12. \A s \in Children : HasHandler(s)' <=> HasHandler(s) \/ s = Target(k)
  BY <1>4, <1>8
<1>13. /\ ApartInv' /\ alive
       /\ \A s \in Ground(k) : /\ Seen(s) = Before(k, s)
                               /\ Seen(s)'.data = Held(s)'
                               /\ Seen(s)'.shown = stateCache'[s]
       /\ {s \in Resources : Seen(s).made}'
            = {s \in Resources : Seen(s).made} \cup {Topology, Target(k)}
  BY <1>1, <1>8, <1>9, <1>10, <1>11, <1>12, UpdateReturns
<1>14. PICK f, g, cache, H :
         /\ f = [n \in Nodes |-> Seen(n).data] /\ g = [l \in Links |-> Seen(l).data]
         /\ cache = [s \in Resources |-> Seen(s).shown]
         /\ H = {s \in Resources : Seen(s).made}
  OBVIOUS
<1>15. PICK told : told = {s \in H \cap Children : d.status # Nil}
  OBVIOUS
<1>16. \A s \in Children :
         /\ s \in told <=> d.status # Nil /\ Before(k, s).made
         /\ s \in told => Seen(s).data # NoData
         /\ Seen(s)'.data = IF s \in told THEN HandleStatus(Seen(s).data, d.status)
                            ELSE Seen(s).data
         /\ Seen(s)'.shown = IF s \in told THEN MergeState(Seen(s).shown, ChildState(s, Seen(s)'.data))
                             ELSE IF s \in kids /\ Seen(s).shown = NoData THEN EmptyState
                             ELSE Seen(s).shown
  BY <1>2, <1>3, <1>4, <1>6, <1>7, <1>13, <1>14, <1>15 DEF TopologyWritten
<1>17. /\ Seen(Topology)'.data = d
       /\ Seen(Topology)'.shown = MergeState(Seen(Topology).shown, TopologyState(d))
  BY <1>2, <1>3, <1>5, <1>6, <1>7, <1>13 DEF TopologyWritten, Held
<1>18. DOMAIN f = Nodes /\ DOMAIN g = Links /\ Atomic!Observers = H \cap Children
  BY <1>14, SameNames DEF Atomic!Observers
<1>19. \A s : s \in Nodes => s \in Children /\ s \notin Links
  BY ResourceFacts
<1>20. \A s : s \in Links => s \in Children /\ s \notin Nodes
  BY ResourceFacts
<1>21. [n \in Nodes |-> Seen(n).data]' = Atomic!Notified(f, d.status)
  <2>1. Atomic!Notified(f, d.status)
          = [n \in Nodes |-> IF n \in told THEN HandleStatus(f[n], d.status) ELSE f[n]]
    BY <1>15, <1>18, SameNames, SameStatus DEF Atomic!Notified
  <2>2. \A n \in Nodes : f[n] = Seen(n).data
    BY <1>14
  <2>3. [n \in Nodes |-> Seen(n).data]' = [n \in Nodes |-> Seen(n)'.data]
    BY SeenAfter
  <2> QED
    BY <1>16, <1>19, <2>1, <2>2, <2>3
<1>22. [l \in Links |-> Seen(l).data]' = Atomic!Notified(g, d.status)
  <2>1. Atomic!Notified(g, d.status)
          = [n \in Links |-> IF n \in told THEN HandleStatus(g[n], d.status) ELSE g[n]]
    BY <1>15, <1>18, SameNames, SameStatus DEF Atomic!Notified
  <2>2. \A n \in Links : g[n] = Seen(n).data
    BY <1>14
  <2>3. [l \in Links |-> Seen(l).data]' = [l \in Links |-> Seen(l)'.data]
    BY SeenAfter
  <2> QED
    BY <1>16, <1>20, <2>1, <2>2, <2>3
<1>23. PICK F, G : F = [n \in Nodes |-> Seen(n).data]' /\ G = [l \in Links |-> Seen(l).data]'
  OBVIOUS
<1>24. (\A n \in Nodes : F[n] = Seen(n)'.data) /\ (\A l \in Links : G[l] = Seen(l)'.data)
  BY <1>23, SeenAfter
<1>25. [s \in Resources |-> Seen(s).shown]'
         = Atomic!CachedTopology(Atomic!CachedObservers(cache, d.status, F, G), d, kids)
  <2>1. PICK C : C = Atomic!CachedObservers(cache, d.status, F, G)
    OBVIOUS
  <2>2. C = [s \in Resources |->
               CASE d.status = Nil -> cache[s]
                 [] d.status # Nil /\ s \in (H \cap Children) \cap Nodes ->
                      MergeState(cache[s], NodeState(F[s]))
                 [] d.status # Nil /\ s \in (H \cap Children) \ Nodes ->
                      MergeState(cache[s], LinkState(G[s]))
                 [] OTHER -> cache[s]]
    BY <1>18, <2>1, SameNames, SameStates DEF Atomic!CachedObservers
  <2>3. \A s \in Children : C[s] = IF s \in told THEN MergeState(Seen(s).shown, ChildState(s, Seen(s)'.data))
                                   ELSE Seen(s).shown
    <3> TAKE s \in Children
    <3>1. cache[s] = Seen(s).shown /\ s \in Resources
      BY <1>4, <1>14
    <3>2. CASE s \in Nodes
      BY <1>15, <1>24, <2>2, <3>1, <3>2 DEF ChildState
    <3>3. CASE s \in Links
      BY <1>15, <1>20, <1>24, <2>2, <3>1, <3>3 DEF ChildState
    <3> QED
      BY <3>2, <3>3, ResourceFacts
  <2>4. C[Topology] = Seen(Topology).shown
    <3>1. Topology \notin Children /\ Topology \in Resources
      BY ResourceFacts
    <3> QED
      BY <1>14, <2>2, <3>1
  <2>5. Atomic!CachedTopology(C, d, kids)
          = [[s \in Resources |-> IF s \in kids /\ C[s] = NoData THEN EmptyState ELSE C[s]]
               EXCEPT ![Topology] = MergeState(@, TopologyState(d))]
    BY SameNames, SameStates DEF Atomic!CachedTopology, Atomic!Cached
  <2>6. \A s \in Resources :
          Seen(s)'.shown = IF s = Topology THEN MergeState(C[s], TopologyState(d))
                           ELSE IF s \in kids /\ C[s] = NoData THEN EmptyState ELSE C[s]
    <3>1. \A s \in told : s \in Children
                          /\ MergeState(Seen(s).shown, ChildState(s, Seen(s)'.data)) # NoData
      <4> TAKE s \in told
      <4>1. s \in Children /\ Seen(s)'.shown = stateCache'[s] /\ stateCache'[s] = stateCache[s]
        BY <1>2, <1>4, <1>6, <1>13, <1>15
      <4>2. Written(k, s)
        BY <1>0, <1>1, <1>16, <4>1, TopologyShown
      <4> QED
        BY <1>1, <1>16, <4>1, <4>2, WrittenShows
    <3> QED
      BY <1>4, <1>16, <1>17, <2>3, <2>4, <3>1, ResourceFacts
  <2>7. [s \in Resources |-> Seen(s).shown]' = [s \in Resources |-> Seen(s)'.shown]
    BY SeenAfter
  <2>8. Topology \notin kids /\ Topology \in Resources
    BY <1>2, <1>4, <1>5
  <2> QED
    BY <2>1, <2>5, <2>6, <2>7, <2>8
<1>26. d.status # Nil => /\ \A n \in Atomic!Observers \cap Nodes : f[n] # NoData
                         /\ \A l \in Atomic!Observers \cap Links : g[l] # NoData
  BY <1>14, <1>15, <1>16, <1>18, <1>19, <1>20
<1>27. /\ {s \in Resources : Seen(s).made}' = {s \in Resources : Seen(s).made} \cup {Topology, Topology}
       /\ Seen(Topology).data' = d
  BY <1>13, <1>17, SeenAfter
<1>28. d = Atomic!HandleTopologyStatus(Atomic!CopyTopology(c))
  BY <1>0, SameCopies, SameStatus
<1> QED
  BY <1>0, <1>1, <1>13, <1>14, <1>21, <1>22, <1>23, <1>25, <1>26, <1>27, <1>28, SameNames
  DEF Atomic!TopologyUpdate, Atomic!CreateChild

\* What a node or a link holds once it is configured is data.
LEMMA CopiedData ==
  ASSUME ApartInv, NEW k \in Callers, pc[k] \in Configuring, topologyData # NoData
  PROVE  /\ Target(k) \in Nodes => NodeCopied(k) # NoData
         /\ Target(k) \in Links => LinkCopied(k) # NoData
<1>1. topologyData \in TopologyData /\ topologyData.status \in Status
  BY PastCreate DEF MemoryOK, TopologyData
<1>2. CASE Target(k) \in Nodes
  <2>1. CopyNode(Config(k)) \in NodeData
    BY <1>2, PastCreate, CopyType
  <2>2. HandleStatus(CopyNode(Config(k)), topologyData.status) \in NodeData
    BY <1>1, <2>1, NodeStatusType
  <2>3. NodeCopied(k) \in NodeData
    BY <1>1, <2>2, PlatformType DEF NodeCopied
  <2> QED
    BY <1>2, <2>3, ResourceFacts, DataAssumption
<1>3. CASE Target(k) \in Links
  <2>1. CopyLink(Config(k)) \in LinkData
    BY <1>3, PastCreate, CopyType
  <2>2. LinkCopied(k) \in LinkData
    BY <1>1, <2>1, LinkStatusType DEF LinkCopied, HandleLinkStatus
  <2> QED
    BY <1>3, <2>2, ResourceFacts, DataAssumption
<1> QED
  BY <1>2, <1>3

\* A link whose nodes have a handler but no data, or that has too few.
LEMMA LinkPanicSeen ==
  ASSUME ApartInv, NEW k \in Callers, pc[k] \in Configuring, Target(k) \in Links,
         \A n \in EndNodes(k) : Before(k, n).made,
         \/ Len(Config(k).endpoints) < 2
         \/ \E n \in EndNodes(k) : Before(k, n).data = NoData
  PROVE  Atomic!LinkPanics(Config(k))
<1>1. k \in Busy /\ EndNodes(k) \subseteq Nodes /\ EndNodes(k) \subseteq Ground(k)
  BY PastCreate, CallerFacts
<1>2. EndNodes(k) = {le.node : le \in Ends(Config(k))}
  BY PastCreate DEF EndNodes
<1>3. \A n \in EndNodes(k) : Seen(n) = Before(k, n) /\ n \in Nodes /\ n \in Resources
  BY <1>1, SeenBusy, ResourceFacts DEF ApartInv
<1>4. ~Atomic!NodeMissing(Config(k))
  <2>1. \A le \in Ends(Config(k)) : le.node \in {r \in Resources : Seen(r).made}
    BY <1>2, <1>3
  <2> QED
    BY <2>1, SameEndpoints, SameNames DEF Atomic!NodeMissing, Atomic!Known
<1>5. \/ Len(Config(k).endpoints) < 2
      \/ \E le \in Ends(Config(k)) : [n \in Nodes |-> Seen(n).data][le.node] = NoData
  BY <1>2, <1>3
<1> QED
  BY <1>4, <1>5, SameEndpoints DEF Atomic!LinkPanics

\* A step that panics is one that AppLogic says panics.
LEMMA PanicSeen ==
  ASSUME ApartInv, NEW k \in Callers, Panics(k)
  PROVE  \/ Target(k) = Topology /\ Atomic!TopologyPanics(Config(k))
         \/ Target(k) \in Nodes /\ Atomic!NodePanics(Config(k))
         \/ Target(k) \in Links /\ Atomic!LinkPanics(Config(k))
<1>1. pc[k] \in Configuring /\ pc[k] # "idle"
  BY DEF Panics, Configuring
<1>2. /\ k \in Busy /\ CallInv(k) /\ CallOK(k) /\ GhostOK(k) /\ MadeSoFar(k) /\ CallOK(k)
      /\ Target(k) \in Resources /\ Ground(k) \subseteq Resources
      /\ EndNodes(k) \subseteq Nodes /\ EndNodes(k) \subseteq Ground(k)
  BY <1>1, CallerFacts
<1>3. Target(k) = Topology \/ Target(k) \in Nodes \/ Target(k) \in Links
  BY <1>2, ResourceFacts
<1>4. \A r \in Ground(k) : Seen(r) = Before(k, r)
  BY <1>2, SeenBusy DEF ApartInv
<1>5. CASE pc[k] = "parent" /\ topologyData = NoData
  <2>1. Target(k) # Topology
    BY <1>2, <1>5, ResourceFacts DEF CallOK
  <2>2. Seen(Topology).data = NoData
    BY <1>2, <1>5, <2>1, TopologyDataSeen
  <2> QED
    BY <1>3, <2>1, <2>2, SameNames DEF Atomic!NodePanics, Atomic!LinkPanics
<1>6. CASE /\ pc[k] = "parse"
           /\ ~NodeMissing(data[Own(k)])
           /\ Len(data[Own(k)].endpoints) < 2 \/ LagUnread(data[Own(k)])
  <2>1. Target(k) \in Links /\ Target(k) # Topology
    BY <1>2, <1>6, ResourceFacts DEF CallOK
  <2>2. Preparing(k) /\ data[Own(k)] = LinkCopied(k)
    BY <1>1, <1>2, <1>6, <2>1, PastCreate DEF CallInv, Preparing
  <2>3. data[Own(k)].endpoints = Config(k).endpoints
    BY <2>2 DEF LinkCopied, HandleLinkStatus, HandleStatus, SetStatus, CopyLink
  <2>4. Ends(data[Own(k)]) = Ends(Config(k)) /\ EndNodes(k) = {le.node : le \in Ends(Config(k))}
    BY <1>1, <2>1, <2>3, PastCreate DEF Ends, EndNodes
  <2>5. \A n \in EndNodes(k) : /\ n \in Ground(k) /\ n \in Children /\ n # Target(k)
    BY <1>2, <2>1, ResourceFacts
  <2>6. \A n \in EndNodes(k) : Before(k, n).made
    <3> TAKE n \in EndNodes(k)
    <3>1. HasHandler(n)
      BY <1>6, <2>4 DEF NodeMissing
    <3> QED
      BY <1>2, <2>5, <3>1 DEF MadeSoFar
  <2>7. \A n \in EndNodes(k) : DataOf(n) = Before(k, n).data
    BY <2>2, <2>5, OneHandler DEF Preparing, DataKept
  <2>8. \/ Len(Config(k).endpoints) < 2
        \/ \E n \in EndNodes(k) : Before(k, n).data = NoData
    BY <1>6, <2>3, <2>4, <2>7 DEF LagUnread
  <2> QED
    BY <1>1, <2>1, <2>6, <2>8, LinkPanicSeen
<1>7. CASE pc[k] = "work" /\ Job(k).object # Topology /\ data[Job(k).object] = NoData
  <2>1. CASE Target(k) = Topology
    <3>1. TopologyWorks(k)
      BY <1>7, <2>1, TopologyJobIs
    <3>2. PICK r \in Children : /\ Job(k) = Notify(Obj(r)) /\ Before(k, r).made
                                /\ Pending(k, r) /\ topologyData.status # Nil
      BY <1>7, <2>1, TopologyJobIs, NotifyFacts
    <3>3. Held(r) = NoData /\ r \in Ground(k)
      BY <1>7, <2>1, <3>2, NotifyFacts, OneHandler, CallerFacts, ResourceFacts
    <3>4. Before(k, r).data = NoData
      BY <1>7, <3>1, <3>2, <3>3 DEF TopologyWorks, ChildWorks, ReportWorks, Told
    <3>5. topologyData = Atomic!HandleTopologyStatus(Atomic!CopyTopology(Config(k)))
      BY <3>1, SameCopies, SameStatus DEF TopologyWorks, ChildWorks, ReportWorks
    <3>6. Seen(r).made /\ Seen(r).data = NoData /\ r \in Resources
      BY <1>4, <3>2, <3>3, <3>4, ResourceFacts
    <3>7. r \in Atomic!Observers
      BY <3>6, SameNames DEF Atomic!Observers
    <3>8. \/ \E n \in Atomic!Observers \cap Nodes : [m \in Nodes |-> Seen(m).data][n] = NoData
          \/ \E l \in Atomic!Observers \cap Links : [m \in Links |-> Seen(m).data][l] = NoData
      BY <3>6, <3>7, ResourceFacts
    <3>9. Atomic!TopologyPanics(Config(k))
      BY <3>2, <3>5, <3>8, SameNames DEF Atomic!TopologyPanics
    <3> QED
      BY <2>1, <3>9
  <2>2. CASE Target(k) \in Nodes
    <3>1. NodeWorks(k) /\ Held(Target(k)) = data[Obj(Target(k))]
      BY <1>1, <1>2, <1>7, <2>2, PastCreate, ResourceFacts DEF CallInv
    <3>2. Job(k).object = Obj(Target(k)) /\ Held(Target(k)) = NodeCopied(k) /\ topologyData # NoData
      BY <3>1 DEF NodeWorks, Job, Report
    <3>3. NodeCopied(k) # NoData
      BY <1>1, <2>2, <3>2, CopiedData
    <3> QED
      BY <1>7, <3>1, <3>2, <3>3
  <2>3. CASE Target(k) \in Links
    <3>1. PICK f, L, N, w : /\ f = NodesBefore(k) /\ L = LinkJobs(k) /\ N = Len(L) /\ w = Wrote(k)
      OBVIOUS
    <3>2. /\ LinkWorks(k) /\ Len(Config(k).endpoints) >= 2
          /\ N \in {4, 6} /\ w \in 0..(N - 1) /\ Worked(k) = w
          /\ Job(k) = L[w + 1]
          /\ SameNodes(After(f, L, w), f)
      BY <1>7, <2>3, <3>1, LinkWorksIs
    <3>3. \A n \in EndNodes(k) : n \in Nodes /\ n \in Children
      BY <1>2, ResourceFacts
    <3>4. /\ topologyData # NoData /\ Held(Target(k)) = LinkCopied(k)
          /\ \A n \in EndNodes(k) : Before(k, n).made /\ Held(n) = After(f, L, w)[n]
      BY <3>1, <3>2 DEF LinkWorks, LinkRuns, EndWorks, OwnWorks
    <3>5. w + 1 \in 1..(N - 2) \/ w + 1 \in (N - 1)..N
      BY <3>2
    <3>6. \/ L[w + 1].object[1] \in EndNodes(k) /\ L[w + 1].object = Obj(L[w + 1].object[1])
          \/ L[w + 1].object = Obj(Target(k))
      BY <1>1, <2>3, <3>1, <3>2, <3>5, LinkJobsAre
    <3>7. data[Obj(Target(k))] # NoData
      BY <1>1, <2>3, <3>4, CopiedData, PastCreate, ResourceFacts
    <3>8. PICK n \in EndNodes(k) : data[Obj(n)] = NoData
      BY <1>7, <3>2, <3>6, <3>7
    <3>9. Before(k, n).data = NoData
      <4>1. After(f, L, w)[n] = NoData
        BY <3>3, <3>4, <3>8, OneHandler
      <4>2. f[n] = NoData
        BY <3>2, <3>3, <4>1 DEF SameNodes
      <4> QED
        BY <3>1, <3>3, <4>2 DEF NodesBefore
    <3> QED
      BY <1>1, <2>3, <3>4, <3>9, LinkPanicSeen
  <2> QED
    BY <1>3, <2>1, <2>2, <2>3
<1> QED
  BY <1>5, <1>6, <1>7 DEF Panics

\* A process without memory and without calls.
Blank ==
  /\ topologyMade = FALSE
  /\ made = [r \in Children |-> 0]
  /\ inMap = [r \in Children |-> 0]
  /\ observers = {}
  /\ topologyData = NoData
  /\ data = [o \in Objects |-> NoData]
  /\ stateCache = [r \in Resources |-> NoData]
  /\ pc = [j \in Callers |-> "idle"]

\* After a panic, and at the start, nothing is seen.
NothingSeen ==
  /\ {r \in Resources : Seen(r).made} = {}
  /\ Seen(Topology).data = NoData
  /\ [n \in Nodes |-> Seen(n).data] = [n \in Nodes |-> NoData]
  /\ [l \in Links |-> Seen(l).data] = [l \in Links |-> NoData]
  /\ [r \in Resources |-> Seen(r).shown] = [r \in Resources |-> NoData]

\* When memory is empty and no call runs, nothing is seen.
LEMMA BlankSeen ==
  Blank => Busy = {} /\ (\A r \in Resources : ~HasHandler(r) /\ ~Seen(r).made) /\ NothingSeen
<1> SUFFICES ASSUME Blank
    PROVE  Busy = {} /\ (\A r \in Resources : ~HasHandler(r) /\ ~Seen(r).made) /\ NothingSeen
  OBVIOUS
<1>1. Busy = {}
  BY DEF Busy, Blank
<1>2. \A r \in Resources : ~HasHandler(r) /\ DataOf(r) = NoData /\ stateCache[r] = NoData
  <2> TAKE r \in Resources
  <2>1. CASE r = Topology
    BY <2>1 DEF Blank, HasHandler, DataOf
  <2>2. CASE r \in Children /\ r # Topology
    BY <2>2 DEF Blank, HasHandler, DataOf
  <2>3. stateCache[r] = NoData
    BY DEF Blank
  <2> QED
    BY <2>1, <2>2, <2>3, ResourceFacts
<1>3. \A r \in Resources : Seen(r) = View(r)
  BY <1>1, SeenFree
<1>4. \A r \in Resources : ~Seen(r).made /\ Seen(r).data = NoData /\ Seen(r).shown = NoData
  BY <1>2, <1>3 DEF View
<1>5. Nodes \subseteq Resources /\ Links \subseteq Resources /\ Topology \in Resources
  BY ResourceFacts
<1>6. NothingSeen
  BY <1>4, <1>5 DEF NothingSeen
<1> QED
  BY <1>1, <1>2, <1>4, <1>6

\* Empty memory satisfies the invariant.
LEMMA BlankApart == Apart /\ Callers # {} /\ StepsInv /\ Blank => ApartInv
<1> SUFFICES ASSUME Apart, NEW k \in Callers, StepsInv, Blank
    PROVE  ApartInv
  OBVIOUS
<1>1. /\ Busy = {} /\ \A r \in Resources : ~HasHandler(r) /\ ~Seen(r).made
  BY BlankSeen
<1>2. \A r \in Children : Obj(r) \in Objects /\ r \in Resources
  BY ObjFacts, ResourceFacts
<1>3. \A r : ~Inserting(r)
  BY DEF Blank, Inserting
<1>4. HandlersInv
  BY <1>1, <1>2, <1>3 DEF HandlersInv, Blank
<1> QED
  BY <1>1, <1>2, <1>4 DEF ApartInv, GroundsApart

\* The same of the next state.
LEMMA BlankAfter ==
  /\ (Blank => NothingSeen)'
  /\ (Apart /\ Callers # {} /\ StepsInv /\ Blank => ApartInv)'
<1>1. Blank => NothingSeen
  BY BlankSeen
<1>2. Apart /\ Callers # {} /\ StepsInv /\ Blank => ApartInv
  BY BlankApart
<1> QED
  BY <1>1, <1>2, PTL

\* A panic is one of AppLogic, whichever call meets it.
LEMMA PanicReturns ==
  ASSUME ApartInv, NEW k \in Callers, Panic(k)
  PROVE  ApartInv' /\ Atomic!Panic
<1>1. /\ alive /\ Panics(k) /\ alive' = FALSE /\ Blank'
  BY DEF Panic, Blank
<1>2. StepsInv'
  BY PanicTypes DEF ApartInv
<1>3. ApartInv'
  BY <1>1, <1>2, BlankAfter DEF ApartInv
<1>4. NothingSeen'
  BY <1>1, BlankAfter
<1>5. Atomic!Die
  BY <1>1, <1>4, SameNames DEF Atomic!Die, NothingSeen
<1>6. pc[k] \in Configuring
  BY <1>1 DEF Panics, Configuring
<1>7. \A S : Target(k) \in S => Config(k) \in Configured(S)
  BY <1>6, ConfigIs
<1>8. \/ \E c \in Configured({Topology}) : Atomic!TopologyPanics(c)
      \/ \E c \in Configured(Nodes) : Atomic!NodePanics(c)
      \/ \E c \in Configured(Links) : Atomic!LinkPanics(c)
  BY <1>1, <1>7, PanicSeen
<1> QED
  BY <1>3, <1>5, <1>8 DEF Atomic!Panic

\* A restart is that of AppLogic.
LEMMA RestartApart ==
  ASSUME ApartInv, Restart
  PROVE  ApartInv' /\ Atomic!Restart
<1>1. /\ ~alive /\ alive' = TRUE /\ UNCHANGED <<memory, locals>>
  BY DEF Restart
<1>2. Busy = {} /\ Busy' = {}
  BY <1>1 DEF ApartInv, Busy, locals
<1>3. StepsInv'
  BY StepsStep DEF ApartInv, Next
<1>4. \A r : HasHandler(r)' = HasHandler(r) /\ View(r)' = View(r) /\ Inserting(r)' = Inserting(r)
  BY <1>1 DEF memory, locals, HasHandler, View, DataOf, Handler, Inserting, Target
<1>5. \A r \in Resources : Seen(r) = View(r) /\ Seen(r)' = View(r)'
  BY <1>2, SeenFree, SeenFreeAfter
<1>6. \A r \in Resources : Seen(r)' = Seen(r)
  BY <1>4, <1>5
<1>7. HandlersInv'
  BY <1>1, <1>4 DEF ApartInv, HandlersInv, memory, Obj
<1>8. ApartInv'
  BY <1>1, <1>2, <1>3, <1>6, <1>7, ResourceFacts DEF ApartInv, GroundsApart
<1>9. /\ {r \in Resources : Seen(r).made}' = {r \in Resources : Seen(r).made}
      /\ Seen(Topology).data' = Seen(Topology).data
      /\ [n \in Nodes |-> Seen(n).data]' = [n \in Nodes |-> Seen(n).data]
      /\ [l \in Links |-> Seen(l).data]' = [l \in Links |-> Seen(l).data]
      /\ [r \in Resources |-> Seen(r).shown]' = [r \in Resources |-> Seen(r).shown]
  <2>1. Nodes \subseteq Resources /\ Links \subseteq Resources /\ Topology \in Resources
    BY ResourceFacts
  <2>2. {r \in Resources : Seen(r).made}' = {r \in Resources : Seen(r)'.made}
    OBVIOUS
  <2> QED
    BY <1>6, <2>1, <2>2, SeenAfter
<1> QED
  BY <1>1, <1>8, <1>9 DEF Atomic!Restart

\* What a call is said to be does not change by nothing happening.
LEMMA CallSame ==
  ASSUME UNCHANGED vars, NEW k \in Callers
  PROVE  CallInv(k)' = CallInv(k)
<1> USE DEF vars, memory, locals
<1>1. GhostOK(k)' = GhostOK(k)
  BY DEF GhostOK, Ground, Before, Target, EndNodes, Config
<1>2. MadeSoFar(k)' = MadeSoFar(k)
  BY DEF MadeSoFar, Ground, Before, Target, HasHandler
<1>3. /\ \A r : Held(r)' = Held(r) /\ Before(k, r)' = Before(k, r)
      /\ Target(k)' = Target(k) /\ Config(k)' = Config(k)
      /\ Ground(k)' = Ground(k) /\ EndNodes(k)' = EndNodes(k)
      /\ NodeCopied(k)' = NodeCopied(k) /\ LinkCopied(k)' = LinkCopied(k)
      /\ Copied(k)' = Copied(k)
  BY DEF Held, Obj, Before, Target, Config, Ground, EndNodes, NodeCopied, LinkCopied, Copied
<1>4. Preparing(k)' = Preparing(k)
  BY <1>3 DEF Preparing, ShownKept, DataKept
<1>5. NodeWorks(k)' = NodeWorks(k)
  BY <1>3 DEF NodeWorks, ShownKept, DataKept, Obj
<1>6. TopologyWorks(k)' = TopologyWorks(k)
  <2>1. TopologyJobs(k)' = TopologyJobs(k)
    BY DEF TopologyJobs, Before, Notify, Report, Obj
  <2>2. \A r : Told(k, r)' = Told(k, r) /\ Written(k, r)' = Written(k, r)
    BY DEF Told, Written, Pending, Before, Notify, Obj
  <2>3. \A r : Notify(Obj(r))' = Notify(Obj(r)) /\ Report(Topology)' = Report(Topology)
    OBVIOUS
  <2>4. HandleTopologyStatus(CopyTopology(Config(k)))' = HandleTopologyStatus(CopyTopology(Config(k)))
    BY <1>3
  <2>5. (topologyData = HandleTopologyStatus(CopyTopology(Config(k))))'
          = (topologyData = HandleTopologyStatus(CopyTopology(Config(k))))
    BY <2>4
  <2>6. \A r : ChildState(r, Held(r))' = ChildState(r, Held(r))
    BY <1>3
  <2>7. \A r : ChildWorks(k, r)' = ChildWorks(k, r)
    BY <1>3, <2>2, <2>3, <2>6 DEF ChildWorks
  <2>8. ReportWorks(k)' = ReportWorks(k)
    BY <1>3, <2>3 DEF ReportWorks
  <2> QED
    BY <2>1, <2>5, <2>7, <2>8 DEF TopologyWorks
<1>7. LinkWorks(k)' = LinkWorks(k)
  <2>1. /\ LinkJobs(k)' = LinkJobs(k) /\ NodesBefore(k)' = NodesBefore(k)
        /\ \A S : DataKept(k, S)' = DataKept(k, S) /\ ShownKept(k, S)' = ShownKept(k, S)
    BY <1>3 DEF LinkJobs, Config, SetEnd, End, BothFound, OwnReport, Before, Target,
                NodesBefore, DataKept, ShownKept, Held
  <2>2. /\ Wrote(k)' = Wrote(k) /\ Worked(k)' = Worked(k)
    BY <2>1 DEF Wrote, Worked
  <2>3. LinkRuns(k)' = LinkRuns(k)
    BY <1>3, <2>1, <2>2 DEF LinkRuns
  <2>4. \A n : EndWorks(k, n)' = EndWorks(k, n)
    BY <1>3, <2>1, <2>2 DEF EndWorks
  <2>5. OwnWorks(k)' = OwnWorks(k)
    BY <1>3, <2>1, <2>2 DEF OwnWorks
  <2> QED
    BY <1>3, <2>3, <2>4, <2>5 DEF LinkWorks
<1> QED
  BY <1>1, <1>2, <1>3, <1>4, <1>5, <1>6, <1>7 DEF CallInv

\* A step that changes nothing.
LEMMA ApartSame ==
  ASSUME ApartInv, UNCHANGED vars
  PROVE  ApartInv' /\ UNCHANGED Atomic!vars
<1> USE DEF vars, memory, locals
<1>1. StepsInv'
  BY StepsStep DEF ApartInv
<1>2. HandlersInv'
  BY DEF ApartInv, HandlersInv, HasHandler, Inserting, Target, Obj
<1>3. Busy' = Busy /\ \A k : Ground(k)' = Ground(k)
  BY DEF Busy, Ground
<1>4. GroundsApart'
  BY <1>3 DEF ApartInv, GroundsApart
<1>5. \A k \in Busy : CallInv(k)'
  BY CallSame DEF ApartInv, Busy
<1>6. \A r : Seen(r)' = Seen(r)
  BY DEF Seen, Busy, View, HasHandler, DataOf, Handler
<1>7. (\A r \in Children : Seen(r).made => Seen(Topology).made)'
  BY <1>6 DEF ApartInv
<1>8. ApartInv'
  BY <1>1, <1>2, <1>3, <1>4, <1>5, <1>7 DEF ApartInv
<1>9. /\ {r \in Resources : Seen(r).made}' = {r \in Resources : Seen(r).made}
      /\ Seen(Topology).data' = Seen(Topology).data
      /\ [n \in Nodes |-> Seen(n).data]' = [n \in Nodes |-> Seen(n).data]
      /\ [l \in Links |-> Seen(l).data]' = [l \in Links |-> Seen(l).data]
      /\ [r \in Resources |-> Seen(r).shown]' = [r \in Resources |-> Seen(r).shown]
  BY <1>6
<1> QED
  BY <1>8, <1>9 DEF Atomic!vars

-----------------------------------------------------------------------------
\* A step of a call is none of AppLogic's, or the one the call is.
LEMMA StepApart ==
  ASSUME ApartInv, NEW k \in Callers, Step(k)
  PROVE  ApartInv' /\ [Atomic!Next]_Atomic!vars
<1>1. CASE CreateTopology(k) \/ FindChild(k)
  <2>1. CASE Config(k) # NoData
    BY <1>1, <2>1, CreateTopologyApart, FindChildApart
  <2>2. CASE Config(k) = NoData
    <3>1. pc[k] # "idle"
      BY <1>1 DEF CreateTopology, FindChild, At
    <3>2. Target(k) \in Resources
      BY <3>1, CallerFacts
    <3>3. ApartInv' /\ Atomic!UpdateWithoutData(Target(k))
      BY <1>1, <2>2, FoundWithoutData
    <3> QED
      BY <3>2, <3>3, SameNames DEF Atomic!Next
  <2> QED
    BY <2>1, <2>2
<1>2. CASE Insert(k)
  <2>1. CASE Config(k) # NoData
    BY <1>2, <2>1, InsertApart
  <2>2. CASE Config(k) = NoData
    <3>1. pc[k] # "idle"
      BY <1>2 DEF Insert, At
    <3>2. Target(k) \in Resources
      BY <3>1, CallerFacts
    <3>3. ApartInv' /\ Atomic!UpdateWithoutData(Target(k))
      BY <1>2, <2>2, InsertWithoutData
    <3> QED
      BY <3>2, <3>3, SameNames DEF Atomic!Next
  <2> QED
    BY <2>1, <2>2
<1>3. CASE MakeChild(k) \/ Register(k)
  BY <1>3, MakeChildApart, RegisterApart
<1>4. CASE CopyConfig(k) \/ ReadParent(k)
  BY <1>4, CopyConfigApart, ReadParentApart
<1>5. CASE TopologyStatus(k) \/ NodeStatus(k) \/ LinkStatus(k)
  BY <1>5, TopologyStatusApart, NodeStatusApart, LinkStatusApart
<1>6. CASE ParseLink(k)
  BY <1>6, ParseLinkApart
<1>7. CASE ParseRefused(k)
  <2>1. pc[k] = "parse" /\ pc[k] \in Configuring /\ pc[k] # "idle"
    BY <1>7 DEF ParseRefused, At, Configuring
  <2>2. Target(k) \in Links
    BY <2>1, CallerFacts DEF CallOK
  <2>3. Config(k) \in Configured(Links)
    BY <2>1, <2>2, ConfigIs
  <2>4. ApartInv' /\ Atomic!LinkRefused(Target(k), Config(k))
    BY <1>7, RefusedReturns
  <2> QED
    BY <2>2, <2>3, <2>4 DEF Atomic!Next
<1>8. CASE Work(k) \/ WorkTopology(k)
  BY <1>8, WorkApart
<1>9. CASE WriteState(k)
  <2>1. CASE Len(jobs[k]) # 1
    BY <1>9, <2>1, WriteApart
  <2>2. CASE Len(jobs[k]) = 1
    <3>1. pc[k] \in Configuring /\ pc[k] # "idle"
      BY <1>9, WriteIs DEF Configuring
    <3>2. /\ Target(k) = Topology \/ Target(k) \in Nodes \/ Target(k) \in Links
          /\ call[k].event.kids \subseteq Children
      BY <3>1, CallerFacts, EventFacts, ResourceFacts
    <3>3. \A S : Target(k) \in S => Config(k) \in Configured(S)
      BY <3>1, ConfigIs
    <3>4. CASE Target(k) = Topology
      <4>1. ApartInv' /\ Atomic!TopologyUpdate(Config(k), call[k].event.kids)
        BY <1>9, <2>2, <3>4, TopologyReturns
      <4>2. Config(k) \in Configured({Topology}) /\ call[k].event.kids \in SUBSET Atomic!Children
        BY <3>2, <3>3, <3>4, SameNames
      <4> QED
        BY <4>1, <4>2 DEF Atomic!Next
    <3>5. CASE Target(k) \in Nodes
      <4>1. ApartInv' /\ Atomic!NodeUpdate(Target(k), Config(k))
        BY <1>9, <2>2, <3>5, NodeReturns
      <4> QED
        BY <3>3, <3>5, <4>1 DEF Atomic!Next
    <3>6. CASE Target(k) \in Links
      <4>1. ApartInv' /\ Atomic!LinkUpdate(Target(k), Config(k))
        BY <1>9, <2>2, <3>6, LinkReturns
      <4> QED
        BY <3>3, <3>6, <4>1 DEF Atomic!Next
    <3> QED
      BY <3>2, <3>4, <3>5, <3>6
  <2> QED
    BY <2>1, <2>2
<1>10. CASE DeleteState(k)
  <2>1. pc[k] # "idle"
    BY <1>10 DEF DeleteState, At
  <2>2. Target(k) \in Children \/ Target(k) = Topology
    BY <2>1, CallerFacts, ResourceFacts
  <2>3. /\ ApartInv'
        /\ Target(k) \in Children => Atomic!ChildDelete(Target(k))
        /\ Target(k) = Topology => Atomic!TopologyDelete
    BY <1>10, DeleteReturns
  <2> QED
    BY <2>2, <2>3, SameNames DEF Atomic!Next
<1>11. CASE Panic(k)
  BY <1>11, PanicReturns DEF Atomic!Next
<1> QED
  BY <1>1, <1>2, <1>3, <1>4, <1>5, <1>6, <1>7, <1>8, <1>9, <1>10, <1>11 DEF Step

\* Every step, in one.
LEMMA ApartStep == ApartInv /\ [Next]_vars => ApartInv' /\ [Atomic!Next]_Atomic!vars
<1> SUFFICES ASSUME ApartInv, [Next]_vars PROVE ApartInv' /\ [Atomic!Next]_Atomic!vars
  OBVIOUS
<1>1. ASSUME NEW k \in Callers, NEW e \in Events, Call(k, e)
      PROVE  ApartInv' /\ UNCHANGED Atomic!vars
  BY <1>1, CallApart
<1>2. ASSUME NEW k \in Callers, Step(k)
      PROVE  ApartInv' /\ [Atomic!Next]_Atomic!vars
  BY <1>2, StepApart
<1>3. CASE Restart
  BY <1>3, RestartApart DEF Atomic!Next
<1>4. CASE UNCHANGED vars
  BY <1>4, ApartSame
<1> QED
  BY <1>1, <1>2, <1>3, <1>4 DEF Next

\* A process nobody calls.
Unused == Callers = {} /\ alive

\* Nobody calls: AppLogic has only a process that runs.
LEMMA UnusedStep == Unused /\ [Next]_vars => Unused' /\ [Atomic!Next]_Atomic!vars
<1> SUFFICES ASSUME Unused, [Next]_vars PROVE Unused' /\ [Atomic!Next]_Atomic!vars
  OBVIOUS
<1>1. UNCHANGED vars
  BY DEF Unused, Next, Restart
<1>2. \A r : Seen(r)' = Seen(r)
  BY <1>1 DEF vars, memory, locals, Seen, Busy, View, HasHandler, DataOf, Handler
<1>3. /\ {r \in Resources : Seen(r).made}' = {r \in Resources : Seen(r).made}
      /\ Seen(Topology).data' = Seen(Topology).data
      /\ [n \in Nodes |-> Seen(n).data]' = [n \in Nodes |-> Seen(n).data]
      /\ [l \in Links |-> Seen(l).data]' = [l \in Links |-> Seen(l).data]
      /\ [r \in Resources |-> Seen(r).shown]' = [r \in Resources |-> Seen(r).shown]
  BY <1>2
<1> QED
  BY <1>1, <1>3 DEF Unused, vars, Atomic!vars

\* The start.
LEMMA ApartInitial == Apart /\ Init => (ApartInv \/ Unused) /\ Atomic!Init
<1> SUFFICES ASSUME Apart, Init PROVE (ApartInv \/ Unused) /\ Atomic!Init
  OBVIOUS
<1>1. Blank /\ alive = TRUE
  BY DEF Init, Blank
<1>2. StepsInv
  BY StepsInitial
<1>3. NothingSeen
  BY <1>1, BlankSeen
<1>4. Atomic!Init
  BY <1>1, <1>3, SameNames DEF Atomic!Init, NothingSeen
<1>5. ApartInv \/ Unused
  BY <1>1, <1>2, BlankApart DEF Unused
<1> QED
  BY <1>4, <1>5

(***************************************************************************)
(* When calls that meet in a resource wait for each other, a call of       *)
(* HandleConfigEvent is one step of AppLogic, for any number of callers    *)
(* (root.go, topology.go, node.go, link.go HandleConfigEvent).             *)
(***************************************************************************)
THEOREM ApartCallsAtomic == Apart /\ Spec => CallsAreAtomic
<1>1. Apart /\ Init => (ApartInv \/ Unused) /\ Atomic!Init
  BY ApartInitial
<1>2. ApartInv /\ [Next]_vars => ApartInv' /\ [Atomic!Next]_Atomic!vars
  BY ApartStep
<1>3. Unused /\ [Next]_vars => Unused' /\ [Atomic!Next]_Atomic!vars
  BY UnusedStep
<1> QED
  BY <1>1, <1>2, <1>3, PTL DEF Spec, CallsAreAtomic, Atomic!Spec

-----------------------------------------------------------------------------
(***************************************************************************)
(* What is proved of AppLogic holds of the calls, then: of what is seen at *)
(* any time, and so of the memory itself when no call runs.                *)
(***************************************************************************)
Proved == INSTANCE AppLogicProofs WITH
  TopologyConfigs <- Configured({Topology}),
  NodeConfigs     <- Configured(Nodes),
  LinkConfigs     <- Configured(Links),
  alive           <- alive,
  handlers        <- {r \in Resources : Seen(r).made},
  topologyData    <- Seen(Topology).data,
  nodeData        <- [n \in Nodes |-> Seen(n).data],
  linkData        <- [l \in Links |-> Seen(l).data],
  stateCache      <- [r \in Resources |-> Seen(r).shown]

\* Both instances of AppLogic are the same, operator by operator.
LEMMA DataProved ==
  /\ Atomic!Nil = Proved!Nil
  /\ Atomic!DefaultPlatform = Proved!DefaultPlatform
  /\ \A c : Atomic!CopyTopology(c) = Proved!CopyTopology(c)
  /\ \A c : Atomic!CopyNode(c) = Proved!CopyNode(c)
  /\ \A c : Atomic!CopyLink(c) = Proved!CopyLink(c)
  /\ \A d, s, why : Atomic!SetStatus(d, s, why) = Proved!SetStatus(d, s, why)
  /\ \A d, parentStatus : Atomic!HandleStatus(d, parentStatus) = Proved!HandleStatus(d, parentStatus)
  /\ \A d, parentStatus : Atomic!HandleLinkStatus(d, parentStatus) = Proved!HandleLinkStatus(d, parentStatus)
  /\ \A d : Atomic!HandleTopologyStatus(d) = Proved!HandleTopologyStatus(d)
  /\ \A d, t : Atomic!ResolvePlatform(d, t) = Proved!ResolvePlatform(d, t)
  /\ \A d, t : Atomic!SetPlatform(d, t) = Proved!SetPlatform(d, t)
  /\ \A d, name : Atomic!HasEndpoint(d, name) = Proved!HasEndpoint(d, name)
  /\ \A d, e : Atomic!SetEndpoint(d, e) = Proved!SetEndpoint(d, e)
  /\ \A le : Atomic!LogicalLag(le) = Proved!LogicalLag(le)
  /\ \A le : Atomic!LagSubLink(le) = Proved!LagSubLink(le)
  /\ \A le : Atomic!PlainLink(le) = Proved!PlainLink(le)
  /\ Atomic!EmptyState = Proved!EmptyState
  /\ \A d : Atomic!TopologyState(d) = Proved!TopologyState(d)
  /\ \A d : Atomic!LinkState(d) = Proved!LinkState(d)
  /\ \A d : Atomic!NodeState(d) = Proved!NodeState(d)
  /\ \A old, new : Atomic!MergeLeaf(old, new) = Proved!MergeLeaf(old, new)
  /\ \A old, new : Atomic!MergeEndpoints(old, new) = Proved!MergeEndpoints(old, new)
  /\ \A cached, new : Atomic!MergeState(cached, new) = Proved!MergeState(cached, new)
  /\ Atomic!Topology = Proved!Topology
  /\ Atomic!Children = Proved!Children
  /\ Atomic!Resources = Proved!Resources
<1>1. Atomic!Nil = Proved!Nil
  BY DEF Atomic!Nil, Proved!Nil
<1>2. Atomic!DefaultPlatform = Proved!DefaultPlatform
  BY DEF Atomic!DefaultPlatform, Proved!DefaultPlatform
<1>3. \A c : Atomic!CopyTopology(c) = Proved!CopyTopology(c)
  BY <1>1 DEF Atomic!CopyTopology, Proved!CopyTopology
<1>4. \A c : Atomic!CopyNode(c) = Proved!CopyNode(c)
  BY <1>1 DEF Atomic!CopyNode, Proved!CopyNode
<1>5. \A c : Atomic!CopyLink(c) = Proved!CopyLink(c)
  BY <1>1 DEF Atomic!CopyLink, Proved!CopyLink
<1>6. \A d, s, why : Atomic!SetStatus(d, s, why) = Proved!SetStatus(d, s, why)
  BY DEF Atomic!SetStatus, Proved!SetStatus
<1>7. \A d, parentStatus :
       Atomic!HandleStatus(d, parentStatus) =
       Proved!HandleStatus(d, parentStatus)
  BY <1>6 DEF Atomic!HandleStatus, Proved!HandleStatus
<1>8. \A d, parentStatus :
       Atomic!HandleLinkStatus(d, parentStatus) =
       Proved!HandleLinkStatus(d, parentStatus)
  BY <1>7 DEF Atomic!HandleLinkStatus, Proved!HandleLinkStatus
<1>9. \A d : Atomic!HandleTopologyStatus(d) = Proved!HandleTopologyStatus(d)
  BY <1>1, <1>7 DEF Atomic!HandleTopologyStatus, Proved!HandleTopologyStatus
<1>10. \A d, t : Atomic!ResolvePlatform(d, t) = Proved!ResolvePlatform(d, t)
  BY <1>1, <1>2 DEF Atomic!ResolvePlatform, Proved!ResolvePlatform
<1>11. \A d, t : Atomic!SetPlatform(d, t) = Proved!SetPlatform(d, t)
  BY <1>1, <1>10 DEF Atomic!SetPlatform, Proved!SetPlatform
<1>12. \A d, name : Atomic!HasEndpoint(d, name) = Proved!HasEndpoint(d, name)
  BY DEF Atomic!HasEndpoint, Proved!HasEndpoint
<1>13. \A d, e : Atomic!SetEndpoint(d, e) = Proved!SetEndpoint(d, e)
  BY <1>12 DEF Atomic!SetEndpoint, Proved!SetEndpoint
<1>14. \A le : Atomic!LogicalLag(le) = Proved!LogicalLag(le)
  BY DEF Atomic!LogicalLag, Proved!LogicalLag
<1>15. \A le : Atomic!LagSubLink(le) = Proved!LagSubLink(le)
  BY DEF Atomic!LagSubLink, Proved!LagSubLink
<1>16. \A le : Atomic!PlainLink(le) = Proved!PlainLink(le)
  BY DEF Atomic!PlainLink, Proved!PlainLink
<1>17. Atomic!EmptyState = Proved!EmptyState
  BY <1>1 DEF Atomic!EmptyState, Proved!EmptyState
<1>18. \A d : Atomic!TopologyState(d) = Proved!TopologyState(d)
  BY <1>17 DEF Atomic!TopologyState, Proved!TopologyState
<1>19. \A d : Atomic!LinkState(d) = Proved!LinkState(d)
  BY <1>17 DEF Atomic!LinkState, Proved!LinkState
<1>20. \A d : Atomic!NodeState(d) = Proved!NodeState(d)
  BY DEF Atomic!NodeState, Proved!NodeState
<1>21. \A old, new : Atomic!MergeLeaf(old, new) = Proved!MergeLeaf(old, new)
  BY <1>1 DEF Atomic!MergeLeaf, Proved!MergeLeaf
<1>22. \A old, new : Atomic!MergeEndpoints(old, new) = Proved!MergeEndpoints(old, new)
  BY DEF Atomic!MergeEndpoints, Proved!MergeEndpoints
<1>23. \A cached, new : Atomic!MergeState(cached, new) = Proved!MergeState(cached, new)
  BY <1>17, <1>21, <1>22 DEF Atomic!MergeState, Proved!MergeState
<1>24. Atomic!Topology = Proved!Topology
  BY DEF Atomic!Topology, Proved!Topology
<1>25. Atomic!Children = Proved!Children
  BY DEF Atomic!Children, Proved!Children
<1>26. Atomic!Resources = Proved!Resources
  BY <1>24, <1>25 DEF Atomic!Resources, Proved!Resources
<1> QED
  BY <1>1, <1>2, <1>3, <1>4, <1>5, <1>6, <1>7, <1>8, <1>9, <1>10, <1>11, <1>12, <1>13,
     <1>14, <1>15, <1>16, <1>17, <1>18, <1>19, <1>20, <1>21, <1>22, <1>23, <1>24,
     <1>25, <1>26

\* The actions of both instances.
LEMMA NextProved == Atomic!Next = Proved!Next
<1>1. \A r : Atomic!CreateChild(r) = Proved!CreateChild(r)
  BY DataProved DEF Atomic!CreateChild, Proved!CreateChild
<1>2. Atomic!Observers = Proved!Observers
  BY DataProved DEF Atomic!Observers, Proved!Observers
<1>3. Atomic!ParentStatus = Proved!ParentStatus
  BY DEF Atomic!ParentStatus, Proved!ParentStatus
<1>4. \A f, status : Atomic!Notified(f, status) = Proved!Notified(f, status)
  BY <1>2, DataProved DEF Atomic!Notified, Proved!Notified
<1>5. \A cache, r, s : Atomic!Cached(cache, r, s) = Proved!Cached(cache, r, s)
  BY DataProved DEF Atomic!Cached, Proved!Cached
<1>6. \A cache, status, nodeState, linkState :
       Atomic!CachedObservers(cache, status, nodeState, linkState) =
       Proved!CachedObservers(cache, status, nodeState, linkState)
  BY <1>2, DataProved DEF Atomic!CachedObservers, Proved!CachedObservers
<1>7. \A cache, d, kids :
       Atomic!CachedTopology(cache, d, kids) =
       Proved!CachedTopology(cache, d, kids)
  BY <1>5, DataProved DEF Atomic!CachedTopology, Proved!CachedTopology
<1>8. \A r : Atomic!UpdateWithoutData(r) = Proved!UpdateWithoutData(r)
  BY <1>1 DEF Atomic!UpdateWithoutData, Proved!UpdateWithoutData
<1>9. \A c, kids : Atomic!TopologyUpdate(c, kids) = Proved!TopologyUpdate(c, kids)
  BY <1>1, <1>2, <1>4, <1>6, <1>7, DataProved
  DEF Atomic!TopologyUpdate, Proved!TopologyUpdate
<1>10. \A n, c : Atomic!NodeUpdate(n, c) = Proved!NodeUpdate(n, c)
  BY <1>1, <1>3, <1>5, DataProved DEF Atomic!NodeUpdate, Proved!NodeUpdate
<1>11. \A c : Atomic!Ends(c) = Proved!Ends(c)
  BY DEF Atomic!Ends, Proved!Ends
<1>12. \A le : Atomic!Known(le) = Proved!Known(le)
  BY DEF Atomic!Known, Proved!Known
<1>13. \A f, a, ea, b, eb :
       Atomic!SetBoth(f, a, ea, b, eb) =
       Proved!SetBoth(f, a, ea, b, eb)
  BY DataProved DEF Atomic!SetBoth, Proved!SetBoth
<1>14. \A f, c : Atomic!ParseLink(f, c) = Proved!ParseLink(f, c)
  BY <1>13, DataProved DEF Atomic!ParseLink, Proved!ParseLink
<1>15. \A c : Atomic!LinkCopied(c) = Proved!LinkCopied(c)
  BY <1>3, DataProved DEF Atomic!LinkCopied, Proved!LinkCopied
<1>16. \A l, c : Atomic!LinkUpdate(l, c) = Proved!LinkUpdate(l, c)
  BY <1>1, <1>5, <1>11, <1>12, <1>14, <1>15, DataProved
  DEF Atomic!LinkUpdate, Proved!LinkUpdate
<1>17. \A c : Atomic!NodeMissing(c) = Proved!NodeMissing(c)
  BY <1>11, <1>12 DEF Atomic!NodeMissing, Proved!NodeMissing
<1>18. \A l, c : Atomic!LinkRefused(l, c) = Proved!LinkRefused(l, c)
  BY <1>1, <1>15, <1>17, DataProved DEF Atomic!LinkRefused, Proved!LinkRefused
<1>19. \A r : Atomic!ChildDelete(r) = Proved!ChildDelete(r)
  BY <1>1, DataProved DEF Atomic!ChildDelete, Proved!ChildDelete
<1>20. Atomic!TopologyDelete = Proved!TopologyDelete
  BY DataProved DEF Atomic!TopologyDelete, Proved!TopologyDelete
<1>21. \A c : Atomic!TopologyPanics(c) = Proved!TopologyPanics(c)
  BY <1>2, DataProved DEF Atomic!TopologyPanics, Proved!TopologyPanics
<1>22. \A c : Atomic!NodePanics(c) = Proved!NodePanics(c)
  BY DEF Atomic!NodePanics, Proved!NodePanics
<1>23. \A c : Atomic!LinkPanics(c) = Proved!LinkPanics(c)
  BY <1>11, <1>17 DEF Atomic!LinkPanics, Proved!LinkPanics
<1>24. Atomic!Die = Proved!Die
  BY DataProved DEF Atomic!Die, Proved!Die
<1>25. Atomic!Panic = Proved!Panic
  BY <1>21, <1>22, <1>23, <1>24 DEF Atomic!Panic, Proved!Panic
<1>26. Atomic!Restart = Proved!Restart
  BY DEF Atomic!Restart, Proved!Restart
<1>27. Atomic!Next = Proved!Next
  BY <1>8, <1>9, <1>10, <1>16, <1>18, <1>19, <1>20, <1>25, <1>26, DataProved
  DEF Atomic!Next, Proved!Next
<1> QED
  BY <1>27

\* The specifications of both instances.
LEMMA SpecProved == CallsAreAtomic => Proved!Spec
<1>1. Atomic!Init => Proved!Init
  BY DataProved DEF Atomic!Init, Proved!Init
<1>2. UNCHANGED Atomic!vars <=> UNCHANGED Proved!vars
  BY DEF Atomic!vars, Proved!vars
<1>3. [Atomic!Next]_Atomic!vars => [Proved!Next]_Proved!vars
  BY <1>2, NextProved
<1> QED
  BY <1>1, <1>3, PTL DEF CallsAreAtomic, Atomic!Spec, Proved!Spec

\* The assumptions of AppLogic hold of the instance.
LEMMA TypesProved ==
  /\ Proved!TopologyConfig = TopologyConfig /\ Proved!NodeConfig = NodeConfig
  /\ Proved!LinkConfig = LinkConfig /\ Proved!TopologyData = TopologyData
  /\ Proved!NodeData = NodeData /\ Proved!LinkData = LinkData
  /\ Proved!StateLeaves = StateLeaves /\ Proved!Nil = Nil
<1>1. /\ Proved!Nil = Nil /\ Proved!AdminState = AdminState
      /\ Proved!Status = Status /\ Proved!Reason = Reason
  BY DEF Proved!Nil, Nil, Proved!AdminState, AdminState, Proved!Status, Status,
         Proved!Reason, Reason
<1>2. /\ Proved!Platform = Platform /\ Proved!Endpoint = Endpoint
      /\ Proved!LinkEndpoint = LinkEndpoint
  BY <1>1 DEF Proved!Platform, Platform, Proved!Endpoint, Endpoint,
              Proved!LinkEndpoint, LinkEndpoint,
              Proved!DefaultPlatform, DefaultPlatform
<1> QED
  BY <1>1, <1>2
  DEF Proved!TopologyConfig, TopologyConfig, Proved!NodeConfig, NodeConfig,
      Proved!LinkConfig, LinkConfig, Proved!TopologyData, TopologyData,
      Proved!NodeData, NodeData, Proved!LinkData, LinkData,
      Proved!StateLeaves, StateLeaves

\* What the events configure is a configuration.
LEMMA ConfiguredTyped ==
  /\ Configured({Topology}) \subseteq TopologyConfig
  /\ Configured(Nodes) \subseteq NodeConfig
  /\ Configured(Links) \subseteq LinkConfig
BY EventAssumption, DataAssumption DEF Configured, Event, Resources, Topology, Children

(***************************************************************************)
(* When calls that meet in a resource wait for each other, the children of *)
(* a topology that is down are down whenever no call runs, as if the calls *)
(* had been made one by one (gnmiserver/set.go Set, "as a single           *)
(* transaction").                                                          *)
(***************************************************************************)
THEOREM ApartChildrenFollow == Apart /\ Spec => []RestingChildrenFollow
<1>1. Proved!Spec => []Proved!ParentDownForcesChildren
  BY Proved!ParentDownCorrect, TypesProved, ConfiguredTyped, DataAssumption
<1>2. Proved!ParentDownForcesChildren => RestingChildrenFollow
  BY DEF RestingChildrenFollow, Atomic!ParentDownForcesChildren,
         Proved!ParentDownForcesChildren, Atomic!NodeHasData, Proved!NodeHasData,
         Atomic!LinkHasData, Proved!LinkHasData
<1> QED
  BY <1>1, <1>2, SpecProved, ApartCallsAtomic, PTL

(***************************************************************************)
(* And then the state cache agrees with the handlers, and a node lists an  *)
(* interface or lag once in both (node.go, link.go GnmiUpdate).            *)
(***************************************************************************)
RestingCacheFollows ==
  Busy = {} => Atomic!StateCacheFollowsData /\ Atomic!EndpointNamesUnique

THEOREM ApartCacheFollows == Apart /\ Spec => []RestingCacheFollows
<1>1. Proved!Spec => []Proved!StateCacheFollowsData
  BY Proved!StateCacheCorrect, TypesProved, ConfiguredTyped, DataAssumption
<1>2. Proved!Spec => []Proved!EndpointNamesUnique
  BY Proved!EndpointsCorrect, TypesProved, ConfiguredTyped, DataAssumption
<1>3. Proved!StateCacheFollowsData => Atomic!StateCacheFollowsData
  BY DataProved
  DEF Proved!StateCacheFollowsData, Atomic!StateCacheFollowsData, Proved!Shows,
      Atomic!Shows, Proved!NodeHasData, Atomic!NodeHasData, Proved!LinkHasData,
      Atomic!LinkHasData
<1>4. Proved!EndpointNamesUnique => Atomic!EndpointNamesUnique
  BY DEF Proved!EndpointNamesUnique, Atomic!EndpointNamesUnique, Proved!NamesUnique,
         Atomic!NamesUnique, Proved!NodeHasData, Atomic!NodeHasData
<1>5. Proved!StateCacheFollowsData /\ Proved!EndpointNamesUnique => RestingCacheFollows
  BY <1>3, <1>4 DEF RestingCacheFollows
<1> QED
  BY <1>1, <1>2, <1>5, SpecProved, ApartCallsAtomic, PTL

=============================================================================
