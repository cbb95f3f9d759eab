------------------------- MODULE HandlerStepsProofs -------------------------
(***************************************************************************)
(* HandlerSteps for any nodes, links, events and any number of callers:    *)
(* its types, whatever the calls do in between each other, and, from       *)
(* ApartInv on, the invariant of calls that do not meet in a resource,     *)
(* which every step of a call that does not return keeps.                  *)
(***************************************************************************)
EXTENDS HandlerSteps, TopoDataProofs, FiniteSetTheorems, SequenceTheorems

(***************************************************************************)
(* The invariant of the types.  A call holds what the steps before it left *)
(* it: the handler it works on exists and has data once it was configured, *)
(* the topology has data once its status was read, and the jobs are jobs   *)
(* for handlers there are.                                                 *)
(***************************************************************************)
JobOK(job) ==
  /\ job.by \in {"status", "endpoint", "nothing"}
  /\ job.object = Topology \/ job.object \in Objects
  /\ job.by = "status" => job.object \in Objects /\ topologyData # NoData
  /\ job.by = "endpoint" => /\ job.object \in Objects /\ job.object[1] \in Nodes
                            /\ job.endpoint \in Endpoint
  /\ job.object = Topology => topologyData # NoData

\* The handler a call found or made.
OwnOK(k) ==
  IF Target(k) = Topology THEN Own(k) = Topology
  ELSE /\ Own(k) \in Objects
       /\ Own(k)[1] = Target(k)
       /\ Own(k)[2] <= made[Target(k)]

Making      == {"register", "insert"}
Configuring == {"copy", "parent", "status", "parse", "work", "write"}

CallOK(k) ==
  /\ call[k] = NoData <=> pc[k] = "idle"
  /\ jobs[k] # <<>> => pc[k] # "idle"
  /\ pc[k] # "idle" => call[k] \in Calls
  /\ pc[k] \in Making => Target(k) \in Children /\ OwnOK(k)
  /\ pc[k] = "register" => read[k] \subseteq Objects /\ IsFiniteSet(read[k])
  /\ pc[k] \in Configuring => Config(k) # NoData /\ OwnOK(k)
  /\ pc[k] = "parent" => Target(k) \in Children
  /\ pc[k] = "parse" => Target(k) \in Links
  /\ pc[k] \in {"parent", "status", "parse"} =>
       Target(k) = Topology \/ data[Own(k)] # NoData
  /\ pc[k] \in {"status", "parse"} => topologyData # NoData
  /\ pc[k] \in {"status", "parse"} /\ Target(k) # Topology => read[k] \in Status
  /\ pc[k] \in {"work", "write"} =>
       jobs[k] # <<>> /\ \E S : jobs[k] \in Seq(S) /\ \A job \in S : JobOK(job)
  /\ pc[k] = "write" => read[k] \in StateLeaves

\* The calls that make a handler of r.
Makers(r) == {k \in Callers : pc[k] \in Making /\ Target(k) = r}

MemoryOK ==
  /\ alive \in BOOLEAN
  /\ topologyMade \in BOOLEAN
  /\ made \in [Children -> 0..Cardinality(Callers)]
  /\ DOMAIN inMap = Children
  /\ \A r \in Children : inMap[r] \in 0..made[r]
  /\ observers \subseteq Objects /\ IsFiniteSet(observers)
  /\ topologyData \in TopologyData \cup {NoData}
  /\ DOMAIN data = Objects
  /\ \A o \in Objects :
       data[o] \in (IF o[1] \in Nodes THEN NodeData ELSE LinkData) \cup {NoData}
  /\ stateCache \in [Resources -> StateLeaves \cup {NoData}]

LocalsShape ==
  /\ pc \in [Callers -> Labels]
  /\ DOMAIN call = Callers /\ DOMAIN read = Callers
  /\ DOMAIN jobs = Callers /\ DOMAIN ghost = Callers

MadeByMakers == \A r \in Children : inMap[r] = 0 => made[r] <= Cardinality(Makers(r))

StepsInv ==
  /\ MemoryOK
  /\ LocalsShape
  /\ MadeByMakers
  /\ \A k \in Callers : CallOK(k)

LEMMA StepsInvTypes == StepsInv => StepsTypeOK
BY DEF StepsInv, MemoryOK, LocalsShape, CallOK, StepsTypeOK, Busy

-----------------------------------------------------------------------------
\* Resources, objects and events are what their names say.
LEMMA ResourceFacts ==
  /\ Topology \notin Children
  /\ Children = Nodes \cup Links
  /\ \A r \in Nodes : r \notin Links
  /\ \A r \in Resources : r \in Children \/ r = Topology
  /\ Children \subseteq Resources /\ Topology \in Resources
BY DataAssumption DEF Topology, Children, Resources

LEMMA ObjectFacts ==
  /\ Cardinality(Callers) \in Nat
  /\ \A o \in Objects : /\ o[1] \in Children
                        /\ o[2] \in 1..Cardinality(Callers)
                        /\ o = <<o[1], o[2]>>
                        /\ o # Topology
  /\ \A r \in Children, i \in 1..Cardinality(Callers) : <<r, i>> \in Objects
BY EventAssumption, FS_CardinalityType DEF Objects

LEMMA EventFacts ==
  ASSUME NEW e \in Events
  PROVE  /\ e.resource \in Resources
         /\ e.operation \in Operation
         /\ e.kids \subseteq Children
         /\ e.resource = Topology => e.config \in TopologyConfig \cup {NoData}
         /\ e.resource \in Nodes => e.config \in NodeConfig \cup {NoData}
         /\ e.resource \in Links => e.config \in LinkConfig \cup {NoData}
         /\ e.resource \in Children => e.kids = {}
<1>1. e.resource \in Resources /\ e \in Event(e.resource)
  BY EventAssumption
<1> QED
  BY <1>1, ResourceFacts DEF Event

LEMMA CallFacts ==
  ASSUME NEW c \in Calls
  PROVE  c.event \in Events /\ c # NoData
BY EventAssumption DEF Calls

-----------------------------------------------------------------------------
LEMMA StepsInitial == Init => StepsInv
<1> SUFFICES ASSUME Init PROVE StepsInv
  OBVIOUS
<1>1. MemoryOK
  <2>1. \A r \in Children : made[r] \in 0..Cardinality(Callers) /\ inMap[r] \in 0..made[r]
    BY ObjectFacts DEF Init
  <2>2. /\ made \in [Children -> 0..Cardinality(Callers)] /\ DOMAIN inMap = Children
        /\ DOMAIN data = Objects
        /\ stateCache \in [Resources -> StateLeaves \cup {NoData}]
    BY <2>1 DEF Init
  <2>3. observers \subseteq Objects /\ IsFiniteSet(observers)
    BY FS_EmptySet DEF Init
  <2>4. \A o \in Objects : data[o] = NoData
    BY DEF Init
  <2> QED
    BY <2>1, <2>2, <2>3, <2>4 DEF Init, MemoryOK
<1>2. LocalsShape
  BY DEF Init, LocalsShape, Labels
<1>3. MadeByMakers
  <2> SUFFICES ASSUME NEW r \in Children PROVE made[r] <= Cardinality(Makers(r))
    BY DEF MadeByMakers
  <2>1. Makers(r) = {}
    BY DEF Init, Makers, Making
  <2>2. Cardinality(Makers(r)) = 0
    BY <2>1, FS_EmptySet
  <2> QED
    BY <2>2 DEF Init
<1>4. \A k \in Callers : CallOK(k)
  BY DEF Init, CallOK, Making, Configuring
<1> QED
  BY <1>1, <1>2, <1>3, <1>4 DEF StepsInv

\* Until a panic nothing that is made goes away, and data is replaced by data.
Grows ==
  /\ \A r \in Children : made[r] <= made'[r]
  /\ \A o \in Objects : data[o] # NoData => data'[o] # NoData
  /\ topologyData # NoData => topologyData' # NoData

SameCall(j) ==
  pc'[j] = pc[j] /\ call'[j] = call[j] /\ read'[j] = read[j] /\ jobs'[j] = jobs[j]

\* What a call relies on it keeps while others work.
LEMMA OthersKept ==
  ASSUME StepsInv, MemoryOK', Grows, NEW j \in Callers, SameCall(j)
  PROVE  CallOK(j)'
<1>1. CallOK(j)
  BY DEF StepsInv
<1>2. ASSUME NEW job, JobOK(job) PROVE JobOK(job)'
  BY <1>2 DEF JobOK, Grows
<1>3. ASSUME pc[j] \in Making \cup Configuring, OwnOK(j) PROVE OwnOK(j)'
  <2>1. call[j] \in Calls
    BY <1>1, <1>3 DEF CallOK, Making, Configuring
  <2>2. Target(j) = Topology \/ Target(j) \in Children
    BY <2>1, CallFacts, EventFacts, ResourceFacts DEF Target
  <2>3. CASE Target(j) = Topology
    BY <1>3, <2>3 DEF OwnOK, SameCall, Target, Own
  <2>4. CASE Target(j) \in Children
    <3>1. made[Target(j)] <= made'[Target(j)]
      BY <2>4 DEF Grows
    <3>2. made[Target(j)] \in Nat /\ made'[Target(j)] \in Nat
      BY <2>4, ObjectFacts DEF StepsInv, MemoryOK
    <3>3. Own(j) \in Objects => Own(j)[2] \in Nat
      BY ObjectFacts
    <3> QED
      BY <1>3, <2>4, <3>1, <3>2, <3>3, ResourceFacts DEF OwnOK, SameCall, Target, Own
  <2> QED
    BY <2>2, <2>3, <2>4
<1>4. pc[j] \in {"parent", "status", "parse"} => Target(j) = Topology \/ data'[Own(j)] # NoData
  <2>1. pc[j] \in {"parent", "status", "parse"} => OwnOK(j)
    BY <1>1 DEF CallOK, Configuring
  <2> QED
    BY <1>1, <2>1 DEF CallOK, OwnOK, Grows
<1>5. pc[j] \in {"work", "write"} =>
        jobs[j] # <<>> /\ \E S : jobs[j] \in Seq(S) /\ \A job \in S : JobOK(job)'
  BY <1>1, <1>2 DEF CallOK
<1> USE DEF SameCall
<1>6. (call[j] = NoData <=> pc[j] = "idle")' /\ (jobs[j] # <<>> => pc[j] # "idle")'
      /\ (pc[j] # "idle" => call[j] \in Calls)'
  BY <1>1 DEF CallOK
<1>7. (pc[j] \in Making => Target(j) \in Children /\ OwnOK(j))'
      /\ (pc[j] \in Configuring => Config(j) # NoData /\ OwnOK(j))'
  BY <1>1, <1>3 DEF CallOK, Target, Config
<1>8. (pc[j] \in {"status", "parse"} => topologyData # NoData)'
  BY <1>1 DEF CallOK, Grows
<1>9. (pc[j] = "register" => read[j] \subseteq Objects /\ IsFiniteSet(read[j]))'
      /\ (pc[j] = "parent" => Target(j) \in Children)'
      /\ (pc[j] = "parse" => Target(j) \in Links)'
      /\ (pc[j] \in {"status", "parse"} /\ Target(j) # Topology => read[j] \in Status)'
      /\ (pc[j] = "write" => read[j] \in StateLeaves)'
  BY <1>1 DEF CallOK, Target
<1> QED
  BY <1>4, <1>5, <1>6, <1>7, <1>8, <1>9 DEF CallOK, Target, Own

\* A step that makes no handler leaves the makers as they are.
LEMMA MakersSame ==
  ASSUME StepsInv, NEW k \in Callers, \A j \in Callers \ {k} : SameCall(j),
         made' = made, inMap' = inMap,
         \/ pc[k] \notin Making /\ pc'[k] \notin Making
         \/ pc[k] \in Making /\ pc'[k] \in Making /\ call'[k] = call[k]
  PROVE  MadeByMakers'
<1>1. ASSUME NEW r, NEW j \in Callers
      PROVE  (pc[j] \in Making /\ Target(j) = r)' <=> (pc[j] \in Making /\ Target(j) = r)
  BY DEF SameCall, Target
<1>2. \A r : Makers(r)' = Makers(r)
  BY <1>1 DEF Makers
<1> QED
  BY <1>2 DEF StepsInv, MadeByMakers

\* A step of one call keeps the invariant.
LEMMA StepKeeps ==
  ASSUME StepsInv, NEW k \in Callers, MemoryOK', LocalsShape', MadeByMakers', Grows,
         \A j \in Callers \ {k} : SameCall(j), CallOK(k)'
  PROVE  StepsInv'
<1>1. \A j \in Callers \ {k} : CallOK(j)'
  BY OthersKept
<1> QED
  BY <1>1 DEF StepsInv

LEMMA ReturnKeeps ==
  ASSUME StepsInv, NEW k \in Callers, Return(k)
  PROVE  /\ LocalsShape' /\ CallOK(k)' /\ pc'[k] \notin Making
         /\ \A j \in Callers \ {k} : SameCall(j)
<1>1. LocalsShape
  BY DEF StepsInv
<1>2. LocalsShape' /\ \A j \in Callers \ {k} : SameCall(j)
  BY <1>1 DEF Return, LocalsShape, SameCall, Labels
<1>3. pc'[k] = "idle" /\ call'[k] = NoData /\ jobs'[k] = <<>>
  BY <1>1 DEF Return, LocalsShape
<1>4. CallOK(k)' /\ pc'[k] \notin Making
  BY <1>3 DEF CallOK, Making, Configuring
<1> QED
  BY <1>2, <1>4

\* CreateChild leaves the call the handler it returns.
LEMMA CreatedKeeps ==
  ASSUME StepsInv, NEW k \in Callers, NEW object, Created(k, object), pc[k] # "idle",
         IF Target(k) = Topology THEN object = Topology
         ELSE object \in Objects /\ object[1] = Target(k) /\ object[2] <= made'[Target(k)]
  PROVE  /\ LocalsShape' /\ CallOK(k)' /\ pc'[k] \notin Making
         /\ \A j \in Callers \ {k} : SameCall(j)
<1>1. CASE Config(k) = NoData
  BY <1>1, ReturnKeeps DEF Created
<1>2. CASE Config(k) # NoData
  <2>1. LocalsShape /\ call[k] \in Calls /\ jobs[k] = jobs[k]
    BY DEF StepsInv, CallOK
  <2>2. LocalsShape' /\ \A j \in Callers \ {k} : SameCall(j)
    BY <1>2, <2>1 DEF Created, Goto, LocalsShape, SameCall, Labels
  <2>3. /\ pc'[k] = "copy"
        /\ call'[k] = [event |-> call[k].event, object |-> object]
    BY <1>2, <2>1 DEF Created, Goto, LocalsShape, Calls
  <2>4. call'[k] \in Calls
    BY <2>1, <2>3 DEF Calls
  <2>5. OwnOK(k)' /\ Config(k)' # NoData
    BY <1>2, <2>3 DEF OwnOK, Own, Target, Config
  <2> QED
    BY <2>2, <2>3, <2>4, <2>5, CallFacts DEF CallOK, Making
<1> QED
  BY <1>1, <1>2

-----------------------------------------------------------------------------
(***************************************************************************)
(* The steps, one by one.                                                  *)
(***************************************************************************)
LEMMA CallTypes ==
  ASSUME StepsInv, NEW k \in Callers, NEW e \in Events, Call(k, e)
  PROVE  StepsInv'
<1>1. LocalsShape /\ MemoryOK
  BY DEF StepsInv
<1>2. LocalsShape' /\ \A j \in Callers \ {k} : SameCall(j)
  BY <1>1 DEF Call, LocalsShape, SameCall, Labels
<1>3. MemoryOK' /\ Grows
  BY <1>1, ObjectFacts DEF Call, memory, MemoryOK, Grows
<1>4. /\ pc'[k] \in {"create", "delete"}
      /\ call'[k] = [event |-> e, object |-> NoData]
  BY <1>1 DEF Call, LocalsShape
<1>5. MadeByMakers'
  BY <1>2, <1>4, MakersSame DEF Call, Making, memory
<1>6. CallOK(k)'
  <2>1. call'[k] \in Calls
    BY <1>4 DEF Calls
  <2> QED
    BY <1>4, <2>1, CallFacts DEF CallOK, Making, Configuring
<1> QED
  BY <1>2, <1>3, <1>5, <1>6, StepKeeps

LEMMA FoundTypes ==
  ASSUME StepsInv, NEW k \in Callers, CreateTopology(k) \/ FindChild(k)
  PROVE  StepsInv'
<1>1. LocalsShape /\ MemoryOK /\ CallOK(k) /\ pc[k] = "create"
  BY DEF StepsInv, CreateTopology, FindChild, At
<1>2. MemoryOK' /\ Grows
  <2>1. /\ topologyMade' = TRUE
        /\ UNCHANGED <<alive, made, inMap, observers, topologyData, data, stateCache>>
    BY DEF CreateTopology, FindChild
  <2>2. \A r \in Children : made[r] \in Nat
    BY <1>1, ObjectFacts DEF MemoryOK
  <2> QED
    BY <1>1, <2>1, <2>2 DEF MemoryOK, Grows
<1>3. /\ LocalsShape' /\ CallOK(k)' /\ pc'[k] \notin Making
      /\ \A j \in Callers \ {k} : SameCall(j)
  <2>1. CASE CreateTopology(k)
    BY <1>1, <2>1, CreatedKeeps DEF CreateTopology
  <2>2. CASE FindChild(k)
    <3>1. Target(k) \in Children
      BY <1>1, <2>2, CallFacts, EventFacts, ResourceFacts DEF FindChild, CallOK, Target
    <3>2. inMap[Target(k)] \in 1..made[Target(k)] /\ made[Target(k)] \in 0..Cardinality(Callers)
      BY <1>1, <2>2, <3>1, ObjectFacts DEF FindChild, HasHandler, MemoryOK
    <3>3. /\ Handler(Target(k)) \in Objects
          /\ Handler(Target(k))[1] = Target(k)
          /\ Handler(Target(k))[2] <= made'[Target(k)]
      BY <2>2, <3>1, <3>2, ObjectFacts DEF Handler, FindChild
    <3> QED
      BY <1>1, <2>2, <3>1, <3>3, ResourceFacts, CreatedKeeps DEF FindChild
  <2> QED
    BY <2>1, <2>2
<1>4. MadeByMakers'
  BY <1>1, <1>3, MakersSame DEF CreateTopology, FindChild, Making
<1> QED
  BY <1>2, <1>3, <1>4, StepKeeps

(***************************************************************************)
(* A handler is made: as long as there is none in the map, every call that *)
(* made one is still on its way there, so that there are no more handlers  *)
(* of a child than callers.                                                *)
(***************************************************************************)
LEMMA MakeTypes ==
  ASSUME StepsInv, NEW k \in Callers, MakeChild(k)
  PROVE  StepsInv'
<1>0. PICK r : r = Target(k)
  OBVIOUS
<1>1. LocalsShape /\ MemoryOK /\ CallOK(k) /\ pc[k] = "create"
  BY DEF StepsInv, MakeChild, At
<1>2. r \in Children /\ inMap[r] = 0 /\ call[k] \in Calls
  BY <1>0, <1>1, CallFacts, EventFacts, ResourceFacts DEF MakeChild, CallOK, Target, HasHandler
<1>3. LocalsShape' /\ \A j \in Callers \ {k} : SameCall(j)
  BY <1>1 DEF MakeChild, Goto, LocalsShape, SameCall, Labels
<1>4. /\ pc'[k] = "register"
      /\ call'[k] = [event |-> call[k].event, object |-> <<r, made'[r]>>]
      /\ read'[k] = observers
  BY <1>0, <1>1, <1>2 DEF MakeChild, Goto, LocalsShape, Calls
<1>5. \A s \in Children : Makers(s)' = IF s = r THEN Makers(s) \cup {k} ELSE Makers(s)
  <2>1. \A j \in Callers \ {k}, s \in Children :
          (pc[j] \in Making /\ Target(j) = s)' <=> (pc[j] \in Making /\ Target(j) = s)
    BY <1>3 DEF SameCall, Target
  <2>2. pc'[k] \in Making /\ Target(k)' = r
    BY <1>0, <1>4 DEF Making, Target
  <2>3. pc[k] \notin Making
    BY <1>1 DEF Making
  <2> QED
    BY <2>1, <2>2, <2>3 DEF Makers
<1>6. /\ k \notin Makers(r)
      /\ \A s : /\ IsFiniteSet(Makers(s)) /\ Cardinality(Makers(s)) \in Nat
                /\ IsFiniteSet(Makers(s)') /\ Cardinality(Makers(s)') \in Nat
                /\ Cardinality(Makers(s)') <= Cardinality(Callers)
  <2>1. k \notin Makers(r)
    BY <1>1 DEF Makers, Making
  <2>2. \A s : Makers(s) \subseteq Callers /\ Makers(s)' \subseteq Callers
    BY DEF Makers
  <2> QED
    BY <2>1, <2>2, EventAssumption, FS_Subset, FS_CardinalityType
<1>7. Cardinality(Makers(r)') = Cardinality(Makers(r)) + 1
  <2>1. Makers(r)' = Makers(r) \cup {k}
    BY <1>2, <1>5
  <2> QED
    BY <1>6, <2>1, FS_AddElement
<1>8. made[r] \in Nat /\ made[r] <= Cardinality(Makers(r))
  BY <1>1, <1>2, ObjectFacts DEF StepsInv, MadeByMakers, MemoryOK
<1>9. /\ made'[r] = made[r] + 1
      /\ made'[r] \in 1..Cardinality(Callers)
      /\ \A s \in Children : s # r => made'[s] = made[s]
  BY <1>0, <1>1, <1>2, <1>6, <1>7, <1>8, ObjectFacts DEF MakeChild, MemoryOK
<1>10. made' \in [Children -> 0..Cardinality(Callers)]
  BY <1>1, <1>9 DEF MakeChild, MemoryOK
<1>11. \A s \in Children : made[s] <= made'[s] /\ inMap'[s] \in 0..made'[s]
  <2> TAKE s \in Children
  <2>1. made[s] \in Nat /\ inMap[s] \in 0..made[s] /\ inMap'[s] = inMap[s]
    BY <1>1, ObjectFacts DEF MakeChild, MemoryOK
  <2>2. made[s] <= made'[s] /\ made'[s] \in Nat
    BY <1>9, <2>1, ObjectFacts
  <2> QED
    BY <2>1, <2>2
<1>12. MemoryOK' /\ Grows
  BY <1>1, <1>10, <1>11 DEF MakeChild, MemoryOK, Grows
<1>13. MadeByMakers'
  <2> SUFFICES ASSUME NEW s \in Children, inMap[s] = 0
               PROVE  made'[s] <= Cardinality(Makers(s)')
    BY DEF MadeByMakers, MakeChild
  <2>1. CASE s = r
    <3>1. Cardinality(Makers(r)) \in Nat
      BY <1>6
    <3> QED
      BY <1>7, <1>8, <1>9, <2>1, <3>1
  <2>2. CASE s # r
    BY <1>5, <1>9, <2>2 DEF StepsInv, MadeByMakers
  <2> QED
    BY <2>1, <2>2
<1>14. CallOK(k)'
  <2>1. <<r, made'[r]>> \in Objects
    BY <1>2, <1>9, ObjectFacts
  <2>2. call'[k] \in Calls /\ Target(k)' = r /\ Own(k)' = <<r, made'[r]>>
    BY <1>0, <1>2, <1>4, <2>1 DEF Calls, Target, Own
  <2>3. OwnOK(k)'
    BY <1>2, <1>9, <2>1, <2>2, ResourceFacts, ObjectFacts DEF OwnOK
  <2>4. call'[k] # NoData
    BY <2>2, CallFacts
  <2> QED
    BY <1>1, <1>2, <1>4, <2>2, <2>3, <2>4 DEF CallOK, MemoryOK, Making, Configuring
<1> QED
  BY <1>3, <1>12, <1>13, <1>14, StepKeeps

LEMMA RegisterTypes ==
  ASSUME StepsInv, NEW k \in Callers, Register(k)
  PROVE  StepsInv'
<1>1. LocalsShape /\ MemoryOK /\ CallOK(k) /\ pc[k] = "register"
  BY DEF StepsInv, Register, At
<1>2. LocalsShape' /\ \A j \in Callers \ {k} : SameCall(j)
  BY <1>1 DEF Register, Goto, LocalsShape, SameCall, Labels
<1>3. pc'[k] = "insert" /\ call'[k] = call[k] /\ jobs'[k] = jobs[k] /\ made' = made
  BY <1>1 DEF Register, Goto, LocalsShape
<1>4. Target(k) \in Children /\ OwnOK(k) /\ Own(k) \in Objects
  BY <1>1, ResourceFacts DEF CallOK, Making, OwnOK
<1>5. observers' \subseteq Objects /\ IsFiniteSet(observers')
  <2>1. observers' = read[k] \cup {Own(k)} /\ read[k] \subseteq Objects /\ IsFiniteSet(read[k])
    BY <1>1 DEF Register, CallOK
  <2> QED
    BY <1>4, <2>1, FS_AddElement
<1>6. MemoryOK' /\ Grows
  BY <1>1, <1>5, ObjectFacts DEF Register, MemoryOK, Grows
<1>7. MadeByMakers'
  BY <1>1, <1>2, <1>3, MakersSame DEF Register, Making
<1>8. CallOK(k)'
  BY <1>1, <1>3, <1>4 DEF CallOK, Making, Configuring, OwnOK, Own, Target
<1> QED
  BY <1>2, <1>6, <1>7, <1>8, StepKeeps

LEMMA InsertTypes ==
  ASSUME StepsInv, NEW k \in Callers, Insert(k)
  PROVE  StepsInv'
<1>1. LocalsShape /\ MemoryOK /\ CallOK(k) /\ pc[k] = "insert"
  BY DEF StepsInv, Insert, At
<1>2. /\ Target(k) \in Children /\ Target(k) # Topology
      /\ Own(k) \in Objects /\ Own(k)[1] = Target(k)
      /\ Own(k)[2] \in 1..made[Target(k)]
  <2>1. Target(k) \in Children /\ OwnOK(k)
    BY <1>1 DEF CallOK, Making
  <2>2. made[Target(k)] \in Nat
    BY <1>1, <2>1, ObjectFacts DEF MemoryOK
  <2> QED
    BY <2>1, <2>2, ResourceFacts, ObjectFacts DEF OwnOK
<1>3. /\ LocalsShape' /\ CallOK(k)' /\ pc'[k] \notin Making
      /\ \A j \in Callers \ {k} : SameCall(j)
  BY <1>1, <1>2, CreatedKeeps DEF Insert
<1>4. \A r \in Children : /\ inMap'[r] \in 0..made[r]
                          /\ inMap'[r] = 0 => inMap[r] = 0 /\ r # Target(k)
  BY <1>1, <1>2 DEF Insert, MemoryOK
<1>5. MemoryOK' /\ Grows
  BY <1>1, <1>4, ObjectFacts DEF Insert, MemoryOK, Grows
<1>6. MadeByMakers'
  <2> SUFFICES ASSUME NEW r \in Children, inMap'[r] = 0
               PROVE  made'[r] <= Cardinality(Makers(r)')
    BY DEF MadeByMakers
  <2>1. inMap[r] = 0 /\ r # Target(k) /\ made' = made
    BY <1>4 DEF Insert
  <2>2. \A j \in Callers \ {k} :
          (pc[j] \in Making /\ Target(j) = r)' <=> (pc[j] \in Making /\ Target(j) = r)
    BY <1>3 DEF SameCall, Target
  <2>3. Makers(r)' = Makers(r)
    BY <1>3, <2>1, <2>2 DEF Makers
  <2> QED
    BY <2>1, <2>3 DEF StepsInv, MadeByMakers
<1> QED
  BY <1>3, <1>5, <1>6, StepKeeps

\* A call that configures, with the event it has.
LEMMA ConfiguringFacts ==
  ASSUME StepsInv, NEW k \in Callers, pc[k] \in Configuring
  PROVE  /\ call[k] \in Calls /\ Config(k) # NoData /\ OwnOK(k)
         /\ Target(k) = Topology => Config(k) \in TopologyConfig /\ Own(k) = Topology
         /\ Target(k) \in Nodes => Config(k) \in NodeConfig
         /\ Target(k) \in Links => Config(k) \in LinkConfig
         /\ Target(k) # Topology => /\ Target(k) \in Children /\ Own(k) \in Objects
                                    /\ Own(k)[1] = Target(k)
<1>1. call[k] \in Calls /\ Config(k) # NoData /\ OwnOK(k)
  BY DEF StepsInv, CallOK, Configuring
<1>2. call[k].event \in Events
  BY <1>1, CallFacts
<1> QED
  BY <1>1, <1>2, EventFacts, ResourceFacts DEF OwnOK, Target, Config

\* Data that is replaced by data of its kind.
LEMMA DataReplaced ==
  ASSUME MemoryOK, NEW o \in Objects, NEW d,
         d \in (IF o[1] \in Nodes THEN NodeData ELSE LinkData),
         data' = [data EXCEPT ![o] = d],
         UNCHANGED <<alive, topologyMade, made, inMap, observers, topologyData, stateCache>>
  PROVE  MemoryOK' /\ Grows /\ data'[o] # NoData
<1>1. d # NoData
  BY DataAssumption
<1>2. \A p \in Objects : data'[p] = IF p = o THEN d ELSE data[p]
  BY DEF MemoryOK
<1>3. DOMAIN data' = Objects
  BY DEF MemoryOK
<1>4. \A r \in Children : made[r] \in Nat
  BY ObjectFacts DEF MemoryOK
<1>5. MemoryOK'
  BY <1>2, <1>3 DEF MemoryOK
<1> QED
  BY <1>1, <1>2, <1>4, <1>5 DEF Grows

LEMMA TopologyReplaced ==
  ASSUME MemoryOK, topologyData' \in TopologyData,
         UNCHANGED <<alive, topologyMade, made, inMap, observers, data, stateCache>>
  PROVE  MemoryOK' /\ Grows /\ topologyData' # NoData
<1>1. topologyData' # NoData
  BY DataAssumption
<1>2. \A r \in Children : made[r] \in Nat
  BY ObjectFacts DEF MemoryOK
<1> QED
  BY <1>1, <1>2 DEF MemoryOK, Grows

LEMMA CopyTypes ==
  ASSUME StepsInv, NEW k \in Callers, CopyConfig(k)
  PROVE  StepsInv'
<1>1. LocalsShape /\ MemoryOK /\ CallOK(k) /\ pc[k] = "copy" /\ pc[k] \in Configuring
  BY DEF StepsInv, CopyConfig, At, Configuring
<1>2. LocalsShape' /\ \A j \in Callers \ {k} : SameCall(j)
  BY <1>1 DEF CopyConfig, Goto, LocalsShape, SameCall, Labels
<1>3. /\ pc'[k] = IF Target(k) = Topology THEN "status" ELSE "parent"
      /\ call'[k] = call[k] /\ jobs'[k] = jobs[k] /\ made' = made
  BY <1>1 DEF CopyConfig, Goto, LocalsShape
<1>4. /\ MemoryOK' /\ Grows
      /\ Target(k) = Topology => topologyData' # NoData
      /\ Target(k) # Topology => data'[Own(k)] # NoData
  <2>1. CASE Target(k) = Topology
    <3>1. topologyData' \in TopologyData
      BY <1>1, <2>1, ConfiguringFacts, CopyType DEF CopyConfig
    <3> QED
      BY <1>1, <2>1, <3>1, TopologyReplaced DEF CopyConfig
  <2>2. CASE Target(k) # Topology
    <3> DEFINE d == IF Target(k) \in Nodes THEN CopyNode(Config(k)) ELSE CopyLink(Config(k))
    <3>1. /\ Own(k) \in Objects
          /\ d \in (IF Own(k)[1] \in Nodes THEN NodeData ELSE LinkData)
      BY <1>1, <2>2, ConfiguringFacts, CopyType, ResourceFacts
    <3>2. data' = [data EXCEPT ![Own(k)] = d]
      BY <2>2 DEF CopyConfig
    <3> HIDE DEF d
    <3> QED
      BY <1>1, <2>2, <3>1, <3>2, DataReplaced DEF CopyConfig
  <2> QED
    BY <2>1, <2>2
<1>5. MadeByMakers'
  BY <1>1, <1>2, <1>3, MakersSame DEF CopyConfig, Making
<1>6. CallOK(k)'
  <2>1. OwnOK(k)' /\ Config(k)' # NoData /\ call'[k] \in Calls /\ call'[k] # NoData
    BY <1>1, <1>3, ConfiguringFacts, CallFacts DEF OwnOK, Own, Target, Config
  <2>2. Target(k)' = Target(k) /\ Own(k)' = Own(k)
    BY <1>3 DEF Target, Own
  <2>3. Target(k) # Topology => Target(k) \in Children
    BY <1>1, ConfiguringFacts
  <2> QED
    BY <1>3, <1>4, <2>1, <2>2, <2>3 DEF CallOK, Making
<1> QED
  BY <1>2, <1>4, <1>5, <1>6, StepKeeps

LEMMA ReadParentTypes ==
  ASSUME StepsInv, NEW k \in Callers, ReadParent(k)
  PROVE  StepsInv'
<1>1. LocalsShape /\ MemoryOK /\ CallOK(k) /\ pc[k] = "parent"
  BY DEF StepsInv, ReadParent, At
<1>2. LocalsShape' /\ \A j \in Callers \ {k} : SameCall(j)
  BY <1>1 DEF ReadParent, Goto, LocalsShape, SameCall, Labels
<1>3. /\ pc'[k] = "status" /\ call'[k] = call[k] /\ jobs'[k] = jobs[k]
      /\ read'[k] = topologyData.status /\ made' = made /\ inMap' = inMap
  BY <1>1 DEF ReadParent, Goto, LocalsShape, memory
<1>4. topologyData \in TopologyData /\ topologyData.status \in Status
  BY <1>1 DEF ReadParent, MemoryOK, TopologyData
<1>5. MemoryOK' /\ Grows
  BY <1>1, ObjectFacts DEF ReadParent, memory, MemoryOK, Grows
<1>6. MadeByMakers'
  BY <1>1, <1>2, <1>3, MakersSame DEF Making
<1>7. CallOK(k)'
  BY <1>1, <1>3, <1>4 DEF CallOK, Making, Configuring, ReadParent, memory, OwnOK, Own,
     Target, Config
<1> QED
  BY <1>2, <1>5, <1>6, <1>7, StepKeeps

\* A list of jobs for the handlers there are is one a call may start.
LEMMA StartKeeps ==
  ASSUME StepsInv, NEW k \in Callers, NEW list, Start(k, list), NEW S,
         list \in Seq(S), list # <<>>, \A job \in S : JobOK(job)',
         pc[k] \in {"status", "parse"}, Grows, MemoryOK'
  PROVE  /\ LocalsShape' /\ CallOK(k)' /\ pc'[k] \notin Making
         /\ \A j \in Callers \ {k} : SameCall(j)
<1>1. LocalsShape /\ CallOK(k) /\ pc[k] \in Configuring
  BY DEF StepsInv, Configuring
<1>2. LocalsShape' /\ \A j \in Callers \ {k} : SameCall(j)
  BY <1>1 DEF Start, Goto, LocalsShape, SameCall, Labels
<1>3. pc'[k] = "work" /\ call'[k] = call[k] /\ jobs'[k] = list
  BY <1>1 DEF Start, Goto, LocalsShape
<1>4. OwnOK(k)'
  <2>1. OwnOK(k)
    BY <1>1 DEF CallOK
  <2>2. Target(k) # Topology => Target(k) \in Children /\ Own(k) \in Objects
    BY <1>1, ConfiguringFacts
  <2>3. Target(k) # Topology =>
          made[Target(k)] \in Nat /\ made'[Target(k)] \in Nat /\ Own(k)[2] \in Nat
          /\ made[Target(k)] <= made'[Target(k)]
    BY <2>2, ObjectFacts DEF StepsInv, MemoryOK, Grows
  <2> QED
    BY <1>3, <2>1, <2>2, <2>3 DEF OwnOK, Own, Target
<1>5. /\ Config(k)' # NoData /\ call'[k] \in Calls /\ call'[k] # NoData
  BY <1>1, <1>3, ConfiguringFacts, CallFacts DEF Config
<1> QED
  BY <1>2, <1>3, <1>4, <1>5 DEF CallOK, Making

\* What every configuration ends with: the handler writes itself, twice.
LEMMA ReportsType ==
  ASSUME NEW o
  PROVE  Reports(o) \in Seq({Report(o)}) /\ Len(Reports(o)) = 2
BY DEF Reports

LEMMA ReportOK ==
  ASSUME NEW o, o \in Objects \/ (o = Topology /\ topologyData' # NoData)
  PROVE  JobOK(Report(o))'
BY ObjectFacts DEF JobOK, Report

LEMMA TopologyStatusTypes ==
  ASSUME StepsInv, NEW k \in Callers, TopologyStatus(k)
  PROVE  StepsInv'
<1>1. LocalsShape /\ MemoryOK /\ CallOK(k) /\ pc[k] = "status" /\ Target(k) = Topology
  BY DEF StepsInv, TopologyStatus, At
<1>2. topologyData \in TopologyData
  BY <1>1 DEF CallOK, MemoryOK
<1>3. topologyData' \in TopologyData
  BY <1>2, TopologyStatusType DEF TopologyStatus
<1>4. MemoryOK' /\ Grows /\ topologyData' # NoData
  BY <1>1, <1>3, TopologyReplaced DEF TopologyStatus
<1>5. PICK told, list :
        /\ told \in {{}, observers}
        /\ list \in SetToSeqs(told)
        /\ Start(k, [i \in DOMAIN list |-> Notify(list[i])] \o Reports(Topology))
  BY DEF TopologyStatus
<1> DEFINE S == {Notify(o) : o \in Objects} \cup {Report(Topology)}
           calls == [i \in DOMAIN list |-> Notify(list[i])]
<1>6. calls \in Seq(S)
  <2>1. IsFiniteSet(told) /\ told \subseteq Objects
    BY <1>1, <1>5, FS_EmptySet DEF MemoryOK
  <2>2. Cardinality(told) \in Nat
    BY <2>1, FS_CardinalityType
  <2>3. list \in [1..Cardinality(told) -> told]
    BY <1>5 DEF SetToSeqs
  <2>4. calls \in [1..Cardinality(told) -> S]
    BY <2>1, <2>3
  <2> QED
    BY <2>2, <2>4
<1>7. Reports(Topology) \in Seq(S) /\ Len(Reports(Topology)) = 2
  BY ReportsType DEF Reports
<1> HIDE DEF calls, S
<1>8. calls \o Reports(Topology) \in Seq(S) /\ calls \o Reports(Topology) # <<>>
  BY <1>6, <1>7
<1>9. \A job \in S : JobOK(job)'
  BY <1>4, ObjectFacts DEF S, JobOK, Notify, Report
<1>10. /\ LocalsShape' /\ CallOK(k)' /\ pc'[k] \notin Making
       /\ \A j \in Callers \ {k} : SameCall(j)
  BY <1>1, <1>4, <1>5, <1>8, <1>9, StartKeeps DEF calls
<1>11. MadeByMakers'
  BY <1>1, <1>10, MakersSame DEF TopologyStatus, Making
<1> QED
  BY <1>4, <1>10, <1>11, StepKeeps

LEMMA NodeStatusTypes ==
  ASSUME StepsInv, NEW k \in Callers, NodeStatus(k)
  PROVE  StepsInv'
<1>1. LocalsShape /\ MemoryOK /\ CallOK(k) /\ pc[k] = "status" /\ Target(k) \in Nodes
  BY DEF StepsInv, NodeStatus, At
<1>2. /\ Target(k) # Topology /\ Own(k) \in Objects /\ Own(k)[1] \in Nodes
  BY <1>1, ConfiguringFacts, ResourceFacts DEF Configuring
<1>3. /\ data[Own(k)] \in NodeData /\ topologyData \in TopologyData /\ read[k] \in Status
  BY <1>1, <1>2 DEF CallOK, MemoryOK
<1>4. SetPlatform(HandleStatus(data[Own(k)], read[k]), topologyData) \in NodeData
  BY <1>3, NodeStatusType, PlatformType
<1>5. MemoryOK' /\ Grows
  BY <1>1, <1>2, <1>4, DataReplaced DEF NodeStatus
<1>6. /\ LocalsShape' /\ CallOK(k)' /\ pc'[k] \notin Making
      /\ \A j \in Callers \ {k} : SameCall(j)
  <2>1. PICK o : o = Own(k)
    OBVIOUS
  <2>2. \A job \in {Report(o)} : JobOK(job)'
    BY <1>2, <2>1, ReportOK
  <2>3. Reports(o) \in Seq({Report(o)}) /\ Reports(o) # <<>>
    BY ReportsType
  <2>4. Start(k, Reports(o))
    BY <2>1 DEF NodeStatus
  <2> QED
    BY <1>1, <1>5, <2>2, <2>3, <2>4, StartKeeps
<1>7. MadeByMakers'
  BY <1>1, <1>6, MakersSame DEF NodeStatus, Making
<1> QED
  BY <1>5, <1>6, <1>7, StepKeeps

LEMMA LinkStatusTypes ==
  ASSUME StepsInv, NEW k \in Callers, LinkStatus(k)
  PROVE  StepsInv'
<1>1. LocalsShape /\ MemoryOK /\ CallOK(k) /\ pc[k] = "status" /\ Target(k) \in Links
  BY DEF StepsInv, LinkStatus, At
<1>2. Target(k) # Topology /\ Own(k) \in Objects /\ Own(k)[1] \notin Nodes
  BY <1>1, ConfiguringFacts, ResourceFacts DEF Configuring
<1>3. data[Own(k)] \in LinkData /\ read[k] \in Status
  BY <1>1, <1>2 DEF CallOK, MemoryOK
<1>4. HandleLinkStatus(data[Own(k)], read[k]) \in LinkData
  BY <1>3, LinkStatusType DEF HandleLinkStatus
<1>5. MemoryOK' /\ Grows /\ data'[Own(k)] # NoData
  BY <1>1, <1>2, <1>4, DataReplaced DEF LinkStatus
<1>6. LocalsShape' /\ \A j \in Callers \ {k} : SameCall(j)
  BY <1>1 DEF LinkStatus, Goto, LocalsShape, SameCall, Labels
<1>7. /\ pc'[k] = "parse" /\ call'[k] = call[k] /\ jobs'[k] = jobs[k] /\ read'[k] = read[k]
      /\ made' = made /\ topologyData' = topologyData
  BY <1>1 DEF LinkStatus, Goto, LocalsShape
<1>8. MadeByMakers'
  BY <1>1, <1>6, <1>7, MakersSame DEF LinkStatus, Making
<1>9. CallOK(k)'
  BY <1>1, <1>5, <1>7, ConfiguringFacts DEF CallOK, Making, Configuring, OwnOK, Own, Target,
     Config
<1> QED
  BY <1>5, <1>6, <1>8, <1>9, StepKeeps

\* What is set on the nodes of a link that are there is an endpoint of theirs.
LEMMA EndpointJobsType ==
  ASSUME MemoryOK, NEW d \in LinkData, Len(d.endpoints) >= 2, ~NodeMissing(d)
  PROVE  \E S : EndpointJobs(d) \in Seq(S) /\ \A job \in S : JobOK(job)
<1> DEFINE On(i, e) == SetOn(Handler(d.endpoints[i].node), e)
           S == {SetOn(o, e) : o \in {p \in Objects : p[1] \in Nodes}, e \in Endpoint}
<1>1. d.endpoints \in Seq(LinkEndpoint) /\ 1 \in DOMAIN d.endpoints /\ 2 \in DOMAIN d.endpoints
  BY DEF LinkData
<1>2. ASSUME NEW i \in {1, 2}
      PROVE  /\ d.endpoints[i] \in LinkEndpoint
             /\ Handler(d.endpoints[i].node) \in {p \in Objects : p[1] \in Nodes}
  <2>1. d.endpoints[i] \in LinkEndpoint /\ d.endpoints[i] \in Ends(d)
    BY <1>1 DEF Ends
  <2>2. d.endpoints[i].node \in Nodes /\ HasHandler(d.endpoints[i].node)
    BY <2>1 DEF LinkEndpoint, NodeMissing
  <2>3. /\ inMap[d.endpoints[i].node] \in 1..made[d.endpoints[i].node]
        /\ made[d.endpoints[i].node] \in 0..Cardinality(Callers)
    BY <2>2, ResourceFacts, ObjectFacts DEF HasHandler, MemoryOK
  <2> QED
    BY <2>1, <2>2, <2>3, ResourceFacts, ObjectFacts DEF Handler
<1>3. \A i \in {1, 2}, e \in Endpoint : On(i, e) \in S
  BY <1>2
<1> HIDE DEF On, S
<1>4. \A i \in {1, 2} : /\ On(i, PlainLink(d.endpoints[i])) \in S
                        /\ On(i, LogicalLag(d.endpoints[i])) \in S
                        /\ On(i, LagSubLink(d.endpoints[i])) \in S
  BY <1>2, <1>3, EntryType
<1>5. EndpointJobs(d) =
        IF ~d.lag
        THEN <<On(1, PlainLink(d.endpoints[1])), On(2, PlainLink(d.endpoints[2]))>>
        ELSE (IF LagFound(d) THEN <<>>
              ELSE <<On(1, LogicalLag(d.endpoints[1])), On(2, LogicalLag(d.endpoints[2]))>>)
               \o <<On(1, LagSubLink(d.endpoints[1])), On(2, LagSubLink(d.endpoints[2]))>>
  BY DEF EndpointJobs, On
<1>6. EndpointJobs(d) \in Seq(S)
  BY <1>4, <1>5
<1>7. \A job \in S : JobOK(job)
  BY ObjectFacts DEF S, SetOn, JobOK
<1> QED
  BY <1>6, <1>7

LEMMA ParseTypes ==
  ASSUME StepsInv, NEW k \in Callers, ParseLink(k)
  PROVE  StepsInv'
<1>1. LocalsShape /\ MemoryOK /\ CallOK(k) /\ pc[k] = "parse" /\ Target(k) \in Links
  BY DEF StepsInv, ParseLink, At, CallOK
<1>2. Target(k) # Topology /\ Own(k) \in Objects /\ Own(k)[1] \notin Nodes
  BY <1>1, ConfiguringFacts, ResourceFacts DEF Configuring
<1>3. PICK d : d = data[Own(k)]
  OBVIOUS
<1>4. d \in LinkData /\ Len(d.endpoints) >= 2 /\ ~NodeMissing(d)
  BY <1>1, <1>2, <1>3 DEF CallOK, MemoryOK, ParseLink
<1>5. PICK S : EndpointJobs(d) \in Seq(S) /\ \A job \in S : JobOK(job)
  BY <1>1, <1>4, EndpointJobsType
<1>6. PICK list, o : /\ list = EndpointJobs(d) /\ o = Own(k)
                     /\ Start(k, list \o Reports(o))
  BY <1>3 DEF ParseLink
<1>7. MemoryOK' /\ Grows
  BY <1>1, ObjectFacts DEF ParseLink, memory, MemoryOK, Grows
<1>8. \A job \in S \cup {Report(o)} : JobOK(job)'
  <2>1. ASSUME NEW job, JobOK(job) PROVE JobOK(job)'
    BY <2>1, <1>7 DEF JobOK, Grows
  <2> QED
    BY <1>2, <1>5, <1>6, <2>1, ReportOK
<1>9. list \o Reports(o) \in Seq(S \cup {Report(o)}) /\ list \o Reports(o) # <<>>
  <2> DEFINE T == S \cup {Report(o)}
  <2>1. list \in Seq(T)
    BY <1>5, <1>6
  <2>2. Reports(o) \in Seq(T) /\ Len(Reports(o)) = 2
    BY DEF Reports
  <2> HIDE DEF T
  <2>3. list \o Reports(o) \in Seq(T) /\ list \o Reports(o) # <<>>
    BY <2>1, <2>2
  <2> QED
    BY <2>3 DEF T
<1>10. /\ LocalsShape' /\ CallOK(k)' /\ pc'[k] \notin Making
       /\ \A j \in Callers \ {k} : SameCall(j)
  BY <1>1, <1>6, <1>7, <1>8, <1>9, StartKeeps
<1>11. MadeByMakers'
  BY <1>1, <1>10, MakersSame DEF ParseLink, memory, Making
<1> QED
  BY <1>7, <1>10, <1>11, StepKeeps

LEMMA RefusedTypes ==
  ASSUME StepsInv, NEW k \in Callers, ParseRefused(k)
  PROVE  StepsInv'
<1>1. LocalsShape /\ MemoryOK /\ CallOK(k) /\ pc[k] = "parse" /\ Target(k) \in Links
  BY DEF StepsInv, ParseRefused, At, CallOK
<1>2. Target(k) # Topology /\ Own(k) \in Objects /\ Own(k)[1] \notin Nodes
  BY <1>1, ConfiguringFacts, ResourceFacts DEF Configuring
<1>3. data[Own(k)] \in LinkData
  BY <1>1, <1>2 DEF CallOK, MemoryOK
<1>4. SetStatus(data[Own(k)], "down", "endpoint node not found") \in LinkData
  BY <1>3 DEF SetStatus, LinkData, Status, Reason
<1>5. MemoryOK' /\ Grows
  BY <1>1, <1>2, <1>4, DataReplaced DEF ParseRefused
<1>6. /\ LocalsShape' /\ CallOK(k)' /\ pc'[k] \notin Making
      /\ \A j \in Callers \ {k} : SameCall(j)
  BY <1>1, ReturnKeeps DEF ParseRefused
<1>7. MadeByMakers'
  BY <1>1, <1>6, MakersSame DEF ParseRefused, Making
<1> QED
  BY <1>5, <1>6, <1>7, StepKeeps

\* A call that works has a job to do.
LEMMA WorkingFacts ==
  ASSUME StepsInv, NEW k \in Callers, pc[k] \in {"work", "write"}
  PROVE  /\ JobOK(Job(k))
         /\ \E S : jobs[k] \in Seq(S) /\ jobs[k] # <<>> /\ \A job \in S : JobOK(job)
<1>1. PICK S : jobs[k] \in Seq(S) /\ jobs[k] # <<>> /\ \A job \in S : JobOK(job)
  BY DEF StepsInv, CallOK
<1>2. Head(jobs[k]) \in S
  BY <1>1
<1> QED
  BY <1>1, <1>2 DEF Job

LEMMA WorkTypes ==
  ASSUME StepsInv, NEW k \in Callers, Work(k)
  PROVE  StepsInv'
<1>1. LocalsShape /\ MemoryOK /\ CallOK(k) /\ pc[k] = "work"
  BY DEF StepsInv, Work, At
<1>2. PICK o, d : /\ o = Job(k).object /\ d = Changed(data[o], Job(k))
                  /\ data' = [data EXCEPT ![o] = d]
                  /\ read' = [read EXCEPT ![k] = IF o[1] \in Nodes THEN NodeState(d)
                                                                    ELSE LinkState(d)]
                  /\ o # Topology /\ data[o] # NoData
  BY DEF Work
<1>3. JobOK(Job(k)) /\ o \in Objects
  BY <1>1, <1>2, WorkingFacts DEF JobOK
<1>4. d \in IF o[1] \in Nodes THEN NodeData ELSE LinkData
  <2>1. data[o] \in IF o[1] \in Nodes THEN NodeData ELSE LinkData
    BY <1>1, <1>2, <1>3 DEF MemoryOK
  <2>2. CASE Job(k).by = "status"
    <3>1. topologyData.status \in Status
      BY <1>1, <1>3, <2>2 DEF JobOK, MemoryOK, TopologyData
    <3> QED
      BY <1>2, <2>1, <2>2, <3>1, NodeStatusType, LinkStatusType DEF Changed
  <2>3. CASE Job(k).by = "endpoint"
    BY <1>2, <1>3, <2>1, <2>3, SetEndpointType DEF Changed, JobOK
  <2>4. CASE Job(k).by = "nothing"
    BY <1>2, <2>1, <2>4 DEF Changed
  <2> QED
    BY <1>3, <2>2, <2>3, <2>4 DEF JobOK
<1>5. MemoryOK' /\ Grows
  BY <1>1, <1>2, <1>3, <1>4, DataReplaced DEF Work
<1>6. LocalsShape' /\ \A j \in Callers \ {k} : SameCall(j)
  BY <1>1 DEF Work, Goto, LocalsShape, SameCall, Labels
<1>7. /\ pc'[k] = "write" /\ call'[k] = call[k] /\ jobs'[k] = jobs[k] /\ made' = made
      /\ topologyData' = topologyData
  BY <1>1 DEF Work, Goto, LocalsShape
<1>8. read'[k] \in StateLeaves
  BY <1>1, <1>2, <1>4, StateType DEF LocalsShape
<1>9. MadeByMakers'
  BY <1>1, <1>6, <1>7, MakersSame DEF Work, Making
<1>10. CallOK(k)'
  BY <1>1, <1>7, <1>8, ConfiguringFacts DEF CallOK, Making, Configuring, OwnOK, Own, Target,
     Config, JobOK
<1> QED
  BY <1>5, <1>6, <1>9, <1>10, StepKeeps

LEMMA WorkTopologyTypes ==
  ASSUME StepsInv, NEW k \in Callers, WorkTopology(k)
  PROVE  StepsInv'
<1>1. LocalsShape /\ MemoryOK /\ CallOK(k) /\ pc[k] = "work"
  BY DEF StepsInv, WorkTopology, At
<1>2. MemoryOK' /\ Grows
  BY <1>1, ObjectFacts DEF WorkTopology, memory, MemoryOK, Grows
<1>3. LocalsShape' /\ \A j \in Callers \ {k} : SameCall(j)
  BY <1>1 DEF WorkTopology, Goto, LocalsShape, SameCall, Labels
<1>4. /\ pc'[k] = "write" /\ call'[k] = call[k] /\ jobs'[k] = jobs[k] /\ made' = made
      /\ topologyData' = topologyData
  BY <1>1 DEF WorkTopology, Goto, LocalsShape, memory
<1>5. read'[k] \in StateLeaves
  <2>1. topologyData \in TopologyData
    BY <1>1, WorkingFacts DEF WorkTopology, JobOK, MemoryOK
  <2> QED
    BY <1>1, <2>1, StateType DEF WorkTopology, LocalsShape
<1>6. MadeByMakers'
  BY <1>1, <1>3, <1>4, MakersSame DEF WorkTopology, memory, Making
<1>7. CallOK(k)'
  BY <1>1, <1>4, <1>5, ConfiguringFacts DEF CallOK, Making, Configuring, OwnOK, Own, Target,
     Config, JobOK
<1> QED
  BY <1>2, <1>3, <1>6, <1>7, StepKeeps

\* Another job is left unless it was the last.
LEMMA TailOfMore ==
  ASSUME NEW S, NEW q \in Seq(S), q # <<>>, Len(q) # 1
  PROVE  Tail(q) \in Seq(S) /\ Tail(q) # <<>> /\ Len(Tail(q)) = Len(q) - 1
<1>1. Len(q) \in Nat /\ Len(q) # 0
  BY EmptySeq
<1>2. Tail(q) \in Seq(S) /\ Len(Tail(q)) = Len(q) - 1
  BY HeadTailProperties
<1>3. Len(Tail(q)) # 0
  BY <1>1, <1>2
<1> QED
  BY <1>2, <1>3, EmptySeq

LEMMA WriteTypes ==
  ASSUME StepsInv, NEW k \in Callers, WriteState(k)
  PROVE  StepsInv'
<1>1. LocalsShape /\ MemoryOK /\ CallOK(k) /\ pc[k] = "write"
  BY DEF StepsInv, WriteState, At
<1>2. PICK r, kids :
        stateCache' =
          [s \in Resources |->
             IF s = r THEN MergeState(stateCache[r], read[k])
             ELSE IF s \in kids /\ stateCache[s] = NoData THEN EmptyState
             ELSE stateCache[s]]
  BY DEF WriteState
<1>3. read[k] \in StateLeaves
  BY <1>1 DEF CallOK
<1>4. stateCache' \in [Resources -> StateLeaves \cup {NoData}]
  <2> SUFFICES ASSUME NEW s \in Resources
               PROVE  stateCache'[s] \in StateLeaves \cup {NoData}
    BY <1>2
  <2>1. stateCache[s] \in StateLeaves \cup {NoData}
    BY <1>1 DEF MemoryOK
  <2> QED
    BY <1>2, <1>3, <2>1, MergeType, StateType
<1>5. MemoryOK' /\ Grows
  <2>1. UNCHANGED <<alive, topologyMade, made, inMap, observers, topologyData, data>>
    BY DEF WriteState
  <2>2. \A s \in Children : made[s] \in Nat
    BY <1>1, ObjectFacts DEF MemoryOK
  <2> QED
    BY <1>1, <1>4, <2>1, <2>2 DEF MemoryOK, Grows
<1>6. /\ LocalsShape' /\ CallOK(k)' /\ pc'[k] \notin Making
      /\ \A j \in Callers \ {k} : SameCall(j)
  <2>1. CASE Return(k)
    BY <2>1, ReturnKeeps
  <2>2. CASE /\ Len(jobs[k]) # 1
             /\ jobs' = [jobs EXCEPT ![k] = Tail(@)]
             /\ read' = [read EXCEPT ![k] = NoData]
             /\ Goto(k, "work")
             /\ UNCHANGED <<call, ghost>>
    <3>1. LocalsShape' /\ \A j \in Callers \ {k} : SameCall(j)
      BY <1>1, <2>2 DEF Goto, LocalsShape, SameCall, Labels
    <3>2. pc'[k] = "work" /\ call'[k] = call[k] /\ jobs'[k] = Tail(jobs[k])
      BY <1>1, <2>2 DEF Goto, LocalsShape
    <3>3. \E S : jobs'[k] \in Seq(S) /\ jobs'[k] # <<>> /\ \A job \in S : JobOK(job)'
      <4>1. PICK S : jobs[k] \in Seq(S) /\ jobs[k] # <<>> /\ \A job \in S : JobOK(job)
        BY <1>1, WorkingFacts
      <4>2. Tail(jobs[k]) \in Seq(S) /\ Tail(jobs[k]) # <<>>
        BY <2>2, <4>1, TailOfMore
      <4>3. \A job \in S : JobOK(job)'
        BY <4>1, <1>5 DEF JobOK, Grows
      <4> QED
        BY <3>2, <4>2, <4>3
    <3>4. OwnOK(k)' /\ Config(k)' # NoData /\ call'[k] \in Calls /\ call'[k] # NoData
      BY <1>1, <3>2, ConfiguringFacts, CallFacts DEF WriteState, Configuring, OwnOK, Own, Target,
         Config
    <3> QED
      BY <3>1, <3>2, <3>3, <3>4 DEF CallOK, Making
  <2> QED
    BY <2>1, <2>2 DEF WriteState, Done
<1>7. MadeByMakers'
  BY <1>1, <1>6, MakersSame DEF WriteState, Making
<1> QED
  BY <1>5, <1>6, <1>7, StepKeeps

LEMMA DeleteTypes ==
  ASSUME StepsInv, NEW k \in Callers, DeleteState(k)
  PROVE  StepsInv'
<1>1. LocalsShape /\ MemoryOK /\ CallOK(k) /\ pc[k] = "delete"
  BY DEF StepsInv, DeleteState, At
<1>2. MemoryOK' /\ Grows
  <2>1. UNCHANGED <<alive, made, inMap, observers, topologyData, data>>
    BY DEF DeleteState
  <2>2. \A s \in Children : made[s] \in Nat
    BY <1>1, ObjectFacts DEF MemoryOK
  <2>3. topologyMade' \in BOOLEAN
    BY <1>1 DEF DeleteState, MemoryOK
  <2>4. stateCache' \in [Resources -> StateLeaves \cup {NoData}]
    BY <1>1 DEF DeleteState, MemoryOK
  <2> QED
    BY <1>1, <2>1, <2>2, <2>3, <2>4 DEF MemoryOK, Grows
<1>3. /\ LocalsShape' /\ CallOK(k)' /\ pc'[k] \notin Making
      /\ \A j \in Callers \ {k} : SameCall(j)
  BY <1>1, ReturnKeeps DEF DeleteState
<1>4. MadeByMakers'
  BY <1>1, <1>3, MakersSame DEF DeleteState, Making
<1> QED
  BY <1>2, <1>3, <1>4, StepKeeps

\* A process that died is as one that starts.
LEMMA PanicTypes ==
  ASSUME StepsInv, NEW k \in Callers, Panic(k)
  PROVE  StepsInv'
<1>1. MemoryOK'
  <2>1. \A r \in Children : made'[r] \in 0..Cardinality(Callers) /\ inMap'[r] \in 0..made'[r]
    BY ObjectFacts DEF Panic
  <2>2. /\ made' \in [Children -> 0..Cardinality(Callers)] /\ DOMAIN inMap' = Children
        /\ DOMAIN data' = Objects /\ \A o \in Objects : data'[o] = NoData
        /\ stateCache' \in [Resources -> StateLeaves \cup {NoData}]
    BY <2>1 DEF Panic
  <2>3. observers' \subseteq Objects /\ IsFiniteSet(observers')
    BY FS_EmptySet DEF Panic
  <2> QED
    BY <2>1, <2>2, <2>3 DEF Panic, MemoryOK
<1>2. LocalsShape'
  BY DEF Panic, LocalsShape, Labels
<1>3. MadeByMakers'
  <2> SUFFICES ASSUME NEW r \in Children PROVE made'[r] <= Cardinality(Makers(r)')
    BY DEF MadeByMakers
  <2>1. Makers(r)' = {}
    BY DEF Panic, Makers, Making
  <2>2. Cardinality(Makers(r)') = 0
    BY <2>1, FS_EmptySet
  <2> QED
    BY <2>2 DEF Panic
<1>4. \A j \in Callers : CallOK(j)'
  BY DEF Panic, CallOK, Making, Configuring
<1> QED
  BY <1>1, <1>2, <1>3, <1>4 DEF StepsInv

LEMMA StepsStep == StepsInv /\ [Next]_vars => StepsInv'
<1> SUFFICES ASSUME StepsInv, [Next]_vars PROVE StepsInv'
  OBVIOUS
<1>1. ASSUME NEW k \in Callers, NEW e \in Events, Call(k, e) PROVE StepsInv'
  BY <1>1, CallTypes
<1>2. ASSUME NEW k \in Callers, Step(k) PROVE StepsInv'
  BY <1>2, FoundTypes, MakeTypes, RegisterTypes, InsertTypes, CopyTypes, ReadParentTypes,
     TopologyStatusTypes, NodeStatusTypes, LinkStatusTypes, ParseTypes, RefusedTypes,
     WorkTypes, WorkTopologyTypes, WriteTypes, DeleteTypes, PanicTypes DEF Step
<1>3. CASE Restart \/ UNCHANGED vars
  <2>1. UNCHANGED <<memory, locals>> /\ alive' \in BOOLEAN
    BY <1>3 DEF Restart, vars, StepsInv, MemoryOK
  <2>2. MemoryOK' /\ LocalsShape'
    BY <2>1 DEF memory, locals, StepsInv, MemoryOK, LocalsShape
  <2>3. MadeByMakers'
    <3>1. \A r : Makers(r)' = Makers(r)
      BY <2>1 DEF locals, Makers, Target
    <3> QED
      BY <2>1, <3>1 DEF memory, StepsInv, MadeByMakers
  <2>4. \A j \in Callers : CallOK(j)'
    <3> TAKE j \in Callers
    <3>1. SameCall(j) /\ Grows
      BY <2>1, ObjectFacts DEF memory, locals, SameCall, Grows, StepsInv, MemoryOK
    <3> QED
      BY <2>2, <3>1, OthersKept
  <2> QED
    BY <2>2, <2>3, <2>4 DEF StepsInv
<1> QED
  BY <1>1, <1>2, <1>3 DEF Next

LEMMA StepsInvariant == Spec => []StepsInv
BY StepsInitial, StepsStep, PTL DEF Spec

(***************************************************************************)
(* Whatever the calls of HandleConfigEvent do in between each other, the   *)
(* handlers, their data and the state cache keep their types, and a child  *)
(* gets no more handlers than there are callers (root.go, topology.go,     *)
(* node.go, link.go).                                                      *)
(***************************************************************************)
THEOREM StepsTypeCorrect == Spec => []StepsTypeOK
BY StepsInvariant, StepsInvTypes, PTL

-----------------------------------------------------------------------------
(***************************************************************************)
(* Calls that work apart.                                                  *)
(*                                                                         *)
(* The invariant says of every call that runs how far it is: what memory   *)
(* holds of the resources it works on is what the call met there, as far   *)
(* changed as its program counter and the jobs it has left tell.  Calls    *)
(* that run work on different resources, so that a step of one leaves that *)
(* alone for all the others.  HandlerAtomicProofs has the steps that       *)
(* return.                                                                 *)
(***************************************************************************)
\* Calls that work apart make one handler of a child.
Obj(r) == <<r, 1>>

\* The data of a resource; that of a child without a handler is nil.
Held(r) == IF r = Topology THEN topologyData ELSE data[Obj(r)]

\* What a call works on, and what it met there.
Ground(k)    == ghost[k].footprint
Before(k, r) == ghost[k].before[r]

\* The nodes of the link that a call configures.
EndNodes(k) ==
  IF Target(k) \in Links /\ Config(k) # NoData THEN {le.node : le \in Ends(Config(k))} ELSE {}

\* The ghost of a call that runs: its footprint, and what memory showed of it then.
GhostOK(k) ==
  /\ Ground(k) =
       IF Target(k) = Topology THEN Resources
       ELSE {Target(k)} \cup (IF Before(k, Target(k)).made THEN {} ELSE {Topology})
                        \cup EndNodes(k)
  /\ \A r \in Resources :
       /\ Before(k, r).made \in BOOLEAN
       /\ Before(k, r).data \in (CASE r = Topology -> TopologyData
                                   [] r \in Nodes  -> NodeData
                                   [] r \in Links  -> LinkData) \cup {NoData}
       /\ Before(k, r).shown \in StateLeaves \cup {NoData}

\* Handlers: the topology's is made first, a child's when it is inserted.
MadeSoFar(k) ==
  /\ Topology \in Ground(k) =>
       (topologyMade <=> Before(k, Topology).made \/ pc[k] \notin {"create", "delete"})
  /\ \A r \in Ground(k) \cap Children :
       HasHandler(r) <=> Before(k, r).made \/ (r = Target(k) /\ pc[k] \in Configuring)
  /\ pc[k] \in Making => made[Target(k)] = 1 /\ ~Before(k, Target(k)).made
  /\ pc[k] = "register" => read[k] = observers

DataKept(k, S)  == \A r \in S : Held(r) = Before(k, r).data
ShownKept(k, S) == \A r \in S : stateCache[r] = Before(k, r).shown

-----------------------------------------------------------------------------
\* Up to the first job: the data of the handler, and nothing else, changes.
NodeCopied(k) ==
  SetPlatform(HandleStatus(CopyNode(Config(k)), topologyData.status), topologyData)
LinkCopied(k) == HandleLinkStatus(CopyLink(Config(k)), topologyData.status)

\* What the call makes of the configuration of its resource, and sets in the handler.
Copied(k) ==
  CASE Target(k) = Topology -> CopyTopology(Config(k))
    [] Target(k) \in Nodes  -> CopyNode(Config(k))
    [] Target(k) \in Links  -> CopyLink(Config(k))

\* Before it sets observers and nodes, a call has changed at most its own resource.
Preparing(k) ==
  /\ ShownKept(k, Ground(k))
  /\ DataKept(k, Ground(k) \ {Target(k)})
  /\ pc[k] \in {"create", "delete", "register", "insert", "copy"} =>
       Held(Target(k)) = Before(k, Target(k)).data
  /\ pc[k] \in {"parent", "status"} => Held(Target(k)) = Copied(k)
  /\ pc[k] = "status" /\ Target(k) # Topology => read[k] = topologyData.status
  /\ pc[k] = "parse" => Held(Target(k)) = LinkCopied(k)

\* A node writes itself twice.
NodeWorks(k) ==
  LET r == Target(k)
  IN  /\ DataKept(k, Ground(k) \ {r}) /\ ShownKept(k, Ground(k) \ {r})
      /\ topologyData # NoData
      /\ Held(r) = NodeCopied(k)
      /\ jobs[k] \in {<<Report(Obj(r)), Report(Obj(r))>>, <<Report(Obj(r))>>}
      /\ stateCache[r] = IF Len(jobs[k]) = 2 THEN Before(k, r).shown
                         ELSE MergeState(Before(k, r).shown, NodeState(NodeCopied(k)))
      /\ pc[k] = "write" => read[k] = NodeState(NodeCopied(k))

-----------------------------------------------------------------------------
\* A topology calls back the observers, each once, and then writes itself.
Pending(k, r) == \E i \in DOMAIN jobs[k] : jobs[k][i] = Notify(Obj(r))

\* The observers that were called back, and those that were written since.
Told(k, r) ==
  /\ topologyData.status # Nil
  /\ Before(k, r).made
  /\ Pending(k, r) => pc[k] = "write" /\ jobs[k][1] = Notify(Obj(r))
Written(k, r) == topologyData.status # Nil /\ Before(k, r).made /\ ~Pending(k, r)

\* What GnmiUpdate of a child writes.
ChildState(r, d) == IF r \in Nodes THEN NodeState(d) ELSE LinkState(d)

\* A topology notifies every observer once, and then writes itself twice.
TopologyJobs(k) ==
  /\ Len(jobs[k]) \in Nat \ {0}
  /\ DOMAIN jobs[k] = 1..Len(jobs[k])
  /\ \A i \in DOMAIN jobs[k] :
       IF i > Len(jobs[k]) - 2 THEN jobs[k][i] = Report(Topology)
       ELSE \E r \in Children : /\ jobs[k][i] = Notify(Obj(r))
                                /\ Before(k, r).made
  /\ \A i, j \in DOMAIN jobs[k] :
       i # j /\ jobs[k][i] = jobs[k][j] => jobs[k][i] = Report(Topology)
  /\ topologyData.status = Nil => Len(jobs[k]) <= 2

\* A child that was told has taken the status; one that was written shows it.
ChildWorks(k, r) ==
  /\ Told(k, r) => Before(k, r).data # NoData
  /\ Held(r) = IF Told(k, r) THEN HandleStatus(Before(k, r).data, topologyData.status)
               ELSE Before(k, r).data
  /\ stateCache[r] =
       IF Written(k, r) THEN MergeState(Before(k, r).shown, ChildState(r, Held(r)))
       ELSE IF Len(jobs[k]) = 1 /\ r \in call[k].event.kids /\ Before(k, r).shown = NoData
            THEN EmptyState
       ELSE Before(k, r).shown
  /\ pc[k] = "write" /\ jobs[k][1] = Notify(Obj(r)) => read[k] = ChildState(r, Held(r))

\* The topology is shown once its first report is written.
ReportWorks(k) ==
  /\ stateCache[Topology] =
       IF Len(jobs[k]) = 1
       THEN MergeState(Before(k, Topology).shown, TopologyState(topologyData))
       ELSE Before(k, Topology).shown
  /\ pc[k] = "write" /\ jobs[k][1] = Report(Topology) => read[k] = TopologyState(topologyData)

TopologyWorks(k) ==
  /\ topologyData = HandleTopologyStatus(CopyTopology(Config(k)))
  /\ TopologyJobs(k)
  /\ \A r \in Children : ChildWorks(k, r)
  /\ ReportWorks(k)

-----------------------------------------------------------------------------
\* A link sets endpoints on its nodes, at most four, and writes itself twice.
End(k, i) == Config(k).endpoints[i]

SetEnd(k, i, e) == SetOn(Obj(End(k, i).node), e)

BothFound(k) ==
  /\ HasEndpoint(Before(k, End(k, 1).node).data, End(k, 1).lagName)
  /\ HasEndpoint(Before(k, End(k, 2).node).data, End(k, 2).lagName)

OwnReport(k) == Report(Obj(Target(k)))

LinkJobs(k) ==
  IF ~Config(k).lag
  THEN <<SetEnd(k, 1, PlainLink(End(k, 1))), SetEnd(k, 2, PlainLink(End(k, 2))),
         OwnReport(k), OwnReport(k)>>
  ELSE IF BothFound(k)
  THEN <<SetEnd(k, 1, LagSubLink(End(k, 1))), SetEnd(k, 2, LagSubLink(End(k, 2))),
         OwnReport(k), OwnReport(k)>>
  ELSE <<SetEnd(k, 1, LogicalLag(End(k, 1))), SetEnd(k, 2, LogicalLag(End(k, 2))),
         SetEnd(k, 1, LagSubLink(End(k, 1))), SetEnd(k, 2, LagSubLink(End(k, 2))),
         OwnReport(k), OwnReport(k)>>

\* The data of the nodes after the first n jobs of a link.
SetJob(f, job) ==
  IF job.by = "endpoint"
  THEN [f EXCEPT ![job.object[1]] = SetEndpoint(@, job.endpoint)] ELSE f

After(f, L, n) ==
  LET f1 == SetJob(f, L[1])
      f2 == SetJob(f1, L[2])
      f3 == SetJob(f2, L[3])
      f4 == SetJob(f3, L[4])
  IN  CASE n = 0 -> f [] n = 1 -> f1 [] n = 2 -> f2 [] n = 3 -> f3 [] n > 3 -> f4

NodesBefore(k) == [n \in Nodes |-> Before(k, n).data]

\* How many jobs of a link are written, and how many have changed their node.
Wrote(k)  == Len(LinkJobs(k)) - Len(jobs[k])
Worked(k) == IF pc[k] = "write" THEN Wrote(k) + 1 ELSE Wrote(k)

\* Which of its jobs a link has done, and what it leaves alone.
LinkRuns(k) ==
  LET L == LinkJobs(k)
  IN  /\ DataKept(k, Ground(k) \ ({Target(k)} \cup EndNodes(k)))
      /\ ShownKept(k, Ground(k) \ ({Target(k)} \cup EndNodes(k)))
      /\ topologyData # NoData
      /\ Len(Config(k).endpoints) >= 2
      /\ Held(Target(k)) = LinkCopied(k)
      /\ Wrote(k) \in 0..(Len(L) - 1)
      /\ jobs[k] = [i \in 1..(Len(L) - Wrote(k)) |-> L[i + Wrote(k)]]
      /\ \A i \in 1..Worked(k) :
           L[i].by = "endpoint" => Before(k, L[i].object[1]).data # NoData

\* A node of the link has the endpoints of the jobs done, and shows those written.
EndWorks(k, n) ==
  LET L == LinkJobs(k)
  IN  /\ Before(k, n).made
      /\ Held(n) = After(NodesBefore(k), L, Worked(k))[n]
      /\ stateCache[n] =
           IF \E i \in 1..Wrote(k) : L[i].by = "endpoint" /\ L[i].object = Obj(n)
           THEN MergeState(Before(k, n).shown,
                           NodeState(After(NodesBefore(k), L, Wrote(k))[n]))
           ELSE Before(k, n).shown

\* The link is shown once its first report is written.
OwnWorks(k) ==
  LET L == LinkJobs(k)
      l == Target(k)
  IN  /\ stateCache[l] = IF Len(jobs[k]) = 1
                         THEN MergeState(Before(k, l).shown, LinkState(LinkCopied(k)))
                         ELSE Before(k, l).shown
      /\ pc[k] = "write" =>
           read[k] = IF L[Worked(k)].by = "endpoint"
                     THEN NodeState(After(NodesBefore(k), L, Worked(k))[L[Worked(k)].object[1]])
                     ELSE LinkState(LinkCopied(k))

LinkWorks(k) ==
  LinkRuns(k) /\ (\A n \in EndNodes(k) : EndWorks(k, n)) /\ OwnWorks(k)

-----------------------------------------------------------------------------
\* How far a call is.
CallInv(k) ==
  /\ GhostOK(k)
  /\ MadeSoFar(k)
  /\ IF pc[k] \notin {"work", "write"} THEN Preparing(k)
     ELSE IF Target(k) = Topology THEN TopologyWorks(k)
     ELSE IF Target(k) \in Nodes THEN NodeWorks(k)
     ELSE LinkWorks(k)

\* One handler of a child, an observer as soon as it is registered.
Inserting(r) == \E k \in Callers : pc[k] = "insert" /\ Target(k) = r

HandlersInv ==
  /\ \A r \in Children :
       /\ made[r] <= 1
       /\ made[r] = 1 => topologyMade
       /\ ~HasHandler(r) => data[Obj(r)] = NoData
       /\ Obj(r) \in observers <=> HasHandler(r) \/ Inserting(r)
  /\ \A o \in observers : o = Obj(o[1])

GroundsApart == \A j, k \in Busy : j # k => Ground(j) \cap Ground(k) = {}

\* The invariant.
ApartInv ==
  /\ Apart
  /\ StepsInv
  /\ HandlersInv
  /\ GroundsApart
  /\ \A k \in Busy : CallInv(k)
  /\ \A r \in Children : Seen(r).made => Seen(Topology).made
  /\ alive \/ Busy = {}

-----------------------------------------------------------------------------
\* Objects of resources are told apart by their resource.
LEMMA ObjFacts ==
  ASSUME NEW k \in Callers
  PROVE  /\ \A r \in Children : Obj(r) \in Objects /\ Obj(r) # Topology
         /\ \A r, s : Obj(r) = Obj(s) => r = s
         /\ \A r : Obj(r)[1] = r /\ Obj(r)[2] = 1
<1>1. Cardinality(Callers) # 0 /\ Cardinality(Callers) \in Nat
  BY EventAssumption, FS_EmptySet, FS_CardinalityType
<1>2. \A r \in Children : Obj(r) \in Objects
  BY <1>1, ObjectFacts DEF Obj
<1> QED
  BY <1>2, ObjectFacts DEF Obj

\* A child has one handler at most, and its data is that of the handler.
LEMMA OneHandler ==
  ASSUME ApartInv, NEW r \in Children
  PROVE  /\ made[r] \in {0, 1} /\ inMap[r] \in {0, 1} /\ inMap[r] <= made[r]
         /\ HasHandler(r) <=> inMap[r] = 1
         /\ HasHandler(r) => Handler(r) = Obj(r) /\ made[r] = 1 /\ topologyMade
         /\ DataOf(r) = Held(r)
         /\ Held(r) = data[Obj(r)]
         /\ ~HasHandler(r) => Held(r) = NoData
<1>0. made[r] \in 0..Cardinality(Callers) /\ inMap[r] \in 0..made[r] /\ made[r] <= 1
  BY DEF ApartInv, StepsInv, MemoryOK, HandlersInv
<1>1. made[r] \in {0, 1} /\ inMap[r] \in {0, 1} /\ inMap[r] <= made[r]
  BY <1>0, ObjectFacts
<1>2. r # Topology
  BY ResourceFacts
<1>3. HasHandler(r) <=> inMap[r] = 1
  BY <1>1, <1>2 DEF HasHandler
<1>4. HasHandler(r) => Handler(r) = Obj(r) /\ made[r] = 1 /\ topologyMade
  <2>1. HasHandler(r) => inMap[r] = 1 /\ made[r] = 1
    BY <1>1, <1>3
  <2> QED
    BY <2>1 DEF Handler, Obj, ApartInv, HandlersInv
<1>5. Held(r) = data[Obj(r)] /\ (~HasHandler(r) => Held(r) = NoData)
  BY <1>2 DEF Held, ApartInv, HandlersInv
<1>6. DataOf(r) = Held(r)
  BY <1>2, <1>4, <1>5 DEF DataOf
<1> QED
  BY <1>1, <1>3, <1>4, <1>5, <1>6

\* What is seen of a resource when no call works on it is what memory holds.
LEMMA ViewIs ==
  ASSUME ApartInv, NEW r \in Resources
  PROVE  View(r) = [made |-> HasHandler(r), data |-> Held(r), shown |-> stateCache[r]]
<1>1. DataOf(r) = Held(r)
  <2>1. CASE r = Topology
    BY <2>1 DEF DataOf, Held
  <2>2. CASE r \in Children
    BY <2>2, OneHandler
  <2> QED
    BY <2>1, <2>2, ResourceFacts
<1> QED
  BY <1>1 DEF View

\* The data of a resource is of its kind, or nil.
LEMMA HeldType ==
  ASSUME ApartInv, NEW k \in Callers, NEW r \in Resources
  PROVE  /\ r = Topology => Held(r) \in TopologyData \cup {NoData}
         /\ r \in Nodes => Held(r) \in NodeData \cup {NoData}
         /\ r \in Links => Held(r) \in LinkData \cup {NoData}
         /\ stateCache[r] \in StateLeaves \cup {NoData}
<1>1. MemoryOK
  BY DEF ApartInv, StepsInv
<1>2. r = Topology => Held(r) \in TopologyData \cup {NoData}
  BY <1>1 DEF Held, MemoryOK
<1>3. ASSUME r \in Children
      PROVE  data[Obj(r)] \in (IF r \in Nodes THEN NodeData ELSE LinkData) \cup {NoData}
  BY <1>1, <1>3, ObjFacts DEF MemoryOK
<1> QED
  BY <1>1, <1>2, <1>3, ResourceFacts DEF Held, MemoryOK

\* A call that runs, its event and its handler.
LEMMA CallerFacts ==
  ASSUME ApartInv, NEW k \in Callers, pc[k] # "idle"
  PROVE  /\ k \in Busy /\ CallInv(k) /\ GhostOK(k) /\ MadeSoFar(k) /\ CallOK(k)
         /\ call[k] \in Calls /\ call[k].event \in Events
         /\ Target(k) \in Resources /\ Target(k) \in Ground(k)
         /\ EndNodes(k) \subseteq Nodes
         /\ EndNodes(k) \subseteq Ground(k)
         /\ Ground(k) \subseteq Resources
         /\ Target(k) = Topology => Ground(k) = Resources
<1>0. k \in Busy
  BY DEF Busy
<1>1. k \in Busy /\ CallInv(k) /\ GhostOK(k) /\ MadeSoFar(k) /\ CallOK(k)
  BY <1>0 DEF ApartInv, CallInv, StepsInv
<1>2. call[k] \in Calls /\ call[k].event \in Events
  BY <1>1, CallFacts DEF CallOK
<1>3. Target(k) \in Resources
  BY <1>2, EventFacts DEF Target
<1>4. EndNodes(k) \subseteq Nodes
  <2> SUFFICES ASSUME Target(k) \in Links, Config(k) # NoData, NEW le \in Ends(Config(k))
               PROVE  le.node \in Nodes
    BY DEF EndNodes
  <2>1. Config(k) \in LinkConfig
    BY <1>2, EventFacts DEF Target, Config
  <2>2. PICK i \in {1, 2} \cap DOMAIN Config(k).endpoints : le = Config(k).endpoints[i]
    BY DEF Ends
  <2>3. Config(k).endpoints \in Seq(LinkEndpoint)
    BY <2>1 DEF LinkConfig
  <2>4. le \in LinkEndpoint
    BY <2>2, <2>3
  <2> QED
    BY <2>4 DEF LinkEndpoint
<1>5. /\ Target(k) \in Ground(k) /\ Ground(k) \subseteq Resources
      /\ Target(k) # Topology => EndNodes(k) \subseteq Ground(k)
      /\ Target(k) = Topology => Ground(k) = Resources
  BY <1>1, <1>3, <1>4, ResourceFacts DEF GhostOK
<1>6. Target(k) = Topology => EndNodes(k) = {}
  BY ResourceFacts DEF EndNodes
<1> QED
  BY <1>1, <1>2, <1>3, <1>4, <1>5, <1>6

\* A call about a child works on the child's one handler.
LEMMA OwnIs ==
  ASSUME ApartInv, NEW k \in Callers, pc[k] \in Making \cup Configuring, Target(k) # Topology
  PROVE  Own(k) = Obj(Target(k)) /\ Target(k) \in Children
<1>1. OwnOK(k) /\ Target(k) \in Children
  BY CallerFacts, ResourceFacts DEF CallOK, Making, Configuring
<1>2. Own(k) \in Objects /\ Own(k)[1] = Target(k) /\ Own(k)[2] <= made[Target(k)]
  BY <1>1 DEF OwnOK
<1>3. Own(k)[2] = 1
  BY <1>1, <1>2, ObjectFacts, OneHandler
<1>4. Own(k) = <<Own(k)[1], Own(k)[2]>>
  BY <1>2, ObjectFacts
<1> QED
  BY <1>1, <1>2, <1>3, <1>4 DEF Obj

-----------------------------------------------------------------------------
(***************************************************************************)
(* Locality.  A step of a call changes the resources it works on and       *)
(* nothing else, which is why the other calls do not notice it.            *)
(***************************************************************************)
Local(k) ==
  /\ \A r \in Children \ Ground(k) :
       /\ made'[r] = made[r]
       /\ inMap'[r] = inMap[r]
       /\ data'[Obj(r)] = data[Obj(r)]
       /\ stateCache'[r] = stateCache[r]
  /\ Topology \notin Ground(k) =>
       /\ topologyMade' = topologyMade
       /\ stateCache'[Topology] = stateCache[Topology]
       /\ observers' = observers
  /\ Target(k) # Topology => topologyData' = topologyData
  /\ alive' = alive
  /\ \A j \in Callers \ {k} : SameCall(j) /\ ghost'[j] = ghost[j]

\* A step leaves a call about a child and what it works on.
Unnoticed(j) ==
  /\ \A r \in Ground(j) : /\ Held(r)' = Held(r)
                          /\ stateCache'[r] = stateCache[r]
                          /\ HasHandler(r)' = HasHandler(r)
                          /\ r \in Children => made'[r] = made[r]
  /\ Topology \in Ground(j) => topologyMade' = topologyMade /\ observers' = observers
  /\ topologyData' = topologyData
  /\ Target(j) # Topology
  /\ pc'[j] = pc[j] /\ call'[j] = call[j] /\ read'[j] = read[j] /\ jobs'[j] = jobs[j]
  /\ ghost'[j] = ghost[j]

\* What another call works on stays as it is.
LEMMA OthersGround ==
  ASSUME ApartInv, NEW k \in Busy, Local(k), NEW j \in Busy, j # k
  PROVE  Unnoticed(j)
<1>1. k \in Callers /\ j \in Callers /\ pc[k] # "idle" /\ pc[j] # "idle"
  BY DEF Busy
<1>2. /\ Target(k) \in Ground(k) /\ Target(j) \in Ground(j)
      /\ Ground(k) \subseteq Resources /\ Ground(j) \subseteq Resources
      /\ Target(k) = Topology => Ground(k) = Resources
      /\ Target(j) = Topology => Ground(j) = Resources
  BY <1>1, CallerFacts
<1>3. Ground(j) \cap Ground(k) = {}
  BY DEF ApartInv, GroundsApart
<1>4. Target(j) # Topology /\ Target(k) # Topology
  BY <1>2, <1>3
<1>5. ASSUME NEW r \in Ground(j)
      PROVE  /\ Held(r)' = Held(r)
             /\ stateCache'[r] = stateCache[r]
             /\ HasHandler(r)' = HasHandler(r)
             /\ r \in Children => made'[r] = made[r]
  <2>1. r \notin Ground(k) /\ (r \in Children \/ r = Topology)
    BY <1>2, <1>3, ResourceFacts
  <2>2. CASE r = Topology
    BY <1>4, <2>1, <2>2, ResourceFacts DEF Local, Held, HasHandler
  <2>3. CASE r \in Children
    BY <1>4, <2>1, <2>3, ResourceFacts DEF Local, Held, HasHandler
  <2> QED
    BY <2>1, <2>2, <2>3
<1>6. Topology \in Ground(j) => topologyMade' = topologyMade /\ observers' = observers
  BY <1>3 DEF Local
<1> QED
  BY <1>1, <1>4, <1>5, <1>6 DEF Local, SameCall, Unnoticed

\* So what is said of that call still holds.
LEMMA CallStays ==
  ASSUME ApartInv, NEW j \in Busy, Unnoticed(j)
  PROVE  CallInv(j)' /\ (j \in Busy)' /\ Ground(j)' = Ground(j)
<1>1. j \in Callers /\ pc[j] # "idle"
  BY DEF Busy
<1>2. /\ Target(j) \in Ground(j) /\ EndNodes(j) \subseteq Ground(j) \cap Nodes
      /\ Ground(j) \subseteq Resources /\ Target(j) \in Resources
      /\ GhostOK(j) /\ MadeSoFar(j) /\ CallInv(j)
  BY <1>1, CallerFacts
<1>3. /\ \A r \in Ground(j) : /\ Held(r)' = Held(r)
                              /\ stateCache'[r] = stateCache[r]
                              /\ HasHandler(r)' = HasHandler(r)
                              /\ r \in Children => made'[r] = made[r]
      /\ Topology \in Ground(j) => topologyMade' = topologyMade /\ observers' = observers
      /\ topologyData' = topologyData
      /\ Target(j) # Topology
      /\ pc'[j] = pc[j] /\ call'[j] = call[j] /\ read'[j] = read[j] /\ jobs'[j] = jobs[j]
      /\ ghost'[j] = ghost[j]
  BY DEF Unnoticed
<1>4. /\ Target(j)' = Target(j) /\ Config(j)' = Config(j)
      /\ Ground(j)' = Ground(j) /\ EndNodes(j)' = EndNodes(j)
      /\ \A r : Before(j, r)' = Before(j, r)
  BY <1>3 DEF Target, Config, Ground, EndNodes, Before
<1>5. GhostOK(j)'
  BY <1>2, <1>4 DEF GhostOK
<1>6. MadeSoFar(j)'
  <2>1. pc[j] \in Making => Topology \in Ground(j) /\ Target(j) \in Children
    BY <1>2, <1>3, ResourceFacts DEF MadeSoFar, GhostOK
  <2>2. (Topology \in Ground(j) =>
          (topologyMade <=> Before(j, Topology).made \/ pc[j] \notin {"create", "delete"}))'
    BY <1>2, <1>3, <1>4 DEF MadeSoFar
  <2>3. (\A r \in Ground(j) \cap Children :
           HasHandler(r) <=> Before(j, r).made \/ (r = Target(j) /\ pc[j] \in Configuring))'
    BY <1>2, <1>3, <1>4 DEF MadeSoFar
  <2>4. (pc[j] \in Making => made[Target(j)] = 1 /\ ~Before(j, Target(j)).made)'
    BY <1>2, <1>3, <1>4, <2>1 DEF MadeSoFar
  <2>5. (pc[j] = "register" => read[j] = observers)'
    BY <1>2, <1>3, <2>1 DEF MadeSoFar, Making
  <2> QED
    BY <2>2, <2>3, <2>4, <2>5 DEF MadeSoFar
<1>7. \A S \in SUBSET Ground(j) : /\ DataKept(j, S) => DataKept(j, S)'
                                  /\ ShownKept(j, S) => ShownKept(j, S)'
  BY <1>3, <1>4 DEF DataKept, ShownKept
<1>8. /\ NodeCopied(j)' = NodeCopied(j) /\ LinkCopied(j)' = LinkCopied(j)
      /\ Copied(j)' = Copied(j)
  BY <1>3, <1>4 DEF NodeCopied, LinkCopied, Copied
<1>9. Preparing(j) => Preparing(j)'
  <2> SUFFICES ASSUME Preparing(j) PROVE Preparing(j)'
    OBVIOUS
  <2>1. ShownKept(j, Ground(j))' /\ DataKept(j, Ground(j) \ {Target(j)})'
    BY <1>3, <1>4 DEF Preparing, DataKept, ShownKept
  <2>2. Held(Target(j))' = Held(Target(j))
    BY <1>2, <1>3, <1>4 DEF Held
  <2> QED
    BY <1>3, <1>4, <1>8, <2>1, <2>2 DEF Preparing
<1>10. NodeWorks(j) => NodeWorks(j)'
  <2> SUFFICES ASSUME NodeWorks(j) PROVE NodeWorks(j)'
    OBVIOUS
  <2>1. (DataKept(j, Ground(j) \ {Target(j)}) /\ ShownKept(j, Ground(j) \ {Target(j)}))'
    BY <1>3, <1>4 DEF NodeWorks, DataKept, ShownKept
  <2>2. Held(Target(j))' = Held(Target(j)) /\ stateCache'[Target(j)] = stateCache[Target(j)]
    BY <1>2, <1>3, <1>4 DEF Held
  <2> QED
    BY <1>3, <1>4, <1>8, <2>1, <2>2 DEF NodeWorks
<1>11. LinkWorks(j) => LinkWorks(j)'
  <2> SUFFICES ASSUME LinkWorks(j) PROVE LinkWorks(j)'
    OBVIOUS
  <2>1. LinkJobs(j)' = LinkJobs(j) /\ NodesBefore(j)' = NodesBefore(j)
    BY <1>3, <1>4 DEF LinkJobs, SetEnd, End, BothFound, OwnReport, NodesBefore
  <2>2. Wrote(j)' = Wrote(j) /\ Worked(j)' = Worked(j)
    BY <1>3, <2>1 DEF Wrote, Worked
  <2>3. (DataKept(j, Ground(j) \ ({Target(j)} \cup EndNodes(j)))
         /\ ShownKept(j, Ground(j) \ ({Target(j)} \cup EndNodes(j))))'
    BY <1>3, <1>4 DEF LinkWorks, LinkRuns, EndWorks, OwnWorks, DataKept, ShownKept
  <2>4. /\ Held(Target(j))' = Held(Target(j))
        /\ stateCache'[Target(j)] = stateCache[Target(j)]
        /\ \A n \in EndNodes(j) : Held(n)' = Held(n) /\ stateCache'[n] = stateCache[n]
    BY <1>2, <1>3, <1>4 DEF Held
  <2>5. PICK L, f, w, n : /\ L = LinkJobs(j) /\ f = NodesBefore(j)
                          /\ w = Wrote(j) /\ n = Worked(j)
    OBVIOUS
  <2>6. /\ L = LinkJobs(j)' /\ f = NodesBefore(j)' /\ w = Wrote(j)' /\ n = Worked(j)'
    BY <2>1, <2>2, <2>5
  <2>7. (/\ topologyData # NoData
         /\ Len(Config(j).endpoints) >= 2
         /\ \A s \in EndNodes(j) : Before(j, s).made
         /\ Held(Target(j)) = LinkCopied(j)
         /\ w \in 0..(Len(L) - 1)
         /\ jobs[j] = [i \in 1..(Len(L) - w) |-> L[i + w]]
         /\ \A i \in 1..n : L[i].by = "endpoint" => Before(j, L[i].object[1]).data # NoData)'
    BY <1>3, <1>4, <1>8, <2>4, <2>5 DEF LinkWorks, LinkRuns, EndWorks, OwnWorks
  <2>8. (\A s \in EndNodes(j) :
           /\ Held(s) = After(f, L, n)[s]
           /\ stateCache[s] =
                IF \E i \in 1..w : L[i].by = "endpoint" /\ L[i].object = Obj(s)
                THEN MergeState(Before(j, s).shown, NodeState(After(f, L, w)[s]))
                ELSE Before(j, s).shown)'
    <3>1. \A s \in EndNodes(j) :
           /\ Held(s) = After(f, L, n)[s]
           /\ stateCache[s] =
                IF \E i \in 1..w : L[i].by = "endpoint" /\ L[i].object = Obj(s)
                THEN MergeState(Before(j, s).shown, NodeState(After(f, L, w)[s]))
                ELSE Before(j, s).shown
      BY <2>5 DEF LinkWorks, LinkRuns, EndWorks, OwnWorks
    <3>2. \A s : Obj(s)' = Obj(s)
      BY DEF Obj
    <3> QED
      BY <1>4, <2>4, <3>1, <3>2
  <2>9. (stateCache[Target(j)] =
           IF Len(jobs[j]) = 1
           THEN MergeState(Before(j, Target(j)).shown, LinkState(LinkCopied(j)))
           ELSE Before(j, Target(j)).shown)'
    BY <1>3, <1>4, <1>8, <2>4 DEF LinkWorks, LinkRuns, EndWorks, OwnWorks
  <2>10. (pc[j] = "write" =>
            read[j] = IF L[n].by = "endpoint"
                      THEN NodeState(After(f, L, n)[L[n].object[1]])
                      ELSE LinkState(LinkCopied(j)))'
    BY <1>3, <1>8, <2>5 DEF LinkWorks, LinkRuns, EndWorks, OwnWorks
  <2> QED
    BY <2>3, <2>6, <2>7, <2>8, <2>9, <2>10 DEF LinkWorks, LinkRuns, EndWorks, OwnWorks
<1>12. CallInv(j)'
  BY <1>2, <1>3, <1>4, <1>5, <1>6, <1>9, <1>10, <1>11 DEF CallInv
<1> QED
  BY <1>1, <1>3, <1>4, <1>12 DEF Busy

\* A step of a call keeps what the invariant says of the others.
LEMMA OthersStay ==
  ASSUME ApartInv, NEW k \in Busy, Local(k), NEW j \in Busy, j # k
  PROVE  CallInv(j)' /\ (j \in Busy)' /\ Ground(j)' = Ground(j)
BY OthersGround, CallStays

-----------------------------------------------------------------------------
(***************************************************************************)
(* What AppLogic sees: of a resource that a call works on, what the call   *)
(* met; of any other, what is there.                                       *)
(***************************************************************************)
LEMMA SeenBusy ==
  ASSUME GroundsApart, NEW k \in Busy, NEW r \in Ground(k)
  PROVE  Seen(r) = Before(k, r)
<1>1. \A j \in Busy : r \in ghost[j].footprint => j = k
  BY DEF GroundsApart, Ground
<1>2. (CHOOSE j \in Busy : r \in ghost[j].footprint) = k
  BY <1>1 DEF Ground
<1> QED
  BY <1>2 DEF Seen, Ground, Before

LEMMA SeenFree ==
  ASSUME NEW r, \A k \in Busy : r \notin Ground(k)
  PROVE  Seen(r) = View(r)
BY DEF Seen, Ground

LEMMA SeenBusyAfter ==
  ASSUME GroundsApart', NEW k \in Busy', NEW r \in Ground(k)'
  PROVE  Seen(r)' = Before(k, r)'
<1>1. \A j \in Busy' : r \in ghost'[j].footprint => j = k
  BY DEF GroundsApart, Ground
<1>2. (CHOOSE j \in Busy' : r \in ghost'[j].footprint) = k
  BY <1>1 DEF Ground
<1> QED
  BY <1>2 DEF Seen, Ground, Before

LEMMA SeenFreeAfter ==
  ASSUME NEW r, \A k \in Busy' : r \notin Ground(k)'
  PROVE  Seen(r)' = View(r)'
BY DEF Seen, Ground

\* A step of a call leaves the view of what it does not work on.
LEMMA ViewElsewhere ==
  ASSUME ApartInv, NEW k \in Busy, Local(k), NEW r \in Resources \ Ground(k)
  PROVE  View(r)' = View(r)
<1>1. CASE r = Topology
  <2>1. Target(k) # Topology
    BY <1>1, CallerFacts DEF Busy
  <2> QED
    BY <1>1, <2>1 DEF Local, View, HasHandler, DataOf
<1>2. CASE r \in Children
  <2>1. /\ inMap'[r] = inMap[r] /\ data'[Obj(r)] = data[Obj(r)]
        /\ stateCache'[r] = stateCache[r] /\ r # Topology
    BY <1>2, ResourceFacts DEF Local
  <2>2. HasHandler(r)' = HasHandler(r) /\ (HasHandler(r) => Handler(r) = Obj(r))
    BY <1>2, <2>1, OneHandler DEF HasHandler
  <2>3. DataOf(r)' = DataOf(r)
    BY <2>1, <2>2 DEF DataOf, Handler
  <2> QED
    BY <2>1, <2>2, <2>3 DEF View
<1> QED
  BY <1>1, <1>2, ResourceFacts

\* A call that goes on is not noticed.
LEMMA SeenGoesOn ==
  ASSUME ApartInv, NEW k \in Busy, Local(k), pc'[k] # "idle", ghost'[k] = ghost[k]
  PROVE  GroundsApart' /\ \A r \in Resources : Seen(r)' = Seen(r)
<1>1. k \in Callers /\ pc[k] # "idle"
  BY DEF Busy
<1>2. Busy' = Busy
  BY <1>1 DEF Busy, Local, SameCall
<1>3. \A j \in Busy : Ground(j)' = Ground(j) /\ \A r : Before(j, r)' = Before(j, r)
  BY DEF Local, Ground, Before, Busy
<1>4. GroundsApart'
  BY <1>2, <1>3 DEF ApartInv, GroundsApart
<1>5. ASSUME NEW r \in Resources PROVE Seen(r)' = Seen(r)
  <2>1. CASE \E j \in Busy : r \in Ground(j)
    <3>1. PICK j \in Busy : r \in Ground(j)
      BY <2>1
    <3>2. Seen(r) = Before(j, r)
      BY <3>1, SeenBusy DEF ApartInv
    <3>3. Seen(r)' = Before(j, r)'
      BY <1>2, <1>3, <1>4, <3>1, SeenBusyAfter
    <3> QED
      BY <1>3, <3>2, <3>3
  <2>2. CASE \A j \in Busy : r \notin Ground(j)
    <3>1. Seen(r) = View(r)
      BY <2>2, SeenFree
    <3>2. Seen(r)' = View(r)'
      BY <1>2, <1>3, <2>2, SeenFreeAfter
    <3> QED
      BY <2>2, <3>1, <3>2, ViewElsewhere
  <2> QED
    BY <2>1, <2>2
<1> QED
  BY <1>4, <1>5

\* When a call returns, what it worked on is seen as it left it.
LEMMA SeenReturns ==
  ASSUME ApartInv, NEW k \in Busy, Local(k), pc'[k] = "idle"
  PROVE  /\ GroundsApart'
         /\ \A r \in Ground(k) : Seen(r) = Before(k, r) /\ Seen(r)' = View(r)'
         /\ \A r \in Resources \ Ground(k) : Seen(r)' = Seen(r)
<1>1. k \in Callers /\ pc[k] # "idle"
  BY DEF Busy
<1>2. Busy' = Busy \ {k}
  BY <1>1 DEF Busy, Local, SameCall
<1>3. \A j \in Busy \ {k} : Ground(j)' = Ground(j) /\ \A r : Before(j, r)' = Before(j, r)
  BY DEF Local, Ground, Before, Busy
<1>4. GroundsApart'
  BY <1>2, <1>3 DEF ApartInv, GroundsApart
<1>5. ASSUME NEW r \in Ground(k) PROVE Seen(r) = Before(k, r) /\ Seen(r)' = View(r)'
  <2>1. \A j \in Busy' : r \notin Ground(j)'
    BY <1>2, <1>3 DEF ApartInv, GroundsApart
  <2> QED
    BY <2>1, SeenBusy, SeenFreeAfter DEF ApartInv
<1>6. ASSUME NEW r \in Resources \ Ground(k) PROVE Seen(r)' = Seen(r)
  <2>1. CASE \E j \in Busy : r \in Ground(j)
    <3>1. PICK j \in Busy \ {k} : r \in Ground(j)
      BY <1>6, <2>1
    <3>2. Seen(r) = Before(j, r)
      BY <3>1, SeenBusy DEF ApartInv
    <3>3. Seen(r)' = Before(j, r)'
      BY <1>2, <1>3, <1>4, <3>1, SeenBusyAfter
    <3> QED
      BY <1>3, <3>1, <3>2, <3>3
  <2>2. CASE \A j \in Busy : r \notin Ground(j)
    <3>1. Seen(r) = View(r)
      BY <2>2, SeenFree
    <3>2. Seen(r)' = View(r)'
      BY <1>2, <1>3, <2>2, SeenFreeAfter
    <3> QED
      BY <1>6, <3>1, <3>2, ViewElsewhere
  <2> QED
    BY <2>1, <2>2
<1> QED
  BY <1>4, <1>5, <1>6

\* A call that goes on keeps the invariant if it keeps what is said of it, and
\* is no step of AppLogic.
LEMMA GoesOnKeeps ==
  ASSUME ApartInv, NEW k \in Busy, Local(k), StepsInv', HandlersInv',
         pc'[k] # "idle", ghost'[k] = ghost[k], CallInv(k)'
  PROVE  ApartInv' /\ UNCHANGED Atomic!vars
<1>1. GroundsApart' /\ \A r \in Resources : Seen(r)' = Seen(r)
  BY SeenGoesOn
<1>2. \A j \in Busy' : CallInv(j)'
  <2>1. \A j \in Busy' : j = k \/ j \in Busy
    BY DEF Busy, Local, SameCall
  <2> QED
    BY <2>1, OthersStay
<1>3. ApartInv'
  BY <1>1, <1>2, ResourceFacts DEF ApartInv, Local
<1>4. UNCHANGED Atomic!vars
  <2>1. \A n \in Nodes : n \in Resources
    BY ResourceFacts
  <2>2. \A l \in Links : l \in Resources
    BY ResourceFacts
  <2>3. alive' = alive /\ Topology \in Resources
    BY ResourceFacts DEF Local
  <2> QED
    BY <1>1, <2>1, <2>2, <2>3 DEF Atomic!vars
<1> QED
  BY <1>3, <1>4

\* A call that returns leaves the others alone.
LEMMA ReturnsKeeps ==
  ASSUME ApartInv, NEW k \in Busy, Local(k), StepsInv', HandlersInv', pc'[k] = "idle",
         \A r \in Children : Seen(r).made' => Seen(Topology).made'
  PROVE  ApartInv'
<1>1. GroundsApart'
  BY SeenReturns
<1>2. \A j \in Busy' : CallInv(j)'
  <2>1. \A j \in Busy' : j # k /\ j \in Busy
    BY DEF Busy, Local, SameCall
  <2> QED
    BY <2>1, OthersStay
<1> QED
  BY <1>1, <1>2 DEF ApartInv, Local

-----------------------------------------------------------------------------
(***************************************************************************)
(* The steps of a call, one by one.                                        *)
(***************************************************************************)
\* The children a call may work on, and the topology, by what it is about.
LEMMA FootprintIs ==
  ASSUME ApartInv, NEW e \in Events
  PROVE  /\ e.resource \in Footprint(e.resource, e.config)
         /\ Footprint(e.resource, e.config) \subseteq Resources
<1>1. e.resource \in Resources
  BY EventFacts
<1>2. ASSUME e.resource \in Links, e.config # NoData, NEW le \in Ends(e.config)
      PROVE  le.node \in Nodes
  <2>1. e.config \in LinkConfig
    BY <1>2, EventFacts
  <2>2. PICK i \in {1, 2} \cap DOMAIN e.config.endpoints : le = e.config.endpoints[i]
    BY <1>2 DEF Ends
  <2>3. e.config.endpoints \in Seq(LinkEndpoint)
    BY <2>1 DEF LinkConfig
  <2>4. le \in LinkEndpoint
    BY <2>2, <2>3
  <2> QED
    BY <2>4 DEF LinkEndpoint
<1> QED
  BY <1>1, <1>2, ResourceFacts DEF Footprint

\* A call that starts meets no other call.
LEMMA CallApart ==
  ASSUME ApartInv, NEW k \in Callers, NEW e \in Events, Call(k, e)
  PROVE  ApartInv' /\ UNCHANGED Atomic!vars
<1>1. LocalsShape /\ pc[k] = "idle" /\ k \notin Busy
  BY DEF ApartInv, StepsInv, Call, Busy
<1>2. /\ pc'[k] = (IF e.operation = "update" THEN "create" ELSE "delete")
      /\ call'[k] = [event |-> e, object |-> NoData]
      /\ ghost'[k] = [footprint |-> Footprint(e.resource, e.config),
                      before |-> [r \in Resources |-> View(r)]]
      /\ \A j \in Callers \ {k} : SameCall(j) /\ ghost'[j] = ghost[j]
      /\ UNCHANGED <<alive, memory>>
  BY <1>1 DEF Call, LocalsShape, SameCall
<1>3. /\ Target(k)' = e.resource /\ Config(k)' = e.config
      /\ Ground(k)' = Footprint(e.resource, e.config)
      /\ \A r \in Resources : Before(k, r)' = View(r)
  BY <1>2 DEF Target, Config, Ground, Before
<1>4. /\ \A r : Held(r)' = Held(r) /\ stateCache'[r] = stateCache[r]
                /\ HasHandler(r)' = HasHandler(r) /\ View(r)' = View(r)
      /\ made' = made /\ topologyMade' = topologyMade /\ observers' = observers
      /\ topologyData' = topologyData /\ inMap' = inMap /\ data' = data /\ alive' = alive
  BY <1>2 DEF memory, Held, HasHandler, View, DataOf, Handler
<1>5. Busy' = Busy \cup {k}
  BY <1>1, <1>2 DEF Busy, SameCall
<1>6. \A j \in Busy : Ground(j) \cap Footprint(e.resource, e.config) = {}
  BY DEF Call, ApartInv, Ground
<1>7. \A j \in Busy : CallInv(j)' /\ Ground(j)' = Ground(j)
  <2> TAKE j \in Busy
  <2>1. Target(j) # Topology
    BY <1>6, FootprintIs, CallerFacts DEF Busy
  <2>2. j \in Callers \ {k}
    BY <1>1 DEF Busy
  <2>3. Unnoticed(j)
    BY <1>2, <1>4, <2>1, <2>2 DEF Unnoticed, SameCall
  <2> QED
    BY <2>3, CallStays
<1>8. GroundsApart'
  BY <1>3, <1>5, <1>6, <1>7 DEF ApartInv, GroundsApart
<1>9. StepsInv'
  BY CallTypes DEF ApartInv
<1>10. HandlersInv'
  <2>1. \A r : Inserting(r)' <=> Inserting(r)
    <3>1. \A r : \A j \in Callers :
             (pc[j] = "insert" /\ Target(j) = r)' <=> (pc[j] = "insert" /\ Target(j) = r)
      BY <1>1, <1>2 DEF SameCall, Target
    <3> QED
      BY <3>1 DEF Inserting
  <2> QED
    BY <1>4, <2>1 DEF ApartInv, HandlersInv
<1>11. \A r \in Resources : Before(k, r)' = [made |-> HasHandler(r), data |-> Held(r),
                                             shown |-> stateCache[r]]
  BY <1>3, ViewIs
<1>12. CallInv(k)'
  <2>1. GhostOK(k)'
    <3>1. Ground(k)' = IF e.resource = Topology THEN Resources
                       ELSE {e.resource} \cup (IF HasHandler(e.resource) THEN {} ELSE {Topology})
                              \cup (IF e.resource \in Links /\ e.config # NoData
                                    THEN {le.node : le \in Ends(e.config)} ELSE {})
      BY <1>3 DEF Footprint
    <3>2. EndNodes(k)' = IF e.resource \in Links /\ e.config # NoData
                         THEN {le.node : le \in Ends(e.config)} ELSE {}
      BY <1>3 DEF EndNodes
    <3>3. e.resource \in Resources
      BY EventFacts
    <3>4. Before(k, e.resource)'.made = HasHandler(e.resource)
      BY <1>11, <3>3
    <3>5. Target(k)' = e.resource
      BY <1>3
    <3>6. ASSUME NEW r \in Resources
          PROVE  /\ Before(k, r)'.made \in BOOLEAN
                 /\ Before(k, r)'.data \in (CASE r = Topology -> TopologyData
                                              [] r \in Nodes  -> NodeData
                                              [] r \in Links  -> LinkData) \cup {NoData}
                 /\ Before(k, r)'.shown \in StateLeaves \cup {NoData}
      <4>1. HasHandler(r) \in BOOLEAN
        BY DEF HasHandler, ApartInv, StepsInv, MemoryOK
      <4> QED
        BY <1>11, <4>1, HeldType, ResourceFacts
    <3> QED
      BY <3>1, <3>2, <3>4, <3>5, <3>6 DEF GhostOK
  <2>2. Ground(k)' \subseteq Resources /\ e.resource \in Ground(k)'
    BY <1>3, FootprintIs
  <2>3. MadeSoFar(k)'
    <3>1. HasHandler(Topology) = topologyMade
      BY DEF HasHandler
    <3>2. \A r \in Ground(k)' \cap Children : HasHandler(r)' <=> Before(k, r)'.made
      BY <1>4, <1>11, <2>2
    <3>3. Topology \in Ground(k)' => (topologyMade' <=> Before(k, Topology)'.made)
      BY <1>4, <1>11, <3>1, ResourceFacts
    <3> QED
      BY <1>2, <3>2, <3>3 DEF MadeSoFar, Making, Configuring
  <2>4. Preparing(k)'
    <3>1. \A r \in Ground(k)' : /\ Held(r)' = Before(k, r)'.data
                                /\ stateCache'[r] = Before(k, r)'.shown
      BY <1>4, <1>11, <2>2
    <3> QED
      BY <1>2, <1>3, <2>2, <3>1 DEF Preparing, DataKept, ShownKept
  <2> QED
    BY <1>2, <2>1, <2>3, <2>4 DEF CallInv
<1>13. \A r \in Resources : Seen(r)' = Seen(r)
  <2> TAKE r \in Resources
  <2>1. CASE \E j \in Busy : r \in Ground(j)
    <3>1. PICK j \in Busy : r \in Ground(j)
      BY <2>1
    <3>2. Seen(r) = Before(j, r)
      BY <3>1, SeenBusy DEF ApartInv
    <3>3. Seen(r)' = Before(j, r)'
      BY <1>5, <1>7, <1>8, <3>1, SeenBusyAfter
    <3>4. Before(j, r)' = Before(j, r)
      BY <1>1, <1>2 DEF Before, Busy
    <3> QED
      BY <3>2, <3>3, <3>4
  <2>2. CASE r \in Ground(k)'
    <3>1. \A j \in Busy : r \notin Ground(j)
      BY <1>3, <1>6, <2>2
    <3>2. Seen(r) = View(r)
      BY <3>1, SeenFree
    <3>3. Seen(r)' = Before(k, r)'
      BY <1>5, <1>8, <2>2, SeenBusyAfter
    <3> QED
      BY <1>3, <3>2, <3>3
  <2>3. CASE r \notin Ground(k)' /\ \A j \in Busy : r \notin Ground(j)
    <3>1. Seen(r) = View(r)
      BY <2>3, SeenFree
    <3>2. Seen(r)' = View(r)'
      BY <1>5, <1>7, <2>3, SeenFreeAfter
    <3> QED
      BY <1>4, <3>1, <3>2
  <2> QED
    BY <2>1, <2>2, <2>3
<1>14. ApartInv'
  BY <1>4, <1>5, <1>7, <1>8, <1>9, <1>10, <1>12, <1>13, ResourceFacts DEF ApartInv, Call
<1>15. UNCHANGED Atomic!vars
  <2>1. \A n \in Nodes : n \in Resources
    BY ResourceFacts
  <2>2. \A l \in Links : l \in Resources
    BY ResourceFacts
  <2> QED
    BY <1>4, <1>13, <2>1, <2>2, ResourceFacts DEF Atomic!vars
<1> QED
  BY <1>14, <1>15

-----------------------------------------------------------------------------
\* What a call is about, and what it met, does not change while it runs.
LEMMA SameEvent ==
  ASSUME ApartInv, NEW k \in Busy, ghost'[k] = ghost[k], call'[k].event = call[k].event
  PROVE  /\ GhostOK(k)'
         /\ Target(k)' = Target(k) /\ Config(k)' = Config(k)
         /\ Ground(k)' = Ground(k) /\ EndNodes(k)' = EndNodes(k)
         /\ \A r : Before(k, r)' = Before(k, r)
<1>1. /\ Target(k)' = Target(k) /\ Config(k)' = Config(k)
      /\ Ground(k)' = Ground(k) /\ EndNodes(k)' = EndNodes(k)
      /\ \A r : Before(k, r)' = Before(k, r)
  BY DEF Target, Config, Ground, EndNodes, Before
<1>2. GhostOK(k)
  BY CallerFacts DEF Busy
<1> QED
  BY <1>1, <1>2 DEF GhostOK

\* A step that makes, inserts and registers nothing.
LEMMA HandlersSame ==
  ASSUME ApartInv, NEW k \in Busy, \A j \in Callers \ {k} : SameCall(j),
         UNCHANGED <<made, inMap, observers>>, topologyMade => topologyMade',
         pc[k] # "insert", pc'[k] # "insert",
         \A r \in Children : HasHandler(r) \/ data'[Obj(r)] = data[Obj(r)]
  PROVE  HandlersInv' /\ \A r \in Children : HasHandler(r)' = HasHandler(r)
<1>1. \A r \in Children : HasHandler(r)' = HasHandler(r)
  BY ResourceFacts DEF HasHandler
<1>2. \A r : Inserting(r)' <=> Inserting(r)
  <2>1. \A r : \A j \in Callers : (pc[j] = "insert" /\ Target(j) = r)'
                                <=> (pc[j] = "insert" /\ Target(j) = r)
    BY DEF SameCall, Target
  <2> QED
    BY <2>1 DEF Inserting
<1> QED
  BY <1>1, <1>2 DEF ApartInv, HandlersInv

\* Before the first job, a step that keeps the data and the state cache of
\* all but the resource the call is about.
LEMMA PreparingGoesOn ==
  ASSUME ApartInv, NEW k \in Busy, ghost'[k] = ghost[k], call'[k].event = call[k].event,
         \A j \in Callers \ {k} : SameCall(j) /\ ghost'[j] = ghost[j],
         pc[k] \notin {"work", "write"},
         pc'[k] \notin {"idle", "work", "write"},
         StepsInv', HandlersInv', MadeSoFar(k)',
         alive' = alive, stateCache' = stateCache,
         \A r \in Children \ {Target(k)} :
           made'[r] = made[r] /\ inMap'[r] = inMap[r] /\ data'[Obj(r)] = data[Obj(r)],
         Topology \notin Ground(k) => topologyMade' = topologyMade /\ observers' = observers,
         Target(k) # Topology => topologyData' = topologyData,
         pc'[k] \in {"create", "delete", "register", "insert", "copy"} =>
           Held(Target(k))' = Before(k, Target(k)).data,
         pc'[k] \in {"parent", "status"} => Held(Target(k))' = Copied(k),
         pc'[k] = "status" /\ Target(k) # Topology => read'[k] = topologyData.status,
         pc'[k] = "parse" => Held(Target(k))' = LinkCopied(k) /\ Target(k) # Topology
  PROVE  ApartInv' /\ UNCHANGED Atomic!vars
<1>1. k \in Callers /\ pc[k] # "idle"
  BY DEF Busy
<1>2. /\ Target(k) \in Ground(k) /\ Target(k) \in Resources /\ Ground(k) \subseteq Resources
      /\ Target(k) = Topology => Ground(k) = Resources
      /\ CallInv(k)
  BY <1>1, CallerFacts
<1>3. Local(k)
  BY <1>2, ResourceFacts DEF Local
<1>4. /\ GhostOK(k)'
      /\ Target(k)' = Target(k) /\ Config(k)' = Config(k)
      /\ Ground(k)' = Ground(k) /\ EndNodes(k)' = EndNodes(k)
      /\ \A r : Before(k, r)' = Before(k, r)
  BY SameEvent
<1>5. Preparing(k)
  BY <1>2 DEF CallInv
<1>6. \A r \in Ground(k) \ {Target(k)} : Held(r)' = Held(r)
  <2> TAKE r \in Ground(k) \ {Target(k)}
  <2>1. CASE r = Topology
    BY <1>2, <2>1 DEF Held
  <2>2. CASE r \in Children
    <3>1. data'[Obj(r)] = data[Obj(r)] /\ r # Topology
      BY <2>2, ResourceFacts
    <3> QED
      BY <3>1 DEF Held
  <2> QED
    BY <1>2, <2>1, <2>2, ResourceFacts
<1>7. (DataKept(k, Ground(k) \ {Target(k)}) /\ ShownKept(k, Ground(k)))'
  BY <1>4, <1>5, <1>6 DEF Preparing, DataKept, ShownKept
<1>8. Copied(k)' = Copied(k)
  BY <1>4 DEF Copied
<1>9. Target(k) # Topology => LinkCopied(k)' = LinkCopied(k)
  BY <1>4 DEF LinkCopied
<1>11. Preparing(k)'
  BY <1>4, <1>7, <1>8, <1>9 DEF Preparing
<1>12. CallInv(k)'
  BY <1>4, <1>11 DEF CallInv
<1> QED
  BY <1>3, <1>12, GoesOnKeeps

-----------------------------------------------------------------------------
(***************************************************************************)
(* CreateChild, with data to go on with.                                   *)
(***************************************************************************)
LEMMA CreateTopologyApart ==
  ASSUME ApartInv, NEW k \in Callers, CreateTopology(k), Config(k) # NoData
  PROVE  ApartInv' /\ UNCHANGED Atomic!vars
<1>1. pc[k] = "create" /\ k \in Busy /\ LocalsShape /\ Target(k) = Topology
  BY DEF CreateTopology, At, Busy, ApartInv, StepsInv
<1>2. /\ Ground(k) = Resources /\ call[k] \in Calls /\ MadeSoFar(k) /\ Preparing(k)
  BY <1>1, CallerFacts DEF CallInv
<1>3. /\ pc'[k] = "copy" /\ call'[k] = [event |-> call[k].event, object |-> Topology]
      /\ ghost' = ghost
      /\ \A j \in Callers \ {k} : SameCall(j) /\ ghost'[j] = ghost[j]
      /\ topologyMade' = TRUE
      /\ UNCHANGED <<alive, made, inMap, observers, topologyData, data, stateCache>>
  BY <1>1, <1>2 DEF CreateTopology, Created, Goto, LocalsShape, SameCall, Calls
<1>4. StepsInv'
  BY FoundTypes DEF ApartInv
<1>5. HandlersInv' /\ \A r \in Children : HasHandler(r)' = HasHandler(r)
  BY <1>1, <1>3, HandlersSame
<1>6. /\ Target(k)' = Target(k) /\ Ground(k)' = Ground(k)
      /\ \A r : Before(k, r)' = Before(k, r)
  BY <1>1, <1>3, SameEvent
<1>7. MadeSoFar(k)'
  BY <1>1, <1>2, <1>3, <1>5, <1>6, ResourceFacts DEF MadeSoFar, Making, Configuring
<1>8. Held(Target(k))' = Before(k, Target(k)).data
  BY <1>1, <1>2, <1>3, <1>6 DEF Preparing, Held
<1>9. /\ call'[k].event = call[k].event /\ ghost'[k] = ghost[k] /\ Topology \in Ground(k)
      /\ \A r \in Children \ {Target(k)} :
           made'[r] = made[r] /\ inMap'[r] = inMap[r] /\ data'[Obj(r)] = data[Obj(r)]
  BY <1>2, <1>3, ResourceFacts
<1> QED
  BY <1>1, <1>3, <1>4, <1>5, <1>7, <1>8, <1>9, PreparingGoesOn

\* A call about a child that is created.
LEMMA ChildFacts ==
  ASSUME ApartInv, NEW k \in Callers, pc[k] # "idle", Target(k) # Topology
  PROVE  /\ Target(k) \in Children
         /\ Ground(k) = {Target(k)} \cup (IF Before(k, Target(k)).made THEN {} ELSE {Topology})
                          \cup EndNodes(k)
         /\ EndNodes(k) \subseteq Nodes
         /\ Target(k) \in Nodes => EndNodes(k) = {}
         /\ Topology \in Ground(k) <=> ~Before(k, Target(k)).made
<1>1. Target(k) \in Children /\ EndNodes(k) \subseteq Nodes /\ GhostOK(k)
  BY CallerFacts, ResourceFacts
<1>2. Target(k) \in Nodes => EndNodes(k) = {}
  BY ResourceFacts DEF EndNodes
<1> QED
  BY <1>1, <1>2, ResourceFacts DEF GhostOK

\* A handler is looked up.
LEMMA FindChildApart ==
  ASSUME ApartInv, NEW k \in Callers, FindChild(k), Config(k) # NoData
  PROVE  ApartInv' /\ UNCHANGED Atomic!vars
<1>1. pc[k] = "create" /\ k \in Busy /\ LocalsShape /\ Target(k) # Topology
  BY DEF FindChild, At, Busy, ApartInv, StepsInv
<1>2. call[k] \in Calls /\ MadeSoFar(k) /\ Preparing(k) /\ Target(k) \in Ground(k)
  BY <1>1, CallerFacts DEF CallInv
<1>3. Target(k) \in Children
  BY <1>1, ChildFacts
<1>4. /\ pc'[k] = "copy"
      /\ call'[k] = [event |-> call[k].event, object |-> Handler(Target(k))]
      /\ ghost' = ghost
      /\ \A j \in Callers \ {k} : SameCall(j) /\ ghost'[j] = ghost[j]
      /\ topologyMade' = TRUE
      /\ UNCHANGED <<alive, made, inMap, observers, topologyData, data, stateCache>>
  BY <1>1, <1>2 DEF FindChild, Created, Goto, LocalsShape, SameCall, Calls
<1>5. StepsInv'
  BY FoundTypes DEF ApartInv
<1>6. HandlersInv' /\ \A r \in Children : HasHandler(r)' = HasHandler(r)
  BY <1>1, <1>4, HandlersSame
<1>7. topologyMade = TRUE /\ Before(k, Target(k)).made /\ Topology \notin Ground(k)
  <2>1. HasHandler(Target(k))
    BY DEF FindChild
  <2>2. topologyMade = TRUE
    BY <1>3, <2>1, OneHandler DEF ApartInv, StepsInv, MemoryOK
  <2>3. Before(k, Target(k)).made
    BY <1>1, <1>2, <1>3, <2>1 DEF MadeSoFar, Configuring
  <2> QED
    BY <1>1, <2>2, <2>3, ChildFacts
<1>8. /\ Target(k)' = Target(k) /\ Ground(k)' = Ground(k)
      /\ \A r : Before(k, r)' = Before(k, r)
  BY <1>1, <1>4, SameEvent
<1>9. MadeSoFar(k)'
  BY <1>1, <1>2, <1>4, <1>6, <1>7, <1>8 DEF MadeSoFar, Making, Configuring
<1>10. Held(Target(k))' = Before(k, Target(k)).data
  BY <1>1, <1>2, <1>4, <1>8 DEF Preparing, Held, Obj
<1> QED
  BY <1>1, <1>4, <1>5, <1>6, <1>7, <1>9, <1>10, PreparingGoesOn

\* No other call can be making a handler of the child.
LEMMA NoOtherMaker ==
  ASSUME ApartInv, NEW k \in Callers, pc[k] = "create", Target(k) \in Children,
         ~HasHandler(Target(k))
  PROVE  made[Target(k)] = 0
<1>1. k \in Busy /\ Target(k) \in Ground(k) /\ Target(k) # Topology
  BY CallerFacts, ResourceFacts
<1>2. Makers(Target(k)) = {}
  <2> SUFFICES ASSUME NEW j \in Callers, pc[j] \in Making, Target(j) = Target(k) PROVE FALSE
    BY DEF Makers
  <2>1. j \in Busy /\ Target(j) \in Ground(j)
    BY CallerFacts DEF Making
  <2>2. j # k
    BY DEF Making
  <2> QED
    BY <1>1, <2>1, <2>2 DEF ApartInv, GroundsApart
<1>3. inMap[Target(k)] = 0
  BY <1>1, OneHandler DEF HasHandler
<1>4. made[Target(k)] <= Cardinality(Makers(Target(k)))
  BY <1>3 DEF ApartInv, StepsInv, MadeByMakers
<1>5. Cardinality(Makers(Target(k))) = 0
  BY <1>2, FS_EmptySet
<1>6. made[Target(k)] \in {0, 1}
  BY OneHandler
<1> QED
  BY <1>4, <1>5, <1>6

\* A handler is made.
LEMMA MakeChildApart ==
  ASSUME ApartInv, NEW k \in Callers, MakeChild(k)
  PROVE  ApartInv' /\ UNCHANGED Atomic!vars
<1>1. pc[k] = "create" /\ k \in Busy /\ LocalsShape /\ MemoryOK /\ Target(k) # Topology
  BY DEF MakeChild, At, Busy, ApartInv, StepsInv
<1>2. call[k] \in Calls /\ MadeSoFar(k) /\ Preparing(k) /\ Target(k) \in Ground(k)
  BY <1>1, CallerFacts DEF CallInv
<1>3. PICK r : r = Target(k) /\ r \in Children
  BY <1>1, ChildFacts
<1>4. ~HasHandler(r) /\ made[r] = 0
  BY <1>1, <1>3, NoOtherMaker DEF MakeChild
<1>5. /\ pc'[k] = "register"
      /\ call'[k] = [event |-> call[k].event, object |-> <<r, made'[r]>>]
      /\ read'[k] = observers
      /\ ghost' = ghost
      /\ \A j \in Callers \ {k} : SameCall(j) /\ ghost'[j] = ghost[j]
  BY <1>1, <1>2, <1>3 DEF MakeChild, Goto, LocalsShape, SameCall, Calls
<1>6. /\ topologyMade' = TRUE /\ made'[r] = 1
      /\ \A s \in Children \ {r} : made'[s] = made[s]
      /\ UNCHANGED <<alive, inMap, observers, topologyData, data, stateCache>>
  BY <1>1, <1>3, <1>4 DEF MakeChild, MemoryOK
<1>7. StepsInv'
  BY MakeTypes DEF ApartInv
<1>8. \A s \in Children : HasHandler(s)' = HasHandler(s)
  BY <1>6, ResourceFacts DEF HasHandler
<1>9. HandlersInv'
  <2>1. \A s : Inserting(s)' <=> Inserting(s)
    <3>1. \A s : \A j \in Callers : (pc[j] = "insert" /\ Target(j) = s)'
                                  <=> (pc[j] = "insert" /\ Target(j) = s)
      BY <1>1, <1>5 DEF SameCall, Target
    <3> QED
      BY <3>1 DEF Inserting
  <2>2. \A s \in Children : made'[s] <= 1
    BY <1>6 DEF ApartInv, HandlersInv
  <2> QED
    BY <1>6, <1>8, <2>1, <2>2 DEF ApartInv, HandlersInv
<1>10. /\ Target(k)' = Target(k) /\ Ground(k)' = Ground(k)
       /\ \A s : Before(k, s)' = Before(k, s)
  BY <1>1, <1>5, SameEvent
<1>11. ~Before(k, r).made /\ Topology \in Ground(k)
  BY <1>1, <1>2, <1>3, <1>4, ChildFacts DEF MadeSoFar
<1>12. MadeSoFar(k)'
  BY <1>1, <1>2, <1>3, <1>5, <1>6, <1>8, <1>10, <1>11 DEF MadeSoFar, Making, Configuring
<1>13. Held(Target(k))' = Before(k, Target(k)).data
  BY <1>1, <1>2, <1>6, <1>10 DEF Preparing, Held, Obj
<1>14. /\ call'[k].event = call[k].event /\ ghost'[k] = ghost[k]
       /\ \A s \in Children \ {Target(k)} :
            made'[s] = made[s] /\ inMap'[s] = inMap[s] /\ data'[Obj(s)] = data[Obj(s)]
  BY <1>3, <1>5, <1>6
<1> QED
  BY <1>1, <1>5, <1>6, <1>7, <1>9, <1>11, <1>12, <1>13, <1>14, PreparingGoesOn

\* A handler registers as an observer.
LEMMA RegisterApart ==
  ASSUME ApartInv, NEW k \in Callers, Register(k)
  PROVE  ApartInv' /\ UNCHANGED Atomic!vars
<1>1. pc[k] = "register" /\ k \in Busy /\ LocalsShape /\ pc[k] \in Making
  BY DEF Register, At, Busy, ApartInv, StepsInv, Making
<1>2. /\ MadeSoFar(k) /\ Preparing(k) /\ Target(k) \in Ground(k)
      /\ Target(k) \in Children /\ Target(k) # Topology
  BY <1>1, CallerFacts, ResourceFacts DEF CallInv, CallOK
<1>3. PICK r : r = Target(k) /\ r \in Children /\ Own(k) = Obj(r)
  BY <1>1, <1>2, OwnIs
<1>4. /\ pc'[k] = "insert" /\ call'[k] = call[k] /\ ghost' = ghost
      /\ \A j \in Callers \ {k} : SameCall(j) /\ ghost'[j] = ghost[j]
      /\ observers' = observers \cup {Obj(r)}
      /\ UNCHANGED <<alive, topologyMade, made, inMap, topologyData, data, stateCache>>
  BY <1>1, <1>2, <1>3 DEF Register, Goto, LocalsShape, SameCall, MadeSoFar
<1>5. StepsInv'
  BY RegisterTypes DEF ApartInv
<1>6. \A s \in Children : HasHandler(s)' = HasHandler(s)
  BY <1>4, ResourceFacts DEF HasHandler
<1>7. HandlersInv'
  <2>1. \A s : Inserting(s)' <=> Inserting(s) \/ s = r
    <3>1. \A s : \A j \in Callers \ {k} : (pc[j] = "insert" /\ Target(j) = s)'
                                        <=> (pc[j] = "insert" /\ Target(j) = s)
      BY <1>4 DEF SameCall, Target
    <3>2. \A s : (pc[k] = "insert" /\ Target(k) = s)' <=> s = r
      BY <1>3, <1>4 DEF Target
    <3>3. pc[k] # "insert"
      BY <1>1
    <3> QED
      BY <3>1, <3>2, <3>3 DEF Inserting
  <2>2. \A s \in Children : Obj(s) \in observers' <=> Obj(s) \in observers \/ s = r
    BY <1>4, ObjFacts
  <2>3. \A o \in observers' : o = Obj(o[1])
    BY <1>4, ObjFacts DEF ApartInv, HandlersInv
  <2>4. \A s \in Children :
          /\ made[s] <= 1
          /\ made[s] = 1 => topologyMade
          /\ ~HasHandler(s) => data[Obj(s)] = NoData
          /\ Obj(s) \in observers <=> HasHandler(s) \/ Inserting(s)
    BY DEF ApartInv, HandlersInv
  <2> QED
    BY <1>4, <1>6, <2>1, <2>2, <2>3, <2>4 DEF HandlersInv
<1>8. /\ Target(k)' = Target(k) /\ Ground(k)' = Ground(k)
      /\ \A s : Before(k, s)' = Before(k, s)
  BY <1>1, <1>4, SameEvent
<1>9. Topology \in Ground(k)
  BY <1>1, <1>2, ChildFacts DEF MadeSoFar
<1>10. MadeSoFar(k)'
  BY <1>1, <1>2, <1>4, <1>6, <1>8 DEF MadeSoFar, Making, Configuring
<1>11. Held(Target(k))' = Before(k, Target(k)).data
  BY <1>1, <1>2, <1>4, <1>8 DEF Preparing, Held, Obj
<1> QED
  BY <1>1, <1>4, <1>5, <1>7, <1>9, <1>10, <1>11, PreparingGoesOn

\* The handler that is inserted.
LEMMA InsertedHandlers ==
  ASSUME ApartInv, NEW k \in Callers, Insert(k), pc'[k] # "insert",
         \A j \in Callers \ {k} : SameCall(j)
  PROVE  /\ HandlersInv'
         /\ \A s \in Children : HasHandler(s)' <=> HasHandler(s) \/ s = Target(k)
         /\ \A s \in Children \ {Target(k)} : inMap'[s] = inMap[s]
         /\ Own(k) = Obj(Target(k)) /\ Target(k) \in Children
         /\ Topology \in Ground(k) /\ topologyMade
<1>1. pc[k] = "insert" /\ k \in Busy /\ MemoryOK /\ pc[k] \in Making
  BY DEF Insert, At, Busy, ApartInv, StepsInv, Making
<1>2. MadeSoFar(k) /\ Target(k) \in Children /\ Target(k) # Topology
  BY <1>1, CallerFacts, ResourceFacts DEF CallOK
<1>3. PICK r : r = Target(k) /\ r \in Children /\ Own(k) = Obj(r)
  BY <1>1, <1>2, OwnIs
<1>4. /\ inMap'[r] = 1 /\ \A s \in Children \ {r} : inMap'[s] = inMap[s]
      /\ UNCHANGED <<topologyMade, made, observers, data>>
  BY <1>1, <1>3, ObjFacts DEF Insert, MemoryOK
<1>5. \A s \in Children : HasHandler(s)' <=> HasHandler(s) \/ s = r
  BY <1>4, ResourceFacts DEF HasHandler
<1>6. \A s \in Children : Inserting(s)' \/ s = r <=> Inserting(s)
  <2>1. \A s : \A j \in Callers \ {k} : (pc[j] = "insert" /\ Target(j) = s)'
                                      <=> (pc[j] = "insert" /\ Target(j) = s)
    BY DEF SameCall, Target
  <2>2. \A s : pc[k] = "insert" /\ Target(k) = s <=> s = r
    BY <1>1, <1>3
  <2>3. pc'[k] # "insert"
    OBVIOUS
  <2> QED
    BY <2>1, <2>2, <2>3 DEF Inserting
<1>7. HandlersInv'
  BY <1>4, <1>5, <1>6 DEF ApartInv, HandlersInv
<1>8. Topology \in Ground(k) /\ topologyMade
  BY <1>1, <1>2, ChildFacts DEF MadeSoFar
<1> QED
  BY <1>3, <1>4, <1>5, <1>7, <1>8

\* A handler is put in the map.
LEMMA InsertApart ==
  ASSUME ApartInv, NEW k \in Callers, Insert(k), Config(k) # NoData
  PROVE  ApartInv' /\ UNCHANGED Atomic!vars
<1>1. pc[k] = "insert" /\ k \in Busy /\ LocalsShape
  BY DEF Insert, At, Busy, ApartInv, StepsInv
<1>2. MadeSoFar(k) /\ Preparing(k) /\ Target(k) \in Ground(k) /\ call[k] \in Calls
  BY <1>1, CallerFacts DEF CallInv
<1>3. /\ pc'[k] = "copy" /\ call'[k] = [event |-> call[k].event, object |-> Own(k)]
      /\ ghost' = ghost
      /\ \A j \in Callers \ {k} : SameCall(j) /\ ghost'[j] = ghost[j]
      /\ UNCHANGED <<alive, topologyMade, made, observers, topologyData, data, stateCache>>
  BY <1>1, <1>2 DEF Insert, Created, Goto, LocalsShape, SameCall, Calls
<1>4. StepsInv'
  BY InsertTypes DEF ApartInv
<1>5. /\ HandlersInv' /\ Target(k) \in Children /\ Topology \in Ground(k)
      /\ \A s \in Children : HasHandler(s)' <=> HasHandler(s) \/ s = Target(k)
      /\ \A s \in Children \ {Target(k)} : inMap'[s] = inMap[s]
  BY <1>3, InsertedHandlers
<1>6. /\ Target(k)' = Target(k) /\ Ground(k)' = Ground(k)
      /\ \A s : Before(k, s)' = Before(k, s)
  BY <1>1, <1>3, SameEvent
<1>7. MadeSoFar(k)'
  BY <1>1, <1>2, <1>3, <1>5, <1>6 DEF MadeSoFar, Making, Configuring
<1>8. Held(Target(k))' = Before(k, Target(k)).data
  BY <1>1, <1>2, <1>3, <1>6 DEF Preparing, Held, Obj
<1> QED
  BY <1>1, <1>3, <1>4, <1>5, <1>7, <1>8, PreparingGoesOn

-----------------------------------------------------------------------------
(***************************************************************************)
(* The data is replaced, the status set.                                   *)
(***************************************************************************)
\* A call past CreateChild.
LEMMA PastCreate ==
  ASSUME ApartInv, NEW k \in Callers, pc[k] \in Configuring
  PROVE  /\ k \in Busy /\ pc[k] # "idle" /\ LocalsShape /\ MemoryOK
         /\ MadeSoFar(k) /\ CallInv(k) /\ CallOK(k)
         /\ Target(k) \in Resources /\ Target(k) \in Ground(k)
         /\ Target(k) = Topology => Config(k) \in TopologyConfig
         /\ Target(k) \in Nodes => Config(k) \in NodeConfig
         /\ Target(k) \in Links => Config(k) \in LinkConfig
         /\ Config(k) # NoData
         /\ Target(k) # Topology =>
              /\ Target(k) \in Children /\ Own(k) = Obj(Target(k)) /\ Obj(Target(k)) \in Objects
              /\ HasHandler(Target(k)) /\ Held(Target(k)) = data[Obj(Target(k))]
<1>1. pc[k] # "idle" /\ pc[k] \in Making \cup Configuring
  BY DEF Configuring
<1>2. k \in Busy /\ LocalsShape /\ MemoryOK
  BY <1>1 DEF Busy, ApartInv, StepsInv
<1>3. /\ MadeSoFar(k) /\ CallInv(k) /\ CallOK(k)
      /\ Target(k) \in Resources /\ Target(k) \in Ground(k)
  BY <1>1, CallerFacts
<1>4. /\ Target(k) = Topology => Config(k) \in TopologyConfig
      /\ Target(k) \in Nodes => Config(k) \in NodeConfig
      /\ Target(k) \in Links => Config(k) \in LinkConfig
      /\ Config(k) # NoData
  BY ConfiguringFacts DEF ApartInv
<1>5. ASSUME Target(k) # Topology
      PROVE  /\ Target(k) \in Children /\ Own(k) = Obj(Target(k)) /\ Obj(Target(k)) \in Objects
             /\ HasHandler(Target(k)) /\ Held(Target(k)) = data[Obj(Target(k))]
  <2>1. Own(k) = Obj(Target(k)) /\ Target(k) \in Children
    BY <1>1, <1>5, OwnIs
  <2>2. HasHandler(Target(k))
    BY <1>3, <2>1 DEF MadeSoFar
  <2> QED
    BY <2>1, <2>2, ObjFacts, OneHandler
<1> QED
  BY <1>1, <1>2, <1>3, <1>4, <1>5

\* A configuration is copied to data.
LEMMA CopiedType ==
  ASSUME ApartInv, NEW k \in Callers, pc[k] \in Configuring
  PROVE  /\ Target(k) = Topology => Copied(k) = CopyTopology(Config(k))
         /\ Target(k) \in Nodes => Copied(k) = CopyNode(Config(k))
         /\ Target(k) \in Links => Copied(k) = CopyLink(Config(k))
BY ResourceFacts DEF Copied

\* The configuration replaces the data of the handler.
LEMMA CopyConfigApart ==
  ASSUME ApartInv, NEW k \in Callers, CopyConfig(k)
  PROVE  ApartInv' /\ UNCHANGED Atomic!vars
<1>1. pc[k] = "copy" /\ pc[k] \in Configuring
  BY DEF CopyConfig, At, Configuring
<1>2. PICK r : r = Target(k)
  OBVIOUS
<1>3. /\ pc'[k] = (IF r = Topology THEN "status" ELSE "parent")
      /\ call' = call /\ ghost' = ghost
      /\ \A j \in Callers \ {k} : SameCall(j) /\ ghost'[j] = ghost[j]
      /\ UNCHANGED <<alive, topologyMade, made, inMap, observers, stateCache, read, jobs>>
  BY <1>1, <1>2, PastCreate DEF CopyConfig, Goto, LocalsShape, SameCall
<1>4. /\ r = Topology => topologyData' = Copied(k) /\ data' = data
      /\ r # Topology => /\ data' = [data EXCEPT ![Obj(r)] = Copied(k)]
                         /\ topologyData' = topologyData
  <2>1. r # Topology => r \in Children
    BY <1>1, <1>2, PastCreate
  <2> QED
    BY <1>1, <1>2, <2>1, PastCreate, CopiedType, ResourceFacts DEF CopyConfig
<1>5. /\ Held(Target(k))' = Copied(k)
      /\ \A s \in Children \ {Target(k)} : data'[Obj(s)] = data[Obj(s)]
  <2>1. Target(k)' = Target(k)
    BY <1>3 DEF Target
  <2>2. CASE r = Topology
    BY <1>2, <1>4, <2>1, <2>2 DEF Held
  <2>3. CASE r # Topology
    <3>1. /\ Obj(r) \in DOMAIN data
          /\ \A s \in Children : Obj(s) \in DOMAIN data /\ (Obj(s) = Obj(r) => s = r)
      BY <1>1, <1>2, <2>3, PastCreate, ObjFacts DEF MemoryOK
    <3>2. /\ data'[Obj(r)] = Copied(k)
          /\ \A s \in Children : s # r => data'[Obj(s)] = data[Obj(s)]
      BY <1>4, <2>3, <3>1
    <3>3. Held(Target(k))' = data'[Obj(r)]
      BY <1>2, <2>1, <2>3 DEF Held, Obj
    <3> QED
      BY <1>2, <3>2, <3>3
  <2> QED
    BY <2>2, <2>3
<1>6. StepsInv'
  BY CopyTypes DEF ApartInv
<1>7. HandlersInv' /\ \A s \in Children : HasHandler(s)' = HasHandler(s)
  <2>1. \A s \in Children : HasHandler(s) \/ data'[Obj(s)] = data[Obj(s)]
    BY <1>1, <1>5, PastCreate, ResourceFacts
  <2>2. pc'[k] # "insert" /\ pc[k] # "insert" /\ k \in Busy
    BY <1>1, <1>3, PastCreate
  <2> QED
    BY <1>3, <2>1, <2>2, HandlersSame
<1>8. /\ Target(k)' = Target(k) /\ Ground(k)' = Ground(k)
      /\ \A s : Before(k, s)' = Before(k, s)
  BY <1>1, <1>3, PastCreate, SameEvent
<1>9. MadeSoFar(k)'
  BY <1>1, <1>3, <1>7, <1>8, PastCreate DEF MadeSoFar, Making, Configuring
<1>10. /\ k \in Busy /\ ghost'[k] = ghost[k] /\ call'[k].event = call[k].event
       /\ pc[k] \notin {"work", "write"} /\ pc'[k] \notin {"idle", "work", "write"}
       /\ pc'[k] \notin {"create", "delete", "register", "insert", "copy", "parse"}
       /\ ~(pc'[k] = "status" /\ Target(k) # Topology)
       /\ Target(k) # Topology => topologyData' = topologyData
  BY <1>1, <1>2, <1>3, <1>4, PastCreate
<1> QED
  BY <1>3, <1>5, <1>6, <1>7, <1>9, <1>10, PreparingGoesOn

\* The status of the parent is read.
LEMMA ReadParentApart ==
  ASSUME ApartInv, NEW k \in Callers, ReadParent(k)
  PROVE  ApartInv' /\ UNCHANGED Atomic!vars
<1>1. pc[k] = "parent" /\ pc[k] \in Configuring
  BY DEF ReadParent, At, Configuring
<1>2. Target(k) # Topology
  BY <1>1, PastCreate, ResourceFacts DEF CallOK
<1>3. /\ pc'[k] = "status" /\ read'[k] = topologyData.status
      /\ call' = call /\ ghost' = ghost
      /\ \A j \in Callers \ {k} : SameCall(j) /\ ghost'[j] = ghost[j]
      /\ UNCHANGED <<alive, memory, jobs>>
  BY <1>1, PastCreate DEF ReadParent, Goto, LocalsShape, SameCall
<1>4. UNCHANGED <<alive, topologyMade, made, inMap, observers, topologyData, data, stateCache>>
  BY <1>3 DEF memory
<1>5. StepsInv'
  BY ReadParentTypes DEF ApartInv
<1>6. HandlersInv' /\ \A s \in Children : HasHandler(s)' = HasHandler(s)
  BY <1>1, <1>3, <1>4, PastCreate, HandlersSame
<1>7. /\ Target(k)' = Target(k) /\ Ground(k)' = Ground(k)
      /\ \A s : Before(k, s)' = Before(k, s)
  BY <1>1, <1>3, PastCreate, SameEvent
<1>8. MadeSoFar(k)'
  BY <1>1, <1>3, <1>4, <1>6, <1>7, PastCreate DEF MadeSoFar, Making, Configuring
<1>9. Held(Target(k))' = Copied(k)
  <2>1. Held(Target(k)) = Copied(k)
    BY <1>1, PastCreate DEF CallInv, Preparing
  <2> QED
    BY <1>4, <1>7, <2>1 DEF Held, Obj
<1>10. /\ k \in Busy /\ ghost'[k] = ghost[k] /\ call'[k].event = call[k].event
       /\ pc[k] \notin {"work", "write"} /\ pc'[k] \notin {"idle", "work", "write"}
       /\ pc'[k] \notin {"create", "delete", "register", "insert", "copy", "parse"}
  BY <1>1, <1>3, PastCreate
<1> QED
  BY <1>3, <1>4, <1>5, <1>6, <1>8, <1>9, <1>10, PreparingGoesOn

\* A link sets its status.
LEMMA LinkStatusApart ==
  ASSUME ApartInv, NEW k \in Callers, LinkStatus(k)
  PROVE  ApartInv' /\ UNCHANGED Atomic!vars
<1>1. pc[k] = "status" /\ pc[k] \in Configuring /\ Target(k) \in Links
  BY DEF LinkStatus, At, Configuring
<1>2. Target(k) # Topology
  BY <1>1, ResourceFacts
<1>3. Held(Target(k)) = CopyLink(Config(k)) /\ read[k] = topologyData.status
  BY <1>1, <1>2, PastCreate, CopiedType DEF CallInv, Preparing
<1>4. PICK r : r = Target(k)
  OBVIOUS
<1>5. /\ pc'[k] = "parse" /\ call' = call /\ ghost' = ghost
      /\ \A j \in Callers \ {k} : SameCall(j) /\ ghost'[j] = ghost[j]
      /\ data' = [data EXCEPT ![Obj(r)] = LinkCopied(k)]
      /\ UNCHANGED <<alive, topologyMade, made, inMap, observers, topologyData, stateCache,
                     read, jobs>>
  BY <1>1, <1>2, <1>3, <1>4, PastCreate DEF LinkStatus, Goto, LocalsShape, SameCall, LinkCopied
<1>6. /\ Held(Target(k))' = LinkCopied(k)
      /\ \A s \in Children \ {Target(k)} : data'[Obj(s)] = data[Obj(s)]
  <2>1. Target(k)' = Target(k)
    BY <1>5 DEF Target
  <2>2. /\ Obj(r) \in DOMAIN data
        /\ \A s \in Children : Obj(s) \in DOMAIN data /\ (Obj(s) = Obj(r) => s = r)
    BY <1>1, <1>2, <1>4, PastCreate, ObjFacts DEF MemoryOK
  <2>3. /\ data'[Obj(r)] = LinkCopied(k)
        /\ \A s \in Children : s # r => data'[Obj(s)] = data[Obj(s)]
    BY <1>5, <2>2
  <2>4. Held(Target(k))' = data'[Obj(r)]
    BY <1>2, <1>4, <2>1 DEF Held, Obj
  <2> QED
    BY <1>4, <2>3, <2>4
<1>7. StepsInv'
  BY LinkStatusTypes DEF ApartInv
<1>8. HandlersInv' /\ \A s \in Children : HasHandler(s)' = HasHandler(s)
  <2>1. \A s \in Children : HasHandler(s) \/ data'[Obj(s)] = data[Obj(s)]
    BY <1>1, <1>2, <1>6, PastCreate
  <2> QED
    BY <1>1, <1>5, <2>1, PastCreate, HandlersSame
<1>9. /\ Target(k)' = Target(k) /\ Ground(k)' = Ground(k)
      /\ \A s : Before(k, s)' = Before(k, s)
  BY <1>1, <1>5, PastCreate, SameEvent
<1>10. MadeSoFar(k)'
  BY <1>1, <1>5, <1>8, <1>9, PastCreate DEF MadeSoFar, Making, Configuring
<1>11. /\ k \in Busy /\ ghost'[k] = ghost[k] /\ call'[k].event = call[k].event
       /\ pc[k] \notin {"work", "write"} /\ pc'[k] \notin {"idle", "work", "write"}
       /\ pc'[k] \notin {"create", "delete", "register", "insert", "copy", "parent", "status"}
  BY <1>1, <1>5, PastCreate
<1> QED
  BY <1>2, <1>5, <1>6, <1>7, <1>8, <1>10, <1>11, PreparingGoesOn

-----------------------------------------------------------------------------
(***************************************************************************)
(* The jobs: what a call sets and writes.                                  *)
(***************************************************************************)
Works(k) ==
  IF Target(k) = Topology THEN TopologyWorks(k)
  ELSE IF Target(k) \in Nodes THEN NodeWorks(k)
  ELSE LinkWorks(k)

\* A call that goes on keeps the invariant, if it keeps its own part of it.
LEMMA WorkGoesOn ==
  ASSUME ApartInv, NEW k \in Callers, pc[k] \in Configuring, pc'[k] \in {"work", "write"},
         ghost' = ghost, call' = call, \A j \in Callers \ {k} : SameCall(j),
         UNCHANGED <<alive, topologyMade, made, inMap, observers>>,
         StepsInv',
         Target(k) # Topology => /\ topologyData' = topologyData
                                 /\ stateCache'[Topology] = stateCache[Topology],
         \A s \in Children \ Ground(k) : stateCache'[s] = stateCache[s],
         \A s \in Children : \/ data'[Obj(s)] = data[Obj(s)]
                             \/ s \in Ground(k) /\ HasHandler(s),
         Works(k)'
  PROVE  ApartInv' /\ UNCHANGED Atomic!vars
<1>1. /\ k \in Busy /\ pc[k] \notin {"idle", "create", "delete", "register", "insert"}
      /\ MadeSoFar(k) /\ Target(k) \in Resources
      /\ Target(k) = Topology => Ground(k) = Resources
  BY PastCreate, CallerFacts DEF Configuring
<1>2. Local(k)
  <2>1. Target(k) = Topology => Topology \in Ground(k)
    BY <1>1, ResourceFacts
  <2> QED
    BY <2>1 DEF Local
<1>3. /\ GhostOK(k)' /\ Target(k)' = Target(k) /\ Ground(k)' = Ground(k)
      /\ \A r : Before(k, r)' = Before(k, r)
  BY <1>1, SameEvent
<1>4. HandlersInv' /\ \A s \in Children : HasHandler(s)' = HasHandler(s)
  BY <1>1, HandlersSame
<1>5. MadeSoFar(k)'
  BY <1>1, <1>3, <1>4 DEF MadeSoFar, Making, Configuring
<1>6. CallInv(k)'
  BY <1>3, <1>5 DEF CallInv, Works
<1> QED
  BY <1>1, <1>2, <1>4, <1>6, GoesOnKeeps

\* A step that sets the data of one child.
LEMMA DataSet ==
  ASSUME ApartInv, NEW r \in Children, NEW d, data' = [data EXCEPT ![Obj(r)] = d],
         NEW k \in Callers
  PROVE  /\ data'[Obj(r)] = d /\ Held(r)' = d
         /\ \A s \in Children \ {r} : data'[Obj(s)] = data[Obj(s)] /\ Held(s)' = Held(s)
<1>1. \A s \in Children : Obj(s) \in DOMAIN data /\ (Obj(s) = Obj(r) => s = r) /\ s # Topology
  BY ObjFacts, ResourceFacts DEF ApartInv, StepsInv, MemoryOK
<1>2. data'[Obj(r)] = d /\ \A s \in Children \ {r} : data'[Obj(s)] = data[Obj(s)]
  BY <1>1
<1> QED
  BY <1>1, <1>2 DEF Held, Obj

\* A node sets its status and its platform.
LEMMA NodeStatusApart ==
  ASSUME ApartInv, NEW k \in Callers, NodeStatus(k)
  PROVE  ApartInv' /\ UNCHANGED Atomic!vars
<1>1. pc[k] = "status" /\ pc[k] \in Configuring /\ Target(k) \in Nodes
  BY DEF NodeStatus, At, Configuring
<1>2. PICK r : r = Target(k)
  OBVIOUS
<1>3. r \in Nodes /\ r \in Children /\ r # Topology
  BY <1>1, <1>2, ResourceFacts
<1>4. /\ data[Own(k)] = CopyNode(Config(k)) /\ read[k] = topologyData.status
      /\ Own(k) = Obj(r) /\ topologyData # NoData
      /\ Preparing(k) /\ r \in Ground(k)
  <2>1. Own(k) = Obj(r) /\ Held(r) = data[Obj(r)] /\ r \in Ground(k)
    BY <1>1, <1>2, <1>3, PastCreate
  <2>2. Preparing(k) /\ topologyData # NoData
    BY <1>1, PastCreate DEF CallInv, CallOK
  <2>3. Held(r) = CopyNode(Config(k)) /\ read[k] = topologyData.status
    BY <1>1, <1>2, <1>3, <2>2, CopiedType DEF Preparing
  <2> QED
    BY <2>1, <2>2, <2>3
<1>5. /\ pc'[k] = "work" /\ call' = call /\ ghost' = ghost
      /\ jobs'[k] = <<Report(Obj(r)), Report(Obj(r))>>
      /\ \A j \in Callers \ {k} : SameCall(j)
      /\ UNCHANGED <<alive, topologyMade, made, inMap, observers, topologyData, stateCache>>
  BY <1>1, <1>4, PastCreate DEF NodeStatus, Start, Goto, LocalsShape, SameCall, Reports
<1>6. data' = [data EXCEPT ![Obj(r)] = NodeCopied(k)]
  BY <1>4 DEF NodeStatus, NodeCopied
<1>7. Held(r)' = NodeCopied(k)
      /\ \A s \in Children \ {r} : data'[Obj(s)] = data[Obj(s)] /\ Held(s)' = Held(s)
  BY <1>3, <1>6, DataSet
<1>8. /\ Target(k)' = r /\ Ground(k)' = Ground(k) /\ Config(k)' = Config(k)
      /\ \A s : Before(k, s)' = Before(k, s)
  BY <1>1, <1>2, <1>5, PastCreate, SameEvent
<1>9. StepsInv'
  BY NodeStatusTypes DEF ApartInv
<1>10. NodeWorks(k)'
  <2>1. \A s \in Ground(k) \ {r} : Held(s)' = Held(s)
    <3>1. \A s \in Ground(k) \ {r} : s \in Children \/ s = Topology
      BY <1>1, CallerFacts, ResourceFacts, PastCreate
    <3>2. Held(Topology)' = Held(Topology)
      BY <1>5 DEF Held
    <3> QED
      BY <1>7, <3>1, <3>2
  <2>2. (DataKept(k, Ground(k) \ {r}) /\ ShownKept(k, Ground(k) \ {r}))'
    BY <1>2, <1>4, <1>5, <1>8, <2>1 DEF Preparing, DataKept, ShownKept
  <2>3. stateCache'[r] = Before(k, r).shown
    BY <1>4, <1>5 DEF Preparing, ShownKept
  <2>4. NodeCopied(k)' = NodeCopied(k)
    BY <1>5, <1>8 DEF NodeCopied
  <2>5. Len(jobs'[k]) = 2 /\ Obj(r)' = Obj(r)
    BY <1>5 DEF Obj
  <2> QED
    BY <1>4, <1>5, <1>7, <1>8, <2>2, <2>3, <2>4, <2>5 DEF NodeWorks
<1>11. Works(k)'
  BY <1>3, <1>8, <1>10 DEF Works
<1>12. \A s \in Children : data'[Obj(s)] = data[Obj(s)] \/ (s \in Ground(k) /\ HasHandler(s))
  BY <1>1, <1>2, <1>3, <1>4, <1>7, PastCreate
<1> QED
  BY <1>1, <1>5, <1>9, <1>11, <1>12, WorkGoesOn

-----------------------------------------------------------------------------
\* A job's work, for any call: what it reads, and where it goes.
LEMMA WorkIs ==
  ASSUME ApartInv, NEW k \in Callers, Work(k)
  PROVE  /\ pc[k] = "work" /\ pc[k] \in Configuring
         /\ pc'[k] = "write" /\ call' = call /\ jobs' = jobs /\ ghost' = ghost
         /\ \A j \in Callers \ {k} : SameCall(j)
         /\ UNCHANGED <<alive, topologyMade, made, inMap, observers, topologyData, stateCache>>
         /\ Job(k).object # Topology
<1>1. pc[k] = "work" /\ pc[k] \in Configuring
  BY DEF Work, At, Configuring
<1> QED
  BY <1>1, PastCreate DEF Work, Goto, LocalsShape, SameCall

\* What Work does to the data of a child.
LEMMA WorkSets ==
  ASSUME ApartInv, NEW k \in Callers, Work(k),
         NEW o, o = Job(k).object, NEW d, d = Changed(data[o], Job(k))
  PROVE  /\ data' = [data EXCEPT ![o] = d] /\ data[o] # NoData
         /\ read'[k] = IF o[1] \in Nodes THEN NodeState(d) ELSE LinkState(d)
BY DEF Work, ApartInv, StepsInv, LocalsShape

\* A job's write that is not the last.
LEMMA WriteIs ==
  ASSUME ApartInv, NEW k \in Callers, WriteState(k)
  PROVE  /\ pc[k] = "write" /\ pc[k] \in Configuring
         /\ \A j \in Callers \ {k} : SameCall(j)
         /\ UNCHANGED <<alive, topologyMade, made, inMap, observers, topologyData, data>>
         /\ Len(jobs[k]) # 1 =>
              /\ pc'[k] = "work" /\ call' = call /\ ghost' = ghost /\ jobs'[k] = Tail(jobs[k])
         /\ Len(jobs[k]) = 1 => Return(k)
<1>1. pc[k] = "write" /\ pc[k] \in Configuring
  BY DEF WriteState, At, Configuring
<1>2. LocalsShape
  BY <1>1, PastCreate
<1>4. CASE Len(jobs[k]) = 1
  <2>1. Return(k)
    BY <1>4 DEF WriteState, Done
  <2> QED
    BY <1>1, <1>4, <2>1, ReturnKeeps DEF WriteState, ApartInv
<1>5. CASE Len(jobs[k]) # 1
  BY <1>1, <1>2, <1>5 DEF WriteState, Done, Goto, LocalsShape, SameCall
<1> QED
  BY <1>4, <1>5

\* A child's state is written to the cache, and nothing else.
LEMMA WriteChild ==
  ASSUME ApartInv, NEW k \in Callers, WriteState(k), Job(k).object # Topology
  PROVE  stateCache' = [s \in Resources |->
                          IF s = Job(k).object[1] THEN MergeState(stateCache[s], read[k])
                          ELSE stateCache[s]]
BY DEF WriteState

\* A node marshals itself.
LEMMA NodeWorkApart ==
  ASSUME ApartInv, NEW k \in Callers, Work(k), Target(k) \in Nodes
  PROVE  ApartInv' /\ UNCHANGED Atomic!vars
<1>1. pc[k] = "work" /\ pc[k] \in Configuring
  BY WorkIs
<1>2. PICK r : r = Target(k)
  OBVIOUS
<1>3. r \in Nodes /\ r \in Children /\ r # Topology
  BY <1>2, ResourceFacts
<1>4. NodeWorks(k) /\ r \in Ground(k) /\ HasHandler(r)
  BY <1>1, <1>2, <1>3, PastCreate DEF CallInv
<1>5. Job(k) = Report(Obj(r))
  BY <1>2, <1>4 DEF NodeWorks, Job
<1>6. data[Obj(r)] = NodeCopied(k)
  BY <1>2, <1>3, <1>4 DEF NodeWorks, Held
<1>7. data' = [data EXCEPT ![Obj(r)] = NodeCopied(k)] /\ read'[k] = NodeState(NodeCopied(k))
  <2>1. Job(k).object = Obj(r) /\ Changed(data[Obj(r)], Job(k)) = NodeCopied(k)
    BY <1>5, <1>6 DEF Report, Changed
  <2>2. Obj(r)[1] \in Nodes
    BY <1>3, ObjFacts
  <2> QED
    BY <2>1, <2>2, WorkSets
<1>8. /\ Held(r)' = Held(r)
      /\ \A s \in Children \ {r} : data'[Obj(s)] = data[Obj(s)] /\ Held(s)' = Held(s)
  <2>1. Held(r)' = NodeCopied(k)
    BY <1>3, <1>7, DataSet
  <2> QED
    BY <1>2, <1>3, <1>4, <1>7, <2>1, DataSet DEF NodeWorks
<1>9. /\ Target(k)' = r /\ Ground(k)' = Ground(k) /\ Config(k)' = Config(k)
      /\ \A s : Before(k, s)' = Before(k, s)
  BY <1>1, <1>2, PastCreate, SameEvent, WorkIs
<1>10. NodeWorks(k)'
  <2>1. \A s \in Ground(k) \ {r} : Held(s)' = Held(s)
    <3>1. \A s \in Ground(k) \ {r} : s \in Children \/ s = Topology
      BY <1>1, CallerFacts, ResourceFacts, PastCreate
    <3>2. Held(Topology)' = Held(Topology)
      BY WorkIs DEF Held
    <3> QED
      BY <1>8, <3>1, <3>2
  <2>2. (DataKept(k, Ground(k) \ {r}) /\ ShownKept(k, Ground(k) \ {r}))'
    BY <1>2, <1>4, <1>9, <2>1, WorkIs DEF NodeWorks, DataKept, ShownKept
  <2>3. NodeCopied(k)' = NodeCopied(k) /\ Obj(r)' = Obj(r)
    BY <1>9, WorkIs DEF NodeCopied, Obj
  <2> QED
    BY <1>2, <1>4, <1>7, <1>8, <1>9, <2>2, <2>3, WorkIs DEF NodeWorks
<1>11. Works(k)'
  BY <1>3, <1>9, <1>10 DEF Works
<1>12. \A s \in Children : data'[Obj(s)] = data[Obj(s)] \/ (s \in Ground(k) /\ HasHandler(s))
  BY <1>4, <1>8
<1> QED
  BY <1>1, <1>11, <1>12, WorkIs, WorkTypes, WorkGoesOn DEF ApartInv

\* A node writes itself, the first of two times.
LEMMA NodeWriteApart ==
  ASSUME ApartInv, NEW k \in Callers, WriteState(k), Target(k) \in Nodes, Len(jobs[k]) # 1
  PROVE  ApartInv' /\ UNCHANGED Atomic!vars
<1>1. pc[k] = "write" /\ pc[k] \in Configuring
  BY WriteIs
<1>2. PICK r : r = Target(k)
  OBVIOUS
<1>3. r \in Nodes /\ r \in Children /\ r # Topology /\ r \in Resources
  BY <1>2, ResourceFacts
<1>4. NodeWorks(k) /\ r \in Ground(k) /\ Ground(k) \subseteq Resources
  BY <1>1, <1>2, <1>3, PastCreate, CallerFacts DEF CallInv
<1>5. /\ jobs[k] = <<Report(Obj(r)), Report(Obj(r))>> /\ Len(jobs[k]) = 2
      /\ Job(k) = Report(Obj(r)) /\ jobs'[k] = <<Report(Obj(r))>>
      /\ Len(jobs'[k]) = 1
  <2>1. Len(<<Report(Obj(r))>>) = 1
    OBVIOUS
  <2>2. jobs[k] = <<Report(Obj(r)), Report(Obj(r))>>
    BY <1>2, <1>4, <2>1 DEF NodeWorks
  <2>3. \A j : Len(<<j, j>>) = 2 /\ Head(<<j, j>>) = j /\ Tail(<<j, j>>) = <<j>>
    OBVIOUS
  <2>4. Len(jobs[k]) = 2 /\ Job(k) = Report(Obj(r)) /\ Tail(jobs[k]) = <<Report(Obj(r))>>
    BY <2>2, <2>3 DEF Job
  <2>5. jobs'[k] = Tail(jobs[k])
    BY WriteIs
  <2> QED
    BY <2>1, <2>2, <2>4, <2>5
<1>6. stateCache' = [s \in Resources |->
                       IF s = r THEN MergeState(Before(k, r).shown, NodeState(NodeCopied(k)))
                       ELSE stateCache[s]]
  <2>1. Job(k).object = Obj(r) /\ Obj(r) # Topology /\ Obj(r)[1] = r
    BY <1>3, <1>5, ObjFacts DEF Report
  <2>2. stateCache[r] = Before(k, r).shown /\ read[k] = NodeState(NodeCopied(k))
    BY <1>1, <1>2, <1>4, <1>5 DEF NodeWorks
  <2>3. stateCache' = [s \in Resources |->
                         IF s = r THEN MergeState(stateCache[r], read[k]) ELSE stateCache[s]]
    BY <2>1, WriteChild
  <2> QED
    BY <2>2, <2>3
<1>7. /\ Target(k)' = r /\ Ground(k)' = Ground(k) /\ Config(k)' = Config(k)
      /\ \A s : Before(k, s)' = Before(k, s)
  BY <1>1, <1>2, <1>5, PastCreate, SameEvent, WriteIs
<1>8. \A s : Held(s)' = Held(s)
  BY WriteIs DEF Held, Obj
<1>9. NodeWorks(k)'
  <2>1. (DataKept(k, Ground(k) \ {r}) /\ ShownKept(k, Ground(k) \ {r}))'
    BY <1>2, <1>4, <1>6, <1>7, <1>8 DEF NodeWorks, DataKept, ShownKept
  <2>2. NodeCopied(k)' = NodeCopied(k) /\ Obj(r)' = Obj(r)
    BY <1>7, WriteIs DEF NodeCopied, Obj
  <2>3. /\ stateCache'[r] = MergeState(Before(k, r).shown, NodeState(NodeCopied(k)))
        /\ pc'[k] = "work"
    BY <1>3, <1>5, <1>6, WriteIs
  <2>4. Held(r)' = NodeCopied(k) /\ topologyData' # NoData
    BY <1>2, <1>4, <1>8, WriteIs DEF NodeWorks
  <2> QED
    BY <1>5, <1>7, <2>1, <2>2, <2>3, <2>4 DEF NodeWorks
<1>10. Works(k)'
  BY <1>3, <1>7, <1>9 DEF Works
<1>11. /\ stateCache'[Topology] = stateCache[Topology]
       /\ \A s \in Children \ Ground(k) : stateCache'[s] = stateCache[s]
  BY <1>3, <1>4, <1>6, ResourceFacts
<1> QED
  BY <1>1, <1>5, <1>10, <1>11, WriteIs, WriteTypes, WorkGoesOn DEF ApartInv

-----------------------------------------------------------------------------
(***************************************************************************)
(* The topology's status: the observers that are called back are listed    *)
(* once each.                                                              *)
(***************************************************************************)
LEMMA ListedOnce ==
  ASSUME NEW S, IsFiniteSet(S), NEW list \in SetToSeqs(S)
  PROVE  /\ Cardinality(S) \in Nat /\ list \in [1..Cardinality(S) -> S]
         /\ \A i, j \in 1..Cardinality(S) : i # j => list[i] # list[j]
         /\ \A o \in S : \E i \in 1..Cardinality(S) : list[i] = o
<1> DEFINE n == Cardinality(S)
<1>1. n \in Nat
  BY FS_CardinalityType
<1>2. list \in [1..n -> S] /\ \A i, j \in 1..n : i # j => list[i] # list[j]
  BY DEF SetToSeqs
<1>3. IsFiniteSet(1..n) /\ Cardinality(1..n) = n
  BY <1>1, FS_Interval
<1>4. list \in Injection(1..n, S)
  BY <1>2 DEF Injection, IsInjective
<1>5. list \in Surjection(1..n, S)
  BY <1>3, <1>4, FS_Injection
<1> QED
  BY <1>1, <1>2, <1>5 DEF Surjection

\* The jobs of a topology: a call back for each on the list, then itself twice.
LEMMA ListedJobs ==
  ASSUME NEW n \in Nat, NEW T, NEW c \in [1..n -> T]
  PROVE  LET q == c \o Reports(Topology)
         IN  /\ Len(q) = n + 2 /\ DOMAIN q = 1..(n + 2)
             /\ \A i \in 1..n : q[i] = c[i]
             /\ q[n + 1] = Report(Topology) /\ q[n + 2] = Report(Topology)
<1>0. PICK q : q = c \o Reports(Topology)
  OBVIOUS
<1>1. PICK h, U : h = Reports(Topology) /\ U = T \cup {Report(Topology)}
  OBVIOUS
<1>2. c \in Seq(U) /\ Len(c) = n
  BY <1>1
<1>3. h \in Seq(U) /\ Len(h) = 2 /\ h[1] = Report(Topology) /\ h[2] = Report(Topology)
  BY <1>1 DEF Reports
<1>4. q \in Seq(U) /\ Len(q) = n + 2
  <2>1. c \o h \in Seq(U) /\ Len(c \o h) = Len(c) + Len(h)
    BY <1>2, <1>3, ConcatProperties
  <2> QED
    BY <1>0, <1>1, <1>2, <1>3, <2>1
<1>5. \A i \in 1..(n + 2) : q[i] = IF i <= n THEN c[i] ELSE h[i - n]
  <2>1. \A i \in 1..(Len(c) + Len(h)) : (c \o h)[i] = IF i <= Len(c) THEN c[i] ELSE h[i - Len(c)]
    BY <1>2, <1>3, ConcatProperties
  <2> QED
    BY <1>0, <1>1, <1>2, <1>3, <2>1
<1>6. DOMAIN q = 1..(n + 2) /\ \A i \in 1..n : q[i] = c[i]
  BY <1>4, <1>5
<1>7. q[n + 1] = h[1] /\ q[n + 2] = h[2]
  <2>1. n + 1 \in 1..(n + 2) /\ n + 2 \in 1..(n + 2) /\ ~(n + 1 <= n) /\ ~(n + 2 <= n)
        /\ (n + 1) - n = 1 /\ (n + 2) - n = 2
    OBVIOUS
  <2> QED
    BY <1>5, <2>1
<1> QED
  BY <1>0, <1>3, <1>4, <1>6, <1>7

\* Under a call about the topology the observers are the children with a handler.
LEMMA ObserversAre ==
  ASSUME ApartInv, NEW k \in Callers, pc[k] \in Configuring, Target(k) = Topology
  PROVE  /\ Ground(k) = Resources
         /\ \A r \in Children : HasHandler(r) <=> Before(k, r).made
         /\ \A r \in Children : Obj(r) \in observers <=> Before(k, r).made
         /\ \A o \in observers : o[1] \in Children /\ o = Obj(o[1])
<1>1. Ground(k) = Resources /\ MadeSoFar(k) /\ k \in Busy
  BY PastCreate, CallerFacts
<1>2. \A r \in Children : HasHandler(r) <=> Before(k, r).made
  BY <1>1, ResourceFacts DEF MadeSoFar
<1>3. ASSUME NEW r \in Children, Inserting(r) PROVE FALSE
  <2>1. PICK j \in Callers : pc[j] = "insert" /\ Target(j) = r
    BY <1>3 DEF Inserting
  <2>2. j \in Busy /\ r \in Ground(j)
    BY <2>1, CallerFacts
  <2>3. j # k
    BY <2>1 DEF Configuring
  <2> QED
    BY <1>1, <2>2, <2>3, ResourceFacts DEF ApartInv, GroundsApart
<1>4. \A r \in Children : Obj(r) \in observers <=> Before(k, r).made
  BY <1>2, <1>3 DEF ApartInv, HandlersInv
<1>5. \A o \in observers : o[1] \in Children /\ o = Obj(o[1])
  BY ObjectFacts DEF ApartInv, HandlersInv, StepsInv, MemoryOK
<1> QED
  BY <1>1, <1>2, <1>4, <1>5

\* A topology sets its status and lists its observers.
LEMMA TopologyStatusApart ==
  ASSUME ApartInv, NEW k \in Callers, TopologyStatus(k)
  PROVE  ApartInv' /\ UNCHANGED Atomic!vars
<1>1. pc[k] = "status" /\ pc[k] \in Configuring /\ Target(k) = Topology
  BY DEF TopologyStatus, At, Configuring
<1>2. /\ Preparing(k) /\ Ground(k) = Resources /\ LocalsShape
      /\ topologyData = CopyTopology(Config(k))
  <2>1. Preparing(k) /\ LocalsShape
    BY <1>1, PastCreate DEF CallInv
  <2>2. Held(Target(k)) = Copied(k)
    BY <1>1, <2>1 DEF Preparing
  <2> QED
    BY <1>1, <2>1, <2>2, CopiedType, ObserversAre DEF Held
<1>3. PICK told, list :
        /\ told = IF HandleTopologyStatus(topologyData).status = topologyData.status
                  THEN {} ELSE observers
        /\ list \in SetToSeqs(told)
        /\ Start(k, [i \in DOMAIN list |-> Notify(list[i])] \o Reports(Topology))
  BY DEF TopologyStatus
<1>4. PICK n : n = Cardinality(told)
  OBVIOUS
<1>5. IsFiniteSet(told) /\ told \subseteq observers
  BY <1>3, FS_EmptySet DEF ApartInv, StepsInv, MemoryOK
<1>6. /\ n \in Nat /\ list \in [1..n -> told] /\ DOMAIN list = 1..n
      /\ \A i, j \in 1..n : i # j => list[i] # list[j]
      /\ \A o \in told : \E i \in 1..n : list[i] = o
  BY <1>3, <1>4, <1>5, ListedOnce
<1>7. /\ pc'[k] = "work" /\ call' = call /\ ghost' = ghost
      /\ \E c \in [1..n -> {Notify(o) : o \in told}] :
           (\A i \in 1..n : c[i] = Notify(list[i])) /\ jobs'[k] = c \o Reports(Topology)
      /\ \A j \in Callers \ {k} : SameCall(j)
      /\ UNCHANGED <<alive, topologyMade, made, inMap, observers, data, stateCache>>
      /\ topologyData' = HandleTopologyStatus(topologyData)
  <2> DEFINE c == [i \in DOMAIN list |-> Notify(list[i])]
  <2>1. c \in [1..n -> {Notify(o) : o \in told}] /\ \A i \in 1..n : c[i] = Notify(list[i])
    BY <1>6
  <2>2. jobs'[k] = c \o Reports(Topology)
    BY <1>2, <1>3 DEF Start, LocalsShape
  <2> HIDE DEF c
  <2>3. \E d \in [1..n -> {Notify(o) : o \in told}] :
          (\A i \in 1..n : d[i] = Notify(list[i])) /\ jobs'[k] = d \o Reports(Topology)
    BY <2>1, <2>2
  <2> QED
    BY <1>2, <1>3, <2>3 DEF TopologyStatus, Start, Goto, LocalsShape, SameCall
<1>8. PICK q : q = jobs'[k]
  OBVIOUS
<1>9. /\ Len(q) = n + 2 /\ DOMAIN q = 1..(n + 2)
      /\ \A i \in 1..n : q[i] = Notify(list[i])
      /\ q[n + 1] = Report(Topology) /\ q[n + 2] = Report(Topology)
  <2>1. PICK c \in [1..n -> {Notify(o) : o \in told}] :
          (\A i \in 1..n : c[i] = Notify(list[i])) /\ jobs'[k] = c \o Reports(Topology)
    BY <1>7
  <2>2. /\ Len(q) = n + 2 /\ DOMAIN q = 1..(n + 2)
        /\ \A i \in 1..n : q[i] = c[i]
        /\ q[n + 1] = Report(Topology) /\ q[n + 2] = Report(Topology)
    <3>1. PICK T : T = {Notify(o) : o \in told}
      OBVIOUS
    <3>2. c \in [1..n -> T] /\ q = c \o Reports(Topology) /\ n \in Nat
      BY <1>6, <1>8, <2>1, <3>1
    <3> QED
      BY <3>2, ListedJobs
  <2> QED
    BY <2>1, <2>2
<1>10. /\ Target(k)' = Target(k) /\ Ground(k)' = Ground(k) /\ Config(k)' = Config(k)
       /\ \A s : Before(k, s)' = Before(k, s)
  BY <1>1, <1>7, PastCreate, SameEvent
<1>11. \A s : Held(s)' = IF s = Topology THEN topologyData' ELSE Held(s)
  BY <1>7 DEF Held, Obj
<1>12. topologyData'.status = Nil => n = 0
  <2>1. topologyData.status = Nil
    BY <1>2 DEF CopyTopology
  <2>2. topologyData'.status = Nil => told = {}
    BY <1>3, <1>7, <2>1
  <2> QED
    BY <1>4, <2>2, FS_EmptySet
<1>13. \A r \in Children : Before(k, r).made /\ topologyData'.status # Nil =>
         \E i \in 1..n : q[i] = Notify(Obj(r))
  <2>1. topologyData.status = Nil
    BY <1>2 DEF CopyTopology
  <2>2. topologyData'.status # Nil => told = observers
    BY <1>3, <1>7, <2>1
  <2> QED
    BY <1>1, <1>6, <1>9, <2>2, ObserversAre
<1>14. \A i \in 1..n : \E r \in Children : q[i] = Notify(Obj(r)) /\ Before(k, r).made
  BY <1>1, <1>5, <1>6, <1>9, ObserversAre
<1>15. TopologyJobs(k)'
  <2>1. \A i \in DOMAIN q : IF i > Len(q) - 2 THEN q[i] = Report(Topology)
                            ELSE \E r \in Children : q[i] = Notify(Obj(r)) /\ Before(k, r).made
    <3> TAKE i \in DOMAIN q
    <3>1. i \in 1..n \/ i = n + 1 \/ i = n + 2
      BY <1>6, <1>9
    <3>2. i > Len(q) - 2 <=> i \notin 1..n
      BY <1>6, <1>9
    <3> QED
      BY <1>9, <1>14, <3>1, <3>2
  <2>2. \A i, j \in DOMAIN q : i # j /\ q[i] = q[j] => q[i] = Report(Topology)
    <3> SUFFICES ASSUME NEW i \in DOMAIN q, NEW j \in DOMAIN q, i # j, q[i] = q[j]
                 PROVE  q[i] = Report(Topology)
      OBVIOUS
    <3>1. (i \in 1..n \/ q[i] = Report(Topology)) /\ (j \in 1..n \/ q[j] = Report(Topology))
      BY <1>6, <1>9
    <3>2. \A o, p : Notify(o) = Notify(p) => o = p
      BY DEF Notify
    <3>3. i \in 1..n /\ j \in 1..n => list[i] # list[j] /\ list[i] = list[j]
      BY <1>6, <1>9, <3>2
    <3> QED
      BY <3>1, <3>3
  <2>3. topologyData'.status = Nil => Len(q) <= 2
    BY <1>9, <1>12
  <2>4. Len(q) \in Nat \ {0} /\ DOMAIN q = 1..Len(q)
    BY <1>6, <1>9
  <2>5. \A r : Obj(r)' = Obj(r) /\ Notify(Obj(r))' = Notify(Obj(r))
    BY DEF Obj, Notify
  <2> QED
    BY <1>8, <1>10, <2>1, <2>2, <2>3, <2>4 DEF TopologyJobs, Obj
<1>16. \A r \in Children : Before(k, r).made /\ topologyData'.status # Nil => Pending(k, r)'
  <2> TAKE r \in Children
  <2>1. Before(k, r).made /\ topologyData'.status # Nil =>
          \E i \in DOMAIN q : q[i] = Notify(Obj(r))
    BY <1>6, <1>9, <1>13
  <2> QED
    BY <1>8, <2>1 DEF Pending, Obj, Notify
<1>17. \A r \in Children : ~Told(k, r)' /\ ~Written(k, r)'
  BY <1>7, <1>10, <1>16 DEF Told, Written
<1>18. Len(jobs'[k]) # 1
  BY <1>6, <1>8, <1>9
<1>19. TopologyWorks(k)'
  <2>1. topologyData' = HandleTopologyStatus(CopyTopology(Config(k)))'
    BY <1>2, <1>7, <1>10
  <2>2. \A r \in Resources : stateCache'[r] = Before(k, r).shown
    BY <1>2, <1>7 DEF Preparing, ShownKept
  <2>3. \A r \in Children : Held(r)' = Before(k, r).data
    BY <1>1, <1>2, <1>11, ResourceFacts DEF Preparing, DataKept
  <2> QED
    BY <1>7, <1>10, <1>15, <1>17, <1>18, <2>1, <2>2, <2>3, ResourceFacts DEF TopologyWorks, ChildWorks, ReportWorks
<1>20. Works(k)'
  BY <1>1, <1>10, <1>19 DEF Works
<1>21. StepsInv'
  BY TopologyStatusTypes DEF ApartInv
<1> QED
  BY <1>1, <1>2, <1>7, <1>20, <1>21, ResourceFacts, WorkGoesOn

-----------------------------------------------------------------------------
(***************************************************************************)
(* The jobs of a topology.                                                 *)
(***************************************************************************)
LEMMA NotifyFacts ==
  /\ \A o, p : Notify(o) = Notify(p) => o = p
  /\ \A o, p : Notify(o) # Report(p)
  /\ \A o : Notify(o).object = o /\ Notify(o).by = "status"
  /\ \A o : Report(o).object = o /\ Report(o).by = "nothing"
<1>1. /\ \A o : Notify(o).object = o /\ Notify(o).by = "status"
      /\ \A o : Report(o).object = o /\ Report(o).by = "nothing"
  BY DEF Notify, Report
<1>2. "status" # "nothing"
  OBVIOUS
<1> QED
  BY <1>1, <1>2

\* The job at hand is a call back, or the topology's own.
LEMMA TopologyJobIs ==
  ASSUME ApartInv, NEW k \in Callers, pc[k] \in {"work", "write"}, Target(k) = Topology
  PROVE  /\ TopologyWorks(k) /\ TopologyJobs(k)
         /\ Job(k) = jobs[k][1] /\ jobs[k] # <<>>
         /\ \/ /\ Len(jobs[k]) > 2 /\ topologyData.status # Nil
               /\ \E r \in Children : /\ Job(k) = Notify(Obj(r)) /\ Before(k, r).made
                                      /\ HasHandler(r) /\ Pending(k, r)
            \/ /\ Len(jobs[k]) \in {1, 2} /\ Job(k) = Report(Topology)
               /\ \A r \in Children : ~Pending(k, r)
<1>1. pc[k] \in Configuring
  BY DEF Configuring
<1>2. TopologyWorks(k) /\ TopologyJobs(k)
  BY <1>1, PastCreate DEF CallInv, TopologyWorks, ChildWorks, ReportWorks
<1>3. jobs[k] # <<>> /\ Job(k) = jobs[k][1]
  BY WorkingFacts DEF Job, ApartInv
<1>4. Len(jobs[k]) \in Nat \ {0} /\ DOMAIN jobs[k] = 1..Len(jobs[k]) /\ 1 \in DOMAIN jobs[k]
  BY <1>2 DEF TopologyJobs
<1>5. CASE Len(jobs[k]) > 2
  <2>1. ~(1 > Len(jobs[k]) - 2) /\ ~(Len(jobs[k]) <= 2)
    BY <1>4, <1>5
  <2>2. topologyData.status # Nil
    BY <1>2, <2>1 DEF TopologyJobs
  <2>3. PICK r \in Children : jobs[k][1] = Notify(Obj(r)) /\ Before(k, r).made
    BY <1>2, <1>4, <2>1 DEF TopologyJobs
  <2> QED
    BY <1>1, <1>2, <1>3, <1>4, <1>5, <2>2, <2>3, ObserversAre DEF Pending
<1>6. CASE ~(Len(jobs[k]) > 2)
  <2>1. Len(jobs[k]) \in {1, 2} /\ \A i \in DOMAIN jobs[k] : i > Len(jobs[k]) - 2
    <3>1. PICK n : n = Len(jobs[k])
      OBVIOUS
    <3>2. n \in Nat \ {0} /\ ~(n > 2) /\ DOMAIN jobs[k] = 1..n
      BY <1>4, <1>6, <3>1
    <3>3. n \in {1, 2} /\ \A i \in 1..n : i > n - 2
      BY ONLY <3>2
    <3> QED
      BY <3>1, <3>2, <3>3
  <2>2. \A i \in DOMAIN jobs[k] : jobs[k][i] = Report(Topology)
    BY <1>2, <2>1 DEF TopologyJobs
  <2> QED
    BY <1>2, <1>3, <1>4, <2>1, <2>2, NotifyFacts DEF Pending
<1> QED
  BY <1>5, <1>6

\* A topology notifies an observer.
LEMMA TopologyWorkApart ==
  ASSUME ApartInv, NEW k \in Callers, Work(k), Target(k) = Topology
  PROVE  ApartInv' /\ UNCHANGED Atomic!vars
<1>0. /\ pc'[k] = "write" /\ call' = call /\ jobs' = jobs /\ ghost' = ghost
      /\ \A j \in Callers \ {k} : SameCall(j)
      /\ UNCHANGED <<alive, topologyMade, made, inMap, observers, topologyData, stateCache>>
  BY WorkIs
<1>1. pc[k] = "work" /\ pc[k] \in Configuring /\ Job(k).object # Topology
  BY WorkIs
<1>2. TopologyWorks(k) /\ TopologyJobs(k) /\ Job(k) = jobs[k][1] /\ Ground(k) = Resources
  BY <1>1, TopologyJobIs, ObserversAre
<1>3. PICK r \in Children : /\ Job(k) = Notify(Obj(r)) /\ Before(k, r).made
                            /\ HasHandler(r) /\ Pending(k, r) /\ topologyData.status # Nil
  BY <1>1, TopologyJobIs, NotifyFacts
<1>4. PICK d : d = HandleStatus(data[Obj(r)], topologyData.status)
  OBVIOUS
<1>5. /\ data' = [data EXCEPT ![Obj(r)] = d] /\ read'[k] = ChildState(r, d)
      /\ data[Obj(r)] # NoData
  <2>1. Job(k).object = Obj(r) /\ Job(k).by = "status" /\ Obj(r)[1] = r
    BY <1>3, NotifyFacts, ObjFacts
  <2>2. Changed(data[Obj(r)], Job(k)) = d
    BY <1>4, <2>1 DEF Changed
  <2>3. /\ data' = [data EXCEPT ![Obj(r)] = d] /\ data[Obj(r)] # NoData
        /\ read'[k] = IF r \in Nodes THEN NodeState(d) ELSE LinkState(d)
    BY <2>1, <2>2, WorkSets
  <2> QED
    BY <2>3 DEF ChildState
<1>6. /\ Held(r)' = d
      /\ \A s \in Children \ {r} : data'[Obj(s)] = data[Obj(s)] /\ Held(s)' = Held(s)
  BY <1>5, DataSet
<1>7. Held(r) = Before(k, r).data /\ Held(r) = data[Obj(r)] /\ ~Told(k, r) /\ ~Written(k, r)
  <2>1. ~Told(k, r) /\ ~Written(k, r)
    BY <1>1, <1>3 DEF Told, Written
  <2> QED
    BY <1>2, <2>1, OneHandler DEF TopologyWorks, ChildWorks, ReportWorks
<1>8. /\ Target(k)' = Topology /\ Ground(k)' = Ground(k) /\ Config(k)' = Config(k)
      /\ \A s : Before(k, s)' = Before(k, s)
  BY <1>0, <1>1, PastCreate, SameEvent
<1>9. \A s \in Children : /\ Pending(k, s)' <=> Pending(k, s)
                          /\ Written(k, s)' <=> Written(k, s)
  BY <1>0, <1>8 DEF Pending, Written, Obj, Notify
<1>10. Told(k, r)' /\ \A s \in Children \ {r} : Told(k, s)' <=> Told(k, s)
  <2>1. \A s \in Children \ {r} : jobs[k][1] # Notify(Obj(s))
    BY <1>2, <1>3, NotifyFacts, ObjFacts
  <2>2. \A s \in Children : (jobs[k][1] = Notify(Obj(s)))' <=> jobs[k][1] = Notify(Obj(s))
    BY <1>0 DEF Notify, Obj
  <2>3. Told(k, r)'
    BY <1>0, <1>2, <1>3, <1>8, <1>9, <2>2 DEF Told
  <2>4. \A s \in Children \ {r} : Told(k, s)' <=> Told(k, s)
    BY <1>0, <1>1, <1>8, <1>9, <2>1, <2>2 DEF Told
  <2> QED
    BY <2>3, <2>4
<1>11. TopologyWorks(k)'
  <2>1. TopologyJobs(k)'
    BY <1>0, <1>2, <1>8 DEF TopologyJobs, Notify, Obj, Report
  <2>2. /\ topologyData = HandleTopologyStatus(CopyTopology(Config(k)))
        /\ stateCache[Topology] = IF Len(jobs[k]) = 1
             THEN MergeState(Before(k, Topology).shown, TopologyState(topologyData))
             ELSE Before(k, Topology).shown
    BY <1>2 DEF TopologyWorks, ChildWorks, ReportWorks
  <2>3. jobs'[k][1] # Report(Topology)
    BY <1>0, <1>2, <1>3, NotifyFacts
  <2>4. ASSUME NEW s \in Children
        PROVE  /\ Told(k, s)' => Before(k, s)'.data # NoData
               /\ Held(s)' = IF Told(k, s)'
                             THEN HandleStatus(Before(k, s).data, topologyData.status)'
                             ELSE Before(k, s)'.data
               /\ stateCache'[s] =
                    IF Written(k, s)' THEN MergeState(Before(k, s).shown, ChildState(s, Held(s)))'
                    ELSE IF Len(jobs[k])' = 1 /\ s \in call'[k].event.kids
                            /\ Before(k, s)'.shown = NoData
                         THEN EmptyState
                    ELSE Before(k, s)'.shown
               /\ pc'[k] = "write" /\ jobs'[k][1] = Notify(Obj(s)) =>
                    read'[k] = ChildState(s, Held(s))'
    <3>1. CASE s = r
      <4>1. stateCache[r] = IF Len(jobs[k]) = 1 /\ r \in call[k].event.kids
                               /\ Before(k, r).shown = NoData
                            THEN EmptyState ELSE Before(k, r).shown
        BY <1>2, <1>7 DEF TopologyWorks, ChildWorks, ReportWorks
      <4>2. ~Written(k, r)'
        BY <1>7, <1>9
      <4>3. ChildState(r, Held(r))' = ChildState(r, d)
        BY <1>6 DEF ChildState
      <4> QED
        BY <1>0, <1>4, <1>5, <1>6, <1>7, <1>8, <1>10, <3>1, <4>1, <4>2, <4>3
    <3>2. CASE s # r
      <4>1. /\ Told(k, s) => Before(k, s).data # NoData
            /\ Held(s) = IF Told(k, s) THEN HandleStatus(Before(k, s).data, topologyData.status)
                         ELSE Before(k, s).data
            /\ stateCache[s] =
                 IF Written(k, s) THEN MergeState(Before(k, s).shown, ChildState(s, Held(s)))
                 ELSE IF Len(jobs[k]) = 1 /\ s \in call[k].event.kids
                         /\ Before(k, s).shown = NoData
                      THEN EmptyState
                 ELSE Before(k, s).shown
        BY <1>2 DEF TopologyWorks, ChildWorks, ReportWorks
      <4>2. jobs'[k][1] # Notify(Obj(s))
        BY <1>0, <1>2, <1>3, <3>2, NotifyFacts, ObjFacts
      <4>3. ChildState(s, Held(s))' = ChildState(s, Held(s))
        BY <1>6, <3>2 DEF ChildState
      <4> QED
        BY <1>0, <1>6, <1>8, <1>9, <1>10, <3>2, <4>1, <4>2, <4>3
    <3> QED
      BY <3>1, <3>2
  <2> QED
    BY <1>0, <1>8, <2>1, <2>2, <2>3, <2>4 DEF TopologyWorks, ChildWorks, ReportWorks, Notify, Obj, Report
<1>12. Works(k)'
  BY <1>8, <1>11 DEF Works
<1>13. \A s \in Children : data'[Obj(s)] = data[Obj(s)] \/ (s \in Ground(k) /\ HasHandler(s))
  BY <1>2, <1>3, <1>6, ResourceFacts
<1> QED
  BY <1>0, <1>1, <1>12, <1>13, WorkTypes, WorkGoesOn DEF ApartInv

\* A topology marshals itself.
LEMMA WorkTopologyApart ==
  ASSUME ApartInv, NEW k \in Callers, WorkTopology(k), Target(k) = Topology
  PROVE  ApartInv' /\ UNCHANGED Atomic!vars
<1>1. pc[k] = "work" /\ pc[k] \in Configuring /\ Job(k).object = Topology
  BY DEF WorkTopology, At, Configuring
<1>2. /\ pc'[k] = "write" /\ call' = call /\ jobs' = jobs /\ ghost' = ghost
      /\ read'[k] = TopologyState(topologyData)
      /\ \A j \in Callers \ {k} : SameCall(j)
      /\ UNCHANGED <<alive, topologyMade, made, inMap, observers, topologyData, data, stateCache>>
  BY <1>1, PastCreate DEF WorkTopology, Goto, LocalsShape, SameCall, memory
<1>3. /\ TopologyWorks(k) /\ TopologyJobs(k) /\ Job(k) = jobs[k][1] /\ Ground(k) = Resources
      /\ Job(k) = Report(Topology) /\ \A r \in Children : ~Pending(k, r)
  <2>1. \A r \in Children : Job(k) # Notify(Obj(r))
    BY <1>1, NotifyFacts, ObjFacts
  <2> QED
    BY <1>1, <2>1, TopologyJobIs, ObserversAre
<1>4. /\ Target(k)' = Topology /\ Ground(k)' = Ground(k) /\ Config(k)' = Config(k)
      /\ \A s : Before(k, s)' = Before(k, s)
  BY <1>1, <1>2, PastCreate, SameEvent
<1>5. \A s \in Children : /\ ~Pending(k, s)'
                          /\ Written(k, s)' <=> Written(k, s)
                          /\ Told(k, s)' <=> Told(k, s)
                          /\ Held(s)' = Held(s)
                          /\ ChildState(s, Held(s))' = ChildState(s, Held(s))
  <2>1. \A s \in Children : Pending(k, s)' <=> Pending(k, s)
    BY <1>2 DEF Pending, Obj, Notify
  <2>2. \A s \in Children : Held(s)' = Held(s)
    BY <1>2 DEF Held, Obj
  <2> QED
    BY <1>2, <1>3, <1>4, <2>1, <2>2 DEF Written, Told, ChildState
<1>6. TopologyWorks(k)'
  <2>1. TopologyJobs(k)'
    <3>1. TopologyJobs(k) /\ jobs' = jobs /\ topologyData' = topologyData
      BY <1>2, <1>3
    <3> QED
      BY <1>4, <3>1 DEF TopologyJobs, Notify, Obj, Report
  <2>2. /\ topologyData = HandleTopologyStatus(CopyTopology(Config(k)))
        /\ stateCache[Topology] = IF Len(jobs[k]) = 1
             THEN MergeState(Before(k, Topology).shown, TopologyState(topologyData))
             ELSE Before(k, Topology).shown
    BY <1>3 DEF TopologyWorks, ChildWorks, ReportWorks
  <2>3. \A s \in Children : jobs'[k][1] # Notify(Obj(s))
    BY <1>2, <1>3, NotifyFacts
  <2>4. ASSUME NEW s \in Children
        PROVE  /\ Told(k, s) => Before(k, s).data # NoData
               /\ Held(s) = IF Told(k, s)
                            THEN HandleStatus(Before(k, s).data, topologyData.status)
                            ELSE Before(k, s).data
               /\ stateCache[s] =
                    IF Written(k, s) THEN MergeState(Before(k, s).shown, ChildState(s, Held(s)))
                    ELSE IF Len(jobs[k]) = 1 /\ s \in call[k].event.kids
                            /\ Before(k, s).shown = NoData
                         THEN EmptyState
                    ELSE Before(k, s).shown
    BY <1>3 DEF TopologyWorks, ChildWorks, ReportWorks
  <2> QED
    BY <1>2, <1>4, <1>5, <2>1, <2>2, <2>3, <2>4 DEF TopologyWorks, ChildWorks, ReportWorks, Notify, Obj
<1>7. Works(k)'
  BY <1>4, <1>6 DEF Works
<1> QED
  BY <1>1, <1>2, <1>7, WorkTopologyTypes, WorkGoesOn DEF ApartInv

\* The job that is done goes.
LEMMA NextJob ==
  ASSUME ApartInv, NEW k \in Callers, pc[k] \in {"work", "write"},
         jobs'[k] = Tail(jobs[k]), Len(jobs[k]) # 1
  PROVE  /\ Len(jobs[k]) \in Nat /\ Len(jobs[k]) > 1 /\ DOMAIN jobs[k] = 1..Len(jobs[k])
         /\ Len(jobs'[k]) = Len(jobs[k]) - 1 /\ DOMAIN jobs'[k] = 1..(Len(jobs[k]) - 1)
         /\ \A i \in 1..(Len(jobs[k]) - 1) : jobs'[k][i] = jobs[k][i + 1]
         /\ Job(k) = jobs[k][1]
<1>1. PICK S : jobs[k] \in Seq(S) /\ jobs[k] # <<>>
  BY WorkingFacts DEF ApartInv
<1>2. PICK q, n : q = jobs[k] /\ n = Len(q)
  OBVIOUS
<1>3. n \in Nat /\ n # 0 /\ n # 1 /\ DOMAIN q = 1..n
  BY <1>1, <1>2, EmptySeq, LenProperties
<1>4. /\ Tail(q) \in Seq(S) /\ Len(Tail(q)) = n - 1
      /\ \A i \in 1..(n - 1) : Tail(q)[i] = q[i + 1]
  BY <1>1, <1>2, HeadTailProperties
<1>5. DOMAIN Tail(q) = 1..(n - 1)
  BY <1>4, LenProperties
<1>6. n > 1
  BY <1>3
<1>7. Job(k) = q[1]
  BY <1>2 DEF Job
<1> QED
  BY <1>2, <1>3, <1>4, <1>5, <1>6, <1>7

\* The topology's jobs that are left.
LEMMA TopologyJobsLeft ==
  ASSUME ApartInv, NEW k \in Callers, pc[k] = "write", Target(k) = Topology,
         jobs'[k] = Tail(jobs[k]), Len(jobs[k]) # 1, ghost' = ghost,
         UNCHANGED topologyData
  PROVE  /\ TopologyJobs(k)'
         /\ \A s \in Children :
              Pending(k, s)' <=> Pending(k, s) /\ Job(k) # Notify(Obj(s))
<1>1. TopologyJobs(k)
  BY TopologyJobIs
<1>2. PICK q, p, n : q = jobs[k] /\ p = jobs'[k] /\ n = Len(q)
  OBVIOUS
<1>3. /\ n \in Nat /\ n > 1 /\ DOMAIN q = 1..n
      /\ Len(p) = n - 1 /\ DOMAIN p = 1..(n - 1)
      /\ \A i \in 1..(n - 1) : p[i] = q[i + 1]
      /\ Job(k) = q[1]
  BY <1>2, NextJob
<1>4. \A s : Before(k, s)' = Before(k, s)
  BY DEF Before
<1>5. /\ \A i \in 1..n : IF i > n - 2 THEN q[i] = Report(Topology)
                         ELSE \E r \in Children : q[i] = Notify(Obj(r)) /\ Before(k, r).made
      /\ \A i, j \in 1..n : i # j /\ q[i] = q[j] => q[i] = Report(Topology)
      /\ topologyData.status = Nil => n <= 2
  BY <1>1, <1>2, <1>3 DEF TopologyJobs
<1>6. \A i \in 1..(n - 1) : IF i > (n - 1) - 2 THEN p[i] = Report(Topology)
                            ELSE \E r \in Children : p[i] = Notify(Obj(r)) /\ Before(k, r).made
  <2> TAKE i \in 1..(n - 1)
  <2>1. i + 1 \in 1..n /\ (i > (n - 1) - 2 <=> i + 1 > n - 2)
    BY <1>3
  <2> QED
    BY <1>3, <1>5, <2>1
<1>7. \A i, j \in 1..(n - 1) : i # j /\ p[i] = p[j] => p[i] = Report(Topology)
  <2> TAKE i, j \in 1..(n - 1)
  <2>1. i + 1 \in 1..n /\ j + 1 \in 1..n /\ (i # j => i + 1 # j + 1)
    BY <1>3
  <2> QED
    BY <1>3, <1>5, <2>1
<1>8. TopologyJobs(k)'
  <2>1. n - 1 \in Nat \ {0} /\ (n <= 2 => n - 1 <= 2)
    BY <1>3
  <2>2. \A s : Notify(Obj(s))' = Notify(Obj(s)) /\ Report(s)' = Report(s)
    BY DEF Notify, Obj, Report
  <2>3. (\A i \in DOMAIN jobs[k] :
           IF i > Len(jobs[k]) - 2 THEN jobs[k][i] = Report(Topology)
           ELSE \E r \in Children : /\ jobs[k][i] = Notify(Obj(r))
                                    /\ Before(k, r).made)'
    BY <1>2, <1>3, <1>4, <1>6, <2>2 DEF Topology
  <2>4. (\A i, j \in DOMAIN jobs[k] :
           i # j /\ jobs[k][i] = jobs[k][j] => jobs[k][i] = Report(Topology))'
    BY <1>2, <1>3, <1>7, <2>2 DEF Topology
  <2> QED
    BY <1>2, <1>3, <1>5, <2>1, <2>3, <2>4 DEF TopologyJobs
<1>9. ASSUME NEW s \in Children
      PROVE  (\E i \in 1..(n - 1) : p[i] = Notify(Obj(s)))
               <=> (\E i \in 1..n : q[i] = Notify(Obj(s))) /\ q[1] # Notify(Obj(s))
  <2>1. ASSUME NEW i \in 1..(n - 1), p[i] = Notify(Obj(s))
        PROVE  (\E j \in 1..n : q[j] = Notify(Obj(s))) /\ q[1] # Notify(Obj(s))
    <3>1. i + 1 \in 1..n /\ 1 \in 1..n /\ i + 1 # 1
      BY <1>3
    <3> QED
      BY <1>3, <1>5, <2>1, <3>1, NotifyFacts
  <2>2. ASSUME NEW i \in 1..n, q[i] = Notify(Obj(s)), q[1] # Notify(Obj(s))
        PROVE  \E j \in 1..(n - 1) : p[j] = Notify(Obj(s))
    <3>1. i # 1
      BY <2>2
    <3>2. i - 1 \in 1..(n - 1) /\ (i - 1) + 1 = i
      BY <1>3, <3>1
    <3> QED
      BY <1>3, <2>2, <3>2
  <2> QED
    BY <2>1, <2>2
<1> QED
  BY <1>2, <1>3, <1>8, <1>9 DEF Pending, Notify, Obj

\* The topology's write takes its children along.
LEMMA WriteTopology ==
  ASSUME ApartInv, NEW k \in Callers, WriteState(k), Job(k).object = Topology
  PROVE  stateCache' = [s \in Resources |->
                          IF s = Topology THEN MergeState(stateCache[s], read[k])
                          ELSE IF s \in call[k].event.kids /\ stateCache[s] = NoData
                               THEN EmptyState
                          ELSE stateCache[s]]
  BY DEF WriteState

\* What a call of the topology has shown of a child that was written.
LEMMA WrittenShows ==
  ASSUME ApartInv, NEW k \in Callers, pc[k] \in {"work", "write"}, Target(k) = Topology,
         NEW s \in Children, Written(k, s)
  PROVE  stateCache[s] # NoData
<1>1. pc[k] \in Configuring /\ k \in Busy
  BY DEF Configuring, Busy
<1>2. TopologyWorks(k) /\ GhostOK(k)
  BY <1>1, TopologyJobIs, CallerFacts
<1>3. /\ Before(k, s).data # NoData
      /\ Held(s) = HandleStatus(Before(k, s).data, topologyData.status)
      /\ stateCache[s] = MergeState(Before(k, s).shown, ChildState(s, Held(s)))
  BY <1>2 DEF TopologyWorks, ChildWorks, ReportWorks, Written, Told
<1>4. /\ s \in Resources /\ s # Topology /\ (s \in Nodes \/ s \in Links)
      /\ (s \in Nodes => s \notin Links)
  BY ResourceFacts
<1>5. /\ Before(k, s).shown \in StateLeaves \cup {NoData}
      /\ s \in Nodes => Before(k, s).data \in NodeData
      /\ s \in Links => Before(k, s).data \in LinkData
  BY <1>2, <1>3, <1>4 DEF GhostOK
<1>6. topologyData \in TopologyData /\ topologyData.status \in Status
  <2>1. topologyData # NoData /\ topologyData \in TopologyData \cup {NoData}
    <3>1. Config(k) \in TopologyConfig
      BY <1>1, PastCreate
    <3>2. topologyData \in TopologyData
      BY <1>2, <3>1, CopyType, TopologyStatusType DEF TopologyWorks, ChildWorks, ReportWorks
    <3> QED
      BY <3>2, DataAssumption
  <2>2. topologyData \in TopologyData
    BY <2>1
  <2> QED
    BY <2>2 DEF TopologyData
<1>7. ChildState(s, Held(s)) \in StateLeaves
  BY <1>3, <1>4, <1>5, <1>6, NodeStatusType, LinkStatusType, StateType DEF ChildState
<1>8. stateCache[s] \in StateLeaves
  BY <1>3, <1>5, <1>7, MergeType
<1> QED
  BY <1>8, DataAssumption

\* An observer that was notified is written to the state cache.
LEMMA NotifiedWriteApart ==
  ASSUME ApartInv, NEW k \in Callers, WriteState(k), Target(k) = Topology,
         Job(k).object # Topology
  PROVE  ApartInv' /\ UNCHANGED Atomic!vars
<1>1. /\ pc[k] = "write" /\ pc[k] \in Configuring
      /\ \A j \in Callers \ {k} : SameCall(j)
      /\ UNCHANGED <<alive, topologyMade, made, inMap, observers, topologyData, data>>
  BY WriteIs
<1>2. /\ TopologyWorks(k) /\ TopologyJobs(k) /\ Job(k) = jobs[k][1] /\ jobs[k] # <<>>
      /\ Ground(k) = Resources
  BY <1>1, TopologyJobIs, ObserversAre
<1>3. PICK r \in Children : /\ Job(k) = Notify(Obj(r)) /\ Before(k, r).made
                            /\ HasHandler(r) /\ Pending(k, r) /\ topologyData.status # Nil
                            /\ Len(jobs[k]) > 2
  BY <1>1, TopologyJobIs, NotifyFacts
<1>4. Len(jobs[k]) # 1 /\ Len(jobs[k]) - 1 # 1
  <2>1. PICK n : n = Len(jobs[k])
    OBVIOUS
  <2>2. n \in Nat /\ n > 2
    BY <1>2, <1>3, <2>1 DEF TopologyJobs
  <2>3. n # 1 /\ n - 1 # 1
    BY ONLY <2>2
  <2> QED
    BY <2>1, <2>3
<1>5. pc'[k] = "work" /\ call' = call /\ ghost' = ghost /\ jobs'[k] = Tail(jobs[k])
  BY <1>4, WriteIs
<1>6. /\ Len(jobs'[k]) = Len(jobs[k]) - 1 /\ Len(jobs[k]) - 1 # 1
      /\ \A s \in Children : Pending(k, s)' <=> Pending(k, s) /\ Job(k) # Notify(Obj(s))
      /\ TopologyJobs(k)'
  <2>1. Len(jobs'[k]) = Len(jobs[k]) - 1
    BY <1>1, <1>4, <1>5, NextJob
  <2> QED
    BY <1>1, <1>4, <1>5, <2>1, TopologyJobsLeft
<1>7. /\ Target(k)' = Topology /\ Ground(k)' = Ground(k) /\ Config(k)' = Config(k)
      /\ \A s : Before(k, s)' = Before(k, s)
  BY <1>1, <1>5, PastCreate, SameEvent
<1>8. \A s \in Children : s = r \/ Job(k) # Notify(Obj(s))
  BY <1>3, NotifyFacts, ObjFacts
<1>9. /\ Told(k, r) /\ ~Written(k, r) /\ Told(k, r)' /\ Written(k, r)'
      /\ \A s \in Children \ {r} : /\ Told(k, s)' <=> Told(k, s)
                                   /\ Written(k, s)' <=> Written(k, s)
  <2>1. Told(k, r) /\ ~Written(k, r)
    BY <1>1, <1>2, <1>3 DEF Told, Written
  <2>2. Told(k, r)' /\ Written(k, r)'
    BY <1>1, <1>3, <1>6, <1>7 DEF Told, Written
  <2>3. ASSUME NEW s \in Children \ {r}
        PROVE  Told(k, s)' <=> Told(k, s)
    BY <1>1, <1>2, <1>5, <1>6, <1>7, <1>8 DEF Told
  <2>4. ASSUME NEW s \in Children \ {r}
        PROVE  Written(k, s)' <=> Written(k, s)
    BY <1>1, <1>6, <1>7, <1>8 DEF Written
  <2> QED
    BY <2>1, <2>2, <2>3, <2>4
<1>10. \A s \in Resources : Held(s)' = Held(s) /\ ChildState(s, Held(s))' = ChildState(s, Held(s))
  BY <1>1 DEF Held, ChildState, Obj, Topology
<1>11. /\ r # Topology /\ r \in Resources /\ Topology \in Resources
       /\ \A s \in Children : s \in Resources /\ s # Topology
  BY ResourceFacts
<1>12. /\ stateCache'[r] = MergeState(Before(k, r).shown, ChildState(r, Held(r)))
       /\ \A s \in Resources \ {r} : stateCache'[s] = stateCache[s]
  <2>1. Job(k).object[1] = r
    BY <1>3, NotifyFacts, ObjFacts
  <2>2. \A s \in Resources : stateCache'[s] = IF s = r THEN MergeState(stateCache[s], read[k])
                                              ELSE stateCache[s]
    BY <2>1, WriteChild
  <2>3. read[k] = ChildState(r, Held(r))
    BY <1>1, <1>2, <1>3 DEF TopologyWorks, ChildWorks, ReportWorks
  <2>4. stateCache[r] = Before(k, r).shown
    BY <1>2, <1>4, <1>9 DEF TopologyWorks, ChildWorks, ReportWorks
  <2> QED
    BY <1>11, <2>2, <2>3, <2>4
<1>13. TopologyWorks(k)'
  <2>1. /\ topologyData = HandleTopologyStatus(CopyTopology(Config(k)))
        /\ stateCache[Topology] = Before(k, Topology).shown
    BY <1>2, <1>4 DEF TopologyWorks, ChildWorks, ReportWorks
  <2>2. ASSUME NEW s \in Children
        PROVE  /\ Told(k, s) => Before(k, s).data # NoData
               /\ Held(s) = IF Told(k, s)
                            THEN HandleStatus(Before(k, s).data, topologyData.status)
                            ELSE Before(k, s).data
               /\ ~Written(k, s) => stateCache[s] = Before(k, s).shown
               /\ Written(k, s) =>
                    stateCache[s] = MergeState(Before(k, s).shown, ChildState(s, Held(s)))
    BY <1>2, <1>4 DEF TopologyWorks, ChildWorks, ReportWorks
  <2>3. ASSUME NEW s \in Children
        PROVE  /\ Told(k, s)' => Before(k, s).data # NoData
               /\ Held(s) = IF Told(k, s)'
                            THEN HandleStatus(Before(k, s).data, topologyData.status)
                            ELSE Before(k, s).data
               /\ stateCache'[s] =
                    IF Written(k, s)' THEN MergeState(Before(k, s).shown, ChildState(s, Held(s)))
                    ELSE Before(k, s).shown
    BY <1>9, <1>11, <1>12, <2>2
  <2>4. ASSUME NEW s \in Children
        PROVE  /\ Told(k, s)' => Before(k, s)'.data # NoData
               /\ Held(s)' = IF Told(k, s)'
                             THEN HandleStatus(Before(k, s).data, topologyData.status)'
                             ELSE Before(k, s)'.data
               /\ stateCache'[s] =
                    IF Written(k, s)' THEN MergeState(Before(k, s).shown, ChildState(s, Held(s)))'
                    ELSE Before(k, s)'.shown
    BY <1>1, <1>7, <1>10, <1>11, <2>3
  <2> QED
    BY <1>1, <1>5, <1>6, <1>7, <1>11, <1>12, <2>1, <2>4 DEF TopologyWorks, ChildWorks, ReportWorks, Topology
<1>14. Works(k)'
  BY <1>7, <1>13 DEF Works
<1> QED
  BY <1>1, <1>2, <1>5, <1>11, <1>14, WriteTypes, WorkGoesOn DEF ApartInv

\* The topology is written, the first of two times.
LEMMA ReportedWriteApart ==
  ASSUME ApartInv, NEW k \in Callers, WriteState(k), Target(k) = Topology,
         Job(k).object = Topology, Len(jobs[k]) # 1
  PROVE  ApartInv' /\ UNCHANGED Atomic!vars
<1>1. /\ pc[k] = "write" /\ pc[k] \in Configuring
      /\ \A j \in Callers \ {k} : SameCall(j)
      /\ UNCHANGED <<alive, topologyMade, made, inMap, observers, topologyData, data>>
      /\ pc'[k] = "work" /\ call' = call /\ ghost' = ghost /\ jobs'[k] = Tail(jobs[k])
  BY WriteIs
<1>2. /\ TopologyWorks(k) /\ TopologyJobs(k) /\ Job(k) = jobs[k][1] /\ jobs[k] # <<>>
      /\ Ground(k) = Resources
  BY <1>1, TopologyJobIs, ObserversAre
<1>3. /\ Len(jobs[k]) = 2 /\ Job(k) = Report(Topology)
      /\ \A s \in Children : ~Pending(k, s)
  <2>1. \A r \in Children : Job(k) # Notify(Obj(r))
    BY ObjFacts, NotifyFacts
  <2> QED
    BY <1>1, <2>1, TopologyJobIs
<1>4. /\ Len(jobs'[k]) = 1
      /\ \A s \in Children : ~Pending(k, s)'
      /\ TopologyJobs(k)'
  <2>1. Len(jobs'[k]) = 2 - 1
    BY <1>1, <1>3, NextJob
  <2> QED
    BY <1>1, <1>3, <2>1, TopologyJobsLeft
<1>5. /\ Target(k)' = Topology /\ Ground(k)' = Ground(k) /\ Config(k)' = Config(k)
      /\ \A s : Before(k, s)' = Before(k, s)
  BY <1>1, PastCreate, SameEvent
<1>6. \A s \in Children : /\ Told(k, s)' <=> Told(k, s)
                          /\ Written(k, s)' <=> Written(k, s)
                          /\ Told(k, s) <=> Written(k, s)
  BY <1>1, <1>3, <1>4, <1>5 DEF Told, Written
<1>7. \A s \in Resources : Held(s)' = Held(s) /\ ChildState(s, Held(s))' = ChildState(s, Held(s))
  BY <1>1 DEF Held, ChildState, Obj, Topology
<1>8. /\ Topology \in Resources
      /\ \A s \in Children : s \in Resources /\ s # Topology
  BY ResourceFacts
<1>9. /\ topologyData = HandleTopologyStatus(CopyTopology(Config(k)))
      /\ stateCache[Topology] = Before(k, Topology).shown
      /\ read[k] = TopologyState(topologyData)
  BY <1>1, <1>2, <1>3 DEF TopologyWorks, ChildWorks, ReportWorks
<1>10. ASSUME NEW s \in Children
       PROVE  /\ Told(k, s) => Before(k, s).data # NoData
              /\ Held(s) = IF Told(k, s)
                           THEN HandleStatus(Before(k, s).data, topologyData.status)
                           ELSE Before(k, s).data
              /\ ~Written(k, s) => stateCache[s] = Before(k, s).shown
              /\ Written(k, s) =>
                   stateCache[s] = MergeState(Before(k, s).shown, ChildState(s, Held(s)))
              /\ Written(k, s) => stateCache[s] # NoData
  BY <1>1, <1>2, <1>3, WrittenShows DEF TopologyWorks, ChildWorks, ReportWorks
<1>11. \A s \in Resources :
         stateCache'[s] = IF s = Topology THEN MergeState(stateCache[s], read[k])
                          ELSE IF s \in call[k].event.kids /\ stateCache[s] = NoData
                               THEN EmptyState
                          ELSE stateCache[s]
  BY WriteTopology
<1>12. ASSUME NEW s \in Children
       PROVE  /\ Told(k, s)' => Before(k, s).data # NoData
              /\ Held(s) = IF Told(k, s)'
                           THEN HandleStatus(Before(k, s).data, topologyData.status)
                           ELSE Before(k, s).data
              /\ stateCache'[s] =
                   IF Written(k, s)' THEN MergeState(Before(k, s).shown, ChildState(s, Held(s)))
                   ELSE IF s \in call[k].event.kids /\ Before(k, s).shown = NoData
                   THEN EmptyState ELSE Before(k, s).shown
  BY <1>6, <1>8, <1>10, <1>11
<1>13. ASSUME NEW s \in Children
       PROVE  /\ Told(k, s)' => Before(k, s)'.data # NoData
              /\ Held(s)' = IF Told(k, s)'
                            THEN HandleStatus(Before(k, s).data, topologyData.status)'
                            ELSE Before(k, s)'.data
              /\ stateCache'[s] =
                   IF Written(k, s)' THEN MergeState(Before(k, s).shown, ChildState(s, Held(s)))'
                   ELSE IF s \in call'[k].event.kids /\ Before(k, s)'.shown = NoData
                   THEN EmptyState ELSE Before(k, s)'.shown
  BY <1>1, <1>5, <1>7, <1>8, <1>12
<1>14. stateCache'[Topology] = MergeState(Before(k, Topology).shown, TopologyState(topologyData))
  BY <1>8, <1>9, <1>11
<1>15. TopologyWorks(k)'
  BY <1>1, <1>4, <1>5, <1>9, <1>13, <1>14 DEF TopologyWorks, ChildWorks, ReportWorks, Topology
<1>16. Works(k)'
  BY <1>5, <1>15 DEF Works
<1> QED
  BY <1>1, <1>2, <1>8, <1>16, WriteTypes, WorkGoesOn DEF ApartInv

\* To write a state container again, with endpoints added, is to write the
\* last one only.
LEMMA MergeAgain ==
  ASSUME NEW c, NEW s \in StateLeaves, NEW t \in StateLeaves, MergeState(c, s) # NoData,
         s.status = t.status, s.reason = t.reason, s.statePlatform = t.statePlatform,
         s.endpoint \subseteq t.endpoint
  PROVE  MergeState(MergeState(c, s), t) = MergeState(c, t)
<1>1. PICK old : old = IF c = NoData THEN EmptyState ELSE c
  OBVIOUS
<1>2. PICK m : m = MergeState(c, s)
  OBVIOUS
<1>3. /\ m.status = MergeLeaf(old.status, s.status)
      /\ m.reason = MergeLeaf(old.reason, s.reason)
      /\ m.endpoint = MergeEndpoints(old.endpoint, s.endpoint)
      /\ m.statePlatform = MergeLeaf(old.statePlatform, s.statePlatform)
  BY <1>1, <1>2 DEF MergeState
<1>4. \A x, y : MergeLeaf(MergeLeaf(x, y), y) = MergeLeaf(x, y)
  BY DEF MergeLeaf
<1>5. MergeEndpoints(m.endpoint, t.endpoint) = MergeEndpoints(old.endpoint, t.endpoint)
  <2>1. m.endpoint = s.endpoint \cup {e \in old.endpoint : \A f \in s.endpoint : f.name # e.name}
    BY <1>3 DEF MergeEndpoints
  <2> QED
    BY <2>1 DEF MergeEndpoints
<1> QED
  BY <1>1, <1>2, <1>3, <1>4, <1>5 DEF MergeState

\* What a node shows.
LEMMA NodeStateIs ==
  ASSUME NEW d
  PROVE  /\ NodeState(d).status = d.status /\ NodeState(d).reason = d.reason
         /\ NodeState(d).endpoint = d.endpoint
         /\ NodeState(d).statePlatform = d.statePlatform
  BY DEF NodeState

\* So it is with a node that was given an endpoint in between, or with a
\* handler that is the same.
LEMMA NodeAgain ==
  ASSUME NEW c \in StateLeaves \cup {NoData}, NEW d \in NodeData, NEW e \in Endpoint
  PROVE  MergeState(MergeState(c, NodeState(d)), NodeState(SetEndpoint(d, e)))
           = MergeState(c, NodeState(SetEndpoint(d, e)))
<1>1. /\ SetEndpoint(d, e) \in NodeData /\ SetEndpoint(d, e).status = d.status
      /\ SetEndpoint(d, e).reason = d.reason
  BY SetEndpointType
<1>2. /\ SetEndpoint(d, e).statePlatform = d.statePlatform
      /\ d.endpoint \subseteq SetEndpoint(d, e).endpoint
  BY DEF SetEndpoint, NodeData
<1>3. NodeState(d) \in StateLeaves /\ NodeState(SetEndpoint(d, e)) \in StateLeaves
  BY <1>1, StateType
<1>4. MergeState(c, NodeState(d)) # NoData
  BY <1>3, MergeType, DataAssumption
<1>5. /\ NodeState(d).status = NodeState(SetEndpoint(d, e)).status
      /\ NodeState(d).reason = NodeState(SetEndpoint(d, e)).reason
      /\ NodeState(d).statePlatform = NodeState(SetEndpoint(d, e)).statePlatform
      /\ NodeState(d).endpoint \subseteq NodeState(SetEndpoint(d, e)).endpoint
  BY <1>1, <1>2, NodeStateIs
<1> QED
  BY <1>3, <1>4, <1>5, MergeAgain

\* What is written twice is as written once.
LEMMA SameAgain ==
  ASSUME NEW c \in StateLeaves \cup {NoData}, NEW s \in StateLeaves
  PROVE  MergeState(MergeState(c, s), s) = MergeState(c, s)
  BY MergeType, MergeAgain, DataAssumption

-----------------------------------------------------------------------------
\* A link's jobs: endpoints, for its first node and its second in turn, and
\* itself twice.
LEMMA FourJobs ==
  ASSUME NEW a, NEW b, NEW c, NEW d
  PROVE  <<a, b>> \o <<c, d>> = <<a, b, c, d>>
<1>1. PICK S : S = {a, b, c, d}
  OBVIOUS
<1>2. PICK p, q, r, t : /\ p = <<a, b>> /\ q = <<c, d>> /\ t = <<a, b, c, d>>
                        /\ r = p \o q
  OBVIOUS
<1>3. p \in Seq(S) /\ q \in Seq(S) /\ t \in Seq(S) /\ Len(p) = 2 /\ Len(q) = 2 /\ Len(t) = 4
  BY <1>1, <1>2
<1>4. r \in Seq(S) /\ Len(r) = 4
  BY <1>2, <1>3
<1>5. /\ r[1] = p[1] /\ r[2] = p[2] /\ r[3] = q[1] /\ r[4] = q[2]
      /\ t[1] = a /\ t[2] = b /\ t[3] = c /\ t[4] = d
      /\ p[1] = a /\ p[2] = b /\ q[1] = c /\ q[2] = d
  BY <1>2, <1>3, <1>4
<1>6. \A i \in 1..4 : i = 1 \/ i = 2 \/ i = 3 \/ i = 4
  OBVIOUS
<1>7. \A i \in 1..4 : r[i] = t[i]
  BY <1>5, <1>6
<1>8. r = t
  BY <1>3, <1>4, <1>7, SeqEqual
<1> QED
  BY <1>2, <1>8

\* A lag link with a new lag has six jobs.
LEMMA SixJobs ==
  ASSUME NEW a, NEW b, NEW c, NEW d, NEW e, NEW f
  PROVE  (<<a, b>> \o <<c, d>>) \o <<e, f>> = <<a, b, c, d, e, f>>
<1>1. PICK S : S = {a, b, c, d, e, f}
  OBVIOUS
<1>2. PICK p, q, r, t : /\ p = <<a, b, c, d>> /\ q = <<e, f>> /\ t = <<a, b, c, d, e, f>>
                        /\ r = p \o q
  OBVIOUS
<1>3. p \in Seq(S) /\ q \in Seq(S) /\ t \in Seq(S) /\ Len(p) = 4 /\ Len(q) = 2 /\ Len(t) = 6
  BY <1>1, <1>2
<1>4. r \in Seq(S) /\ Len(r) = 6
  BY <1>2, <1>3
<1>5. /\ r[1] = p[1] /\ r[2] = p[2] /\ r[3] = p[3] /\ r[4] = p[4] /\ r[5] = q[1] /\ r[6] = q[2]
      /\ t[1] = a /\ t[2] = b /\ t[3] = c /\ t[4] = d /\ t[5] = e /\ t[6] = f
      /\ p[1] = a /\ p[2] = b /\ p[3] = c /\ p[4] = d /\ q[1] = e /\ q[2] = f
  BY <1>2, <1>3, <1>4
<1>6. \A i \in 1..6 : i = 1 \/ i = 2 \/ i = 3 \/ i = 4 \/ i = 5 \/ i = 6
  OBVIOUS
<1>7. \A i \in 1..6 : r[i] = t[i]
  BY <1>5, <1>6
<1>8. r = t
  BY <1>3, <1>4, <1>7, SeqEqual
<1> QED
  BY <1>2, <1>8, FourJobs

\* Two sequences put together.
LEMMA NoJobs ==
  ASSUME NEW a, NEW b, NEW c, NEW d
  PROVE  (<<>> \o <<a, b>>) \o <<c, d>> = <<a, b, c, d>>
<1>1. PICK S, p : S = {a, b} /\ p = <<a, b>>
  OBVIOUS
<1>2. p \in Seq(S)
  BY <1>1
<1>3. <<>> \o p = p
  BY <1>2, ConcatEmptySeq
<1> QED
  BY <1>1, <1>3, FourJobs

\* What a job that sets an endpoint consists of.
LEMMA SetOnFacts ==
  /\ \A o, e : SetOn(o, e).object = o /\ SetOn(o, e).by = "endpoint" /\ SetOn(o, e).endpoint = e
  /\ \A o : Report(o).object = o /\ Report(o).by = "nothing"
  BY DEF SetOn, Report

\* The two ends of the link that a call configures.
LEMMA EndFacts ==
  ASSUME ApartInv, NEW k \in Callers, pc[k] \in Configuring, Target(k) \in Links,
         Len(Config(k).endpoints) >= 2
  PROVE  /\ Ends(Config(k)) = {End(k, 1), End(k, 2)}
         /\ \A i \in {1, 2} : End(k, i) \in LinkEndpoint /\ End(k, i).node \in EndNodes(k)
         /\ EndNodes(k) = {End(k, 1).node, End(k, 2).node}
         /\ EndNodes(k) \subseteq Nodes /\ EndNodes(k) \subseteq Ground(k)
         /\ \A n \in EndNodes(k) : /\ n \in Nodes /\ n \in Children /\ n \in Resources
                                   /\ n # Target(k) /\ n # Topology /\ n \notin Links
                                   /\ Obj(n) \in Objects /\ Obj(n)[1] = n
<1>1. Config(k) \in LinkConfig /\ Config(k) # NoData /\ pc[k] # "idle"
  BY PastCreate
<1>2. PICK q, n : q = Config(k).endpoints /\ n = Len(q)
  OBVIOUS
<1>3. q \in Seq(LinkEndpoint)
  BY <1>1, <1>2 DEF LinkConfig
<1>4. n \in Nat /\ DOMAIN q = 1..n /\ n >= 2
  BY <1>2, <1>3, LenProperties
<1>5. 1 \in 1..n /\ 2 \in 1..n
  BY ONLY <1>4
<1>6. {1, 2} \cap DOMAIN q = {1, 2}
  BY <1>4, <1>5
<1>7. Ends(Config(k)) = {q[1], q[2]}
  BY <1>2, <1>6 DEF Ends
<1>8. q[1] \in LinkEndpoint /\ q[2] \in LinkEndpoint
  BY <1>2, <1>3, <1>5, ElementOfSeq
<1>9. End(k, 1) = q[1] /\ End(k, 2) = q[2]
  BY <1>2 DEF End
<1>10. EndNodes(k) = {q[1].node, q[2].node}
  BY <1>1, <1>7 DEF EndNodes
<1>11. EndNodes(k) \subseteq Nodes /\ EndNodes(k) \subseteq Ground(k)
  BY <1>1, CallerFacts
<1>12. ASSUME NEW m \in EndNodes(k)
       PROVE  /\ m \in Nodes /\ m \in Children /\ m \in Resources
              /\ m # Target(k) /\ m # Topology /\ m \notin Links
              /\ Obj(m) \in Objects /\ Obj(m)[1] = m
  <2>1. m \in Nodes /\ m \in Children /\ m \in Resources /\ m \notin Links /\ m # Topology
    BY <1>11, ResourceFacts
  <2> QED
    BY <2>1, ObjFacts
<1> QED
  BY <1>7, <1>8, <1>9, <1>10, <1>11, <1>12

\* The jobs of a link: endpoints first, the last two its own reports.
LEMMA LinkJobsAre ==
  ASSUME ApartInv, NEW k \in Callers, pc[k] \in Configuring, Target(k) \in Links,
         Len(Config(k).endpoints) >= 2
  PROVE  LET L == LinkJobs(k)
             N == Len(L)
         IN  /\ N \in {4, 6} /\ DOMAIN L = 1..N /\ L = [i \in 1..N |-> L[i]]
             /\ \A i \in 1..(N - 2) :
                  /\ L[i].by = "endpoint" /\ L[i].endpoint \in Endpoint
                  /\ L[i].object[1] \in EndNodes(k) /\ L[i].object = Obj(L[i].object[1])
             /\ \A i \in (N - 1)..N : /\ L[i] = OwnReport(k)
                                      /\ L[i].by = "nothing" /\ L[i].object = Obj(Target(k))
             /\ L[1].object = Obj(End(k, 1).node) /\ L[2].object = Obj(End(k, 2).node)
<1> DEFINE IsEnd(x, i) == \E e \in Endpoint : x = SetEnd(k, i, e)
<1>1. ASSUME NEW x, NEW i \in {1, 2}, IsEnd(x, i)
      PROVE  /\ x.by = "endpoint" /\ x.endpoint \in Endpoint
             /\ x.object[1] \in EndNodes(k) /\ x.object = Obj(x.object[1])
             /\ x.object = Obj(End(k, i).node)
  BY <1>1, EndFacts, SetOnFacts DEF SetEnd
<1>2. OwnReport(k).by = "nothing" /\ OwnReport(k).object = Obj(Target(k))
  BY SetOnFacts DEF OwnReport
<1>3. PICK o : o = OwnReport(k)
  OBVIOUS
<1>4. /\ End(k, 1) \in LinkEndpoint /\ End(k, 2) \in LinkEndpoint
  BY EndFacts
<1>5. /\ IsEnd(SetEnd(k, 1, PlainLink(End(k, 1))), 1) /\ IsEnd(SetEnd(k, 2, PlainLink(End(k, 2))), 2)
      /\ IsEnd(SetEnd(k, 1, LagSubLink(End(k, 1))), 1) /\ IsEnd(SetEnd(k, 2, LagSubLink(End(k, 2))), 2)
      /\ IsEnd(SetEnd(k, 1, LogicalLag(End(k, 1))), 1) /\ IsEnd(SetEnd(k, 2, LogicalLag(End(k, 2))), 2)
  BY <1>4, EntryType
<1>6. \/ \E x, y : IsEnd(x, 1) /\ IsEnd(y, 2) /\ LinkJobs(k) = <<x, y, o, o>>
      \/ \E x, y, u, v : /\ IsEnd(x, 1) /\ IsEnd(y, 2) /\ IsEnd(u, 1) /\ IsEnd(v, 2)
                         /\ LinkJobs(k) = <<x, y, u, v, o, o>>
  BY <1>3, <1>5 DEF LinkJobs
<1>7. CASE \E x, y : IsEnd(x, 1) /\ IsEnd(y, 2) /\ LinkJobs(k) = <<x, y, o, o>>
  <2>1. PICK x, y : IsEnd(x, 1) /\ IsEnd(y, 2) /\ LinkJobs(k) = <<x, y, o, o>>
    BY <1>7
  <2>2. PICK L, S : L = <<x, y, o, o>> /\ S = {x, y, o}
    OBVIOUS
  <2> HIDE DEF IsEnd
  <2>3. /\ Len(L) = 4 /\ DOMAIN L = 1..4 /\ L[1] = x /\ L[2] = y /\ L[3] = o /\ L[4] = o
        /\ \A i \in 1..(4 - 2) : i = 1 \/ i = 2
        /\ \A i \in (4 - 1)..4 : i = 3 \/ i = 4
    BY ONLY <2>2
  <2>4. L = LinkJobs(k)
    BY <2>1, <2>2
  <2>5. L = [i \in 1..4 |-> L[i]]
    <3>1. L \in Seq(S)
      BY ONLY <2>2
    <3> QED
      BY <2>3, <3>1, LenProperties
  <2>6. \A i \in 1..(4 - 2) :
          /\ L[i].by = "endpoint" /\ L[i].endpoint \in Endpoint
          /\ L[i].object[1] \in EndNodes(k) /\ L[i].object = Obj(L[i].object[1])
    BY <1>1, <2>1, <2>3
  <2>7. L[1].object = Obj(End(k, 1).node) /\ L[2].object = Obj(End(k, 2).node)
    BY <1>1, <2>1, <2>3
  <2>8. \A i \in (4 - 1)..4 : /\ L[i] = OwnReport(k)
                              /\ L[i].by = "nothing" /\ L[i].object = Obj(Target(k))
    BY <1>2, <1>3, <2>3
  <2> QED
    BY <2>3, <2>4, <2>5, <2>6, <2>7, <2>8
<1>8. CASE \E x, y, u, v : /\ IsEnd(x, 1) /\ IsEnd(y, 2) /\ IsEnd(u, 1) /\ IsEnd(v, 2)
                           /\ LinkJobs(k) = <<x, y, u, v, o, o>>
  <2>1. PICK x, y, u, v : /\ IsEnd(x, 1) /\ IsEnd(y, 2) /\ IsEnd(u, 1) /\ IsEnd(v, 2)
                          /\ LinkJobs(k) = <<x, y, u, v, o, o>>
    BY <1>8
  <2>2. PICK L, S : L = <<x, y, u, v, o, o>> /\ S = {x, y, u, v, o}
    OBVIOUS
  <2> HIDE DEF IsEnd
  <2>3. /\ Len(L) = 6 /\ DOMAIN L = 1..6 /\ L[1] = x /\ L[2] = y /\ L[3] = u /\ L[4] = v
        /\ L[5] = o /\ L[6] = o
        /\ \A i \in 1..(6 - 2) : i = 1 \/ i = 2 \/ i = 3 \/ i = 4
        /\ \A i \in (6 - 1)..6 : i = 5 \/ i = 6
    BY ONLY <2>2
  <2>4. L = LinkJobs(k)
    BY <2>1, <2>2
  <2>5. L = [i \in 1..6 |-> L[i]]
    <3>1. L \in Seq(S)
      BY ONLY <2>2
    <3> QED
      BY <2>3, <3>1, LenProperties
  <2>6. \A i \in 1..(6 - 2) :
          /\ L[i].by = "endpoint" /\ L[i].endpoint \in Endpoint
          /\ L[i].object[1] \in EndNodes(k) /\ L[i].object = Obj(L[i].object[1])
    BY <1>1, <2>1, <2>3
  <2>7. L[1].object = Obj(End(k, 1).node) /\ L[2].object = Obj(End(k, 2).node)
    BY <1>1, <2>1, <2>3
  <2>8. \A i \in (6 - 1)..6 : /\ L[i] = OwnReport(k)
                              /\ L[i].by = "nothing" /\ L[i].object = Obj(Target(k))
    BY <1>2, <1>3, <2>3
  <2> QED
    BY <2>3, <2>4, <2>5, <2>6, <2>7, <2>8
<1> QED
  BY <1>6, <1>7, <1>8

-----------------------------------------------------------------------------
\* The data of the nodes, one job after the other.
LinkJobsOK(L, N) ==
  /\ \A i \in 1..(N - 2) : L[i].by = "endpoint" /\ L[i].endpoint \in Endpoint
                           /\ L[i].object[1] \in Nodes
  /\ \A i \in (N - 1)..N : L[i].by = "nothing"

\* Data of the nodes.
SomeNodes == [Nodes -> NodeData \cup {NoData}]

\* One job more.
LEMMA AfterNext ==
  ASSUME NEW f, NEW L, NEW N \in {4, 6}, LinkJobsOK(L, N), NEW n \in 0..(N - 1)
  PROVE  /\ After(f, L, 0) = f
         /\ After(f, L, n + 1) = SetJob(After(f, L, n), L[n + 1])
<1>1. PICK f1, f2, f3, f4 : /\ f1 = SetJob(f, L[1]) /\ f2 = SetJob(f1, L[2])
                            /\ f3 = SetJob(f2, L[3]) /\ f4 = SetJob(f3, L[4])
  OBVIOUS
<1>2. /\ After(f, L, 0) = f /\ After(f, L, 1) = f1 /\ After(f, L, 2) = f2
      /\ After(f, L, 3) = f3 /\ After(f, L, 4) = f4 /\ After(f, L, 5) = f4 /\ After(f, L, 6) = f4
  BY <1>1 DEF After
<1>3. ASSUME N = 6 PROVE SetJob(f4, L[5]) = f4 /\ SetJob(f4, L[6]) = f4
  <2>1. L[5].by = "nothing" /\ L[6].by = "nothing"
    BY <1>3 DEF LinkJobsOK
  <2> QED
    BY <2>1 DEF SetJob
<1>4. n = 0 \/ n = 1 \/ n = 2 \/ n = 3 \/ (N = 6 /\ n = 4) \/ (N = 6 /\ n = 5)
  <2>1. CASE N = 4
    <3>1. n \in Nat /\ n <= 3
      BY <2>1
    <3> QED
      BY ONLY <3>1
  <2>2. CASE N = 6
    <3>1. n \in Nat /\ n <= 5
      BY <2>2
    <3>2. n = 0 \/ n = 1 \/ n = 2 \/ n = 3 \/ n = 4 \/ n = 5
      BY ONLY <3>1
    <3> QED
      BY <2>2, <3>2
  <2> QED
    BY <2>1, <2>2
<1>5. CASE n = 0
  BY <1>1, <1>2, <1>5
<1>6. CASE n = 1
  BY <1>1, <1>2, <1>6
<1>7. CASE n = 2
  BY <1>1, <1>2, <1>7
<1>8. CASE n = 3
  BY <1>1, <1>2, <1>8
<1>9. CASE N = 6 /\ n = 4
  BY <1>2, <1>3, <1>9
<1>10. CASE N = 6 /\ n = 5
  BY <1>2, <1>3, <1>10
<1> QED
  BY <1>2, <1>4, <1>5, <1>6, <1>7, <1>8, <1>9, <1>10

\* The data of the nodes after one job.
LEMMA JobSet ==
  ASSUME NEW g \in SomeNodes, NEW job,
         \/ job.by = "nothing"
         \/ /\ job.by = "endpoint" /\ job.endpoint \in Endpoint
            /\ job.object[1] \in Nodes /\ g[job.object[1]] # NoData
  PROVE  /\ SetJob(g, job) \in SomeNodes
         /\ \A m \in Nodes : SetJob(g, job)[m] = NoData <=> g[m] = NoData
         /\ job.by = "nothing" => SetJob(g, job) = g
         /\ job.by = "endpoint" =>
              /\ SetJob(g, job)[job.object[1]] = SetEndpoint(g[job.object[1]], job.endpoint)
              /\ \A m \in Nodes \ {job.object[1]} : SetJob(g, job)[m] = g[m]
<1>1. CASE job.by = "nothing"
  BY <1>1 DEF SetJob
<1>2. CASE job.by = "endpoint"
  <2>1. PICK m, e, h : m = job.object[1] /\ e = job.endpoint /\ h = SetEndpoint(g[m], e)
    OBVIOUS
  <2>2. m \in Nodes /\ e \in Endpoint /\ g[m] # NoData
    BY <1>2, <2>1
  <2>3. SetJob(g, job) = [g EXCEPT ![m] = h]
    BY <1>2, <2>1 DEF SetJob
  <2>4. g[m] \in NodeData
    BY <2>2 DEF SomeNodes
  <2>5. h \in NodeData /\ h # NoData
    <3>1. h \in NodeData
      BY <2>1, <2>2, <2>4, SetEndpointType
    <3> QED
      BY <3>1, DataAssumption
  <2>6. [g EXCEPT ![m] = h] \in SomeNodes
    BY <2>2, <2>5 DEF SomeNodes
  <2>7. /\ [g EXCEPT ![m] = h][m] = h
        /\ \A i \in Nodes \ {m} : [g EXCEPT ![m] = h][i] = g[i]
    BY <2>2 DEF SomeNodes
  <2> QED
    BY <1>2, <2>1, <2>2, <2>3, <2>5, <2>6, <2>7
<1> QED
  BY <1>1, <1>2

\* The same nodes have data.
SameNodes(g, f) == \A m \in Nodes : (g[m] = NoData) <=> (f[m] = NoData)

\* The data of the nodes after n jobs.
LEMMA AfterIs ==
  ASSUME NEW f \in SomeNodes, NEW L, NEW N \in {4, 6}, LinkJobsOK(L, N), NEW n \in 0..N,
         \A i \in 1..n : L[i].by = "endpoint" => f[L[i].object[1]] # NoData
  PROVE  /\ After(f, L, n) \in SomeNodes
         /\ SameNodes(After(f, L, n), f)
<1> DEFINE P(i) == /\ After(f, L, i) \in SomeNodes
                   /\ \A m \in Nodes : After(f, L, i)[m] = NoData <=> f[m] = NoData
<1>1. ASSUME NEW i \in 0..(N - 1), i + 1 <= n, P(i) PROVE P(i + 1)
  <2>1. PICK j : j = i + 1
    OBVIOUS
  <2>2. j \in 1..N /\ j \in 1..n /\ (j \in 1..(N - 2) \/ j \in (N - 1)..N)
    BY <1>1, <2>1
  <2>3. After(f, L, j) = SetJob(After(f, L, i), L[j])
    BY <1>1, <2>1, AfterNext
  <2>4. \/ L[j].by = "nothing"
        \/ /\ L[j].by = "endpoint" /\ L[j].endpoint \in Endpoint
           /\ L[j].object[1] \in Nodes /\ After(f, L, i)[L[j].object[1]] # NoData
    BY <1>1, <2>2 DEF LinkJobsOK
  <2>5. PICK g : g = After(f, L, i)
    OBVIOUS
  <2>6. SetJob(g, L[j]) \in SomeNodes /\ \A m \in Nodes : SetJob(g, L[j])[m] = NoData <=> g[m] = NoData
    BY <1>1, <2>4, <2>5, JobSet
  <2> QED
    BY <1>1, <2>1, <2>3, <2>5, <2>6
<1>2. P(0)
  <2>1. 0 \in 0..(N - 1)
    OBVIOUS
  <2> QED
    BY <2>1, AfterNext
<1> HIDE DEF P
<1>3. 1 <= n => P(1)
  BY <1>1, <1>2
<1>4. 2 <= n => P(2)
  BY <1>1, <1>3
<1>5. 3 <= n => P(3)
  BY <1>1, <1>4
<1>6. 4 <= n => P(4)
  BY <1>1, <1>5
<1>7. 5 <= n => P(5)
  BY <1>1, <1>6
<1>8. 6 <= n => P(6)
  BY <1>1, <1>7
<1>9. P(n)
  BY <1>2, <1>3, <1>4, <1>5, <1>6, <1>7, <1>8
<1> QED
  BY <1>9 DEF P, SameNodes

\* What a call of a link goes by stays the same while it works.
LEMMA SameLink ==
  ASSUME ApartInv, NEW k \in Callers, pc[k] \in Configuring, ghost' = ghost, call' = call,
         UNCHANGED topologyData
  PROVE  /\ \A i : End(k, i)' = End(k, i)
         /\ OwnReport(k)' = OwnReport(k)
         /\ LinkJobs(k)' = LinkJobs(k)
         /\ NodesBefore(k)' = NodesBefore(k)
         /\ LinkCopied(k)' = LinkCopied(k)
         /\ Target(k)' = Target(k) /\ Config(k)' = Config(k)
         /\ Ground(k)' = Ground(k) /\ EndNodes(k)' = EndNodes(k)
         /\ \A r : Before(k, r)' = Before(k, r)
<1>1. /\ Target(k)' = Target(k) /\ Config(k)' = Config(k)
      /\ Ground(k)' = Ground(k) /\ EndNodes(k)' = EndNodes(k)
      /\ \A r : Before(k, r)' = Before(k, r)
  BY PastCreate, SameEvent
<1>2. \A i : End(k, i)' = End(k, i)
  BY <1>1 DEF End
<1>3. OwnReport(k)' = OwnReport(k)
  BY <1>1 DEF OwnReport, Report, Obj
<1>4. NodesBefore(k)' = NodesBefore(k)
  BY <1>1 DEF NodesBefore
<1>5. LinkCopied(k)' = LinkCopied(k)
  BY <1>1 DEF LinkCopied, HandleLinkStatus, HandleStatus, SetStatus, CopyLink
<1>6. \A i \in {1, 2} : /\ SetEnd(k, i, PlainLink(End(k, i)))' = SetEnd(k, i, PlainLink(End(k, i)))
                        /\ SetEnd(k, i, LagSubLink(End(k, i)))' = SetEnd(k, i, LagSubLink(End(k, i)))
                        /\ SetEnd(k, i, LogicalLag(End(k, i)))' = SetEnd(k, i, LogicalLag(End(k, i)))
  BY <1>2 DEF SetEnd, SetOn, Obj, PlainLink, LagSubLink, LogicalLag
<1>7. BothFound(k)' <=> BothFound(k)
  BY <1>1, <1>2 DEF BothFound, HasEndpoint
<1>8. LinkJobs(k)' = LinkJobs(k)
  BY <1>1, <1>3, <1>6, <1>7 DEF LinkJobs
<1> QED
  BY <1>1, <1>2, <1>3, <1>4, <1>5, <1>8

\* What the jobs make of the same data does not change.
LEMMA AfterSame ==
  ASSUME NEW k \in Callers, NodesBefore(k)' = NodesBefore(k), LinkJobs(k)' = LinkJobs(k)
  PROVE  /\ After(NodesBefore(k), LinkJobs(k), Worked(k))'
              = After(NodesBefore(k), LinkJobs(k), Worked(k)')
         /\ After(NodesBefore(k), LinkJobs(k), Wrote(k))'
              = After(NodesBefore(k), LinkJobs(k), Wrote(k)')
  OBVIOUS

\* parseLink has found both nodes: the jobs of the link.
LEMMA ParseLinkApart ==
  ASSUME ApartInv, NEW k \in Callers, ParseLink(k)
  PROVE  ApartInv' /\ UNCHANGED Atomic!vars
<1>1. PICK d : d = data[Own(k)]
  OBVIOUS
<1>2. /\ pc[k] = "parse" /\ Len(d.endpoints) >= 2 /\ ~NodeMissing(d)
      /\ Start(k, EndpointJobs(d) \o Reports(Own(k)))
      /\ UNCHANGED <<alive, memory>>
  BY <1>1 DEF ParseLink, At
<1>3. /\ pc[k] \in Configuring /\ pc[k] # "idle" /\ LocalsShape
  BY <1>2, PastCreate DEF Configuring
<1>4. /\ pc'[k] = "work" /\ call' = call /\ ghost' = ghost
      /\ \A j \in Callers \ {k} : SameCall(j)
      /\ jobs'[k] = EndpointJobs(d) \o Reports(Own(k))
      /\ UNCHANGED <<alive, topologyMade, made, inMap, observers, topologyData, data, stateCache>>
  BY <1>2, <1>3 DEF Start, Goto, SameCall, LocalsShape, memory
<1>5. PICK l : l = Target(k)
  OBVIOUS
<1>6. /\ l \in Links /\ l # Topology /\ l \in Children /\ Own(k) = Obj(l) /\ l \notin Nodes
      /\ topologyData # NoData /\ Held(l) = data[Obj(l)] /\ l \in Ground(k)
      /\ MadeSoFar(k) /\ CallInv(k)
  BY <1>2, <1>3, <1>5, PastCreate, ResourceFacts DEF CallOK
<1>7. /\ ShownKept(k, Ground(k)) /\ DataKept(k, Ground(k) \ {l})
      /\ Held(l) = LinkCopied(k) /\ d = LinkCopied(k)
  <2>1. Preparing(k)
    BY <1>2, <1>6 DEF CallInv
  <2> QED
    BY <1>1, <1>2, <1>5, <1>6, <2>1 DEF Preparing
<1>8. d.endpoints = Config(k).endpoints /\ d.lag = Config(k).lag
  BY <1>7 DEF LinkCopied, HandleLinkStatus, HandleStatus, SetStatus, CopyLink
<1>9. Len(Config(k).endpoints) >= 2
  BY <1>2, <1>8
<1>10. \A n \in EndNodes(k) :
         /\ n \in Nodes /\ n # l /\ n \in Ground(k)
         /\ Before(k, n).made /\ Handler(n) = Obj(n) /\ DataOf(n) = Before(k, n).data
         /\ Held(n) = Before(k, n).data /\ stateCache[n] = Before(k, n).shown
  <2> TAKE n \in EndNodes(k)
  <2>1. n \in Nodes /\ n # l /\ n \in Ground(k) /\ n \in Children
    BY <1>3, <1>5, <1>6, <1>9, EndFacts
  <2>2. HasHandler(n)
    <3>1. PICK le \in Ends(Config(k)) : n = le.node
      BY <1>5, <1>6 DEF EndNodes
    <3>2. Ends(d) = Ends(Config(k))
      BY <1>8 DEF Ends
    <3> QED
      BY <1>2, <3>1, <3>2 DEF NodeMissing
  <2>3. Before(k, n).made
    BY <1>5, <1>6, <2>1, <2>2 DEF MadeSoFar
  <2>4. Handler(n) = Obj(n) /\ DataOf(n) = Held(n)
    BY <2>1, <2>2, OneHandler
  <2> QED
    BY <1>7, <2>1, <2>3, <2>4 DEF DataKept, ShownKept
<1>11. /\ End(k, 1).node \in EndNodes(k) /\ End(k, 2).node \in EndNodes(k)
       /\ End(k, 1) = d.endpoints[1] /\ End(k, 2) = d.endpoints[2]
  BY <1>3, <1>5, <1>6, <1>8, <1>9, EndFacts DEF End
<1>12. LagFound(d) <=> BothFound(k)
  BY <1>10, <1>11 DEF LagFound, BothFound
<1>13. jobs'[k] = LinkJobs(k)
  <2>1. /\ Handler(d.endpoints[1].node) = Obj(End(k, 1).node)
        /\ Handler(d.endpoints[2].node) = Obj(End(k, 2).node)
    BY <1>10, <1>11
  <2>2. Reports(Own(k)) = <<OwnReport(k), OwnReport(k)>>
    BY <1>5, <1>6 DEF Reports, OwnReport
  <2>3. EndpointJobs(d) =
          IF ~Config(k).lag
          THEN <<SetEnd(k, 1, PlainLink(End(k, 1))), SetEnd(k, 2, PlainLink(End(k, 2)))>>
          ELSE (IF BothFound(k) THEN <<>>
                ELSE <<SetEnd(k, 1, LogicalLag(End(k, 1))), SetEnd(k, 2, LogicalLag(End(k, 2)))>>)
                 \o <<SetEnd(k, 1, LagSubLink(End(k, 1))), SetEnd(k, 2, LagSubLink(End(k, 2)))>>
    BY <1>8, <1>11, <1>12, <2>1 DEF EndpointJobs, SetEnd
  <2>4. PICK a, b, c, d1, e, g, o :
          /\ a = SetEnd(k, 1, PlainLink(End(k, 1))) /\ b = SetEnd(k, 2, PlainLink(End(k, 2)))
          /\ c = SetEnd(k, 1, LagSubLink(End(k, 1))) /\ d1 = SetEnd(k, 2, LagSubLink(End(k, 2)))
          /\ e = SetEnd(k, 1, LogicalLag(End(k, 1))) /\ g = SetEnd(k, 2, LogicalLag(End(k, 2)))
          /\ o = OwnReport(k)
    OBVIOUS
  <2>5. /\ <<a, b>> \o <<o, o>> = <<a, b, o, o>>
        /\ (<<>> \o <<c, d1>>) \o <<o, o>> = <<c, d1, o, o>>
        /\ (<<e, g>> \o <<c, d1>>) \o <<o, o>> = <<e, g, c, d1, o, o>>
    BY FourJobs, SixJobs, NoJobs
  <2>6. LinkJobs(k) = IF ~Config(k).lag THEN <<a, b, o, o>>
                      ELSE IF BothFound(k) THEN <<c, d1, o, o>> ELSE <<e, g, c, d1, o, o>>
    BY <2>4 DEF LinkJobs
  <2>7. EndpointJobs(d) = IF ~Config(k).lag THEN <<a, b>>
                          ELSE (IF BothFound(k) THEN <<>> ELSE <<e, g>>) \o <<c, d1>>
    BY <2>3, <2>4
  <2>8. jobs'[k] = EndpointJobs(d) \o <<o, o>>
    BY <1>4, <2>2, <2>4
  <2>9. CASE ~Config(k).lag
    BY <2>5, <2>6, <2>7, <2>8, <2>9
  <2>10. CASE Config(k).lag /\ BothFound(k)
    BY <2>5, <2>6, <2>7, <2>8, <2>10
  <2>11. CASE Config(k).lag /\ ~BothFound(k)
    BY <2>5, <2>6, <2>7, <2>8, <2>11
  <2> QED
    BY <2>9, <2>10, <2>11
<1>14. PICK f, L, N : f = NodesBefore(k) /\ L = LinkJobs(k) /\ N = Len(L)
  OBVIOUS
<1>15. /\ N \in {4, 6} /\ DOMAIN L = 1..N /\ L = [i \in 1..N |-> L[i]]
       /\ \A i \in 1..(N - 2) : L[i].by = "endpoint" /\ L[i].endpoint \in Endpoint
                                /\ L[i].object[1] \in EndNodes(k)
       /\ \A i \in (N - 1)..N : L[i].by = "nothing"
  BY <1>3, <1>5, <1>6, <1>9, <1>14, LinkJobsAre
<1>16. After(f, L, 0) = f /\ \A n \in EndNodes(k) : f[n] = Before(k, n).data
  <2>1. 0 \in 0..(N - 1)
    BY <1>15
  <2>2. LinkJobsOK(L, N)
    BY <1>10, <1>15 DEF LinkJobsOK
  <2>3. After(f, L, 0) = f
    BY <1>15, <2>1, <2>2, AfterNext
  <2>4. \A n \in EndNodes(k) : f[n] = Before(k, n).data
    BY <1>10, <1>14 DEF NodesBefore
  <2> QED
    BY <2>3, <2>4
<1>17. /\ Wrote(k)' = 0 /\ Worked(k)' = 0
       /\ LinkJobs(k)' = L /\ NodesBefore(k)' = f /\ LinkCopied(k)' = LinkCopied(k)
       /\ Target(k)' = l /\ Config(k)' = Config(k) /\ Ground(k)' = Ground(k)
       /\ EndNodes(k)' = EndNodes(k) /\ \A r : Before(k, r)' = Before(k, r)
  <2>1. /\ LinkJobs(k)' = L /\ NodesBefore(k)' = f /\ LinkCopied(k)' = LinkCopied(k)
        /\ Target(k)' = l /\ Config(k)' = Config(k) /\ Ground(k)' = Ground(k)
        /\ EndNodes(k)' = EndNodes(k) /\ \A r : Before(k, r)' = Before(k, r)
    BY <1>3, <1>4, <1>5, <1>14, SameLink
  <2>2. Wrote(k)' = N - N
    BY <1>13, <1>14, <2>1 DEF Wrote
  <2>3. Wrote(k)' = 0
    BY <1>15, <2>2
  <2> QED
    BY <1>4, <2>1, <2>3 DEF Worked
<1>18. LinkWorks(k)'
  <2>1. /\ After(NodesBefore(k), LinkJobs(k), Worked(k))' = f
        /\ After(NodesBefore(k), LinkJobs(k), Wrote(k))' = f
    BY <1>14, <1>16, <1>17, AfterSame
  <2>2. jobs'[k] = [i \in 1..(N - 0) |-> L[i + 0]] /\ 0 \in 0..(N - 1) /\ N # 1
    <3>1. L = [i \in 1..N |-> L[i]]
      BY <1>15
    <3>2. \A i \in 1..N : i + 0 = i
      BY <1>15
    <3>3. 0 \in 0..(N - 1) /\ N # 1 /\ N - 0 = N
      BY <1>15
    <3> QED
      BY <1>13, <1>14, <3>1, <3>2, <3>3
  <2>3. Held(l)' = LinkCopied(k) /\ \A r \in Resources : Held(r)' = Held(r)
    BY <1>4, <1>7 DEF Held, Obj, Topology
  <2>4. /\ DataKept(k, Ground(k) \ ({l} \cup EndNodes(k)))'
        /\ ShownKept(k, Ground(k) \ ({l} \cup EndNodes(k)))'
    BY <1>3, <1>4, <1>7, <1>17, <2>3, CallerFacts DEF DataKept, ShownKept
  <2>5. stateCache'[l] = Before(k, l).shown /\ Len(jobs'[k]) = N
    BY <1>4, <1>6, <1>7, <1>13, <1>14 DEF ShownKept
  <2>6. \A n \in EndNodes(k) : Held(n)' = f[n] /\ stateCache'[n] = Before(k, n).shown
                               /\ Before(k, n).made
    BY <1>3, <1>4, <1>10, <1>16, <2>3, CallerFacts
  <2>7. 1..0 = {}
    OBVIOUS
  <2>8. topologyData' # NoData /\ Len(Config(k).endpoints)' >= 2
    BY <1>4, <1>6, <1>9, <1>17
  <2> QED
    BY <1>4, <1>14, <1>17, <2>1, <2>2, <2>3, <2>4, <2>5, <2>6, <2>7, <2>8 DEF LinkWorks, LinkRuns, EndWorks, OwnWorks
<1>19. Works(k)'
  BY <1>6, <1>17, <1>18 DEF Works
<1> QED
  BY <1>2, <1>3, <1>4, <1>19, ParseTypes, WorkGoesOn DEF ApartInv

-----------------------------------------------------------------------------
\* A call that works on a link's jobs, and the job it is at.
LEMMA LinkWorksIs ==
  ASSUME ApartInv, NEW k \in Callers, pc[k] \in {"work", "write"}, Target(k) \in Links
  PROVE  LET f == NodesBefore(k)
             L == LinkJobs(k)
             N == Len(L)
             w == Wrote(k)
             v == Worked(k)
         IN  /\ pc[k] \in Configuring /\ LinkWorks(k) /\ Len(Config(k).endpoints) >= 2
             /\ N \in {4, 6} /\ LinkJobsOK(L, N) /\ f \in SomeNodes
             /\ w \in 0..(N - 1) /\ v = (IF pc[k] = "write" THEN w + 1 ELSE w)
             /\ Len(jobs[k]) = N - w /\ jobs[k] = [i \in 1..(N - w) |-> L[i + w]]
             /\ Job(k) = L[w + 1]
             /\ After(f, L, w) \in SomeNodes /\ After(f, L, v) \in SomeNodes
             /\ SameNodes(After(f, L, v), f) /\ SameNodes(After(f, L, w), f)
<1>1. pc[k] \in Configuring /\ k \in Busy /\ Target(k) \notin Nodes /\ Target(k) # Topology
  BY ResourceFacts DEF Configuring, Busy
<1>2. LinkWorks(k) /\ GhostOK(k)
  BY <1>1, CallerFacts DEF CallInv
<1>3. Len(Config(k).endpoints) >= 2
  BY <1>2 DEF LinkWorks, LinkRuns, EndWorks, OwnWorks
<1>4. PICK f, L, N, w, v : /\ f = NodesBefore(k) /\ L = LinkJobs(k) /\ N = Len(L)
                           /\ w = Wrote(k) /\ v = Worked(k)
  OBVIOUS
<1>5. N \in {4, 6} /\ LinkJobsOK(L, N)
  BY <1>1, <1>3, <1>4, LinkJobsAre, EndFacts DEF LinkJobsOK
<1>6. f \in SomeNodes
  BY <1>2, <1>4, ResourceFacts DEF NodesBefore, SomeNodes, GhostOK
<1>7. /\ w \in 0..(N - 1) /\ jobs[k] = [i \in 1..(N - w) |-> L[i + w]]
      /\ \A i \in 1..v : L[i].by = "endpoint" => Before(k, L[i].object[1]).data # NoData
  BY <1>2, <1>4 DEF LinkWorks, LinkRuns, EndWorks, OwnWorks
<1>8. v = IF pc[k] = "write" THEN w + 1 ELSE w
  BY <1>4 DEF Worked
<1>9. /\ w \in 0..N /\ v \in 0..N /\ 1..w \subseteq 1..v /\ N - w \in Nat \ {0}
      /\ 1 \in 1..(N - w) /\ 1..v \subseteq 1..N
  BY <1>5, <1>7, <1>8
<1>10. \A i \in 1..v : L[i].by = "endpoint" => f[L[i].object[1]] # NoData
  <2> SUFFICES ASSUME NEW i \in 1..v, L[i].by = "endpoint" PROVE f[L[i].object[1]] # NoData
    OBVIOUS
  <2>1. i \in 1..(N - 2) \/ i \in (N - 1)..N
    BY <1>5, <1>9
  <2>2. L[i].object[1] \in Nodes
    BY <1>5, <2>1 DEF LinkJobsOK
  <2> QED
    BY <1>4, <1>7, <2>2 DEF NodesBefore
<1>11. After(f, L, v) \in SomeNodes /\ SameNodes(After(f, L, v), f)
  BY <1>5, <1>6, <1>9, <1>10, AfterIs
<1>12. After(f, L, w) \in SomeNodes /\ SameNodes(After(f, L, w), f)
  BY <1>5, <1>6, <1>9, <1>10, AfterIs
<1>13. Len(jobs[k]) = N - w /\ Job(k) = L[w + 1]
  <2>1. jobs[k] # <<>> /\ Job(k) = jobs[k][1]
    BY WorkingFacts DEF Job, ApartInv
  <2>2. PICK n : n = N - w
    OBVIOUS
  <2>3. n \in Nat /\ jobs[k] = [i \in 1..n |-> L[i + w]]
    BY <1>7, <1>9, <2>2
  <2>4. Len(jobs[k]) = n
    BY <2>3
  <2>5. jobs[k][1] = L[1 + w] /\ 1 + w = w + 1
    BY <1>5, <1>7, <1>9, <2>2, <2>3
  <2> QED
    BY <2>1, <2>2, <2>4, <2>5
<1> QED
  BY <1>1, <1>2, <1>3, <1>4, <1>5, <1>6, <1>7, <1>8, <1>11, <1>12, <1>13

\* A link sets an endpoint on a node, or marshals its own data.
LEMMA LinkWorkApart ==
  ASSUME ApartInv, NEW k \in Callers, Work(k), Target(k) \in Links
  PROVE  ApartInv' /\ UNCHANGED Atomic!vars
<1>1. /\ pc[k] = "work" /\ pc[k] \in Configuring
      /\ pc'[k] = "write" /\ call' = call /\ jobs' = jobs /\ ghost' = ghost
      /\ \A j \in Callers \ {k} : SameCall(j)
      /\ UNCHANGED <<alive, topologyMade, made, inMap, observers, topologyData, stateCache>>
  BY WorkIs
<1>2. PICK l, f, L, N, w, job, g, h :
        /\ l = Target(k) /\ f = NodesBefore(k) /\ L = LinkJobs(k) /\ N = Len(L)
        /\ w = Wrote(k) /\ job = L[w + 1] /\ g = After(f, L, w) /\ h = After(f, L, w + 1)
  OBVIOUS
<1>3. /\ LinkWorks(k) /\ Len(Config(k).endpoints) >= 2
      /\ N \in {4, 6} /\ LinkJobsOK(L, N) /\ f \in SomeNodes
      /\ w \in 0..(N - 1) /\ Worked(k) = w
      /\ jobs[k] = [i \in 1..(N - w) |-> L[i + w]]
      /\ Job(k) = job /\ g \in SomeNodes /\ SameNodes(g, f)
  <2>1. Worked(k) = w
    BY <1>1, <1>2 DEF Worked
  <2>2. /\ LinkWorks(k) /\ Len(Config(k).endpoints) >= 2
        /\ N \in {4, 6} /\ LinkJobsOK(L, N) /\ f \in SomeNodes
    BY <1>1, <1>2, LinkWorksIs
  <2>3. /\ w \in 0..(N - 1) /\ jobs[k] = [i \in 1..(N - w) |-> L[i + w]]
        /\ Job(k) = job
    BY <1>1, <1>2, LinkWorksIs
  <2>4. g \in SomeNodes /\ SameNodes(g, f)
    BY <1>1, <1>2, <2>1, LinkWorksIs
  <2> QED
    BY <2>1, <2>2, <2>3, <2>4
<1>4. h = SetJob(g, job)
  <2>1. N \in {4, 6} /\ LinkJobsOK(L, N) /\ w \in 0..(N - 1)
    BY <1>3
  <2>2. After(f, L, w + 1) = SetJob(After(f, L, w), L[w + 1])
    BY <2>1, AfterNext
  <2> QED
    BY <1>2, <2>2
<1>5. /\ \A n \in EndNodes(k) : /\ n \in Nodes /\ n \in Children /\ n # l /\ n # Topology
                                /\ Held(n) = g[n] /\ Held(n) = data[Obj(n)] /\ Obj(n)[1] = n
      /\ l \in Children /\ l # Topology /\ l \notin Nodes /\ Held(l) = data[Obj(l)]
      /\ Held(l) = LinkCopied(k)
  <2>1. \A n \in EndNodes(k) : Held(n) = g[n]
    BY <1>2, <1>3 DEF LinkWorks, LinkRuns, EndWorks, OwnWorks
  <2>2. Held(l) = LinkCopied(k)
    BY <1>2, <1>3 DEF LinkWorks, LinkRuns, EndWorks, OwnWorks
  <2>3. l \in Children /\ l # Topology /\ l \notin Nodes
    BY <1>2, ResourceFacts
  <2> QED
    BY <1>1, <1>2, <1>3, <2>1, <2>2, <2>3, EndFacts, OneHandler
<1>6. \/ /\ job.by = "endpoint" /\ job.endpoint \in Endpoint
         /\ job.object[1] \in EndNodes(k) /\ job.object = Obj(job.object[1])
      \/ job.by = "nothing" /\ job.object = Obj(l)
  <2>1. w + 1 \in 1..(N - 2) \/ w + 1 \in (N - 1)..N
    BY <1>3
  <2> QED
    BY <1>1, <1>2, <1>3, <2>1, LinkJobsAre
<1>7. /\ \A n \in EndNodes(k) : Held(n)' = h[n]
      /\ \A r \in Children \ EndNodes(k) : Held(r)' = Held(r)
      /\ \A s \in Children : \/ data'[Obj(s)] = data[Obj(s)]
                             \/ s \in EndNodes(k)
      /\ read'[k] = IF job.by = "endpoint" THEN NodeState(h[job.object[1]])
                                           ELSE LinkState(LinkCopied(k))
      /\ job.by = "endpoint" => f[job.object[1]] # NoData
  <2>1. CASE /\ job.by = "endpoint" /\ job.endpoint \in Endpoint
             /\ job.object[1] \in EndNodes(k) /\ job.object = Obj(job.object[1])
    <3>1. PICK n, d : n = job.object[1] /\ d = SetEndpoint(g[n], job.endpoint)
      OBVIOUS
    <3>2. n \in EndNodes(k) /\ n \in Nodes /\ n \in Children /\ job.object = Obj(n)
          /\ data[Obj(n)] = g[n] /\ Obj(n)[1] = n
      BY <1>5, <2>1, <3>1
    <3>3. Changed(data[Obj(n)], Job(k)) = d
      BY <1>3, <2>1, <3>1, <3>2 DEF Changed
    <3>4. /\ data' = [data EXCEPT ![Obj(n)] = d] /\ data[Obj(n)] # NoData
          /\ read'[k] = NodeState(d)
      BY <1>3, <3>2, <3>3, WorkSets
    <3>5. /\ data'[Obj(n)] = d /\ Held(n)' = d
          /\ \A s \in Children \ {n} : data'[Obj(s)] = data[Obj(s)] /\ Held(s)' = Held(s)
      BY <3>2, <3>4, DataSet
    <3>6. h[n] = d /\ \A m \in Nodes \ {n} : h[m] = g[m]
      BY <1>3, <1>4, <2>1, <3>1, <3>2, <3>4, JobSet
    <3>7. f[n] # NoData
      BY <1>3, <3>2, <3>4 DEF SameNodes
    <3> QED
      BY <1>5, <2>1, <3>1, <3>2, <3>4, <3>5, <3>6, <3>7
  <2>2. CASE job.by = "nothing" /\ job.object = Obj(l)
    <3>1. PICK d : d = data[Obj(l)]
      OBVIOUS
    <3>2. Changed(data[Obj(l)], Job(k)) = d
      BY <1>3, <2>2, <3>1 DEF Changed
    <3>3. Obj(l)[1] = l
      BY <1>5, ObjFacts
    <3>4. /\ data' = [data EXCEPT ![Obj(l)] = d]
          /\ read'[k] = LinkState(d)
      <4>1. Job(k).object = Obj(l)
        BY <1>3, <2>2
      <4>2. /\ data' = [data EXCEPT ![Obj(l)] = d]
            /\ read'[k] = IF Obj(l)[1] \in Nodes THEN NodeState(d) ELSE LinkState(d)
        BY <3>2, <4>1, WorkSets
      <4> QED
        BY <1>5, <3>3, <4>2
    <3>5. /\ data'[Obj(l)] = d /\ Held(l)' = d
          /\ \A s \in Children \ {l} : data'[Obj(s)] = data[Obj(s)] /\ Held(s)' = Held(s)
      BY <1>5, <3>4, DataSet
    <3>6. h = g
      BY <1>3, <1>4, <2>2, JobSet
    <3> QED
      BY <1>5, <2>2, <3>1, <3>4, <3>5, <3>6
  <2> QED
    BY <1>6, <2>1, <2>2
<1>8. /\ LinkJobs(k)' = L /\ NodesBefore(k)' = f /\ LinkCopied(k)' = LinkCopied(k)
      /\ Target(k)' = l /\ Config(k)' = Config(k) /\ Ground(k)' = Ground(k)
      /\ EndNodes(k)' = EndNodes(k) /\ \A r : Before(k, r)' = Before(k, r)
  BY <1>1, <1>2, SameLink
<1>9. Wrote(k)' = w /\ Worked(k)' = w + 1
  <2>1. Wrote(k)' = w
    BY <1>1, <1>2, <1>8 DEF Wrote
  <2> QED
    BY <1>1, <2>1 DEF Worked
<1>10. LinkWorks(k)'
  <2>1. /\ After(NodesBefore(k), LinkJobs(k), Worked(k))' = h
        /\ After(NodesBefore(k), LinkJobs(k), Wrote(k))' = g
    BY <1>2, <1>8, <1>9, AfterSame
  <2>2. /\ DataKept(k, Ground(k) \ ({l} \cup EndNodes(k)))
        /\ ShownKept(k, Ground(k) \ ({l} \cup EndNodes(k)))
        /\ topologyData # NoData
        /\ \A n \in EndNodes(k) : Before(k, n).made
        /\ \A i \in 1..w : L[i].by = "endpoint" => Before(k, L[i].object[1]).data # NoData
        /\ \A n \in EndNodes(k) :
             stateCache[n] =
                IF \E i \in 1..w : L[i].by = "endpoint" /\ L[i].object = Obj(n)
                THEN MergeState(Before(k, n).shown, NodeState(g[n]))
                ELSE Before(k, n).shown
        /\ stateCache[l] = IF Len(jobs[k]) = 1
                           THEN MergeState(Before(k, l).shown, LinkState(LinkCopied(k)))
                           ELSE Before(k, l).shown
    <3>1. /\ DataKept(k, Ground(k) \ ({l} \cup EndNodes(k)))
          /\ ShownKept(k, Ground(k) \ ({l} \cup EndNodes(k)))
          /\ topologyData # NoData
      BY <1>2, <1>3 DEF LinkWorks, LinkRuns, EndWorks, OwnWorks
    <3>2. /\ \A n \in EndNodes(k) : Before(k, n).made
          /\ \A i \in 1..w : L[i].by = "endpoint" => Before(k, L[i].object[1]).data # NoData
      BY <1>2, <1>3 DEF LinkWorks, LinkRuns, EndWorks, OwnWorks
    <3>3. \A n \in EndNodes(k) :
             stateCache[n] =
                IF \E i \in 1..w : L[i].by = "endpoint" /\ L[i].object = Obj(n)
                THEN MergeState(Before(k, n).shown, NodeState(g[n]))
                ELSE Before(k, n).shown
      BY <1>2, <1>3 DEF LinkWorks, LinkRuns, EndWorks, OwnWorks
    <3>4. stateCache[l] = IF Len(jobs[k]) = 1
                           THEN MergeState(Before(k, l).shown, LinkState(LinkCopied(k)))
                           ELSE Before(k, l).shown
      BY <1>2, <1>3 DEF LinkWorks, LinkRuns, EndWorks, OwnWorks
    <3> QED
      BY <3>1, <3>2, <3>3, <3>4
  <2>3. /\ DataKept(k, Ground(k) \ ({l} \cup EndNodes(k)))'
        /\ ShownKept(k, Ground(k) \ ({l} \cup EndNodes(k)))'
    <3>1. Ground(k) \subseteq Resources
      BY <1>1, CallerFacts DEF Configuring
    <3>2. \A r \in Ground(k) \ ({l} \cup EndNodes(k)) : Held(r)' = Held(r)
      <4>1. Held(Topology)' = Held(Topology)
        BY <1>1 DEF Held, Topology
      <4> QED
        BY <1>7, <3>1, <4>1, ResourceFacts
    <3> QED
      BY <1>1, <1>8, <2>2, <3>2 DEF DataKept, ShownKept
  <2>4. \A i \in 1..(w + 1) : L[i].by = "endpoint" => Before(k, L[i].object[1]).data # NoData
    <3> SUFFICES ASSUME NEW i \in 1..(w + 1), L[i].by = "endpoint"
                 PROVE  Before(k, L[i].object[1]).data # NoData
      OBVIOUS
    <3>1. i \in 1..w \/ i = w + 1
      BY <1>3
    <3>2. CASE i = w + 1
      <4>1. job.object[1] \in Nodes
        BY <1>2, <1>5, <1>6, <3>2
      <4> QED
        BY <1>2, <1>7, <3>2, <4>1 DEF NodesBefore
    <3> QED
      BY <2>2, <3>1, <3>2
  <2>5. Held(l)' = LinkCopied(k)
    BY <1>5, <1>7
  <2>6. \A n : Obj(n)' = Obj(n)
    BY DEF Obj
  <2>7. /\ (\A n \in EndNodes(k) : Before(k, n).made)'
        /\ (\A i \in 1..Worked(k) :
              LinkJobs(k)[i].by = "endpoint" => Before(k, LinkJobs(k)[i].object[1]).data # NoData)'
    BY <1>8, <1>9, <2>2, <2>4
  <2>8. topologyData' # NoData /\ Len(Config(k).endpoints)' >= 2
    BY <1>1, <1>3, <1>8, <2>2
  <2>9. (\A n \in EndNodes(k) :
           /\ Held(n) = After(NodesBefore(k), LinkJobs(k), Worked(k))[n]
           /\ stateCache[n] =
                IF \E i \in 1..Wrote(k) : LinkJobs(k)[i].by = "endpoint"
                                          /\ LinkJobs(k)[i].object = Obj(n)
                THEN MergeState(Before(k, n).shown,
                                NodeState(After(NodesBefore(k), LinkJobs(k), Wrote(k))[n]))
                ELSE Before(k, n).shown)'
    BY <1>1, <1>7, <1>8, <1>9, <2>1, <2>2, <2>6
  <2>10. /\ (Wrote(k) \in 0..(Len(LinkJobs(k)) - 1))'
         /\ (jobs[k] = [i \in 1..(Len(LinkJobs(k)) - Wrote(k)) |-> LinkJobs(k)[i + Wrote(k)]])'
    BY <1>1, <1>2, <1>3, <1>8, <1>9
  <2>11. (stateCache[Target(k)] = IF Len(jobs[k]) = 1
                     THEN MergeState(Before(k, Target(k)).shown, LinkState(LinkCopied(k)))
                     ELSE Before(k, Target(k)).shown)'
    BY <1>1, <1>8, <2>2
  <2>12. (read[k] = IF LinkJobs(k)[Worked(k)].by = "endpoint"
             THEN NodeState(After(NodesBefore(k), LinkJobs(k), Worked(k))
                              [LinkJobs(k)[Worked(k)].object[1]])
             ELSE LinkState(LinkCopied(k)))'
    BY <1>2, <1>7, <1>8, <1>9, <2>1
  <2> QED
    BY <1>8, <2>3, <2>5, <2>7, <2>8, <2>9, <2>10, <2>11, <2>12 DEF LinkWorks, LinkRuns, EndWorks, OwnWorks
<1>11. Works(k)'
  BY <1>5, <1>8, <1>10 DEF Works
<1>12. \A n \in EndNodes(k) : n \in Ground(k) /\ HasHandler(n)
  <2> TAKE n \in EndNodes(k)
  <2>1. n \in Ground(k) /\ n \in Children
    BY <1>1, <1>2, <1>3, EndFacts
  <2>2. Before(k, n).made
    BY <1>2, <1>3 DEF LinkWorks, LinkRuns, EndWorks, OwnWorks
  <2> QED
    BY <1>1, <2>1, <2>2, PastCreate DEF MadeSoFar
<1> QED
  BY <1>1, <1>7, <1>11, <1>12, WorkTypes, WorkGoesOn DEF ApartInv

\* What a link has done of its jobs is one more.
LEMMA LinkJobsLeft ==
  ASSUME ApartInv, NEW k \in Callers, pc[k] = "write", Target(k) \in Links,
         jobs'[k] = Tail(jobs[k]), Len(jobs[k]) # 1
  PROVE  LET L == LinkJobs(k)
             N == Len(L)
             w == Wrote(k)
         IN  /\ w + 1 \in 0..(N - 1) /\ Len(jobs[k]) = N - w /\ N - w # 1
             /\ Len(jobs'[k]) = N - (w + 1)
             /\ jobs'[k] = [i \in 1..(N - (w + 1)) |-> L[i + (w + 1)]]
<1>1. PICK L, N, w, q, n : L = LinkJobs(k) /\ N = Len(L) /\ w = Wrote(k) /\ q = jobs[k] /\ n = N - w
  OBVIOUS
<1>2. /\ N \in {4, 6} /\ w \in 0..(N - 1) /\ Len(q) = N - w
      /\ q = [i \in 1..(N - w) |-> L[i + w]]
  BY <1>1, LinkWorksIs
<1>3. PICK S : q \in Seq(S) /\ q # <<>>
  BY <1>1, WorkingFacts DEF ApartInv
<1>4. /\ Tail(q) \in Seq(S) /\ Len(Tail(q)) = Len(q) - 1
      /\ \A i \in 1..(Len(q) - 1) : Tail(q)[i] = q[i + 1]
  BY <1>3, HeadTailProperties
<1>5. n \in Nat /\ n > 1 /\ Len(q) = n /\ w + 1 \in 0..(N - 1) /\ N - (w + 1) = n - 1 /\ n # 1
  BY <1>1, <1>2
<1>6. /\ Len(Tail(q)) = n - 1 /\ DOMAIN Tail(q) = 1..(n - 1)
      /\ Tail(q) = [i \in 1..(n - 1) |-> Tail(q)[i]]
  BY <1>4, <1>5, LenProperties
<1>7. \A i \in 1..(n - 1) : Tail(q)[i] = L[i + (w + 1)]
  <2> TAKE i \in 1..(n - 1)
  <2>1. Tail(q)[i] = q[i + 1]
    BY <1>4, <1>5
  <2>2. i + 1 \in 1..n /\ (i + 1) + w = i + (w + 1)
    BY <1>2, <1>5
  <2>3. q[i + 1] = L[(i + 1) + w]
    BY <1>1, <1>2, <2>2
  <2> QED
    BY <2>1, <2>2, <2>3
<1>8. Tail(q) = [i \in 1..(n - 1) |-> L[i + (w + 1)]]
  BY <1>6, <1>7
<1> QED
  BY <1>1, <1>2, <1>5, <1>6, <1>8

\* A link writes a node, or itself for the first time.
LEMMA LinkWriteApart ==
  ASSUME ApartInv, NEW k \in Callers, WriteState(k), Target(k) \in Links, Len(jobs[k]) # 1
  PROVE  ApartInv' /\ UNCHANGED Atomic!vars
<1>1. /\ pc[k] = "write" /\ pc[k] \in Configuring
      /\ \A j \in Callers \ {k} : SameCall(j)
      /\ UNCHANGED <<alive, topologyMade, made, inMap, observers, topologyData, data>>
      /\ pc'[k] = "work" /\ call' = call /\ ghost' = ghost /\ jobs'[k] = Tail(jobs[k])
  BY WriteIs
<1>2. PICK l, f, L, N, w, job, g, h :
        /\ l = Target(k) /\ f = NodesBefore(k) /\ L = LinkJobs(k) /\ N = Len(L)
        /\ w = Wrote(k) /\ job = L[w + 1] /\ g = After(f, L, w) /\ h = After(f, L, w + 1)
  OBVIOUS
<1>3. /\ LinkWorks(k) /\ Len(Config(k).endpoints) >= 2
      /\ N \in {4, 6} /\ LinkJobsOK(L, N) /\ f \in SomeNodes
      /\ w \in 0..(N - 1) /\ Worked(k) = w + 1
      /\ Job(k) = job /\ g \in SomeNodes /\ SameNodes(g, f)
  <2>1. Worked(k) = w + 1
    BY <1>1, <1>2 DEF Worked
  <2>2. /\ LinkWorks(k) /\ Len(Config(k).endpoints) >= 2
        /\ N \in {4, 6} /\ LinkJobsOK(L, N) /\ f \in SomeNodes
    BY <1>1, <1>2, LinkWorksIs
  <2>3. w \in 0..(N - 1) /\ Job(k) = job
    BY <1>1, <1>2, LinkWorksIs
  <2>4. g \in SomeNodes /\ SameNodes(g, f)
    BY <1>1, <1>2, LinkWorksIs
  <2> QED
    BY <2>1, <2>2, <2>3, <2>4
<1>4. h = SetJob(g, job)
  <2>1. N \in {4, 6} /\ LinkJobsOK(L, N) /\ w \in 0..(N - 1)
    BY <1>3
  <2>2. After(f, L, w + 1) = SetJob(After(f, L, w), L[w + 1])
    BY <2>1, AfterNext
  <2> QED
    BY <1>2, <2>2
<1>5. /\ w + 1 \in 0..(N - 1) /\ Len(jobs[k]) = N - w /\ N - w # 1
      /\ Len(jobs'[k]) = N - (w + 1)
      /\ jobs'[k] = [i \in 1..(N - (w + 1)) |-> L[i + (w + 1)]]
  BY <1>1, <1>2, LinkJobsLeft
<1>6. /\ \A n \in EndNodes(k) : /\ n \in Nodes /\ n \in Children /\ n \in Resources /\ n # l
                                /\ n # Topology /\ Obj(n)[1] = n
      /\ l \in Children /\ l \in Resources /\ l # Topology /\ l \notin Nodes /\ Obj(l)[1] = l
      /\ l \notin EndNodes(k) /\ l \in Ground(k)
  BY <1>1, <1>2, <1>3, EndFacts, ResourceFacts, ObjFacts, PastCreate
<1>7. \/ /\ job.by = "endpoint" /\ job.endpoint \in Endpoint /\ w + 1 \in 1..(N - 2)
         /\ job.object[1] \in EndNodes(k) /\ job.object = Obj(job.object[1])
      \/ job.by = "nothing" /\ job.object = Obj(l) /\ w + 1 \in (N - 1)..N
  <2>1. w + 1 \in 1..(N - 2) \/ w + 1 \in (N - 1)..N
    BY <1>3
  <2> QED
    BY <1>1, <1>2, <1>3, <2>1, LinkJobsAre
<1>8. /\ DataKept(k, Ground(k) \ ({l} \cup EndNodes(k)))
      /\ ShownKept(k, Ground(k) \ ({l} \cup EndNodes(k)))
      /\ topologyData # NoData /\ Held(l) = LinkCopied(k)
  BY <1>2, <1>3 DEF LinkWorks, LinkRuns, EndWorks, OwnWorks
<1>9. /\ \A n \in EndNodes(k) : Before(k, n).made /\ Held(n) = h[n]
      /\ \A i \in 1..(w + 1) : L[i].by = "endpoint" => Before(k, L[i].object[1]).data # NoData
  BY <1>2, <1>3 DEF LinkWorks, LinkRuns, EndWorks, OwnWorks
<1>10. \A n \in EndNodes(k) :
         stateCache[n] = IF \E i \in 1..w : L[i].by = "endpoint" /\ L[i].object = Obj(n)
                         THEN MergeState(Before(k, n).shown, NodeState(g[n]))
                         ELSE Before(k, n).shown
  BY <1>2, <1>3 DEF LinkWorks, LinkRuns, EndWorks, OwnWorks
<1>11. /\ stateCache[l] = Before(k, l).shown
       /\ read[k] = IF job.by = "endpoint" THEN NodeState(h[job.object[1]])
                                           ELSE LinkState(LinkCopied(k))
  BY <1>1, <1>2, <1>3 DEF LinkWorks, LinkRuns, EndWorks, OwnWorks
<1>12. /\ LinkJobs(k)' = L /\ NodesBefore(k)' = f /\ LinkCopied(k)' = LinkCopied(k)
       /\ Target(k)' = l /\ Config(k)' = Config(k) /\ Ground(k)' = Ground(k)
       /\ EndNodes(k)' = EndNodes(k) /\ \A r : Before(k, r)' = Before(k, r)
  BY <1>1, <1>2, SameLink
<1>13. Wrote(k)' = w + 1 /\ Worked(k)' = w + 1
  <2>1. Wrote(k)' = N - (N - (w + 1))
    BY <1>2, <1>5, <1>12 DEF Wrote
  <2>2. Wrote(k)' = w + 1
    BY <1>3, <2>1
  <2> QED
    BY <1>1, <2>2 DEF Worked
<1>14. \A s \in Resources : stateCache'[s] = IF s = job.object[1]
                                             THEN MergeState(stateCache[s], read[k])
                                             ELSE stateCache[s]
  <2>1. Job(k).object # Topology /\ Job(k).object = job.object
    <3>1. Job(k).object = job.object
      BY <1>3
    <3>2. \A r \in Children : Obj(r) # Topology
      BY ObjFacts
    <3> QED
      BY <1>6, <1>7, <3>1, <3>2
  <2>2. stateCache' = [s \in Resources |-> IF s = Job(k).object[1]
                                           THEN MergeState(stateCache[s], read[k])
                                           ELSE stateCache[s]]
    BY <2>1, WriteChild
  <2> QED
    BY <2>1, <2>2
<1>15. \A n \in EndNodes(k) :
         stateCache'[n] =
           IF \E i \in 1..(w + 1) : L[i].by = "endpoint" /\ L[i].object = Obj(n)
           THEN MergeState(Before(k, n).shown, NodeState(h[n]))
           ELSE Before(k, n).shown
  <2> TAKE n \in EndNodes(k)
  <2>0. w + 1 \in 1..(w + 1) /\ \A i \in 1..(w + 1) : i \in 1..w \/ i = w + 1
    BY <1>3
  <2>1. CASE job.by = "endpoint" /\ job.object[1] = n
    <3>1. /\ job.object = Obj(n) /\ job.endpoint \in Endpoint /\ n \in Nodes
      BY <1>6, <1>7, <2>1
    <3>2. Before(k, n).data # NoData
      BY <1>2, <1>9, <2>0, <2>1
    <3>3. g[n] # NoData
      <4>1. f[n] # NoData
        BY <1>2, <3>1, <3>2 DEF NodesBefore
      <4> QED
        BY <1>3, <3>1, <4>1 DEF SameNodes
    <3>4. g[n] \in NodeData
      BY <1>3, <3>1, <3>3 DEF SomeNodes
    <3>5. h[n] = SetEndpoint(g[n], job.endpoint)
      BY <1>3, <1>4, <2>1, <3>1, <3>3, JobSet
    <3>6. Before(k, n).shown \in StateLeaves \cup {NoData}
      BY <1>1, <1>6, PastCreate DEF CallInv, GhostOK
    <3>7. MergeState(MergeState(Before(k, n).shown, NodeState(g[n])), NodeState(h[n]))
            = MergeState(Before(k, n).shown, NodeState(h[n]))
      BY <3>1, <3>4, <3>5, <3>6, NodeAgain
    <3>8. stateCache'[n] = MergeState(stateCache[n], NodeState(h[n]))
      BY <1>6, <1>11, <1>14, <2>1
    <3>9. stateCache'[n] = MergeState(Before(k, n).shown, NodeState(h[n]))
      BY <1>10, <3>7, <3>8
    <3> QED
      BY <1>2, <2>0, <2>1, <3>1, <3>9
  <2>2. CASE ~(job.by = "endpoint" /\ job.object[1] = n)
    <3>1. job.object[1] # n
      BY <1>6, <1>7, <2>2
    <3>2. ~(L[w + 1].by = "endpoint" /\ L[w + 1].object = Obj(n))
      BY <1>2, <1>6, <3>1
    <3>3. h[n] = g[n]
      <4>1. CASE job.by = "nothing"
        BY <1>3, <1>4, <4>1, JobSet
      <4>2. CASE job.by = "endpoint"
        <5>1. job.object[1] \in Nodes /\ job.endpoint \in Endpoint
          BY <1>6, <1>7, <4>2
        <5>2. Before(k, job.object[1]).data # NoData
          BY <1>2, <1>9, <2>0, <4>2
        <5>3. f[job.object[1]] # NoData
          BY <1>2, <5>1, <5>2 DEF NodesBefore
        <5>4. g[job.object[1]] # NoData
          BY <1>3, <5>1, <5>3 DEF SameNodes
        <5> QED
          BY <1>3, <1>4, <1>6, <3>1, <4>2, <5>1, <5>4, JobSet
      <4> QED
        BY <1>7, <4>1, <4>2
    <3>4. stateCache'[n] = stateCache[n]
      BY <1>6, <1>14, <3>1
    <3>5. (\E i \in 1..(w + 1) : L[i].by = "endpoint" /\ L[i].object = Obj(n))
            <=> (\E i \in 1..w : L[i].by = "endpoint" /\ L[i].object = Obj(n))
      <4>1. \A i \in 1..w : i \in 1..(w + 1)
        BY <1>3
      <4> QED
        BY <2>0, <3>2, <4>1
    <3> QED
      BY <1>10, <3>3, <3>4, <3>5
  <2> QED
    BY <2>1, <2>2
<1>16. stateCache'[l] = IF Len(jobs'[k]) = 1
                        THEN MergeState(Before(k, l).shown, LinkState(LinkCopied(k)))
                        ELSE Before(k, l).shown
  <2>1. CASE job.by = "endpoint" /\ w + 1 \in 1..(N - 2) /\ job.object[1] \in EndNodes(k)
    <3>1. N - (w + 1) # 1
      BY <1>3, <2>1
    <3>2. stateCache'[l] = stateCache[l]
      BY <1>6, <1>14, <2>1
    <3> QED
      BY <1>5, <1>11, <3>1, <3>2
  <2>2. CASE job.by = "nothing" /\ job.object = Obj(l) /\ w + 1 \in (N - 1)..N
    <3>1. N - (w + 1) = 1
      BY <1>3, <1>5, <2>2
    <3>2. stateCache'[l] = MergeState(stateCache[l], LinkState(LinkCopied(k)))
      BY <1>6, <1>11, <1>14, <2>2
    <3> QED
      BY <1>5, <1>11, <3>1, <3>2
  <2> QED
    BY <1>7, <2>1, <2>2
<1>17. \A r \in Resources : Held(r)' = Held(r)
  BY <1>1 DEF Held, Obj, Topology
<1>18. /\ Ground(k) \subseteq Resources
       /\ \A r \in Resources \ ({l} \cup EndNodes(k)) : stateCache'[r] = stateCache[r]
  BY <1>1, <1>6, <1>7, <1>14, CallerFacts DEF Configuring
<1>19. LinkWorks(k)'
  <2>1. /\ After(NodesBefore(k), LinkJobs(k), Worked(k))' = h
        /\ After(NodesBefore(k), LinkJobs(k), Wrote(k))' = h
    BY <1>2, <1>12, <1>13, AfterSame
  <2>2. \A n : Obj(n)' = Obj(n)
    BY DEF Obj
  <2>3. /\ DataKept(k, Ground(k) \ ({l} \cup EndNodes(k)))'
        /\ ShownKept(k, Ground(k) \ ({l} \cup EndNodes(k)))'
    BY <1>8, <1>12, <1>17, <1>18 DEF DataKept, ShownKept
  <2>4. topologyData' # NoData /\ Len(Config(k).endpoints)' >= 2
    BY <1>1, <1>3, <1>8, <1>12
  <2>5. /\ (\A n \in EndNodes(k) : Before(k, n).made)'
        /\ (\A i \in 1..Worked(k) :
              LinkJobs(k)[i].by = "endpoint" => Before(k, LinkJobs(k)[i].object[1]).data # NoData)'
    BY <1>9, <1>12, <1>13
  <2>6. (\A n \in EndNodes(k) :
           /\ Held(n) = After(NodesBefore(k), LinkJobs(k), Worked(k))[n]
           /\ stateCache[n] =
                IF \E i \in 1..Wrote(k) : LinkJobs(k)[i].by = "endpoint"
                                          /\ LinkJobs(k)[i].object = Obj(n)
                THEN MergeState(Before(k, n).shown,
                                NodeState(After(NodesBefore(k), LinkJobs(k), Wrote(k))[n]))
                ELSE Before(k, n).shown)'
    BY <1>6, <1>9, <1>12, <1>13, <1>15, <1>17, <2>1, <2>2
  <2>7. /\ (Wrote(k) \in 0..(Len(LinkJobs(k)) - 1))'
        /\ (jobs[k] = [i \in 1..(Len(LinkJobs(k)) - Wrote(k)) |-> LinkJobs(k)[i + Wrote(k)]])'
    BY <1>2, <1>5, <1>12, <1>13
  <2>8. (stateCache[Target(k)] = IF Len(jobs[k]) = 1
                    THEN MergeState(Before(k, Target(k)).shown, LinkState(LinkCopied(k)))
                    ELSE Before(k, Target(k)).shown)'
    BY <1>12, <1>16
  <2>9. Held(l)' = LinkCopied(k)'
    BY <1>6, <1>8, <1>12, <1>17
  <2>10. pc'[k] # "write"
    BY <1>1
  <2> QED
    BY <1>12, <2>3, <2>4, <2>5, <2>6, <2>7, <2>8, <2>9, <2>10 DEF LinkWorks, LinkRuns, EndWorks, OwnWorks
<1>20. Works(k)'
  BY <1>6, <1>12, <1>19 DEF Works
<1>21. /\ \A s \in Children \ Ground(k) : stateCache'[s] = stateCache[s]
       /\ stateCache'[Topology] = stateCache[Topology]
  <2>1. EndNodes(k) \subseteq Ground(k)
    BY <1>1, CallerFacts DEF Configuring
  <2> QED
    BY <1>6, <1>18, <2>1, ResourceFacts
<1> QED
  BY <1>1, <1>20, <1>21, WriteTypes, WorkGoesOn DEF ApartInv

=============================================================================
