--------------------------- MODULE GnmiSetProofs ---------------------------
(***************************************************************************)
(* Proofs about GnmiSet: its types and the permits of the semaphore; what is *)
(* applied under clients that write resources of their own; and, with lemmas *)
(* on the schema that its validation reads, that careful clients meet no   *)
(* panic and find applied and shown what they configured.  A call of       *)
(* HandleConfigEvent is one step here, as GnmiSet has it; ServerStepsProofs *)
(* shows when that is what a client can tell.                              *)
(***************************************************************************)
EXTENDS GnmiSet, AppLogicProofs, FiniteSetTheorems, SequenceTheorems

\* What a running RPC still has to write is in its request.
TodoInRequest ==
  \A k \in Clients : pc[k] = "config" => todo[k].write \subseteq DOMAIN req[k].write

SetInv == SetTypeOK /\ TodoInRequest /\ PermitsAccounted

-----------------------------------------------------------------------------
\* What a write, a leaf delete and a read make of configurations.
LEMMA ConfigsClosed ==
  ASSUME NEW r \in Resources, NEW old \in ConfigsOf(r) \cup {NoData}
  PROVE  /\ \A new \in ConfigsOf(r) : MergeConfig(r, old, new) \in ConfigsOf(r)
         /\ old # NoData => \A leaf \in LeavesOf(r) : WithoutLeaf(old, leaf) \in ConfigsOf(r)
<1>1. CASE old = NoData
  BY <1>1, ClosedAssumption DEF MergeConfig
<1>2. CASE old \in ConfigsOf(r)
  BY <1>2, ClosedAssumption
<1> QED
  BY <1>1, <1>2

LEMMA LeafPathParts ==
  ASSUME NEW p \in LeafPaths
  PROVE  p[1] \in Resources /\ p[2] \in LeavesOf(p[1])
  BY DEF LeafPaths

LEMMA JsonType ==
  ASSUME SetTypeOK, NEW r \in Resources
  PROVE  Json(r) \in ConfigsOf(r) \cup {NoData}
<1>1. NoTopologyLeaves \in ConfigsOf(Topology)
  BY ClosedAssumption, DataAssumption DEF ConfigsOf, Topology
<1> QED
  BY <1>1 DEF Json, SetTypeOK

-----------------------------------------------------------------------------
\* The running RPCs are finitely many.
LEMMA RunningFinite ==
  /\ IsFiniteSet(Running)
  /\ Cardinality(Running) \in Nat
<1>1. Running \in SUBSET Clients
  BY DEF Running
<1> QED
  BY <1>1, RequestAssumption, FS_Subset, FS_CardinalityType

\* What the initial state has.
LEMMA SetInitial == SetInit => SetInv
<1> SUFFICES ASSUME SetInit
             PROVE  SetInv
  OBVIOUS
<1>1. SetTypeOK
  BY RequestAssumption DEF SetInit, SetTypeOK, NoWork
<1>2. TodoInRequest
  BY DEF SetInit, TodoInRequest
<1>3. Running = {}
  BY DEF SetInit, Running
<1>4. PermitsAccounted
  BY <1>3, FS_EmptySet, RequestAssumption DEF PermitsAccounted, SetInit
<1> QED
  BY <1>1, <1>2, <1>4 DEF SetInv

(***************************************************************************)
(* The permits.  A step keeps both the running RPCs and the permits, or    *)
(* moves one RPC into or out of the running ones and one permit against    *)
(* it, or ends them all.                                                   *)
(***************************************************************************)
LEMMA PermitsKept ==
  ASSUME SetInv, Running' = Running, permits' = permits
  PROVE  PermitsAccounted' /\ permits' \in 0..MaxUnaryRPC
  BY DEF SetInv, SetTypeOK, PermitsAccounted

LEMMA PermitTaken ==
  ASSUME SetInv, NEW k \in Clients, k \notin Running, Running' = Running \cup {k},
         permits > 0, permits' = permits - 1
  PROVE  PermitsAccounted' /\ permits' \in 0..MaxUnaryRPC
<1>1. Cardinality(Running') = Cardinality(Running) + 1
  BY RunningFinite, FS_AddElement
<1>2. Cardinality(Running) \in Nat
  BY RunningFinite
<1>3. /\ permits \in 0..MaxUnaryRPC /\ MaxUnaryRPC \in Nat
      /\ permits + Cardinality(Running) = MaxUnaryRPC
  BY RequestAssumption DEF SetInv, SetTypeOK, PermitsAccounted
<1> QED
  BY <1>1, <1>2, <1>3 DEF PermitsAccounted

LEMMA PermitReturned ==
  ASSUME SetInv, NEW k \in Running, Running' = Running \ {k}, permits' = permits + 1
  PROVE  PermitsAccounted' /\ permits' \in 0..MaxUnaryRPC
<1>1. /\ IsFiniteSet(Running \ {k})
      /\ Cardinality(Running') = Cardinality(Running) - 1
  BY RunningFinite, FS_RemoveElement
<1>2. Cardinality(Running') \in Nat
  BY <1>1, FS_CardinalityType
<1>3. Cardinality(Running) \in Nat
  BY RunningFinite
<1>4. /\ permits \in 0..MaxUnaryRPC /\ MaxUnaryRPC \in Nat
      /\ permits + Cardinality(Running) = MaxUnaryRPC
  BY RequestAssumption DEF SetInv, SetTypeOK, PermitsAccounted
<1> QED
  BY <1>1, <1>2, <1>3, <1>4 DEF PermitsAccounted

LEMMA PermitsStep ==
  SetInv /\ [SetNext]_setVars => PermitsAccounted' /\ permits' \in 0..MaxUnaryRPC
<1> SUFFICES ASSUME SetInv, [SetNext]_setVars
             PROVE  PermitsAccounted' /\ permits' \in 0..MaxUnaryRPC
  OBVIOUS
<1> USE DEF SetInv, SetTypeOK
<1>1. ASSUME pc' = pc, permits' = permits
      PROVE  PermitsAccounted' /\ permits' \in 0..MaxUnaryRPC
  BY <1>1, PermitsKept DEF Running
<1>2. CASE UNCHANGED setVars
  BY <1>1, <1>2 DEF setVars, rpcVars
<1>3. CASE ProcessRestart
  BY <1>1, <1>3 DEF ProcessRestart, rpcVars
<1>12. ASSUME NEW k \in Clients, Get(k)
       PROVE  PermitsAccounted' /\ permits' \in 0..MaxUnaryRPC
  BY <1>12, PermitTaken DEF Get, Running
<1>13. ASSUME NEW k \in Clients, GetReturns(k)
       PROVE  PermitsAccounted' /\ permits' \in 0..MaxUnaryRPC
  BY <1>13, PermitReturned DEF GetReturns, End, Running
<1>4. ASSUME NEW k \in Clients, NEW q \in Requests[k], Issue(k, q)
      PROVE  PermitsAccounted' /\ permits' \in 0..MaxUnaryRPC
  <2>1. CASE pc[k] = "idle"
    BY <1>4, <2>1, PermitsKept DEF Issue, Running
  <2>2. CASE pc[k] = "get"
    BY <1>4, <2>2, PermitReturned DEF Issue, Running
  <2> QED
    BY <1>4, <2>1, <2>2 DEF Issue
<1>5. ASSUME NEW k \in Clients, Refuse(k)
      PROVE  PermitsAccounted' /\ permits' \in 0..MaxUnaryRPC
  BY <1>5, PermitsKept DEF Refuse, End, Running
<1>6. ASSUME NEW k \in Clients, Receive(k)
      PROVE  PermitsAccounted' /\ permits' \in 0..MaxUnaryRPC
  BY <1>6, PermitTaken DEF Receive, Running
<1>7. ASSUME NEW k \in Clients, NEW r \in Resources,
             WriteConfig(k, r) \/ DeleteConfig(k, r) \/ DeleteEvent(k, r)
      PROVE  PermitsAccounted' /\ permits' \in 0..MaxUnaryRPC
  BY <1>1, <1>7 DEF WriteConfig, DeleteConfig, DeleteEvent, DeleteReturns
<1>11. ASSUME NEW k \in Clients, NEW p \in LeafPaths, DeleteLeaf(k, p)
       PROVE  PermitsAccounted' /\ permits' \in 0..MaxUnaryRPC
  BY <1>1, <1>11 DEF DeleteLeaf
<1>8. ASSUME NEW k \in Clients,
             \/ ConfigFails(k) \/ ConfigDone(k) \/ DeletesDone(k)
             \/ UpdateEvent(k) \/ UpdateRefused(k) \/ Rollback(k)
             \/ \E r \in Resources : ReadConfig(k, r)
      PROVE  PermitsAccounted' /\ permits' \in 0..MaxUnaryRPC
  <2>1. PICK to \in {"reply", "deletes", "updates", "event", "rollback"} :
          /\ pc[k] \notin {"idle", "sent"}
          /\ pc' = [pc EXCEPT ![k] = to]
          /\ permits' = permits
    BY <1>8 DEF ConfigFails, ConfigDone, DeletesDone, UpdateEvent, UpdateReturns, UpdateRefused, UpdateFails,
                Rollback, ReadConfig
  <2> QED
    BY <2>1, PermitsKept DEF Running
<1>9. ASSUME NEW k \in Clients, Reply(k)
      PROVE  PermitsAccounted' /\ permits' \in 0..MaxUnaryRPC
  BY <1>9, PermitReturned DEF Reply, End, Running
<1>10. ASSUME NEW k \in Clients, EventPanics(k)
       PROVE  PermitsAccounted' /\ permits' \in 0..MaxUnaryRPC
  <2>1. Running' = {} /\ permits' = MaxUnaryRPC
    BY <1>10 DEF EventPanics, DropRpcs, Running
  <2> QED
    BY <2>1, FS_EmptySet, RequestAssumption DEF PermitsAccounted
<1> QED
  BY <1>2, <1>3, <1>4, <1>5, <1>6, <1>7, <1>8, <1>9, <1>10, <1>11, <1>12, <1>13
     DEF SetNext, RpcStep

-----------------------------------------------------------------------------
(***************************************************************************)
(* The types.  Configuration enters the cache from a request, the          *)
(* application logic from a read of the cache.                             *)
(***************************************************************************)
ConfigTyped ==
  /\ DOMAIN configCache = Resources
  /\ \A r \in Resources : configCache[r] \in ConfigsOf(r) \cup {NoData}

LEMMA ConfigStep == SetInv /\ [SetNext]_setVars => ConfigTyped'
<1> SUFFICES ASSUME SetInv, [SetNext]_setVars
             PROVE  ConfigTyped'
  OBVIOUS
<1>0. ConfigTyped
  BY DEF SetInv, SetTypeOK, ConfigTyped
<1>1. ASSUME configCache' = configCache
      PROVE  ConfigTyped'
  BY <1>0, <1>1 DEF ConfigTyped
<1>2. ASSUME NEW S \in SUBSET Resources, configCache' = Without(S)
      PROVE  ConfigTyped'
  BY <1>0, <1>2 DEF ConfigTyped, Without
<1>3. ASSUME NEW k \in Clients, NEW r \in Resources, WriteConfig(k, r)
      PROVE  ConfigTyped'
  <2>1. req[k].write[r] \in ConfigsOf(r)
    BY <1>3, RequestAssumption DEF WriteConfig, SetInv, SetTypeOK, TodoInRequest
  <2>2. MergeConfig(r, configCache[r], req[k].write[r]) \in ConfigsOf(r)
    BY <1>0, <2>1, ConfigsClosed DEF ConfigTyped
  <2> QED
    BY <1>0, <1>3, <2>2 DEF WriteConfig, ConfigTyped
<1>4. ASSUME NEW k \in Clients, NEW r \in Resources, DeleteConfig(k, r)
      PROVE  ConfigTyped'
  BY <1>2, <1>4 DEF DeleteConfig
<1>5. ASSUME NEW k \in Clients, NEW p \in LeafPaths, DeleteLeaf(k, p)
      PROVE  ConfigTyped'
  <2>0. p[1] \in Resources /\ p[2] \in LeavesOf(p[1])
    BY LeafPathParts
  <2>1. CASE configCache[p[1]] = NoData
    BY <1>1, <1>5, <2>1 DEF DeleteLeaf
  <2>2. CASE configCache[p[1]] # NoData
    <3>1. WithoutLeaf(configCache[p[1]], p[2]) \in ConfigsOf(p[1])
      BY <1>0, <2>0, <2>2, ConfigsClosed DEF ConfigTyped
    <3> QED
      BY <1>0, <1>5, <2>0, <2>2, <3>1 DEF DeleteLeaf, ConfigTyped
  <2> QED
    BY <2>1, <2>2
<1>6. ASSUME NEW k \in Clients,
             \/ \E q \in Requests[k] : Issue(k, q)
             \/ Get(k) \/ GetReturns(k)
             \/ Refuse(k) \/ Receive(k) \/ ConfigFails(k) \/ ConfigDone(k)
             \/ \E r \in Resources : DeleteEvent(k, r) \/ ReadConfig(k, r)
             \/ DeletesDone(k) \/ UpdateEvent(k) \/ UpdateRefused(k) \/ Reply(k)
      PROVE  ConfigTyped'
  BY <1>1, <1>6 DEF Issue, Get, GetReturns, Refuse, Receive, ConfigFails, ConfigDone,
     DeleteEvent, DeleteReturns, ReadConfig, DeletesDone, UpdateEvent, UpdateReturns, UpdateRefused, UpdateFails, Reply
<1>7. ASSUME NEW k \in Clients, Rollback(k)
      PROVE  ConfigTyped'
  <2>1. {got[k].resource} \in SUBSET Resources
    BY <1>7 DEF Rollback, SetInv, SetTypeOK
  <2> QED
    BY <1>2, <1>7, <2>1 DEF Rollback
<1>8. ASSUME NEW k \in Clients, EventPanics(k)
      PROVE  ConfigTyped'
  BY <1>2, <1>8 DEF EventPanics
<1>9. CASE ProcessRestart \/ UNCHANGED setVars
  BY <1>1, <1>9 DEF ProcessRestart, setVars
<1> QED
  BY <1>3, <1>4, <1>5, <1>6, <1>7, <1>8, <1>9 DEF SetNext, RpcStep

\* The locals of one RPC, and of all.
RpcTyped ==
  /\ pc \in [Clients -> {"idle", "get", "sent", "config", "deletes", "updates", "event",
                         "rollback", "reply"}]
  /\ DOMAIN req = Clients
  /\ \A k \in Clients :
       req[k] \in IF pc[k] \in {"idle", "get"} THEN {NoData} ELSE Requests[k]
  /\ todo \in [Clients -> [write : SUBSET Resources, delete : SUBSET Resources,
                           leaf : SUBSET LeafPaths]]
  /\ updateObjects \in [Clients -> SUBSET Resources]
  /\ deleteObjects \in [Clients -> SUBSET Resources]
  /\ DOMAIN got = Clients
  /\ \A k \in Clients : pc[k] \in {"event", "rollback"} =>
       /\ got[k].resource \in Resources
       /\ got[k].data \in ConfigsOf(got[k].resource) \cup {NoData}
       /\ got[k].kids \subseteq Children
  /\ TodoInRequest

LEMMA RpcStepTyped == SetInv /\ [SetNext]_setVars => RpcTyped'
<1> SUFFICES ASSUME SetInv, [SetNext]_setVars
             PROVE  RpcTyped'
  OBVIOUS
<1>0. RpcTyped
  BY DEF SetInv, SetTypeOK, RpcTyped
<1> USE DEF RpcTyped, TodoInRequest
<1>1. ASSUME UNCHANGED rpcVars
      PROVE  RpcTyped'
  BY <1>0, <1>1 DEF rpcVars
<1>2. ASSUME NEW k \in Clients, NEW q \in Requests[k], Issue(k, q)
      PROVE  RpcTyped'
  BY <1>0, <1>2 DEF Issue
<1>16. ASSUME NEW k \in Clients, Get(k)
       PROVE  RpcTyped'
  BY <1>0, <1>16 DEF Get
<1>3. ASSUME NEW k \in Clients, Refuse(k) \/ Reply(k) \/ GetReturns(k)
      PROVE  RpcTyped'
  <2>1. /\ pc' = [pc EXCEPT ![k] = "idle"]
        /\ req' = [req EXCEPT ![k] = NoData]
        /\ todo' = [todo EXCEPT ![k] = NoWork]
        /\ updateObjects' = [updateObjects EXCEPT ![k] = {}]
        /\ deleteObjects' = [deleteObjects EXCEPT ![k] = {}]
        /\ got' = [got EXCEPT ![k] = NoData]
    BY <1>3 DEF Refuse, Reply, GetReturns, End
  <2>2. NoWork \in [write : SUBSET Resources, delete : SUBSET Resources,
                    leaf : SUBSET LeafPaths]
    BY DEF NoWork
  <2> QED
    BY <1>0, <2>1, <2>2
<1>4. ASSUME NEW k \in Clients, Receive(k)
      PROVE  RpcTyped'
  <2>1. [write |-> DOMAIN req[k].write, delete |-> req[k].delete, leaf |-> req[k].leaf]
          \in [write : SUBSET Resources, delete : SUBSET Resources, leaf : SUBSET LeafPaths]
    BY <1>0, <1>4, RequestAssumption DEF Receive
  <2> QED
    BY <1>0, <1>4, <2>1 DEF Receive
<1>5. ASSUME NEW k \in Clients, NEW r \in Resources, WriteConfig(k, r)
      PROVE  RpcTyped'
  BY <1>0, <1>5 DEF WriteConfig, AddObject
<1>14. ASSUME NEW k \in Clients, NEW r \in Resources,
              deleteObjects' = [deleteObjects EXCEPT ![k] = AddObject(@, r)],
              todo' \in [Clients -> [write : SUBSET Resources, delete : SUBSET Resources,
                                    leaf : SUBSET LeafPaths]],
              \A j \in Clients : todo'[j].write = todo[j].write,
              UNCHANGED <<pc, req, updateObjects, got>>
       PROVE  RpcTyped'
  <2>1. AddObject(deleteObjects[k], r) \in SUBSET Resources
    BY <1>0 DEF AddObject
  <2> QED
    BY <1>0, <1>14, <2>1
<1>6. ASSUME NEW k \in Clients, NEW r \in Resources, DeleteConfig(k, r)
      PROVE  RpcTyped'
  <2>1. /\ deleteObjects' = [deleteObjects EXCEPT ![k] = AddObject(@, r)]
        /\ todo' = [todo EXCEPT ![k].delete = @ \ {r}]
        /\ UNCHANGED <<pc, req, updateObjects, got>>
    BY <1>6 DEF DeleteConfig
  <2>2. /\ todo' \in [Clients -> [write : SUBSET Resources, delete : SUBSET Resources,
                                 leaf : SUBSET LeafPaths]]
        /\ \A j \in Clients : todo'[j].write = todo[j].write
    BY <1>0, <2>1
  <2> QED
    BY <1>14, <2>1, <2>2
<1>15. ASSUME NEW k \in Clients, NEW p \in LeafPaths, DeleteLeaf(k, p)
       PROVE  RpcTyped'
  <2>1. p[1] \in Resources
    BY LeafPathParts
  <2>2. deleteObjects' = [deleteObjects EXCEPT ![k] = AddObject(@, p[1])]
    BY <1>15 DEF DeleteLeaf
  <2>3. todo' = [todo EXCEPT ![k].leaf = @ \ {p}]
    BY <1>15 DEF DeleteLeaf
  <2>4. /\ todo' \in [Clients -> [write : SUBSET Resources, delete : SUBSET Resources,
                                 leaf : SUBSET LeafPaths]]
        /\ \A j \in Clients : todo'[j].write = todo[j].write
    BY <1>0, <2>3
  <2>5. UNCHANGED <<pc, req, updateObjects, got>>
    BY <1>15 DEF DeleteLeaf
  <2> QED
    BY <1>14, <2>1, <2>2, <2>4, <2>5
<1>7. ASSUME NEW k \in Clients, ConfigFails(k) \/ ConfigDone(k) \/ DeletesDone(k)
      PROVE  RpcTyped'
  BY <1>0, <1>7 DEF ConfigFails, ConfigDone, DeletesDone
<1>8. ASSUME NEW k \in Clients, NEW r \in Resources, DeleteEvent(k, r)
      PROVE  RpcTyped'
  BY <1>0, <1>8 DEF DeleteEvent, DeleteReturns
<1>9. ASSUME NEW k \in Clients, NEW r \in Resources, ReadConfig(k, r)
      PROVE  RpcTyped'
  BY <1>0, <1>9, JsonType DEF ReadConfig, Kids, SetInv
<1>10. ASSUME NEW k \in Clients, UpdateEvent(k)
       PROVE  RpcTyped'
  BY <1>0, <1>10 DEF UpdateEvent, UpdateReturns
<1>11. ASSUME NEW k \in Clients, UpdateRefused(k) \/ Rollback(k)
       PROVE  RpcTyped'
  BY <1>0, <1>11 DEF UpdateRefused, UpdateFails, Rollback
<1>12. ASSUME NEW k \in Clients, EventPanics(k)
       PROVE  RpcTyped'
  BY <1>0, <1>12 DEF EventPanics, DropRpcs, NoWork
<1>13. CASE ProcessRestart \/ UNCHANGED setVars
  BY <1>1, <1>13 DEF ProcessRestart, setVars
<1> QED
  BY <1>2, <1>3, <1>4, <1>5, <1>6, <1>7, <1>8, <1>9, <1>10, <1>11, <1>12, <1>13, <1>15,
     <1>16 DEF SetNext, RpcStep

LEMMA SetStep == SetInv /\ [SetNext]_setVars => SetInv'
<1> SUFFICES ASSUME SetInv, [SetNext]_setVars
             PROVE  SetInv'
  OBVIOUS
<1>1. PermitsAccounted' /\ permits' \in 0..MaxUnaryRPC
  BY PermitsStep
<1>2. SetTypeOK' /\ TodoInRequest'
  BY <1>1, ConfigStep, RpcStepTyped DEF SetTypeOK, ConfigTyped, RpcTyped
<1> QED
  BY <1>1, <1>2 DEF SetInv

\* The inductive invariant of the server.
LEMMA SetInvariant == SetSpec => []SetInv
  BY SetInitial, SetStep, PTL DEF SetSpec

(***************************************************************************)
(* The configuration cache only ever holds what clients configured, an RPC *)
(* only ever hands that to the application logic, and the semaphore stays  *)
(* within its weight (set.go).                                             *)
(***************************************************************************)
THEOREM SetTypeCorrect == SetSpec => []SetTypeOK
<1>1. SetInv => SetTypeOK
  BY DEF SetInv
<1> QED
  BY <1>1, SetInvariant, PTL

(***************************************************************************)
(* Permits and running RPCs add up, for any number of clients and any      *)
(* weight of the semaphore (TryAcquire and Release in Set).                *)
(***************************************************************************)
THEOREM PermitsCorrect == SetSpec => []PermitsAccounted
<1>1. SetInv => PermitsAccounted
  BY DEF SetInv
<1> QED
  BY <1>1, SetInvariant, PTL

-----------------------------------------------------------------------------
(***************************************************************************)
(* Admission.  Where the RPCs are changes with pc; whether one is admitted *)
(* or refused depends on the permits, which count those that run.          *)
(***************************************************************************)
\* Admission counts with the Cardinality of its own copy of FiniteSets.
LEMMA CardinalitySame == \A S : Unary!Cardinality(S) = Cardinality(S)
  BY DEF Unary!Cardinality, Cardinality

LEMMA InsideIsRunning == SetInv => Unary!Inside = Running
  BY DEF Unary!Inside, Place, Running, SetInv, SetTypeOK

LEMMA PlaceMoves ==
  ASSUME SetInv, NEW k \in Clients, NEW to, pc' = [pc EXCEPT ![k] = to]
  PROVE  Place' = [Place EXCEPT ![k] = CASE to = "idle" -> "outside"
                                         [] to = "sent" -> "asking"
                                         [] OTHER -> "inside"]
  BY DEF Place, SetInv, SetTypeOK

LEMMA StepAdmits == SetInv /\ [SetNext]_setVars => [Unary!Next]_Place
<1> SUFFICES ASSUME SetInv, [SetNext]_setVars
             PROVE  [Unary!Next]_Place
  OBVIOUS
<1>0. /\ Unary!Cardinality(Unary!Inside) = Cardinality(Running)
      /\ permits + Cardinality(Running) = MaxUnaryRPC
      /\ permits \in Nat /\ Cardinality(Running) \in Nat /\ MaxUnaryRPC \in Nat
  BY InsideIsRunning, CardinalitySame, RunningFinite, RequestAssumption
     DEF SetInv, SetTypeOK, PermitsAccounted
<1>1. ASSUME pc' = pc
      PROVE  Place' = Place
  BY <1>1 DEF Place
<1>10. ASSUME NEW k \in Clients, Get(k)
       PROVE  Unary!Admit(k)
  <2>0. PICK to \in {"get"} : pc' = [pc EXCEPT ![k] = to]
    BY <1>10 DEF Get
  <2>1. Place' = [Place EXCEPT ![k] = "inside"]
    BY <2>0, PlaceMoves
  <2>2. Unary!Cardinality(Unary!Inside) < MaxUnaryRPC
    BY <1>0, <1>10 DEF Get
  <2> QED
    BY <1>10, <2>1, <2>2 DEF Get, Place, Unary!Admit, Unary!Move
<1>11. ASSUME NEW k \in Clients, GetReturns(k)
       PROVE  Unary!Leave(k)
  <2>1. Place' = [Place EXCEPT ![k] = "outside"]
    BY <1>11, PlaceMoves DEF GetReturns, End
  <2> QED
    BY <1>11, <2>1 DEF GetReturns, Place, Unary!Leave, Unary!Move
<1>2. ASSUME NEW k \in Clients, NEW q \in Requests[k], Issue(k, q)
      PROVE  Unary!Ask(k)
  <2>1. Place' = [Place EXCEPT ![k] = "asking"]
    BY <1>2, PlaceMoves DEF Issue
  <2>2. Place[k] \in {"outside", "inside"}
    BY <1>2 DEF Issue, Place
  <2> QED
    BY <2>1, <2>2 DEF Unary!Ask, Unary!Move
<1>3. ASSUME NEW k \in Clients, Refuse(k)
      PROVE  Unary!Refuse(k)
  <2>1. Place' = [Place EXCEPT ![k] = "outside"]
    BY <1>3, PlaceMoves DEF Refuse, End
  <2>2. Unary!Cardinality(Unary!Inside) = MaxUnaryRPC
    BY <1>0, <1>3 DEF Refuse
  <2> QED
    BY <1>3, <2>1, <2>2 DEF Refuse, Place, Unary!Refuse, Unary!Move
<1>4. ASSUME NEW k \in Clients, Receive(k)
      PROVE  Unary!Admit(k)
  <2>1. PICK to \in {"reply", "config"} : pc' = [pc EXCEPT ![k] = to]
    BY <1>4 DEF Receive
  <2>2. Place' = [Place EXCEPT ![k] = "inside"]
    BY <2>1, PlaceMoves
  <2>3. Unary!Cardinality(Unary!Inside) < MaxUnaryRPC
    BY <1>0, <1>4 DEF Receive
  <2> QED
    BY <1>4, <2>2, <2>3 DEF Receive, Place, Unary!Admit, Unary!Move
<1>5. ASSUME NEW k \in Clients, Reply(k)
      PROVE  Unary!Leave(k)
  <2>1. Place' = [Place EXCEPT ![k] = "outside"]
    BY <1>5, PlaceMoves DEF Reply, End
  <2> QED
    BY <1>5, <2>1 DEF Reply, Place, Unary!Leave, Unary!Move
<1>6. ASSUME NEW k \in Clients, EventPanics(k)
      PROVE  Unary!Crash
  BY <1>6 DEF EventPanics, DropRpcs, Place, Unary!Crash
<1>7. ASSUME NEW k \in Clients,
             \/ \E r \in Resources : WriteConfig(k, r) \/ DeleteConfig(k, r) \/ DeleteEvent(k, r)
             \/ \E p \in LeafPaths : DeleteLeaf(k, p)
      PROVE  Place' = Place
  BY <1>1, <1>7 DEF WriteConfig, DeleteConfig, DeleteEvent, DeleteReturns, DeleteLeaf
<1>8. ASSUME NEW k \in Clients,
             \/ ConfigFails(k) \/ ConfigDone(k) \/ DeletesDone(k)
             \/ UpdateEvent(k) \/ UpdateRefused(k) \/ Rollback(k)
             \/ \E r \in Resources : ReadConfig(k, r)
      PROVE  Place' = Place
  <2>1. PICK to \in {"reply", "deletes", "updates", "event", "rollback"} :
          pc[k] \notin {"idle", "sent"} /\ pc' = [pc EXCEPT ![k] = to]
    BY <1>8 DEF ConfigFails, ConfigDone, DeletesDone, UpdateEvent, UpdateReturns, UpdateRefused, UpdateFails,
                Rollback, ReadConfig
  <2> QED
    BY <2>1 DEF Place, SetInv, SetTypeOK
<1>9. CASE ProcessRestart \/ UNCHANGED setVars
  BY <1>1, <1>9 DEF ProcessRestart, setVars, rpcVars
<1> QED
  BY <1>2, <1>3, <1>4, <1>5, <1>6, <1>7, <1>8, <1>9, <1>10, <1>11
     DEF SetNext, RpcStep, Unary!Next

(***************************************************************************)
(* For any number of clients and any weight of the semaphore, an RPC is    *)
(* refused only when as many run as there are permits (TryAcquire and      *)
(* Release in Set).                                                        *)
(***************************************************************************)
THEOREM ServerAdmits == SetSpec => ImplementsAdmission
<1>1. SetInit => Unary!Init
  BY DEF SetInit, Unary!Init, Place
<1> QED
  BY <1>1, StepAdmits, SetInvariant, PTL DEF SetSpec, Unary!Spec, ImplementsAdmission

-----------------------------------------------------------------------------
(***************************************************************************)
(* An RPC hands over what it read from the configuration cache, which is   *)
(* one of the configurations of the resource: with calls that are one step *)
(* here, every step is one of AppLogic or none.                            *)
(***************************************************************************)
LEMMA StepImplements == SetInv /\ [SetNext]_setVars => [Next]_vars
<1> SUFFICES ASSUME SetInv, [SetNext]_setVars
             PROVE  [Next]_vars
  OBVIOUS
<1>0. /\ \A r \in Nodes : r # Topology /\ r \in Resources
      /\ \A r \in Links : r # Topology /\ r \notin Nodes /\ r \in Resources
  BY DataAssumption DEF Topology, Children, Resources
<1>1. ASSUME UNCHANGED appVars
      PROVE  [Next]_vars
  BY <1>1 DEF appVars
<1>2. ASSUME NEW k \in Clients,
             \/ \E q \in Requests[k] : Issue(k, q)
             \/ Get(k) \/ GetReturns(k)
             \/ Refuse(k) \/ Receive(k) \/ ConfigFails(k) \/ ConfigDone(k)
             \/ \E r \in Resources : WriteConfig(k, r) \/ DeleteConfig(k, r)
             \/ \E p \in LeafPaths : DeleteLeaf(k, p)
             \/ DeletesDone(k) \/ Rollback(k) \/ Reply(k)
             \/ \E r \in Resources : ReadConfig(k, r)
      PROVE  [Next]_vars
  BY <1>1, <1>2 DEF Issue, Get, GetReturns, Refuse, Receive, ConfigFails, ConfigDone, WriteConfig,
     DeleteConfig, DeleteLeaf, DeletesDone, Rollback, Reply, ReadConfig
<1>3. ASSUME NEW k \in Clients, NEW r \in Resources, DeleteEvent(k, r)
      PROVE  [Next]_vars
  BY <1>3 DEF DeleteEvent, DeleteReturns, HandleDelete, Resources, Next
<1>4. ASSUME NEW k \in Clients, UpdateEvent(k)
      PROVE  [Next]_vars
  <2> DEFINE r == got[k].resource
             d == got[k].data
             kids == got[k].kids
  <2>1. r \in Resources /\ d \in ConfigsOf(r) \cup {NoData} /\ kids \in SUBSET Children
    BY <1>4 DEF UpdateEvent, UpdateReturns, SetInv, SetTypeOK
  <2>2. HandleUpdate(r, d, kids)
    BY <1>4 DEF UpdateEvent, UpdateReturns
  <2>3. CASE d = NoData /\ UpdateWithoutData(r)
    BY <2>1, <2>3 DEF Next
  <2>4. CASE d # NoData /\ r = Topology /\ TopologyUpdate(d, kids)
    BY <1>0, <2>1, <2>4 DEF Next, ConfigsOf
  <2>5. CASE d # NoData /\ r \in Nodes /\ NodeUpdate(r, d)
    BY <1>0, <2>1, <2>5 DEF Next, ConfigsOf
  <2>6. CASE d # NoData /\ r \in Links /\ LinkUpdate(r, d)
    BY <1>0, <2>1, <2>6 DEF Next, ConfigsOf
  <2> QED
    BY <2>2, <2>3, <2>4, <2>5, <2>6 DEF HandleUpdate
<1>5. ASSUME NEW k \in Clients, UpdateRefused(k)
      PROVE  [Next]_vars
  <2>1. /\ got[k].resource \in Links
        /\ got[k].data \in LinkConfigs
        /\ LinkRefused(got[k].resource, got[k].data)
    BY <1>0, <1>5 DEF UpdateRefused, UpdateFails, SetInv, SetTypeOK, ConfigsOf
  <2> QED
    BY <2>1 DEF Next
<1>6. ASSUME NEW k \in Clients, EventPanics(k)
      PROVE  [Next]_vars
  <2> DEFINE r == got[k].resource
             d == got[k].data
  <2>1. /\ r \in Resources
        /\ d \in ConfigsOf(r)
        /\ HandlePanics(r, d)
        /\ Die
    BY <1>6 DEF EventPanics, HandlePanics, SetInv, SetTypeOK
  <2>2. CASE r = Topology
    BY <1>0, <2>1, <2>2 DEF HandlePanics, ConfigsOf, Next, Panic
  <2>3. CASE r \in Nodes
    BY <1>0, <2>1, <2>3 DEF HandlePanics, ConfigsOf, Next, Panic
  <2>4. CASE r \in Links
    BY <1>0, <2>1, <2>4 DEF HandlePanics, ConfigsOf, Next, Panic
  <2> QED
    BY <2>1, <2>2, <2>3, <2>4 DEF Resources, Children
<1>7. CASE ProcessRestart
  BY <1>7 DEF ProcessRestart, Next
<1>8. CASE UNCHANGED setVars
  BY <1>1, <1>8 DEF setVars
<1> QED
  BY <1>2, <1>3, <1>4, <1>5, <1>6, <1>7, <1>8 DEF SetNext, RpcStep

\* So the data of the handlers and the state cache keep their types.
LEMMA DataTyped == SetSpec => []TypeOK
<1>1. SetInit => TypeOK
  BY DEF SetInit, Init, TypeOK, Resources
<1>2. SetInv /\ TypeOK /\ [SetNext]_setVars => TypeOK'
  BY StepImplements, TypeStep
<1> QED
  BY <1>1, <1>2, SetInvariant, PTL DEF SetSpec

-----------------------------------------------------------------------------
(***************************************************************************)
(* What the property needs of the clients.  A bad element leaves the       *)
(* writes before it in the cache, a second resource is forgotten when the  *)
(* first is refused, another writer may come between the read and the      *)
(* event, and a leaf deleted on its own stays in the handler.              *)
(***************************************************************************)
SeparateWriters ==
  /\ \A k \in Clients : \A q \in Requests[k] :
       /\ ~q.bad
       /\ \A r, s \in DOMAIN q.write : r = s
       /\ \A p \in q.leaf : p[1] \in DOMAIN q.write
  /\ \A j, k \in Clients : \A p \in Requests[j], q \in Requests[k] :
       j # k => DOMAIN p.write \cap DOMAIN q.write = {}

\* The same of the requests that are on their way.
SeparateRequests ==
  /\ \A k \in Clients : pc[k] \notin {"idle", "get"} =>
       /\ ~req[k].bad
       /\ \A r, s \in DOMAIN req[k].write : r = s
       /\ \A p \in req[k].leaf : p[1] \in DOMAIN req[k].write
  /\ \A j, k \in Clients : j # k /\ {pc[j], pc[k]} \cap {"idle", "get"} = {} =>
       DOMAIN req[j].write \cap DOMAIN req[k].write = {}

(***************************************************************************)
(* The invariant.  From its write to its event a resource is among those   *)
(* its RPC has to hand over; what was read for the event is what is        *)
(* configured, or that was deleted; and an RPC that ends early leaves      *)
(* nothing configured.                                                     *)
(***************************************************************************)
RpcApplies(k) ==
  /\ pc[k] \in {"idle", "get", "sent"} => updateObjects[k] = {}
  /\ pc[k] \notin {"idle", "get"} => updateObjects[k] \subseteq DOMAIN req[k].write
  /\ pc[k] = "config" =>
       /\ DOMAIN req[k].write \subseteq todo[k].write \cup updateObjects[k]
       /\ todo[k].leaf \subseteq req[k].leaf
  /\ pc[k] \in {"event", "rollback"} => got[k].resource \in updateObjects[k]
  /\ pc[k] = "event" => configCache[got[k].resource] \in {NoData, got[k].data}
  /\ pc[k] = "reply" => \A r \in updateObjects[k] : configCache[r] = NoData

AppliedOrBusy(r) ==
  configCache[r] # NoData =>
    Holds(r, configCache[r]) \/ \E k \in Clients : r \in updateObjects[k]

AppliedInv ==
  /\ \A k \in Clients : RpcApplies(k)
  /\ \A r \in Resources : AppliedOrBusy(r)

-----------------------------------------------------------------------------
(***************************************************************************)
(* What the events do to the configuration in the handlers.                *)
(***************************************************************************)
ConfigKept(r) == \A c : Holds(r, c) <=> Holds(r, c)'

\* The status rules, the platform and the copy leave configuration alone.
LEMMA RulesKeepConfig ==
  ASSUME NEW s \in Status
  PROVE  /\ \A d \in TopologyData :
              HandleTopologyStatus(d).admin = d.admin
                /\ HandleTopologyStatus(d).kind = d.kind
                /\ HandleTopologyStatus(d).defaults = d.defaults
         /\ \A d \in NodeData :
              HandleStatus(d, s).admin = d.admin
                /\ HandleStatus(d, s).kind = d.kind
                /\ HandleStatus(d, s).platform = d.platform
         /\ \A d \in LinkData :
              HandleStatus(d, s).admin = d.admin
                /\ HandleStatus(d, s).lag = d.lag
                /\ HandleStatus(d, s).endpoints = d.endpoints
  BY DEF HandleTopologyStatus, HandleStatus, SetStatus, TopologyData, NodeData, LinkData, Nil

LEMMA ResourceKinds ==
  /\ Topology \in Resources
  /\ \A n \in Nodes : n \in Resources /\ n # Topology
  /\ \A l \in Links : l \in Resources /\ l # Topology /\ l \notin Nodes
  /\ \A r \in Resources : r = Topology \/ r \in Nodes \/ r \in Links
  BY DataAssumption DEF Resources, Children, Topology

\* What is configured of a resource, by its kind.
LEMMA HoldsByKind ==
  /\ \A c : Holds(Topology, c) <=>
       /\ topologyData # NoData
       /\ [admin |-> topologyData.admin, kind |-> topologyData.kind,
           defaults |-> topologyData.defaults] = c
  /\ \A n \in Nodes : \A c : Holds(n, c) <=>
       /\ nodeData[n] # NoData
       /\ [admin |-> nodeData[n].admin, kind |-> nodeData[n].kind,
           platform |-> nodeData[n].platform] = c
  /\ \A l \in Links : \A c : Holds(l, c) <=>
       /\ linkData[l] # NoData
       /\ [admin |-> linkData[l].admin, lag |-> linkData[l].lag,
           endpoints |-> linkData[l].endpoints] = c
  BY ResourceKinds DEF Holds, DataOf, ConfigIn

LEMMA SameDataKept ==
  /\ topologyData' = topologyData => ConfigKept(Topology)
  /\ \A n \in Nodes : nodeData'[n] = nodeData[n] => ConfigKept(n)
  /\ \A l \in Links : linkData'[l] = linkData[l] => ConfigKept(l)
  BY ResourceKinds DEF ConfigKept, Holds, DataOf, ConfigIn

\* An event of the topology: its observers change status and nothing else.
LEMMA TopologyApplied ==
  ASSUME TypeOK, NEW c \in TopologyConfigs, NEW kids \in SUBSET Children,
         TopologyUpdate(c, kids)
  PROVE  Holds(Topology, c)' /\ \A r \in Children : ConfigKept(r)
<1> DEFINE d == HandleTopologyStatus(CopyTopology(c))
<1>1. c \in TopologyConfig /\ CopyTopology(c) \in TopologyData /\ d \in TopologyData
  BY ConfigAssumption, CopyType, TopologyCopiedType
<1>2. d.admin = c.admin /\ d.kind = c.kind /\ d.defaults = c.defaults
  <2>0. "up" \in Status
    BY DEF Status
  <2>1. /\ d.admin = CopyTopology(c).admin
        /\ d.kind = CopyTopology(c).kind
        /\ d.defaults = CopyTopology(c).defaults
    BY <1>1, <2>0, RulesKeepConfig
  <2> QED
    BY <2>1 DEF CopyTopology
<1> HIDE DEF d
<1>3. d.status \in Status /\ d # NoData
  BY <1>1, DataAssumption DEF TopologyData
<1>4. /\ topologyData' = d
      /\ nodeData' = Notified(nodeData, d.status)
      /\ linkData' = Notified(linkData, d.status)
      /\ d.status # Nil => /\ \A n \in Observers \cap Nodes : nodeData[n] # NoData
                           /\ \A l \in Observers \cap Links : linkData[l] # NoData
  BY DEF TopologyUpdate, d
<1>5. Holds(Topology, c)'
  <2>1. [admin |-> d.admin, kind |-> d.kind, defaults |-> d.defaults] = c
    BY <1>1, <1>2 DEF TopologyConfig
  <2>2. Topology \notin Nodes /\ Topology \notin Links
    BY ResourceKinds
  <2> QED
    BY <1>3, <1>4, <2>1, <2>2 DEF Holds, DataOf, ConfigIn
<1>6. ASSUME NEW n \in Nodes
      PROVE  ConfigKept(n)
  <2>1. CASE d.status # Nil /\ n \in Observers
    <3>1. nodeData[n] \in NodeData
      BY <1>4, <2>1 DEF TypeOK
    <3>2. nodeData'[n] = HandleStatus(nodeData[n], d.status)
      BY <1>4, <2>1 DEF Notified, TypeOK
    <3>3. /\ nodeData'[n].admin = nodeData[n].admin
          /\ nodeData'[n].kind = nodeData[n].kind
          /\ nodeData'[n].platform = nodeData[n].platform
      BY <1>3, <3>1, <3>2, RulesKeepConfig
    <3>4. nodeData[n] # NoData /\ nodeData'[n] # NoData
      BY <1>3, <3>1, <3>2, NodeStatusType, DataAssumption
    <3> QED
      BY <3>3, <3>4, ResourceKinds DEF ConfigKept, Holds, DataOf, ConfigIn
  <2>2. CASE d.status = Nil \/ n \notin Observers
    <3>1. nodeData'[n] = nodeData[n]
      BY <1>4, <2>2 DEF Notified, TypeOK
    <3> QED
      BY <3>1, SameDataKept
  <2> QED
    BY <2>1, <2>2
<1>7. ASSUME NEW l \in Links
      PROVE  ConfigKept(l)
  <2>1. CASE d.status # Nil /\ l \in Observers
    <3>1. linkData[l] \in LinkData
      BY <1>4, <2>1 DEF TypeOK
    <3>2. linkData'[l] = HandleStatus(linkData[l], d.status)
      BY <1>4, <2>1 DEF Notified, TypeOK
    <3>3. /\ linkData'[l].admin = linkData[l].admin
          /\ linkData'[l].lag = linkData[l].lag
          /\ linkData'[l].endpoints = linkData[l].endpoints
      BY <1>3, <3>1, <3>2, RulesKeepConfig
    <3>4. linkData[l] # NoData /\ linkData'[l] # NoData
      BY <1>3, <3>1, <3>2, LinkStatusType, DataAssumption
    <3> QED
      BY <3>3, <3>4, ResourceKinds DEF ConfigKept, Holds, DataOf, ConfigIn
  <2>2. CASE d.status = Nil \/ l \notin Observers
    <3>1. linkData'[l] = linkData[l]
      BY <1>4, <2>2 DEF Notified, TypeOK
    <3> QED
      BY <3>1, SameDataKept
  <2> QED
    BY <2>1, <2>2
<1> QED
  BY <1>5, <1>6, <1>7 DEF Children

\* An event of a node.
LEMMA NodeApplied ==
  ASSUME TypeOK, NEW n \in Nodes, NEW c \in NodeConfigs, NodeUpdate(n, c)
  PROVE  Holds(n, c)' /\ \A r \in Resources \ {n} : ConfigKept(r)
<1> DEFINE e == HandleStatus(CopyNode(c), ParentStatus)
           d == SetPlatform(e, topologyData)
<1>1. c \in NodeConfig /\ CopyNode(c) \in NodeData
  BY ConfigAssumption, CopyType
<1>2. ParentStatus \in Status
  BY DEF NodeUpdate, TypeOK, TopologyData, ParentStatus
<1>3. e \in NodeData /\ e.admin = c.admin /\ e.kind = c.kind /\ e.platform = c.platform
  <2>1. \A d0 \in NodeData : /\ HandleStatus(d0, ParentStatus).admin = d0.admin
                             /\ HandleStatus(d0, ParentStatus).kind = d0.kind
                             /\ HandleStatus(d0, ParentStatus).platform = d0.platform
    BY <1>2, RulesKeepConfig
  <2>2. e \in NodeData
    BY <1>1, <1>2, NodeStatusType
  <2>3. /\ CopyNode(c).admin = c.admin /\ CopyNode(c).kind = c.kind
        /\ CopyNode(c).platform = c.platform
    BY DEF CopyNode
  <2> QED
    BY <1>1, <2>1, <2>2, <2>3
<1> HIDE DEF e
<1>4. d.admin = c.admin /\ d.kind = c.kind /\ d.platform = c.platform
  BY <1>3 DEF SetPlatform, NodeData
<1>5. /\ d \in NodeData /\ nodeData'[n] = d
      /\ \A m \in Nodes \ {n} : nodeData'[m] = nodeData[m]
      /\ topologyData' = topologyData
      /\ linkData' = linkData
  BY <1>1, NodeCopiedType DEF NodeUpdate, TypeOK, e
<1> HIDE DEF d
<1>6. Holds(n, c)'
  <2>1. [admin |-> d.admin, kind |-> d.kind, platform |-> d.platform] = c
    BY <1>1, <1>4 DEF NodeConfig
  <2>2. d # NoData /\ n # Topology /\ n \notin Links
    BY <1>5, DataAssumption, ResourceKinds
  <2> QED
    BY <1>5, <2>1, <2>2 DEF Holds, DataOf, ConfigIn
<1>7. ASSUME NEW r \in Resources \ {n}
      PROVE  ConfigKept(r)
  <2>1. CASE r = Topology
    BY <1>5, <2>1, SameDataKept
  <2>2. CASE r \in Nodes
    BY <1>5, <2>2, SameDataKept
  <2>3. CASE r \in Links
    BY <1>5, <2>3, SameDataKept
  <2> QED
    BY <2>1, <2>2, <2>3, ResourceKinds
<1> QED
  BY <1>6, <1>7

\* An event of a link: its nodes gain endpoints.
LEMMA LinkApplied ==
  ASSUME TypeOK, NEW l \in Links, NEW c \in LinkConfigs, LinkUpdate(l, c)
  PROVE  Holds(l, c)' /\ \A r \in Resources \ {l} : ConfigKept(r)
<1> DEFINE d == LinkCopied(c)
<1>1. c \in LinkConfig /\ CopyLink(c) \in LinkData
  BY ConfigAssumption, CopyType
<1>2. ParentStatus \in Status
  BY DEF LinkUpdate, TypeOK, TopologyData, ParentStatus
<1>3. d.admin = c.admin /\ d.lag = c.lag /\ d.endpoints = c.endpoints
  <2>1. /\ d.admin = CopyLink(c).admin /\ d.lag = CopyLink(c).lag
        /\ d.endpoints = CopyLink(c).endpoints
    BY <1>1, <1>2, RulesKeepConfig DEF LinkCopied, HandleLinkStatus
  <2> QED
    BY <2>1 DEF CopyLink
<1>4. d \in LinkData
  BY <1>1, LinkCopiedType DEF LinkUpdate
<1>5. /\ linkData'[l] = d
      /\ \A m \in Links \ {l} : linkData'[m] = linkData[m]
      /\ topologyData' = topologyData
  BY DEF LinkUpdate, TypeOK
<1> HIDE DEF d
<1>6. Holds(l, c)'
  <2>1. [admin |-> d.admin, lag |-> d.lag, endpoints |-> d.endpoints] = c
    BY <1>1, <1>3 DEF LinkConfig
  <2>2. d # NoData /\ l # Topology /\ l \notin Nodes
    BY <1>4, DataAssumption, ResourceKinds
  <2> QED
    BY <1>5, <2>1, <2>2 DEF Holds, DataOf, ConfigIn
<1>7. ASSUME NEW n \in Nodes
      PROVE  ConfigKept(n)
  <2>1. CASE nodeData[n] = NoData
    <3>1. nodeData'[n] = nodeData[n]
      BY <2>1, LinkUpdateAdds DEF AddsEndpoints
    <3> QED
      BY <3>1, SameDataKept
  <2>2. CASE nodeData[n] # NoData
    <3>1. OnlyAddsEndpoints(nodeData[n], nodeData'[n])
      BY <2>2, LinkUpdateAdds DEF AddsEndpoints
    <3>2. nodeData'[n] # NoData
      BY <3>1, DataAssumption DEF OnlyAddsEndpoints
    <3>3. /\ nodeData'[n].admin = nodeData[n].admin
          /\ nodeData'[n].kind = nodeData[n].kind
          /\ nodeData'[n].platform = nodeData[n].platform
      BY <3>1 DEF OnlyAddsEndpoints
    <3> QED
      BY <2>2, <3>2, <3>3, ResourceKinds DEF ConfigKept, Holds, DataOf, ConfigIn
  <2> QED
    BY <2>1, <2>2
<1> QED
  BY <1>5, <1>6, <1>7, SameDataKept, ResourceKinds

\* Whatever is handed over is then held, and no other resource forgets.
LEMMA HandleApplies ==
  ASSUME TypeOK, NEW r \in Resources, NEW d \in ConfigsOf(r) \cup {NoData},
         NEW kids \in SUBSET Children, HandleUpdate(r, d, kids)
  PROVE  /\ d # NoData => Holds(r, d)'
         /\ \A s \in Resources \ {r} : ConfigKept(s)
<1>1. CASE d = NoData
  BY <1>1, SameDataKept, ResourceKinds DEF HandleUpdate, UpdateWithoutData
<1>2. CASE d # NoData /\ r = Topology
  <2>1. d \in TopologyConfigs /\ TopologyUpdate(d, kids)
    BY <1>2, ResourceKinds DEF ConfigsOf, HandleUpdate
  <2> QED
    BY <1>2, <2>1, TopologyApplied DEF Resources
<1>3. CASE d # NoData /\ r \in Nodes
  <2>1. d \in NodeConfigs /\ NodeUpdate(r, d)
    BY <1>3, ResourceKinds DEF ConfigsOf, HandleUpdate
  <2> QED
    BY <1>3, <2>1, NodeApplied
<1>4. CASE d # NoData /\ r \in Links
  <2>1. d \in LinkConfigs /\ LinkUpdate(r, d)
    BY <1>4, ResourceKinds DEF ConfigsOf, HandleUpdate
  <2> QED
    BY <1>4, <2>1, LinkApplied
<1> QED
  BY <1>1, <1>2, <1>3, <1>4, ResourceKinds

-----------------------------------------------------------------------------
(***************************************************************************)
(* The steps of the server.                                                *)
(***************************************************************************)
\* What an RPC has to hand over it writes itself, and nobody else.
LEMMA OwnObjects ==
  ASSUME SeparateRequests, SetInv, NEW j \in Clients, NEW k \in Clients, j # k,
         RpcApplies(j), pc[k] \notin {"idle", "get"}, NEW r \in DOMAIN req[k].write
  PROVE  r \notin updateObjects[j]
<1>1. CASE pc[j] \in {"idle", "get"}
  BY <1>1 DEF RpcApplies
<1>2. CASE pc[j] \notin {"idle", "get"}
  BY <1>2 DEF SeparateRequests, RpcApplies
<1> QED
  BY <1>1, <1>2

\* An RPC that takes no step, while what it has to hand over stays or goes.
LEMMA OthersApply ==
  ASSUME NEW j \in Clients, RpcApplies(j), SetInv,
         pc'[j] = pc[j], req'[j] = req[j], todo'[j] = todo[j],
         updateObjects'[j] = updateObjects[j], got'[j] = got[j],
         \A r \in updateObjects[j] : configCache'[r] \in {configCache[r], NoData}
  PROVE  RpcApplies(j)'
<1>1. pc[j] = "event" =>
        configCache'[got[j].resource] \in {configCache[got[j].resource], NoData}
  BY DEF RpcApplies
<1> QED
  BY <1>1 DEF RpcApplies

\* Nothing new is configured and no handler forgets.
LEMMA NothingNew ==
  ASSUME AppliedInv, UNCHANGED <<topologyData, nodeData, linkData>>,
         \A r \in Resources : configCache'[r] \in {configCache[r], NoData},
         \A k \in Clients : \A r \in updateObjects[k] :
           r \in updateObjects'[k] \/ configCache'[r] = NoData
  PROVE  \A r \in Resources : AppliedOrBusy(r)'
<1> SUFFICES ASSUME NEW r \in Resources, configCache'[r] # NoData
             PROVE  \/ Holds(r, configCache[r])'
                    \/ \E k \in Clients : r \in updateObjects'[k]
  <2>1. \A r \in Resources : configCache'[r] # NoData => configCache'[r] = configCache[r]
    OBVIOUS
  <2> QED
    BY DEF AppliedOrBusy, Holds, DataOf, ConfigIn
<1>1. Holds(r, configCache[r]) \/ \E k \in Clients : r \in updateObjects[k]
  BY DEF AppliedInv, AppliedOrBusy
<1> QED
  BY <1>1 DEF Holds, DataOf, ConfigIn

\* An RPC has at most one resource to hand over.
LEMMA OneObject ==
  ASSUME SeparateRequests, SetInv, NEW k \in Clients, RpcApplies(k), pc[k] \notin {"idle", "get"}
  PROVE  \A r \in DOMAIN req[k].write : \A s \in updateObjects[k] : r = s
  BY DEF SeparateRequests, RpcApplies

\* The steps before the application logic is called.
LEMMA ConfigSteps ==
  ASSUME SeparateRequests, SetInv, AppliedInv, NEW k \in Clients,
         \/ Get(k)
         \/ \E q \in Requests[k] : Issue(k, q)
         \/ Receive(k)
         \/ \E r \in Resources : WriteConfig(k, r) \/ DeleteConfig(k, r)
         \/ \E p \in LeafPaths : DeleteLeaf(k, p)
         \/ ConfigDone(k)
  PROVE  AppliedInv'
<1>0. /\ \A j \in Clients : RpcApplies(j)
      /\ \A r \in Resources : AppliedOrBusy(r)
      /\ SetTypeOK /\ TodoInRequest
  BY DEF AppliedInv, SetInv
<1>1. ASSUME NEW q \in Requests[k], Issue(k, q)
      PROVE  AppliedInv'
  <2>1. \A j \in Clients \ {k} : RpcApplies(j)'
    BY <1>0, <1>1, OthersApply DEF Issue, SetTypeOK
  <2>2. RpcApplies(k)'
    BY <1>0, <1>1 DEF Issue, SetTypeOK, RpcApplies
  <2>3. \A r \in Resources : AppliedOrBusy(r)'
    BY <1>1, NothingNew DEF Issue, appVars, vars
  <2> QED
    BY <2>1, <2>2, <2>3 DEF AppliedInv
<1>7. CASE Get(k)
  <2>1. \A j \in Clients \ {k} : RpcApplies(j)'
    BY <1>0, <1>7, OthersApply DEF Get, SetTypeOK
  <2>2. RpcApplies(k)'
    BY <1>0, <1>7 DEF Get, SetTypeOK, RpcApplies
  <2>3. \A r \in Resources : AppliedOrBusy(r)'
    BY <1>7, NothingNew DEF Get, appVars, vars
  <2> QED
    BY <2>1, <2>2, <2>3 DEF AppliedInv
<1>2. CASE Receive(k)
  <2>1. \A j \in Clients \ {k} : RpcApplies(j)'
    BY <1>0, <1>2, OthersApply DEF Receive, SetTypeOK
  <2>2. updateObjects[k] = {}
    BY <1>0, <1>2 DEF Receive, RpcApplies
  <2>3. /\ todo'[k].write = DOMAIN req[k].write
        /\ todo'[k].leaf = req[k].leaf
        /\ pc'[k] \in {"reply", "config"}
        /\ req' = req /\ updateObjects' = updateObjects /\ configCache' = configCache
    BY <1>0, <1>2 DEF Receive, SetTypeOK
  <2>4. RpcApplies(k)'
    BY <2>2, <2>3 DEF RpcApplies
  <2>5. \A r \in Resources : AppliedOrBusy(r)'
    BY <1>2, NothingNew DEF Receive, appVars, vars
  <2> QED
    BY <2>1, <2>4, <2>5 DEF AppliedInv
<1>3. ASSUME NEW r \in Resources, WriteConfig(k, r)
      PROVE  AppliedInv'
  <2>1. r \in DOMAIN req[k].write /\ pc[k] = "config"
    BY <1>0, <1>3 DEF WriteConfig, TodoInRequest
  <2>2. \A s \in updateObjects[k] : r = s
    BY <1>0, <2>1, OneObject
  <2>3. updateObjects'[k] = {r} /\ updateObjects[k] \subseteq {r}
    BY <1>0, <1>3, <2>2 DEF WriteConfig, AddObject, SetTypeOK
  <2>4. \A s \in Resources \ {r} : configCache'[s] = configCache[s]
    BY <1>0, <1>3 DEF WriteConfig, SetTypeOK
  <2>5. ASSUME NEW j \in Clients \ {k}
        PROVE  RpcApplies(j)'
    <3>1. r \notin updateObjects[j] /\ updateObjects[j] \subseteq Resources
      BY <1>0, <2>1, OwnObjects DEF SetTypeOK
    <3>2. \A s \in updateObjects[j] : configCache'[s] \in {configCache[s], NoData}
      BY <2>4, <3>1
    <3>3. /\ pc'[j] = pc[j] /\ req'[j] = req[j] /\ got'[j] = got[j]
          /\ todo'[j] = todo[j] /\ updateObjects'[j] = updateObjects[j]
      BY <1>0, <1>3 DEF WriteConfig, SetTypeOK
    <3> QED
      BY <1>0, <3>2, <3>3, OthersApply
  <2>6. RpcApplies(k)'
    <3>1. /\ pc'[k] = "config" /\ req'[k] = req[k]
          /\ todo'[k].write = todo[k].write \ {r} /\ todo'[k].leaf = todo[k].leaf
      BY <1>0, <1>3, <2>1 DEF WriteConfig, SetTypeOK
    <3>2. /\ DOMAIN req[k].write \subseteq todo[k].write \cup updateObjects[k]
          /\ todo[k].leaf \subseteq req[k].leaf
      BY <1>0, <2>1 DEF RpcApplies
    <3> QED
      BY <2>1, <2>3, <3>1, <3>2 DEF RpcApplies
  <2>7. ASSUME NEW s \in Resources
        PROVE  AppliedOrBusy(s)'
    <3>1. CASE s = r
      BY <2>3, <3>1 DEF AppliedOrBusy
    <3>2. CASE s # r
      <4>1. \A j \in Clients : s \in updateObjects[j] => s \in updateObjects'[j]
        BY <1>0, <1>3, <2>3, <3>2 DEF WriteConfig, SetTypeOK
      <4>2. configCache'[s] = configCache[s] /\ UNCHANGED <<topologyData, nodeData, linkData>>
        BY <1>3, <2>4, <3>2 DEF WriteConfig, appVars, vars
      <4> QED
        BY <1>0, <4>1, <4>2 DEF AppliedOrBusy, Holds, DataOf, ConfigIn
    <3> QED
      BY <3>1, <3>2
  <2> QED
    BY <2>5, <2>6, <2>7 DEF AppliedInv
<1>4. ASSUME NEW r \in Resources, DeleteConfig(k, r)
      PROVE  AppliedInv'
  <2>1. \A s \in Resources : configCache'[s] \in {configCache[s], NoData}
    BY <1>4 DEF DeleteConfig, Without
  <2>2. \A j \in Clients \ {k} : RpcApplies(j)'
    BY <1>0, <1>4, <2>1, OthersApply DEF DeleteConfig, SetTypeOK
  <2>3. /\ pc'[k] = "config" /\ req'[k] = req[k] /\ updateObjects'[k] = updateObjects[k]
        /\ todo'[k].write = todo[k].write /\ todo'[k].leaf = todo[k].leaf
    BY <1>0, <1>4 DEF DeleteConfig, SetTypeOK
  <2>4. RpcApplies(k)'
    BY <1>0, <1>4, <2>3 DEF DeleteConfig, RpcApplies
  <2>5. \A s \in Resources : AppliedOrBusy(s)'
    BY <1>4, <2>1, NothingNew DEF DeleteConfig, appVars, vars
  <2> QED
    BY <2>2, <2>4, <2>5 DEF AppliedInv
<1>5. ASSUME NEW p \in LeafPaths, DeleteLeaf(k, p)
      PROVE  AppliedInv'
  <2>1. /\ pc[k] = "config" /\ todo[k].write = {} /\ p \in todo[k].leaf
        /\ p[1] \in Resources
    BY <1>5, LeafPathParts DEF DeleteLeaf
  <2>2. p \in req[k].leaf
    BY <1>0, <2>1 DEF RpcApplies
  <2>3. p[1] \in DOMAIN req[k].write /\ p[1] \in updateObjects[k]
    <3>1. p[1] \in DOMAIN req[k].write
      BY <2>1, <2>2 DEF SeparateRequests
    <3> QED
      BY <1>0, <2>1, <3>1 DEF RpcApplies
  <2>4. \A s \in Resources \ {p[1]} : configCache'[s] = configCache[s]
    BY <1>0, <1>5 DEF DeleteLeaf, SetTypeOK
  <2>5. /\ pc' = pc /\ req' = req /\ got' = got /\ updateObjects' = updateObjects
        /\ UNCHANGED <<topologyData, nodeData, linkData>>
    BY <1>5 DEF DeleteLeaf, appVars, vars
  <2>6. /\ todo'[k].write = todo[k].write
        /\ todo'[k].leaf \subseteq todo[k].leaf
        /\ \A j \in Clients \ {k} : todo'[j] = todo[j]
    BY <1>0, <1>5 DEF DeleteLeaf, SetTypeOK
  <2>7. ASSUME NEW j \in Clients \ {k}
        PROVE  RpcApplies(j)'
    <3>1. p[1] \notin updateObjects[j] /\ updateObjects[j] \subseteq Resources
      BY <1>0, <2>1, <2>3, OwnObjects DEF SetTypeOK
    <3>2. \A s \in updateObjects[j] : configCache'[s] \in {configCache[s], NoData}
      BY <2>4, <3>1
    <3> QED
      BY <1>0, <2>5, <2>6, <3>2, OthersApply
  <2>8. RpcApplies(k)'
    BY <1>0, <2>1, <2>5, <2>6 DEF RpcApplies
  <2>9. ASSUME NEW s \in Resources
        PROVE  AppliedOrBusy(s)'
    <3>1. CASE s = p[1]
      BY <2>3, <2>5, <3>1 DEF AppliedOrBusy
    <3>2. CASE s # p[1]
      BY <1>0, <2>4, <2>5, <3>2 DEF AppliedOrBusy, Holds, DataOf, ConfigIn
    <3> QED
      BY <3>1, <3>2
  <2> QED
    BY <2>7, <2>8, <2>9 DEF AppliedInv
<1>6. CASE ConfigDone(k)
  <2>1. \A j \in Clients \ {k} : RpcApplies(j)'
    BY <1>0, <1>6, OthersApply DEF ConfigDone, SetTypeOK
  <2>2. RpcApplies(k)'
    BY <1>0, <1>6 DEF ConfigDone, SetTypeOK, RpcApplies
  <2>3. \A r \in Resources : AppliedOrBusy(r)'
    BY <1>6, NothingNew DEF ConfigDone, appVars, vars
  <2> QED
    BY <2>1, <2>2, <2>3 DEF AppliedInv
<1> QED
  BY <1>1, <1>2, <1>3, <1>4, <1>5, <1>6, <1>7

\* The events, and the steps between them.
LEMMA EventSteps ==
  ASSUME SeparateRequests, SetInv, TypeOK, AppliedInv, NEW k \in Clients,
         \/ \E r \in Resources : DeleteEvent(k, r) \/ ReadConfig(k, r)
         \/ DeletesDone(k) \/ UpdateEvent(k) \/ UpdateRefused(k)
  PROVE  AppliedInv'
<1>0. /\ \A j \in Clients : RpcApplies(j)
      /\ \A r \in Resources : AppliedOrBusy(r)
      /\ SetTypeOK
  BY DEF AppliedInv, SetInv
<1>1. ASSUME NEW r \in Resources, DeleteEvent(k, r)
      PROVE  AppliedInv'
  <2>1. UNCHANGED <<topologyData, nodeData, linkData>>
    BY <1>1 DEF DeleteEvent, DeleteReturns, HandleDelete, TopologyDelete, ChildDelete
  <2>2. UNCHANGED <<configCache, pc, req, todo, updateObjects, got>>
    BY <1>1 DEF DeleteEvent, DeleteReturns
  <2>3. \A j \in Clients : RpcApplies(j)'
    BY <1>0, <2>2 DEF RpcApplies
  <2>4. \A s \in Resources : AppliedOrBusy(s)'
    BY <2>1, <2>2, NothingNew
  <2> QED
    BY <2>3, <2>4 DEF AppliedInv
<1>2. ASSUME NEW r \in Resources, ReadConfig(k, r)
      PROVE  AppliedInv'
  <2>1. \A j \in Clients \ {k} : RpcApplies(j)'
    BY <1>0, <1>2, OthersApply DEF ReadConfig, SetTypeOK
  <2>2. configCache[r] \in {NoData, Json(r)}
    BY DEF Json
  <2>3. /\ pc'[k] = "event" /\ got'[k].resource = r /\ got'[k].data = Json(r)
        /\ r \in updateObjects[k] /\ pc[k] = "updates"
        /\ UNCHANGED <<configCache, req, todo, updateObjects>>
    BY <1>0, <1>2 DEF ReadConfig, SetTypeOK
  <2>4. RpcApplies(k)'
    BY <1>0, <2>2, <2>3 DEF RpcApplies
  <2>5. \A s \in Resources : AppliedOrBusy(s)'
    BY <1>2, NothingNew DEF ReadConfig, appVars, vars
  <2> QED
    BY <2>1, <2>4, <2>5 DEF AppliedInv
<1>3. CASE DeletesDone(k)
  <2>1. \A j \in Clients \ {k} : RpcApplies(j)'
    BY <1>0, <1>3, OthersApply DEF DeletesDone, SetTypeOK
  <2>2. RpcApplies(k)'
    BY <1>0, <1>3 DEF DeletesDone, SetTypeOK, RpcApplies
  <2>3. \A r \in Resources : AppliedOrBusy(r)'
    BY <1>3, NothingNew DEF DeletesDone, appVars, vars
  <2> QED
    BY <2>1, <2>2, <2>3 DEF AppliedInv
<1>4. CASE UpdateEvent(k)
  <2>r. PICK r \in Resources : \E d \in ConfigsOf(r) \cup {NoData} :
          \E kids \in SUBSET Children :
            r = got[k].resource /\ d = got[k].data /\ kids = got[k].kids
    BY <1>0, <1>4 DEF UpdateEvent, UpdateReturns, SetTypeOK
  <2>d. PICK d \in ConfigsOf(r) \cup {NoData}, kids \in SUBSET Children :
          r = got[k].resource /\ d = got[k].data /\ kids = got[k].kids
    BY <2>r
  <2>1. d \in ConfigsOf(r) \cup {NoData} /\ pc[k] = "event"
    BY <1>0, <1>4, <2>d DEF UpdateEvent, UpdateReturns, SetTypeOK
  <2>2. /\ d # NoData => Holds(r, d)'
        /\ \A s \in Resources \ {r} : ConfigKept(s)
    BY <1>4, <2>d, <2>1, HandleApplies DEF UpdateEvent, UpdateReturns
  <2>3. configCache[r] \in {NoData, d}
    BY <1>0, <2>d, <2>1 DEF RpcApplies
  <2>4. /\ pc'[k] = "updates" /\ updateObjects'[k] = updateObjects[k] \ {r}
        /\ \A j \in Clients \ {k} : updateObjects'[j] = updateObjects[j]
        /\ UNCHANGED <<configCache, req, todo>>
    BY <1>0, <1>4, <2>d DEF UpdateEvent, UpdateReturns, SetTypeOK
  <2>5. \A j \in Clients \ {k} : RpcApplies(j)'
    BY <1>0, <1>4, OthersApply DEF UpdateEvent, UpdateReturns, SetTypeOK
  <2>6. RpcApplies(k)'
    BY <1>0, <2>1, <2>4 DEF RpcApplies
  <2>7. ASSUME NEW s \in Resources, configCache[s] # NoData
        PROVE  \/ Holds(s, configCache[s])'
               \/ \E j \in Clients : s \in updateObjects'[j]
    <3>1. CASE s = r
      <4>1. d # NoData /\ configCache'[r] = d
        BY <2>3, <2>4, <2>7, <3>1
      <4> QED
        BY <2>2, <3>1, <4>1 DEF Holds, DataOf, ConfigIn
    <3>2. CASE s # r /\ \E j \in Clients : s \in updateObjects[j]
      BY <2>4, <3>2
    <3>3. CASE s # r /\ Holds(s, configCache[s])
      <4>1. ConfigKept(s)
        BY <2>2, <3>3
      <4> QED
        BY <2>4, <3>3, <4>1 DEF ConfigKept, Holds, DataOf, ConfigIn
    <3> QED
      BY <1>0, <2>7, <3>1, <3>2, <3>3 DEF AppliedOrBusy
  <2>8. \A s \in Resources : AppliedOrBusy(s)'
    BY <2>4, <2>7 DEF AppliedOrBusy
  <2> QED
    BY <2>5, <2>6, <2>8 DEF AppliedInv
<1>5. CASE UpdateRefused(k)
  <2> DEFINE l == got[k].resource
  <2>1. /\ l \in Links /\ pc[k] = "event" /\ pc'[k] = "rollback"
        /\ topologyData' = topologyData /\ nodeData' = nodeData
        /\ \A m \in Links \ {l} : linkData'[m] = linkData[m]
        /\ UNCHANGED <<configCache, req, todo, updateObjects, got>>
    BY <1>0, <1>5 DEF UpdateRefused, UpdateFails, LinkRefused, SetTypeOK, TypeOK
  <2>2. \A j \in Clients \ {k} : RpcApplies(j)'
    BY <1>0, <1>5, OthersApply DEF UpdateRefused, UpdateFails, SetTypeOK
  <2>3. RpcApplies(k)'
    BY <1>0, <2>1 DEF RpcApplies
  <2>4. l \in updateObjects[k]
    BY <1>0, <2>1 DEF RpcApplies
  <2>5. ASSUME NEW s \in Resources, s # l
        PROVE  ConfigKept(s)
    <3>1. CASE s = Topology
      BY <2>1, <3>1, SameDataKept
    <3>2. CASE s \in Nodes
      BY <2>1, <3>2, SameDataKept
    <3>3. CASE s \in Links
      BY <2>1, <2>5, <3>3, SameDataKept
    <3> QED
      BY <3>1, <3>2, <3>3, ResourceKinds
  <2>6. ASSUME NEW s \in Resources
        PROVE  AppliedOrBusy(s)'
    <3>1. CASE s = l
      BY <2>1, <2>4, <3>1 DEF AppliedOrBusy
    <3>2. CASE s # l
      <4>1. ConfigKept(s)
        BY <2>5, <3>2
      <4> QED
        BY <1>0, <2>1, <4>1 DEF AppliedOrBusy, ConfigKept, Holds, DataOf, ConfigIn
    <3> QED
      BY <3>1, <3>2
  <2> QED
    BY <2>2, <2>3, <2>6 DEF AppliedInv
<1> QED
  BY <1>1, <1>2, <1>3, <1>4, <1>5

\* The ends of an RPC, and of the process.
LEMMA EndSteps ==
  ASSUME SeparateRequests, SetInv, AppliedInv, NEW k \in Clients,
         GetReturns(k) \/ Refuse(k) \/ Reply(k) \/ Rollback(k) \/ EventPanics(k)
  PROVE  AppliedInv'
<1>0. /\ \A j \in Clients : RpcApplies(j)
      /\ \A r \in Resources : AppliedOrBusy(r)
      /\ SetTypeOK
  BY DEF AppliedInv, SetInv
<1>1. CASE GetReturns(k) \/ Refuse(k) \/ Reply(k)
  <2>1. \A r \in updateObjects[k] : configCache[r] = NoData
    BY <1>0, <1>1 DEF GetReturns, Refuse, Reply, RpcApplies
  <2>2. /\ pc' = [pc EXCEPT ![k] = "idle"]
        /\ req' = [req EXCEPT ![k] = NoData]
        /\ todo' = [todo EXCEPT ![k] = NoWork]
        /\ updateObjects' = [updateObjects EXCEPT ![k] = {}]
        /\ got' = [got EXCEPT ![k] = NoData]
        /\ configCache' = configCache
        /\ UNCHANGED <<topologyData, nodeData, linkData>>
    BY <1>1 DEF GetReturns, Refuse, Reply, End, appVars, vars
  <2>3. \A j \in Clients \ {k} : RpcApplies(j)'
    BY <1>0, <2>2, OthersApply DEF SetTypeOK
  <2>4. RpcApplies(k)'
    BY <1>0, <2>2 DEF RpcApplies, SetTypeOK
  <2>5. \A j \in Clients : \A r \in updateObjects[j] :
          r \in updateObjects'[j] \/ configCache'[r] = NoData
    BY <1>0, <2>1, <2>2 DEF SetTypeOK
  <2>6. \A r \in Resources : AppliedOrBusy(r)'
    BY <2>2, <2>5, NothingNew
  <2> QED
    BY <2>3, <2>4, <2>6 DEF AppliedInv
<1>2. CASE Rollback(k)
  <2>1. /\ pc[k] = "rollback" /\ pc'[k] = "reply"
        /\ configCache' = Without({got[k].resource})
        /\ UNCHANGED <<req, todo, updateObjects, got, topologyData, nodeData, linkData>>
    BY <1>0, <1>2 DEF Rollback, SetTypeOK, appVars, vars
  <2>2. got[k].resource \in updateObjects[k] /\ got[k].resource \in DOMAIN req[k].write
    BY <1>0, <2>1 DEF RpcApplies
  <2>3. \A s \in updateObjects[k] : s = got[k].resource
    BY <1>0, <2>1, <2>2, OneObject
  <2>4. /\ \A s \in Resources : configCache'[s] \in {configCache[s], NoData}
        /\ configCache'[got[k].resource] = NoData
    BY <1>0, <2>1, <2>2 DEF Without, SetTypeOK
  <2>5. \A j \in Clients \ {k} : RpcApplies(j)'
    BY <1>0, <1>2, <2>4, OthersApply DEF Rollback, SetTypeOK
  <2>6. RpcApplies(k)'
    BY <1>0, <2>1, <2>3, <2>4 DEF RpcApplies
  <2>7. \A s \in Resources : AppliedOrBusy(s)'
    BY <2>1, <2>4, NothingNew
  <2> QED
    BY <2>5, <2>6, <2>7 DEF AppliedInv
<1>3. CASE EventPanics(k)
  <2>1. \A j \in Clients : pc'[j] = "idle" /\ updateObjects'[j] = {}
    BY <1>3 DEF EventPanics, DropRpcs
  <2>2. \A r \in Resources : configCache'[r] = NoData
    BY <1>3 DEF EventPanics, Without
  <2> QED
    BY <2>1, <2>2 DEF AppliedInv, RpcApplies, AppliedOrBusy
<1> QED
  BY <1>1, <1>2, <1>3

LEMMA AppliedStep ==
  SetInv /\ TypeOK /\ SeparateRequests /\ AppliedInv /\ [SetNext]_setVars => AppliedInv'
<1> SUFFICES ASSUME SetInv, TypeOK, SeparateRequests, AppliedInv, [SetNext]_setVars
             PROVE  AppliedInv'
  OBVIOUS
<1>1. ASSUME NEW k \in Clients, Get(k) \/ GetReturns(k) \/ \E q \in Requests[k] : Issue(k, q)
      PROVE  AppliedInv'
  BY <1>1, ConfigSteps, EndSteps
<1>2. ASSUME NEW k \in Clients, ConfigFails(k)
      PROVE  AppliedInv'
  BY <1>2 DEF ConfigFails, SeparateRequests
<1>3. ASSUME NEW k \in Clients, RpcStep(k)
      PROVE  AppliedInv'
  BY <1>2, <1>3, ConfigSteps, EventSteps, EndSteps DEF RpcStep
<1>4. CASE ProcessRestart \/ UNCHANGED setVars
  <2>1. UNCHANGED <<topologyData, nodeData, linkData, configCache, rpcVars>>
    BY <1>4 DEF ProcessRestart, Restart, setVars, appVars, vars
  <2> QED
    BY <2>1 DEF AppliedInv, RpcApplies, AppliedOrBusy, rpcVars, Holds, DataOf, ConfigIn
<1> QED
  BY <1>1, <1>3, <1>4 DEF SetNext

\* While the requests on their way are separate, whatever else clients could send.
LEMMA SettledWhileSeparate == SetSpec /\ []SeparateRequests => []SettledIsApplied
<1>1. SetInit => AppliedInv
  BY DEF SetInit, AppliedInv, RpcApplies, AppliedOrBusy
<1>2. SetSpec => []TypeOK
  BY DataTyped
<1>3. AppliedInv => SettledIsApplied
  BY DEF AppliedInv, AppliedOrBusy, SettledIsApplied, Settled
<1> QED
  BY <1>1, <1>2, <1>3, AppliedStep, SetInvariant, PTL DEF SetSpec

(***************************************************************************)
(* When every resource has one writer, and a writer one resource at a      *)
(* time, what is configured and not being worked on is what the handlers   *)
(* hold, for any number of concurrent RPCs (the loops over updateObjects   *)
(* in Set, with its failures, roll-backs and panics).                      *)
(***************************************************************************)
THEOREM SettledCorrect ==
  ASSUME SeparateWriters
  PROVE  SetSpec => []SettledIsApplied
<1>1. SetInv => SeparateRequests
  BY DEF SetInv, SetTypeOK, SeparateWriters, SeparateRequests
<1> QED
  BY <1>1, SettledWhileSeparate, SetInvariant, PTL

-----------------------------------------------------------------------------
(***************************************************************************)
(* The schema.  Its entries by their distance from the root: the parent of *)
(* each is one level up, which is what the recursive functions rest on.    *)
(***************************************************************************)
Level1 == {"topology"}
Level2 == {"topologyDefaults", "topologyKind", "topologyState", "topologyNode",
           "topologyLink"}
Level3 == {"topologyDefaultsTag", "topologyKindTag", "topologyStateTag", "topologyNodeTag",
           "topologyNodeState", "topologyLinkEndpoints", "topologyLinkTag",
           "topologyLinkState"}
Level4 == {"topologyNodeStateTag", "topologyNodeStateEndpoint", "topologyLinkEndpointsTag",
           "topologyLinkStateTag"}

\* The fields of an entry, however it was made.
LEMMA ContainerFields ==
  ASSUME NEW parent, NEW name
  PROVE  Container(parent, name) =
           [parent |-> parent, Name |-> name, Key |-> {}, ResourceBoundary |-> FALSE,
            LeafRefs |-> {}]
  BY DEF Container

LEMMA ListFields ==
  ASSUME NEW parent, NEW name, NEW key
  PROVE  List(parent, name, key) =
           [parent |-> parent, Name |-> name, Key |-> key, ResourceBoundary |-> FALSE,
            LeafRefs |-> {}]
<1> DEFINE c == Container(parent, name)
<1>1. List(parent, name, key) = [c EXCEPT !.Key = key]
  BY DEF List
<1>2. c = [parent |-> parent, Name |-> name, Key |-> {}, ResourceBoundary |-> FALSE,
           LeafRefs |-> {}]
  BY ContainerFields
<1> HIDE DEF c
<1> QED
  BY <1>1, <1>2

LEMMA ResourceFields ==
  ASSUME NEW parent, NEW name
  PROVE  Resource(parent, name) =
           [parent |-> parent, Name |-> name, Key |-> {"name"}, ResourceBoundary |-> TRUE,
            LeafRefs |-> {}]
<1> DEFINE c == List(parent, name, {"name"})
<1>1. Resource(parent, name) = [c EXCEPT !.ResourceBoundary = TRUE]
  BY DEF Resource
<1>2. c = [parent |-> parent, Name |-> name, Key |-> {"name"}, ResourceBoundary |-> FALSE,
           LeafRefs |-> {}]
  BY ListFields
<1> HIDE DEF c
<1> QED
  BY <1>1, <1>2

\* The two entries with references.
LEMMA Referring ==
  /\ initTopologyNode.parent = "topology"
  /\ initTopologyNode.Name = "node"
  /\ initTopologyNode.ResourceBoundary = TRUE
  /\ initTopologyLinkEndpoints.parent = "topologyLink"
  /\ initTopologyLinkEndpoints.Name = "endpoints"
  /\ initTopologyLinkEndpoints.ResourceBoundary = FALSE
  /\ initTopologyLinkEndpoints.LeafRefs =
       {LeafRef(<<"node-name">>, <<"topology", "node">>)}
<1> DEFINE node == Resource("topology", "node")
           ends == List("topologyLink", "endpoints", {"interface-name", "node-name"})
           kindRef == {LeafRef(<<"kind-name">>, <<"topology", "kind">>)}
           nodeRef == {LeafRef(<<"node-name">>, <<"topology", "node">>)}
<1>1. node = [parent |-> "topology", Name |-> "node", Key |-> {"name"},
              ResourceBoundary |-> TRUE, LeafRefs |-> {}]
  BY ResourceFields
<1>2. ends = [parent |-> "topologyLink", Name |-> "endpoints",
              Key |-> {"interface-name", "node-name"},
              ResourceBoundary |-> FALSE, LeafRefs |-> {}]
  BY ListFields
<1>3. initTopologyNode = [node EXCEPT !.LeafRefs = kindRef]
  BY DEF initTopologyNode
<1>4. initTopologyLinkEndpoints = [ends EXCEPT !.LeafRefs = nodeRef]
  BY DEF initTopologyLinkEndpoints
<1>5. initTopologyLinkEndpoints.LeafRefs = nodeRef
  <2> HIDE DEF nodeRef
  <2> QED
    BY <1>2, <1>4
<1> HIDE DEF node, ends, kindRef, nodeRef
<1>6. /\ initTopologyNode.parent = "topology"
      /\ initTopologyNode.Name = "node"
      /\ initTopologyNode.ResourceBoundary = TRUE
  BY <1>1, <1>3
<1>7. /\ initTopologyLinkEndpoints.parent = "topologyLink"
      /\ initTopologyLinkEndpoints.Name = "endpoints"
      /\ initTopologyLinkEndpoints.ResourceBoundary = FALSE
  BY <1>2, <1>4
<1> QED
  BY <1>5, <1>6, <1>7 DEF nodeRef

\* The parent of an entry is one level up.
LEMMA EntryLevels ==
  /\ DOMAIN Entries = {"root"} \cup Level1 \cup Level2 \cup Level3 \cup Level4
  /\ \A e \in Level1 : Entries[e].parent = "root"
  /\ \A e \in Level2 : Entries[e].parent \in Level1
  /\ \A e \in Level3 : Entries[e].parent \in Level2
  /\ \A e \in Level4 : Entries[e].parent \in Level3
<1>1. DOMAIN Entries = {"root"} \cup Level1 \cup Level2 \cup Level3 \cup Level4
  BY DEF Entries, Level1, Level2, Level3, Level4
<1>2. \A e \in Level1 : Entries[e].parent = "root"
  <2>1. initTopology.parent = "root"
    BY ListFields, ContainerFields, ResourceFields DEF initTopology
  <2> QED
    BY <2>1 DEF Entries, Level1
<1>3. \A e \in Level2 : Entries[e].parent \in Level1
  <2>1. /\ initTopologyDefaults.parent = "topology"
        /\ initTopologyKind.parent = "topology"
        /\ initTopologyState.parent = "topology"
        /\ initTopologyLink.parent = "topology"
    BY ListFields, ContainerFields, ResourceFields
       DEF initTopologyDefaults, initTopologyKind, initTopologyState, initTopologyLink
  <2> QED
    BY <2>1, Referring DEF Entries, Level1, Level2
<1>4. \A e \in Level3 : Entries[e].parent \in Level2
  <2>1. /\ initTopologyDefaultsTag.parent = "topologyDefaults"
        /\ initTopologyKindTag.parent = "topologyKind"
        /\ initTopologyStateTag.parent = "topologyState"
        /\ initTopologyNodeTag.parent = "topologyNode"
        /\ initTopologyNodeState.parent = "topologyNode"
        /\ initTopologyLinkTag.parent = "topologyLink"
        /\ initTopologyLinkState.parent = "topologyLink"
    BY ListFields, ContainerFields, ResourceFields
       DEF initTopologyDefaultsTag, initTopologyKindTag, initTopologyStateTag,
           initTopologyNodeTag, initTopologyNodeState, initTopologyLinkTag,
           initTopologyLinkState
  <2> QED
    BY <2>1, Referring DEF Entries, Level2, Level3
<1>5. \A e \in Level4 : Entries[e].parent \in Level3
  <2>1. /\ initTopologyNodeStateTag.parent = "topologyNodeState"
        /\ initTopologyNodeStateEndpoint.parent = "topologyNodeState"
        /\ initTopologyLinkEndpointsTag.parent = "topologyLinkEndpoints"
        /\ initTopologyLinkStateTag.parent = "topologyLinkState"
    BY ListFields, ContainerFields, ResourceFields
       DEF initTopologyNodeStateTag, initTopologyNodeStateEndpoint,
           initTopologyLinkEndpointsTag, initTopologyLinkStateTag
  <2> QED
    BY <2>1 DEF Entries, Level3, Level4
<1> QED
  BY <1>1, <1>2, <1>3, <1>4, <1>5

\* The root is on none of the levels.
LEMMA LevelsApart ==
  "root" \notin Level1 \cup Level2 \cup Level3 \cup Level4
  BY DEF Level1, Level2, Level3, Level4

\* Every path is its parent's with a name more.
LEMMA RootPathDef ==
  \A e \in DOMAIN Entries :
    RootPath[e] = IF e = "root" THEN <<>>
                  ELSE Append(RootPath[Entries[e].parent], Entries[e].Name)
<1> DEFINE D == DOMAIN Entries
           up(e) == Entries[e].parent
           below(path, e) == Append(path, Entries[e].Name)
           Step(f) == [e \in D |-> IF e = "root" THEN <<>> ELSE below(f[up(e)], e)]
           f1 == Step([e \in D |-> <<>>])
           f2 == Step(f1)
           f3 == Step(f2)
           f4 == Step(f3)
           f5 == Step(f4)
<1>1. RootPath = CHOOSE f : f = Step(f)
  BY DEF RootPath
<1>2. \A e \in DOMAIN Entries : up(e) = Entries[e].parent
  OBVIOUS
<1>3. \A path : \A e \in D : below(path, e) = Append(path, Entries[e].Name)
  OBVIOUS
<1> HIDE DEF D, up, below
<1>4. f5 = Step(f4) /\ Step(f5) = [e \in D |-> Step(f5)[e]]
  OBVIOUS
<1>5. /\ f1["root"] = <<>> /\ f2["root"] = <<>> /\ f3["root"] = <<>>
      /\ f4["root"] = <<>> /\ f5["root"] = <<>> /\ Step(f5)["root"] = <<>>
  BY EntryLevels DEF D
<1>6. \A e \in D : e # "root" =>
        /\ f2[e] = below(f1[up(e)], e)
        /\ f3[e] = below(f2[up(e)], e)
        /\ f4[e] = below(f3[up(e)], e)
        /\ f5[e] = below(f4[up(e)], e)
        /\ Step(f5)[e] = below(f5[up(e)], e)
  OBVIOUS
<1> DEFINE f6 == Step(f5)
<1>7. f6 = Step(f5) /\ f5 = Step(f4)
  OBVIOUS
<1> HIDE DEF Step, f1, f2, f3, f4, f5, f6
<1>8. /\ \A e \in Level1 : e \in D /\ e # "root" /\ up(e) = "root"
      /\ \A e \in Level2 : e \in D /\ e # "root" /\ up(e) \in Level1
      /\ \A e \in Level3 : e \in D /\ e # "root" /\ up(e) \in Level2
      /\ \A e \in Level4 : e \in D /\ e # "root" /\ up(e) \in Level3
      /\ \A e \in D : \/ e = "root" \/ e \in Level1 \/ e \in Level2
                      \/ e \in Level3 \/ e \in Level4
  BY EntryLevels, LevelsApart, <1>2 DEF D
<1>9. \A e \in Level1 : f3[e] = f2[e]
  BY <1>5, <1>6, <1>8
<1>10. \A e \in Level1 \cup Level2 : f4[e] = f3[e]
  BY <1>5, <1>6, <1>8, <1>9
<1>11. \A e \in Level1 \cup Level2 \cup Level3 : f5[e] = f4[e]
  BY <1>5, <1>6, <1>8, <1>10
<1>12. \A e \in D : f6[e] = f5[e]
  BY <1>5, <1>6, <1>7, <1>8, <1>11
<1>13. f5 = Step(f5)
  BY <1>7, <1>12 DEF Step
<1>14. RootPath = Step(RootPath)
  BY <1>1, <1>13
<1> QED
  BY <1>2, <1>3, <1>14 DEF Step, D

\* An entry belongs to the resource it is, or to its parent's.
LEMMA ResourceOfDef ==
  \A e \in DOMAIN Entries :
    ResourceOf[e] = IF e = "root" \/ Entries[e].ResourceBoundary THEN e
                    ELSE ResourceOf[Entries[e].parent]
<1> DEFINE D == DOMAIN Entries
           up(e) == Entries[e].parent
           own(e) == e = "root" \/ Entries[e].ResourceBoundary
           Step(f) == [e \in D |-> IF own(e) THEN e ELSE f[up(e)]]
           f1 == Step([e \in D |-> e])
           f2 == Step(f1)
           f3 == Step(f2)
           f4 == Step(f3)
           f5 == Step(f4)
           f6 == Step(f5)
<1>1. ResourceOf = CHOOSE f : f = Step(f)
  BY DEF ResourceOf
<1>2. \A e \in DOMAIN Entries : up(e) = Entries[e].parent
  OBVIOUS
<1>3. \A e \in D : own(e) <=> e = "root" \/ Entries[e].ResourceBoundary
  OBVIOUS
<1> HIDE DEF D, up, own
<1>4. \A e \in D :
        /\ own(e) => f1[e] = e /\ f2[e] = e /\ f3[e] = e /\ f4[e] = e /\ f5[e] = e
                        /\ f6[e] = e
        /\ ~own(e) => /\ f2[e] = f1[up(e)] /\ f3[e] = f2[up(e)] /\ f4[e] = f3[up(e)]
                      /\ f5[e] = f4[up(e)] /\ f6[e] = f5[up(e)]
  OBVIOUS
<1>5. f6 = Step(f5) /\ f5 = Step(f4)
  OBVIOUS
<1> HIDE DEF Step, f1, f2, f3, f4, f5, f6
<1>6. /\ "root" \in D /\ own("root")
      /\ \A e \in Level1 : e \in D /\ up(e) = "root"
      /\ \A e \in Level2 : e \in D /\ up(e) \in Level1
      /\ \A e \in Level3 : e \in D /\ up(e) \in Level2
      /\ \A e \in Level4 : e \in D /\ up(e) \in Level3
      /\ \A e \in D : \/ e = "root" \/ e \in Level1 \/ e \in Level2
                      \/ e \in Level3 \/ e \in Level4
  BY EntryLevels, <1>2, <1>3 DEF D
<1>7. \A e \in Level1 : f3[e] = f2[e]
  BY <1>4, <1>6
<1>8. \A e \in Level2 : f4[e] = f3[e]
  BY <1>4, <1>6, <1>7
<1>9. \A e \in Level3 : f5[e] = f4[e]
  BY <1>4, <1>6, <1>8
<1>10. \A e \in Level1 \cup Level2 \cup Level3 : f5[e] = f4[e]
  BY <1>4, <1>6, <1>7, <1>8, <1>9
<1>11. \A e \in D : f6[e] = f5[e]
  BY <1>4, <1>6, <1>10
<1>12. f5 = Step(f5)
  BY <1>5, <1>11 DEF Step
<1>13. ResourceOf = Step(ResourceOf)
  BY <1>1, <1>12
<1> QED
  BY <1>2, <1>3, <1>13 DEF Step, D

\* Short sequences, by their elements.
LEMMA ShortSequence ==
  ASSUME NEW S, NEW s \in Seq(S)
  PROVE  /\ Len(s) = 1 => s = <<s[1]>>
         /\ Len(s) = 2 => s = <<s[1], s[2]>>
         /\ Len(s) = 3 => s = <<s[1], s[2], s[3]>>
<1>1. CASE Len(s) = 1
  BY <1>1, SeqEqual
<1>2. CASE Len(s) = 2
  BY <1>2, SeqEqual
<1>3. CASE Len(s) = 3
  BY <1>3, SeqEqual
<1> QED
  BY <1>1, <1>2, <1>3

LEMMA ShortAppend ==
  ASSUME NEW S, NEW a \in Seq(S), NEW e \in S
  PROVE  /\ Len(a) = 1 => Append(a, e) = <<a[1], e>>
         /\ Len(a) = 2 => Append(a, e) = <<a[1], a[2], e>>
<1> DEFINE s == Append(a, e)
<1>1. /\ s \in Seq(S) /\ Len(s) = Len(a) + 1
      /\ \A i \in 1..Len(a) : s[i] = a[i]
      /\ s[Len(a) + 1] = e
  BY AppendProperties
<1> HIDE DEF s
<1>2. Len(a) = 1 => s = <<s[1], s[2]>> /\ s[1] = a[1] /\ s[2] = e
  BY <1>1, ShortSequence
<1>3. Len(a) = 2 => s = <<s[1], s[2], s[3]>> /\ s[1] = a[1] /\ s[2] = a[2] /\ s[3] = e
  BY <1>1, ShortSequence
<1> QED
  BY <1>2, <1>3 DEF s

LEMMA OneOfSequence ==
  ASSUME NEW S, NEW a \in Seq(S), NEW m \in 1..Len(a)
  PROVE  SubSeq(a, m, m) = <<a[m]>>
<1> DEFINE s == SubSeq(a, m, m)
<1>1. m \in Int /\ \A i \in m..m : a[i] \in S
  OBVIOUS
<1>2. s \in Seq(S) /\ Len(s) = 1 /\ s[1] = a[m]
  BY <1>1, SubSeqProperties
<1> HIDE DEF s
<1>3. s = <<s[1]>>
  BY <1>2, ShortSequence
<1> QED
  BY <1>2, <1>3 DEF s

LEMMA TwoConcatenated ==
  ASSUME NEW S, NEW x \in S, NEW y \in S
  PROVE  <<x>> \o <<y>> = <<x, y>>
<1> DEFINE a == <<x>>
           b == <<y>>
           s == a \o b
<1>1. /\ a \in Seq(S) /\ Len(a) = 1 /\ a[1] = x
      /\ b \in Seq(S) /\ Len(b) = 1 /\ b[1] = y
  OBVIOUS
<1> HIDE DEF a, b
<1>2. /\ s \in Seq(S) /\ Len(s) = Len(a) + Len(b)
      /\ \A i \in 1..Len(a) + Len(b) : s[i] = IF i <= Len(a) THEN a[i] ELSE b[i - Len(a)]
  BY <1>1, ConcatProperties
<1> HIDE DEF s
<1>3. Len(s) = 2 /\ s[1] = x /\ s[2] = y
  BY <1>1, <1>2
<1>4. s = <<s[1], s[2]>>
  BY <1>2, <1>3, ShortSequence
<1> QED
  BY <1>3, <1>4 DEF s, a, b

\* The names of the entries and leaves that the lemmas below are about.
SchemaNames == {"topology", "node", "link", "endpoints", "node-name"}

\* The path of an entry two or three levels down.
LEMMA DeepPath ==
  ASSUME NEW S, NEW e \in DOMAIN Entries, e # "root", Entries[e].Name \in S,
         NEW path \in Seq(S), RootPath[Entries[e].parent] = path
  PROVE  /\ Len(path) = 1 => RootPath[e] = <<path[1], Entries[e].Name>>
         /\ Len(path) = 2 => RootPath[e] = <<path[1], path[2], Entries[e].Name>>
<1>1. RootPath[e] = Append(path, Entries[e].Name)
  BY RootPathDef
<1> QED
  BY <1>1, ShortAppend

\* A node and a link have the topology for a parent.
LEMMA ParentIsTopology ==
  /\ <<"topology">> \in ParentDependency("topologyNode")
  /\ <<"topology">> \in ParentDependency("topologyLink")
  /\ RootPath["topologyLink"] = <<"topology", "link">>
<1>1. /\ "root" \in DOMAIN Entries /\ "topology" \in DOMAIN Entries
      /\ "topologyNode" \in DOMAIN Entries /\ "topologyLink" \in DOMAIN Entries
  BY DEF Entries
<1>2. /\ Entries["topology"] = initTopology
      /\ Entries["topologyNode"] = initTopologyNode
      /\ Entries["topologyLink"] = initTopologyLink
  BY DEF Entries
<1>3. /\ initTopology.parent = "root" /\ initTopology.Name = "topology"
      /\ initTopologyLink.parent = "topology" /\ initTopologyLink.Name = "link"
  BY ResourceFields DEF initTopology, initTopologyLink
<1>4. RootPath["root"] = <<>>
  BY <1>1, RootPathDef
<1>5. RootPath["topology"] = <<"topology">>
  <2>1. RootPath["topology"] = Append(<<>>, "topology")
    BY <1>1, <1>2, <1>3, <1>4, RootPathDef
  <2> QED
    BY <2>1
<1> DEFINE top == <<"topology">>
<1>6. top \in Seq(SchemaNames) /\ Len(top) = 1 /\ top[1] = "topology"
  BY DEF SchemaNames
<1> HIDE DEF top
<1>7. RootPath["topologyNode"] = <<top[1], "node">>
  <2>1. /\ Entries["topologyNode"].parent = "topology"
        /\ Entries["topologyNode"].Name = "node" /\ "node" \in SchemaNames
    BY <1>2, Referring DEF SchemaNames
  <2>2. RootPath["topology"] = top
    BY <1>5 DEF top
  <2> QED
    BY <1>1, <1>6, <2>1, <2>2, DeepPath
<1>8. RootPath["topologyLink"] = <<top[1], "link">>
  BY <1>1, <1>2, <1>3, <1>5, <1>6, DeepPath DEF top, SchemaNames
<1>9. \A name \in SchemaNames :
        LET path == <<"topology", name>>
        IN  Len(path) = 2 /\ SubSeq(path, 1, Len(path) - 1) = <<"topology">>
  <2> SUFFICES ASSUME NEW name \in SchemaNames
               PROVE  LET path == <<"topology", name>>
                      IN  Len(path) = 2 /\ SubSeq(path, 1, Len(path) - 1) = <<"topology">>
    OBVIOUS
  <2> DEFINE path == <<"topology", name>>
  <2>1. /\ path \in Seq(SchemaNames) /\ Len(path) = 2 /\ path[1] = "topology"
        /\ Len(path) - 1 = 1
    BY DEF SchemaNames
  <2> HIDE DEF path
  <2>2. SubSeq(path, 1, Len(path) - 1) = <<path[1]>>
    BY <2>1, OneOfSequence
  <2> QED
    BY <2>1, <2>2 DEF path
<1> QED
  BY <1>6, <1>7, <1>8, <1>9 DEF ParentDependency

\* The endpoints of a link refer to the nodes of the topology.
LEMMA EndpointsRefer ==
  LeafRef(<<"endpoints", "node-name">>, <<"topology", "node">>)
    \in LeafRefsLocal("topologyLink")
<1> DEFINE e == "topologyLinkEndpoints"
<1>1. e \in DOMAIN Entries /\ "topologyLink" \in DOMAIN Entries
  BY DEF Entries
<1>2. Entries[e] = initTopologyLinkEndpoints /\ Entries["topologyLink"] = initTopologyLink
  BY DEF Entries
<1>3. initTopologyLink.ResourceBoundary = TRUE
  BY ResourceFields DEF initTopologyLink
<1>4. ResourceOf["topologyLink"] = "topologyLink"
  BY <1>1, <1>2, <1>3, ResourceOfDef
<1>5. ResourceOf[e] = "topologyLink"
  BY <1>1, <1>2, <1>4, ResourceOfDef, Referring
<1> DEFINE link == <<"topology", "link">>
           path == <<"topology", "link", "endpoints">>
<1>6. /\ link \in Seq(SchemaNames) /\ Len(link) = 2
      /\ link[1] = "topology" /\ link[2] = "link"
      /\ path \in Seq(SchemaNames) /\ Len(path) = 3 /\ path[3] = "endpoints"
  BY DEF SchemaNames
<1>7. RootPath["topologyLink"] = link
  BY ParentIsTopology
<1>8. path = <<"topology", "link", "endpoints">>
  OBVIOUS
<1> HIDE DEF link, path
<1>9. RootPath[e] = path
  <2>1. RootPath[e] = <<link[1], link[2], "endpoints">>
    BY <1>1, <1>2, <1>6, <1>7, DeepPath, Referring DEF SchemaNames
  <2> QED
    BY <1>6, <1>8, <2>1
<1>10. LocalPath(e) = <<"endpoints">>
  <2>1. SubSeq(path, 3, 3) = <<path[3]>>
    BY <1>6, OneOfSequence
  <2>2. LocalPath(e) = SubSeq(path, Len(link) + 1, Len(path))
    BY <1>5, <1>7, <1>9 DEF LocalPath
  <2> QED
    BY <1>6, <2>1, <2>2
<1>11. PICK ref \in Entries[e].LeafRefs :
         ref.LocalPath = <<"node-name">> /\ ref.RemotePath = <<"topology", "node">>
  BY <1>2, Referring DEF LeafRef
<1>12. LocalPath(e) \o ref.LocalPath = <<"endpoints", "node-name">>
  <2>1. <<"endpoints">> \o <<"node-name">> = <<"endpoints", "node-name">>
    <3>1. "endpoints" \in SchemaNames /\ "node-name" \in SchemaNames
      BY DEF SchemaNames
    <3> QED
      BY <3>1, TwoConcatenated
  <2> QED
    BY <1>10, <1>11, <2>1
<1>13. LeafRef(LocalPath(e) \o ref.LocalPath, ref.RemotePath) =
         LeafRef(<<"endpoints", "node-name">>, <<"topology", "node">>)
  BY <1>11, <1>12
<1> QED
  BY <1>1, <1>5, <1>11, <1>13 DEF LeafRefsLocal

-----------------------------------------------------------------------------
(***************************************************************************)
(* Careful clients that take turns.  The invariant CarefulInv says that    *)
(* what is configured is in place - its handler holds it, the state cache  *)
(* shows it - or is still with the RPC that wrote it, and that whatever a  *)
(* request writes finds the handlers it dereferences: a child's topology   *)
(* and a link's nodes have data, as validation (set.go) found them         *)
(* configured while nobody else had anything to hand over.                 *)
(***************************************************************************)
\* A link's configuration that its handler can take.
LinkReady(c) ==
  /\ Len(c.endpoints) >= 2
  /\ \A le \in Ends(c) : Known(le) /\ nodeData[le.node] # NoData

\* What a request writes finds the handlers it needs.
RequestReady(q) ==
  /\ \A l \in Links \cap DOMAIN q.write : LinkReady(q.write[l])
  /\ \A r \in Children \cap DOMAIN q.write : topologyData # NoData

\* An RPC with nothing left to do.
Quiet(k) ==
  /\ todo[k].write = {} /\ todo[k].delete = {} /\ todo[k].leaf = {}
  /\ updateObjects[k] = {} /\ deleteObjects[k] = {}

\* Where an RPC is, and what it still has to do.
RpcPlace(k) ==
  /\ pc[k] # "rollback"
  /\ pc[k] \in {"idle", "get", "sent", "reply"} => Quiet(k)
  /\ pc[k] \notin {"idle", "get"} =>
       /\ Empty(req[k]) => pc[k] \in {"sent", "reply"}
       /\ RequestReady(req[k])
       /\ updateObjects[k] \subseteq DOMAIN req[k].write
       /\ todo[k].delete \cup deleteObjects[k] \subseteq req[k].delete
       /\ todo[k].leaf = {}

\* ... and what it has to hand over.
RpcWork(k) ==
  /\ \A r \in updateObjects[k] : configCache[r] # NoData
  /\ \A r \in deleteObjects[k] : configCache[r] = NoData
  /\ Topology \in deleteObjects[k] => \A r \in Resources : configCache[r] = NoData
  /\ pc[k] = "event" =>
       /\ got[k].resource \in updateObjects[k]
       /\ got[k].data = configCache[got[k].resource]

\* Its handler holds what is configured, is there to be notified, and is shown.
InPlace(r) ==
  /\ Holds(r, configCache[r])
  /\ r \in Children => r \in handlers
  /\ stateCache[r] # NoData

InPlaceOrBusy(r) ==
  configCache[r] # NoData => InPlace(r) \/ \E k \in Clients : r \in updateObjects[k]

\* Every child that a topology notifies has data.
ObserversConfigured == \A r \in handlers \cap Children : DataOf(r) # NoData

\* What is configured has the handlers it needs.
ConfiguredReady ==
  /\ \A l \in Links : configCache[l] # NoData => LinkReady(configCache[l])
  /\ \A r \in Children : configCache[r] # NoData => topologyData # NoData

CarefulInv ==
  /\ alive
  /\ ObserversConfigured
  /\ ConfiguredReady
  /\ \A r \in Resources : InPlaceOrBusy(r)
  /\ \A k \in Clients : RpcPlace(k) /\ RpcWork(k)

-----------------------------------------------------------------------------
\* What a step keeps that takes nothing from the handlers.
HandlersKept ==
  /\ alive'
  /\ handlers \subseteq handlers'
  /\ topologyData # NoData => topologyData' # NoData
  /\ \A n \in Nodes : nodeData[n] # NoData => nodeData'[n] # NoData

\* The nodes of a link are nodes.
LEMMA EndsAreNodes ==
  ASSUME NEW c \in LinkConfigs
  PROVE  \A le \in Ends(c) : le.node \in Nodes
<1>1. c.endpoints \in Seq(LinkEndpoint)
  BY ConfigAssumption DEF LinkConfig
<1>2. \A i \in DOMAIN c.endpoints : c.endpoints[i] \in LinkEndpoint
  BY <1>1
<1> QED
  BY <1>2 DEF Ends, LinkEndpoint

\* What a handler can take it can take later.
LEMMA ReadyKept ==
  ASSUME HandlersKept
  PROVE  /\ \A c \in LinkConfigs : LinkReady(c) => LinkReady(c)'
         /\ \A q : (\A l \in Links \cap DOMAIN q.write : q.write[l] \in LinkConfigs)
                     /\ RequestReady(q) => RequestReady(q)'
<1>1. ASSUME NEW c \in LinkConfigs, LinkReady(c)
      PROVE  LinkReady(c)'
  <2>1. \A le \in Ends(c) : le.node \in Nodes
    BY EndsAreNodes
  <2> QED
    BY <1>1, <2>1 DEF HandlersKept, LinkReady, Known, Ends
<1> QED
  BY <1>1 DEF RequestReady, HandlersKept

-----------------------------------------------------------------------------
(***************************************************************************)
(* An event shows the resource it is about in the state cache, and hides   *)
(* none.                                                                   *)
(***************************************************************************)
NothingHidden == \A s \in Resources : stateCache[s] # NoData => stateCache'[s] # NoData

\* An entry of the state cache that was merged is there.
LEMMA CachedShows ==
  ASSUME NEW cache \in [Resources -> StateLeaves \cup {NoData}],
         NEW r \in Resources, NEW s \in StateLeaves
  PROVE  /\ Cached(cache, r, s)[r] # NoData
         /\ \A t \in Resources : cache[t] # NoData => Cached(cache, r, s)[t] # NoData
<1>1. MergeState(cache[r], s) # NoData
  BY MergeType, DataAssumption
<1> QED
  BY <1>1 DEF Cached

\* The three handlers' updates show their resource.
LEMMA TopologyKeepsShown ==
  ASSUME TypeOK, NEW c \in TopologyConfigs, NEW kids \in SUBSET Children,
         TopologyUpdate(c, kids), TypeOK'
  PROVE  stateCache'[Topology] # NoData /\ NothingHidden
<1> DEFINE d == HandleTopologyStatus(CopyTopology(c))
           cache == CachedObservers(stateCache, d.status, nodeData', linkData')
           touched == [r \in Resources |->
                         IF r \in kids /\ cache[r] = NoData THEN EmptyState ELSE cache[r]]
<1>1. d \in TopologyData /\ d.status \in Status
  BY ConfigAssumption, TopologyCopiedType DEF TopologyData
<1> HIDE DEF d
<1>2. /\ nodeData' = Notified(nodeData, d.status)
      /\ linkData' = Notified(linkData, d.status)
      /\ stateCache' = CachedTopology(cache, d, kids)
      /\ d.status # Nil => /\ \A n \in Observers \cap Nodes : nodeData[n] # NoData
                           /\ \A l \in Observers \cap Links : linkData[l] # NoData
  BY DEF TopologyUpdate, d
<1>3. ASSUME NEW s \in Resources
      PROVE  /\ cache[s] \in StateLeaves \cup {NoData}
             /\ stateCache[s] # NoData => cache[s] # NoData
  <2>1. stateCache[s] \in StateLeaves \cup {NoData}
    BY DEF TypeOK
  <2>2. CASE d.status # Nil /\ s \in Observers \cap Nodes
    <3>1. nodeData[s] \in NodeData /\ nodeData'[s] = HandleStatus(nodeData[s], d.status)
      BY <1>2, <2>2 DEF Notified, TypeOK
    <3>2. NodeState(nodeData'[s]) \in StateLeaves
      BY <1>1, <3>1, NodeStatusType, StateType
    <3>3. cache[s] = MergeState(stateCache[s], NodeState(nodeData'[s]))
      BY <2>2 DEF CachedObservers
    <3> QED
      BY <2>1, <3>2, <3>3, MergeType, DataAssumption
  <2>3. CASE d.status # Nil /\ s \in Observers \ Nodes
    <3>1. s \in Observers \cap Links
      BY <2>3 DEF Observers, Children
    <3>2. linkData[s] \in LinkData /\ linkData'[s] = HandleStatus(linkData[s], d.status)
      BY <1>2, <2>3, <3>1 DEF Notified, TypeOK
    <3>3. LinkState(linkData'[s]) \in StateLeaves
      BY <1>1, <3>2, LinkStatusType, StateType
    <3>4. cache[s] = MergeState(stateCache[s], LinkState(linkData'[s]))
      BY <2>3 DEF CachedObservers
    <3> QED
      BY <2>1, <3>3, <3>4, MergeType, DataAssumption
  <2>4. CASE d.status = Nil \/ s \notin Observers
    BY <2>1, <2>4 DEF CachedObservers
  <2> QED
    BY <2>2, <2>3, <2>4
<1>4. stateCache' = Cached(touched, Topology, TopologyState(d))
  BY <1>2 DEF CachedTopology
<1> HIDE DEF cache
<1>5. /\ touched \in [Resources -> StateLeaves \cup {NoData}]
      /\ \A s \in Resources : stateCache[s] # NoData => touched[s] # NoData
  BY <1>3, StateType
<1>6. TopologyState(d) \in StateLeaves /\ Topology \in Resources
  BY <1>1, StateType, ResourceKinds
<1> HIDE DEF touched
<1> QED
  BY <1>4, <1>5, <1>6, CachedShows DEF NothingHidden

LEMMA NodeKeepsShown ==
  ASSUME TypeOK, NEW n \in Nodes, NEW c \in NodeConfigs, NodeUpdate(n, c)
  PROVE  stateCache'[n] # NoData /\ NothingHidden
<1>1. SetPlatform(HandleStatus(CopyNode(c), ParentStatus), topologyData) \in NodeData
  BY ConfigAssumption, NodeCopiedType DEF NodeUpdate
<1>2. nodeData'[n] \in NodeData
  BY <1>1 DEF NodeUpdate, TypeOK
<1>3. NodeState(nodeData'[n]) \in StateLeaves /\ n \in Resources
  BY <1>2, StateType, ResourceKinds
<1>4. stateCache' = Cached(stateCache, n, NodeState(nodeData'[n]))
  BY DEF NodeUpdate
<1> QED
  BY <1>3, <1>4, CachedShows DEF NothingHidden, TypeOK

LEMMA LinkKeepsShown ==
  ASSUME TypeOK, NEW l \in Links, NEW c \in LinkConfigs, LinkUpdate(l, c)
  PROVE  stateCache'[l] # NoData /\ NothingHidden
<1> DEFINE a == c.endpoints[1].node
           b == c.endpoints[2].node
           atA  == Cached(stateCache, a, NodeState(nodeData'[a]))
           atAB == Cached(atA, b, NodeState(nodeData'[b]))
<1>1. c \in LinkConfig /\ Len(c.endpoints) >= 2
  BY ConfigAssumption DEF LinkUpdate
<1>2. a \in Nodes /\ b \in Nodes /\ nodeData[a] # NoData /\ nodeData[b] # NoData
  <2>1. c.endpoints[1] \in Ends(c) /\ c.endpoints[2] \in Ends(c)
    BY <1>1 DEF Ends, LinkConfig
  <2> QED
    BY <2>1, EndsAreNodes DEF LinkUpdate
<1>3. nodeData'[a] \in NodeData /\ nodeData'[b] \in NodeData
  BY <1>2, LinkUpdateAdds DEF AddsEndpoints, OnlyAddsEndpoints
<1>4. linkData'[l] \in LinkData
  BY <1>1, LinkCopiedType DEF LinkUpdate, TypeOK
<1>5. /\ NodeState(nodeData'[a]) \in StateLeaves
      /\ NodeState(nodeData'[b]) \in StateLeaves
      /\ LinkState(linkData'[l]) \in StateLeaves
  BY <1>3, <1>4, StateType
<1>6. a \in Resources /\ b \in Resources /\ l \in Resources
  BY <1>2, ResourceKinds
<1>7. stateCache \in [Resources -> StateLeaves \cup {NoData}]
  BY DEF TypeOK
<1>8. /\ atA \in [Resources -> StateLeaves \cup {NoData}]
      /\ \A s \in Resources : stateCache[s] # NoData => atA[s] # NoData
  BY <1>5, <1>6, <1>7, CachedType, CachedShows
<1> HIDE DEF atA
<1>9. /\ atAB \in [Resources -> StateLeaves \cup {NoData}]
      /\ \A s \in Resources : atA[s] # NoData => atAB[s] # NoData
  BY <1>5, <1>6, <1>8, CachedType, CachedShows
<1>10. stateCache' = Cached(atAB, l, LinkState(linkData'[l]))
  BY DEF LinkUpdate, atA
<1> HIDE DEF atAB
<1> QED
  BY <1>5, <1>6, <1>8, <1>9, <1>10, CachedShows DEF NothingHidden

\* The event of a resource that is configured.
LEMMA HandleShows ==
  ASSUME TypeOK, TypeOK', NEW r \in Resources, NEW d \in ConfigsOf(r), d # NoData,
         NEW kids \in SUBSET Children, HandleUpdate(r, d, kids)
  PROVE  /\ alive' = alive
         /\ handlers' = handlers \cup {Topology, r}
         /\ stateCache'[r] # NoData
         /\ NothingHidden
<1>1. CASE r = Topology
  <2>1. d \in TopologyConfigs /\ TopologyUpdate(d, kids)
    BY <1>1, ResourceKinds DEF ConfigsOf, HandleUpdate
  <2>2. stateCache'[Topology] # NoData /\ NothingHidden
    BY <2>1, TopologyKeepsShown
  <2> QED
    BY <1>1, <2>1, <2>2 DEF TopologyUpdate, CreateChild
<1>2. CASE r \in Nodes
  <2>1. d \in NodeConfigs /\ NodeUpdate(r, d)
    BY <1>2, ResourceKinds DEF ConfigsOf, HandleUpdate
  <2> QED
    BY <1>2, <2>1, NodeKeepsShown DEF NodeUpdate, CreateChild
<1>3. CASE r \in Links
  <2>1. d \in LinkConfigs /\ LinkUpdate(r, d)
    BY <1>3, ResourceKinds DEF ConfigsOf, HandleUpdate
  <2> QED
    BY <1>3, <2>1, LinkKeepsShown DEF LinkUpdate, CreateChild
<1> QED
  BY <1>1, <1>2, <1>3, ResourceKinds

-----------------------------------------------------------------------------
\* Only one RPC changes anything; the others have nothing to do.
LEMMA OthersQuiet ==
  ASSUME TakeTurns, CarefulInv, NEW k \in ChangingRPCs, NEW j \in Clients \ {k}
  PROVE  Quiet(j)
<1>1. j \notin ChangingRPCs
  BY DEF TakeTurns, ChangingRPCs
<1> QED
  BY <1>1 DEF ChangingRPCs, CarefulInv, RpcPlace

\* The references and the parents that a validator finds.
LEMMA ValidRefers ==
  ASSUME NEW q, DOMAIN q.write \subseteq Resources, Valid(q)
  PROVE  /\ \A r \in Children \cap DOMAIN q.write : TopologyConfigured
         /\ \A l \in Links \cap DOMAIN q.write : \A i \in DOMAIN q.write[l].endpoints :
              configCache[q.write[l].endpoints[i].node] # NoData
<1>1. ASSUME NEW r \in Children \cap DOMAIN q.write
      PROVE  TopologyConfigured
  <2>1. <<"topology">> \in ParentDependency(EntryOf(r))
    <3>1. EntryOf(r) \in {"topologyNode", "topologyLink"}
      BY ResourceKinds DEF EntryOf, Children
    <3> QED
      BY <3>1, ParentIsTopology
  <2>2. Resolved(<<"topology">>, Topology)
    BY <2>1 DEF Valid
  <2> QED
    BY <2>2 DEF Resolved
<1>2. ASSUME NEW l \in Links \cap DOMAIN q.write, NEW i \in DOMAIN q.write[l].endpoints
      PROVE  configCache[q.write[l].endpoints[i].node] # NoData
  <2> DEFINE ref == LeafRef(<<"endpoints", "node-name">>, <<"topology", "node">>)
             node == q.write[l].endpoints[i].node
  <2>1. EntryOf(l) = "topologyLink"
    BY ResourceKinds DEF EntryOf
  <2>2. /\ ref \in LeafRefsLocal(EntryOf(l))
        /\ ref.LocalPath = <<"endpoints", "node-name">>
        /\ ref.RemotePath = <<"topology", "node">>
    BY <2>1, EndpointsRefer DEF LeafRef
  <2>3. node \in Values(q.write[l], ref.LocalPath)
    BY <2>2 DEF Values
  <2>4. Resolved(ref.RemotePath, node)
    BY <2>2, <2>3 DEF Valid
  <2>5. /\ <<"topology", "node">> # <<"topology">>
        /\ <<"topology", "node">> # <<"topology", "kind">>
    OBVIOUS
  <2>6. Resolved(<<"topology", "node">>, node) <=> configCache[node] # NoData
    BY <2>5 DEF Resolved
  <2> QED
    BY <2>2, <2>4, <2>6
<1> QED
  BY <1>1, <1>2
-----------------------------------------------------------------------------
(***************************************************************************)
(* What a step leaves alone.                                               *)
(***************************************************************************)
\* What an RPC has in its request are configurations.
LEMMA RequestTyped ==
  ASSUME SetInv, NEW k \in Clients, pc[k] \notin {"idle", "get"}
  PROVE  /\ req[k] \in Requests[k]
         /\ DOMAIN req[k].write \subseteq Resources
         /\ \A r \in DOMAIN req[k].write : req[k].write[r] \in ConfigsOf(r)
         /\ \A l \in Links \cap DOMAIN req[k].write : req[k].write[l] \in LinkConfigs
<1>1. req[k] \in Requests[k]
  BY DEF SetInv, SetTypeOK
<1>2. /\ DOMAIN req[k].write \subseteq Resources
      /\ \A r \in DOMAIN req[k].write : req[k].write[r] \in ConfigsOf(r)
  BY <1>1, RequestAssumption
<1> QED
  BY <1>1, <1>2, ResourceKinds DEF ConfigsOf

\* What is configured is not nothing.
LEMMA ConfigsAreData ==
  \A r \in Resources : NoData \notin ConfigsOf(r)
  BY ResourceKinds, ConfigAssumption, DataAssumption DEF ConfigsOf

\* An RPC that takes no step.
LEMMA OtherStays ==
  ASSUME SetInv, HandlersKept, NEW j \in Clients, RpcPlace(j), RpcWork(j),
         pc'[j] = pc[j], req'[j] = req[j], todo'[j] = todo[j], got'[j] = got[j],
         updateObjects'[j] = updateObjects[j], deleteObjects'[j] = deleteObjects[j],
         configCache' = configCache \/ Quiet(j)
  PROVE  (RpcPlace(j) /\ RpcWork(j))'
<1>1. RpcPlace(j)'
  <2>1. pc[j] \notin {"idle", "get"} => (RequestReady(req[j]) => RequestReady(req[j])')
    BY RequestTyped, ReadyKept
  <2>2. Quiet(j) => Quiet(j)'
    BY DEF Quiet
  <2> QED
    BY <2>1, <2>2 DEF RpcPlace, RequestReady, LinkReady, Known
<1>2. RpcWork(j)'
  BY DEF RpcWork, Quiet
<1> QED
  BY <1>1, <1>2

\* Nothing new is configured.
LEMMA ConfiguredKept ==
  ASSUME SetInv, HandlersKept, ConfiguredReady,
         \A r \in Resources : configCache'[r] \in {configCache[r], NoData}
  PROVE  ConfiguredReady'
<1>1. ASSUME NEW l \in Links, configCache'[l] # NoData
      PROVE  LinkReady(configCache[l])'
  <2>1. configCache'[l] = configCache[l] /\ l \in Resources
    BY <1>1, ResourceKinds
  <2>2. configCache[l] \in LinkConfigs
    BY <1>1, <2>1, ResourceKinds DEF SetInv, SetTypeOK, ConfigsOf
  <2>3. LinkReady(configCache[l])
    BY <1>1, <2>1 DEF ConfiguredReady
  <2> DEFINE c == configCache[l]
  <2>4. \A d \in LinkConfigs : LinkReady(d) => LinkReady(d)'
    BY ReadyKept
  <2> QED
    BY <2>1, <2>2, <2>3, <2>4 DEF LinkReady, Known
<1>2. ASSUME NEW r \in Children, configCache'[r] # NoData
      PROVE  topologyData' # NoData
  <2>1. r \in Resources
    BY DEF Resources
  <2> QED
    BY <1>2, <2>1 DEF ConfiguredReady, HandlersKept
<1> QED
  BY <1>1, <1>2 DEF ConfiguredReady

\* The handlers and the state cache stay.
LEMMA InPlaceStays ==
  ASSUME UNCHANGED appVars, \A r \in Resources : InPlaceOrBusy(r),
         \A r \in Resources : configCache'[r] \in {configCache[r], NoData},
         \A k \in Clients : \A r \in updateObjects[k] :
           r \in updateObjects'[k] \/ configCache'[r] = NoData
  PROVE  \A r \in Resources : InPlaceOrBusy(r)'
<1> SUFFICES ASSUME NEW r \in Resources, configCache'[r] # NoData
             PROVE  InPlace(r)' \/ \E k \in Clients : r \in updateObjects'[k]
  BY DEF InPlaceOrBusy
<1>1. configCache'[r] = configCache[r]
  OBVIOUS
<1>2. InPlace(r) \/ \E k \in Clients : r \in updateObjects[k]
  BY <1>1 DEF InPlaceOrBusy
<1>3. InPlace(r) => InPlace(r)'
  BY <1>1 DEF InPlace, Holds, DataOf, ConfigIn, appVars, vars
<1> QED
  BY <1>2, <1>3

\* What the handlers have when they are not called.
LEMMA SameHandlers ==
  ASSUME UNCHANGED appVars, CarefulInv
  PROVE  alive' /\ HandlersKept /\ ObserversConfigured'
  BY DEF appVars, vars, CarefulInv, HandlersKept, ObserversConfigured, DataOf

\* A step of one RPC that neither calls the application logic nor writes.
LEMMA QuietStep ==
  ASSUME SetInv, CarefulInv, TakeTurns, NEW k \in Clients, UNCHANGED appVars,
         \A r \in Resources : configCache'[r] \in {configCache[r], NoData},
         configCache' = configCache \/ k \in ChangingRPCs,
         \A j \in Clients \ {k} :
           /\ pc'[j] = pc[j] /\ req'[j] = req[j] /\ todo'[j] = todo[j] /\ got'[j] = got[j]
           /\ updateObjects'[j] = updateObjects[j] /\ deleteObjects'[j] = deleteObjects[j],
         \A r \in updateObjects[k] : r \in updateObjects'[k] \/ configCache'[r] = NoData,
         (RpcPlace(k) /\ RpcWork(k))'
  PROVE  CarefulInv'
<1>1. alive' /\ HandlersKept /\ ObserversConfigured'
  BY SameHandlers
<1>2. ConfiguredReady'
  BY <1>1, ConfiguredKept DEF CarefulInv
<1>3. \A r \in Resources : InPlaceOrBusy(r)'
  BY InPlaceStays DEF CarefulInv
<1>4. ASSUME NEW j \in Clients \ {k}
      PROVE  (RpcPlace(j) /\ RpcWork(j))'
  <2>1. configCache' = configCache \/ Quiet(j)
    BY OthersQuiet
  <2>2. RpcPlace(j) /\ RpcWork(j)
    BY DEF CarefulInv
  <2> QED
    BY <1>1, <2>1, <2>2, OtherStays
<1> QED
  BY <1>1, <1>2, <1>3, <1>4 DEF CarefulInv
-----------------------------------------------------------------------------
(***************************************************************************)
(* The steps of a Set whose clients are careful.                           *)
(***************************************************************************)
\* What validating finds configured has handlers with data.
LEMMA IssueReady ==
  ASSUME CarefulRequests, SetInv, CarefulInv, NEW k \in Clients, NEW q \in Requests[k],
         \A j \in Clients : Quiet(j), Valid(q), ~Empty(q)
  PROVE  RequestReady(q)
<1>1. /\ DOMAIN q.write \subseteq Resources
      /\ \A r \in DOMAIN q.write : q.write[r] \in ConfigsOf(r)
      /\ Careful(q)
  BY RequestAssumption DEF CarefulRequests
<1>2. \A r \in Resources : configCache[r] # NoData => InPlace(r)
  BY DEF CarefulInv, InPlaceOrBusy, Quiet
<1>3. \A n \in Nodes : configCache[n] # NoData => n \in handlers /\ nodeData[n] # NoData
  BY <1>2, HoldsByKind, ResourceKinds DEF InPlace, Children
<1>4. ASSUME NEW r \in Children \cap DOMAIN q.write
      PROVE  topologyData # NoData
  <2>1. TopologyConfigured
    BY <1>1, ValidRefers
  <2>2. CASE configCache[Topology] # NoData
    BY <1>2, <2>2, HoldsByKind, ResourceKinds DEF InPlace
  <2>3. CASE Kids # {}
    BY <2>3 DEF Kids, CarefulInv, ConfiguredReady
  <2> QED
    BY <2>1, <2>2, <2>3 DEF TopologyConfigured
<1>5. ASSUME NEW l \in Links \cap DOMAIN q.write
      PROVE  LinkReady(q.write[l])
  <2>1. q.write[l] \in LinkConfigs /\ Len(q.write[l].endpoints) >= 2
    BY <1>1, ResourceKinds DEF ConfigsOf, Careful
  <2>2. \A le \in Ends(q.write[l]) : le.node \in Nodes /\ configCache[le.node] # NoData
    BY <1>1, <2>1, ValidRefers, EndsAreNodes DEF Ends
  <2> QED
    BY <1>3, <2>1, <2>2 DEF LinkReady, Known
<1> QED
  BY <1>4, <1>5 DEF RequestReady

\* A request is sent.
LEMMA IssueStep ==
  ASSUME CarefulRequests, SetInv, CarefulInv, TakeTurns, TakeTurns',
         NEW k \in Clients, NEW q \in Requests[k], Issue(k, q)
  PROVE  CarefulInv'
<1>1. /\ pc[k] \in {"idle", "get"} /\ pc'[k] = "sent" /\ req'[k] = q
      /\ \A j \in Clients \ {k} : pc'[j] = pc[j] /\ req'[j] = req[j]
      /\ UNCHANGED <<appVars, configCache, todo, updateObjects, deleteObjects, got>>
  BY DEF Issue, SetInv, SetTypeOK
<1>2. Quiet(k)
  BY <1>1 DEF CarefulInv, RpcPlace
<1>4. RequestReady(q)
  <2>1. CASE ~Empty(q)
    <3>1. ASSUME NEW j \in Clients \ {k}
          PROVE  Quiet(j)
      <4>1. k \in ChangingRPCs' /\ (j \in ChangingRPCs <=> j \in ChangingRPCs')
        BY <1>1, <2>1 DEF ChangingRPCs, Empty
      <4>2. j \notin ChangingRPCs
        BY <4>1 DEF TakeTurns
      <4> QED
        BY <4>2 DEF ChangingRPCs, CarefulInv, RpcPlace
    <3>2. Valid(q)
      BY DEF Issue, CarefulRequests
    <3> QED
      BY <1>2, <2>1, <3>1, <3>2, IssueReady
  <2>2. CASE Empty(q)
    BY <2>2 DEF Empty, RequestReady
  <2> QED
    BY <2>1, <2>2
<1>5. RequestReady(q)'
  BY <1>1, <1>4 DEF RequestReady, LinkReady, Known, appVars, vars
<1>6. RpcPlace(k)'
  BY <1>1, <1>2, <1>5 DEF RpcPlace, Quiet, RequestReady, LinkReady, Known, appVars, vars
<1>7. RpcWork(k)'
  BY <1>1, <1>2 DEF RpcWork, Quiet
<1> QED
  BY <1>1, <1>6, <1>7, QuietStep

\* An RPC that writes or deletes is the one that does.
LEMMA Busy ==
  ASSUME CarefulRequests, SetInv, CarefulInv, NEW k \in Clients,
         pc[k] \notin {"idle", "get", "sent", "reply"}
  PROVE  k \in ChangingRPCs /\ Careful(req[k]) /\ ~Empty(req[k])
<1>1. ~Empty(req[k]) /\ req[k] \in Requests[k]
  BY RequestTyped DEF CarefulInv, RpcPlace
<1> QED
  BY <1>1 DEF CarefulRequests, ChangingRPCs

\* What the request of an RPC needs is there until it ends.
LEMMA RequestStaysReady ==
  ASSUME SetInv, CarefulInv, NEW k \in Clients, pc[k] \notin {"idle", "get"}, UNCHANGED appVars,
         req'[k] = req[k]
  PROVE  RequestReady(req[k])'
  BY DEF CarefulInv, RpcPlace, RequestReady, LinkReady, Known, appVars, vars

\* The steps that only move an RPC on, and its end.
LEMMA MoveSteps ==
  ASSUME CarefulRequests, SetInv, CarefulInv, TakeTurns, NEW k \in Clients,
         \/ Get(k) \/ GetReturns(k)
         \/ Refuse(k) \/ Receive(k) \/ ConfigDone(k) \/ DeletesDone(k) \/ Reply(k)
         \/ \E r \in Resources : ReadConfig(k, r)
  PROVE  CarefulInv'
<1>0. /\ RpcPlace(k) /\ RpcWork(k) /\ SetTypeOK
      /\ UNCHANGED appVars /\ configCache' = configCache
      /\ \A j \in Clients \ {k} :
           /\ pc'[j] = pc[j] /\ req'[j] = req[j] /\ todo'[j] = todo[j] /\ got'[j] = got[j]
           /\ updateObjects'[j] = updateObjects[j] /\ deleteObjects'[j] = deleteObjects[j]
  BY DEF SetInv, SetTypeOK, CarefulInv, Get, GetReturns, Refuse, Receive, ConfigDone,
         DeletesDone, Reply, ReadConfig, End
<1>5. CASE Get(k)
  <2>1. /\ pc[k] = "idle" /\ pc'[k] = "get" /\ Quiet(k)
        /\ UNCHANGED <<todo, updateObjects, deleteObjects>>
    BY <1>0, <1>5 DEF Get, RpcPlace, SetTypeOK
  <2>2. updateObjects[k] = {} /\ Quiet(k)'
    BY <2>1 DEF Quiet
  <2>3. (RpcPlace(k) /\ RpcWork(k))'
    BY <2>1, <2>2 DEF RpcPlace, RpcWork, Quiet
  <2> QED
    BY <1>0, <2>2, <2>3, QuietStep
<1>1. CASE GetReturns(k) \/ Refuse(k) \/ Reply(k)
  <2>1. updateObjects[k] = {}
    BY <1>0, <1>1 DEF GetReturns, Refuse, Reply, RpcPlace, Quiet
  <2>2. pc'[k] = "idle" /\ Quiet(k)'
    BY <1>0, <1>1 DEF GetReturns, Refuse, Reply, End, Quiet, SetTypeOK, NoWork
  <2>3. (RpcPlace(k) /\ RpcWork(k))'
    BY <2>2 DEF RpcPlace, RpcWork, Quiet
  <2> QED
    BY <1>0, <2>1, <2>3, QuietStep
<1>2. CASE Receive(k)
  <2>1. pc[k] = "sent" /\ Quiet(k) /\ req[k] \in Requests[k]
    BY <1>0, <1>2, RequestTyped DEF Receive, RpcPlace
  <2>2. /\ req'[k] = req[k]
        /\ updateObjects'[k] = {} /\ deleteObjects'[k] = {}
        /\ todo'[k] = [write |-> DOMAIN req[k].write, delete |-> req[k].delete,
                       leaf |-> req[k].leaf]
        /\ pc'[k] = IF Empty(req[k]) THEN "reply" ELSE "config"
    BY <1>0, <1>2, <2>1 DEF Receive, Quiet, SetTypeOK
  <2>3. RequestReady(req[k])'
    BY <1>0, <2>1, <2>2, RequestStaysReady
  <2>4. req[k].leaf = {}
    BY <2>1 DEF CarefulRequests, Careful, Empty
  <2>5. Empty(req[k]) => Quiet(k)'
    BY <2>2 DEF Empty, Quiet
  <2>6. RpcPlace(k)'
    <3>1. CASE Empty(req[k])
      BY <2>2, <2>3, <2>4, <2>5, <3>1
         DEF RpcPlace, Empty, RequestReady, LinkReady, Known, Quiet
    <3>2. CASE ~Empty(req[k])
      BY <2>2, <2>3, <2>4, <3>2 DEF RpcPlace, Empty, RequestReady, LinkReady, Known
    <3> QED
      BY <3>1, <3>2
  <2>7. RpcWork(k)'
    BY <2>2 DEF RpcWork
  <2>8. updateObjects[k] = {}
    BY <2>1 DEF Quiet
  <2> QED
    BY <1>0, <2>6, <2>7, <2>8, QuietStep
<1>3. CASE ConfigDone(k) \/ DeletesDone(k)
  <2>1. /\ pc[k] \in {"config", "deletes"} /\ pc'[k] \in {"deletes", "updates"}
        /\ UNCHANGED <<req, todo, updateObjects, deleteObjects, got>>
    BY <1>0, <1>3 DEF ConfigDone, DeletesDone, SetTypeOK
  <2>2. RequestReady(req[k])'
    BY <1>0, <2>1, RequestStaysReady
  <2>3. RpcPlace(k)'
    BY <1>0, <2>1, <2>2 DEF RpcPlace, Empty, RequestReady, LinkReady, Known
  <2>4. RpcWork(k)'
    BY <1>0, <2>1 DEF RpcWork
  <2> QED
    BY <1>0, <2>1, <2>3, <2>4, QuietStep
<1>4. ASSUME NEW r \in Resources, ReadConfig(k, r)
      PROVE  CarefulInv'
  <2>1. /\ pc[k] = "updates" /\ pc'[k] = "event" /\ r \in updateObjects[k]
        /\ got'[k].resource = r /\ got'[k].data = Json(r)
        /\ UNCHANGED <<req, todo, updateObjects, deleteObjects>>
    BY <1>0, <1>4 DEF ReadConfig, SetTypeOK
  <2>2. RequestReady(req[k])'
    BY <1>0, <2>1, RequestStaysReady
  <2>3. RpcPlace(k)'
    BY <1>0, <2>1, <2>2 DEF RpcPlace, Empty, RequestReady, LinkReady, Known
  <2>4. Json(r) = configCache[r]
    BY <1>0, <2>1 DEF RpcWork, Json
  <2>5. RpcWork(k)'
    BY <1>0, <2>1, <2>4 DEF RpcWork
  <2> QED
    BY <1>0, <2>1, <2>3, <2>5, QuietStep
<1> QED
  BY <1>1, <1>2, <1>3, <1>4, <1>5

\* A write: the resource is now the RPC's to hand over.
LEMMA WriteStep ==
  ASSUME CarefulRequests, SetInv, CarefulInv, TakeTurns, NEW k \in Clients,
         NEW r \in Resources, WriteConfig(k, r)
  PROVE  CarefulInv'
<1> DEFINE new == req[k].write[r]
           merged == MergeConfig(r, configCache[r], new)
<1>0. /\ RpcPlace(k) /\ RpcWork(k) /\ SetTypeOK /\ TodoInRequest
      /\ UNCHANGED appVars
      /\ \A j \in Clients \ {k} :
           /\ pc'[j] = pc[j] /\ req'[j] = req[j] /\ todo'[j] = todo[j] /\ got'[j] = got[j]
           /\ updateObjects'[j] = updateObjects[j] /\ deleteObjects'[j] = deleteObjects[j]
  BY DEF SetInv, SetTypeOK, CarefulInv, WriteConfig
<1>1. /\ pc[k] = "config" /\ pc'[k] = "config" /\ req'[k] = req[k] /\ got'[k] = got[k]
      /\ r \in DOMAIN req[k].write
      /\ todo'[k].delete = todo[k].delete /\ todo'[k].leaf = todo[k].leaf
      /\ deleteObjects'[k] = deleteObjects[k]
      /\ updateObjects'[k] = AddObject(updateObjects[k], r)
  BY <1>0 DEF WriteConfig, SetTypeOK, TodoInRequest
<1>2. k \in ChangingRPCs /\ Careful(req[k]) /\ ~Empty(req[k])
  BY <1>1, Busy
<1>3. updateObjects'[k] = updateObjects[k] \cup {r}
  <2>1. \A s \in updateObjects[k] : KeyOf(s) = KeyOf(r) => s = r
    BY <1>0, <1>1, <1>2 DEF Careful, RpcPlace
  <2> QED
    BY <1>1, <2>1 DEF AddObject
<1>4. new \in ConfigsOf(r) /\ merged \in ConfigsOf(r) /\ merged # NoData
  BY <1>0, <1>1, RequestTyped, ConfigsClosed, ConfigsAreData DEF SetTypeOK
<1>5. /\ configCache'[r] = merged
      /\ \A s \in Resources \ {r} : configCache'[s] = configCache[s]
  BY <1>0 DEF WriteConfig, SetTypeOK
<1>6. alive' /\ HandlersKept /\ ObserversConfigured'
  BY <1>0, SameHandlers
<1>7. r \in Links => merged.endpoints = new.endpoints
  <2>1. r \in Links => Listed(new.endpoints) = new.endpoints
    BY <1>1, <1>2 DEF Careful
  <2>2. r \in Links => r # Topology /\ r \notin Nodes
    BY ResourceKinds
  <2>3. ASSUME r \in Links, configCache[r] = NoData
        PROVE  merged.endpoints = new.endpoints
    <3>1. new \in LinkConfig
      BY <1>4, <2>2, <2>3, ConfigAssumption DEF ConfigsOf
    <3>2. merged = [new EXCEPT !.endpoints = Listed(@)]
      BY <2>3 DEF MergeConfig, Stored
    <3> QED
      BY <2>1, <2>3, <3>1, <3>2 DEF LinkConfig
  <2>4. ASSUME r \in Links, configCache[r] # NoData
        PROVE  merged.endpoints = new.endpoints
    BY <2>1, <2>2, <2>4 DEF MergeConfig
  <2> QED
    BY <2>3, <2>4
<1> HIDE DEF new, merged
<1>8. RequestReady(req[k])
  BY <1>0, <1>1 DEF RpcPlace
<1>9. ConfiguredReady'
  <2>1. ASSUME NEW l \in Links, configCache'[l] # NoData
        PROVE  LinkReady(configCache[l])'
    <3>1. CASE l = r
      <4>1. LinkReady(new)
        BY <1>1, <1>8, <3>1 DEF RequestReady, new
      <4> QED
        BY <1>0, <1>5, <1>7, <3>1, <4>1 DEF LinkReady, Ends, Known, appVars, vars
    <3>2. CASE l # r
      <4>1. configCache'[l] = configCache[l]
        BY <1>5, <3>2, ResourceKinds
      <4>2. LinkReady(configCache[l])
        BY <2>1, <4>1 DEF CarefulInv, ConfiguredReady
      <4> QED
        BY <1>0, <4>1, <4>2 DEF LinkReady, Ends, Known, appVars, vars
    <3> QED
      BY <3>1, <3>2
  <2>2. ASSUME NEW s \in Children, configCache'[s] # NoData
        PROVE  topologyData' # NoData
    <3>1. topologyData # NoData
      BY <1>1, <1>5, <1>8, <2>2 DEF RequestReady, CarefulInv, ConfiguredReady, Resources
    <3> QED
      BY <1>0, <3>1 DEF appVars, vars
  <2> QED
    BY <2>1, <2>2 DEF ConfiguredReady
<1>10. ASSUME NEW s \in Resources
       PROVE  InPlaceOrBusy(s)'
  <2>1. CASE s = r
    BY <1>3, <2>1 DEF InPlaceOrBusy
  <2>2. CASE s # r
    <3>1. configCache'[s] = configCache[s] /\ InPlaceOrBusy(s)
      BY <1>5, <2>2 DEF CarefulInv
    <3>2. InPlace(s) => InPlace(s)'
      BY <1>0, <3>1 DEF InPlace, Holds, DataOf, ConfigIn, appVars, vars
    <3>3. \A j \in Clients : s \in updateObjects[j] => s \in updateObjects'[j]
      BY <1>0, <1>3
    <3> QED
      BY <3>1, <3>2, <3>3 DEF InPlaceOrBusy
  <2> QED
    BY <2>1, <2>2
<1>11. ASSUME NEW j \in Clients \ {k}
       PROVE  (RpcPlace(j) /\ RpcWork(j))'
  <2>1. Quiet(j) /\ RpcPlace(j) /\ RpcWork(j)
    BY <1>2, OthersQuiet DEF CarefulInv
  <2> QED
    BY <1>0, <1>6, <2>1, OtherStays
<1>12. RpcPlace(k)'
  <2>1. RequestReady(req[k])'
    BY <1>0, <1>1, RequestStaysReady
  <2> QED
    BY <1>0, <1>1, <1>2, <1>3, <2>1 DEF RpcPlace, Empty, RequestReady, LinkReady, Known
<1>13. RpcWork(k)'
  <2>1. deleteObjects[k] = {}
    BY <1>0, <1>1, <1>2 DEF RpcPlace, Careful
  <2>2. updateObjects[k] \subseteq Resources
    BY <1>0 DEF SetTypeOK
  <2> QED
    BY <1>0, <1>1, <1>3, <1>4, <1>5, <2>1, <2>2 DEF RpcWork
<1> QED
  BY <1>6, <1>9, <1>10, <1>11, <1>12, <1>13 DEF CarefulInv

\* A delete, of a request that writes nothing.
LEMMA DeleteStep ==
  ASSUME CarefulRequests, SetInv, CarefulInv, TakeTurns, NEW k \in Clients,
         NEW r \in Resources, DeleteConfig(k, r)
  PROVE  CarefulInv'
<1>0. /\ RpcPlace(k) /\ RpcWork(k) /\ SetTypeOK
      /\ UNCHANGED appVars
      /\ \A j \in Clients \ {k} :
           /\ pc'[j] = pc[j] /\ req'[j] = req[j] /\ todo'[j] = todo[j] /\ got'[j] = got[j]
           /\ updateObjects'[j] = updateObjects[j] /\ deleteObjects'[j] = deleteObjects[j]
  BY DEF SetInv, SetTypeOK, CarefulInv, DeleteConfig
<1>1. /\ pc[k] = "config" /\ pc'[k] = "config" /\ req'[k] = req[k]
      /\ r \in todo[k].delete
      /\ todo'[k].delete \subseteq todo[k].delete /\ todo'[k].leaf = todo[k].leaf
      /\ deleteObjects'[k] \subseteq deleteObjects[k] \cup {r}
      /\ updateObjects'[k] = updateObjects[k]
  BY <1>0 DEF DeleteConfig, SetTypeOK, AddObject
<1>2. k \in ChangingRPCs /\ Careful(req[k]) /\ ~Empty(req[k])
  BY <1>1, Busy
<1>3. r \in req[k].delete /\ updateObjects[k] = {}
  BY <1>0, <1>1, <1>2 DEF RpcPlace, Careful
<1>4. /\ \A s \in Resources : configCache'[s] \in {configCache[s], NoData}
      /\ configCache'[r] = NoData
      /\ r = Topology => \A s \in Resources : configCache'[s] = NoData
  BY DEF DeleteConfig, Without
<1>5. RpcPlace(k)'
  <2>1. RequestReady(req[k])'
    BY <1>0, <1>1, RequestStaysReady
  <2> QED
    BY <1>0, <1>1, <1>2, <1>3, <2>1 DEF RpcPlace, Empty, RequestReady, LinkReady, Known
<1>6. RpcWork(k)'
  <2>1. deleteObjects[k] \subseteq Resources
    BY <1>0 DEF SetTypeOK
  <2> QED
    BY <1>0, <1>1, <1>3, <1>4, <2>1 DEF RpcWork
<1> QED
  BY <1>0, <1>2, <1>3, <1>4, <1>5, <1>6, QuietStep

\* A delete event hides only what is no longer configured.
LEMMA DeleteEventStep ==
  ASSUME CarefulRequests, SetInv, TypeOK, CarefulInv, TakeTurns, NEW k \in Clients,
         NEW r \in Resources, DeleteEvent(k, r)
  PROVE  CarefulInv'
<1>0. /\ RpcPlace(k) /\ RpcWork(k) /\ SetTypeOK
      /\ UNCHANGED <<configCache, pc, req, todo, updateObjects, got>>
      /\ pc[k] = "deletes" /\ r \in deleteObjects[k]
      /\ deleteObjects'[k] = deleteObjects[k] \ {r}
      /\ \A j \in Clients \ {k} : deleteObjects'[j] = deleteObjects[j]
  BY DEF SetInv, SetTypeOK, CarefulInv, DeleteEvent, DeleteReturns
<1>1. /\ configCache[r] = NoData
      /\ r = Topology => \A s \in Resources : configCache[s] = NoData
  BY <1>0 DEF RpcWork
<1>2. /\ alive' /\ UNCHANGED <<topologyData, nodeData, linkData>>
      /\ handlers \subseteq handlers' /\ handlers' \subseteq handlers \cup {Topology}
      /\ r # Topology => \A s \in Resources \ {r} : stateCache'[s] = stateCache[s]
  BY DEF DeleteEvent, DeleteReturns, HandleDelete, TopologyDelete, ChildDelete, CreateChild, CarefulInv,
         TypeOK
<1>3. HandlersKept
  BY <1>2 DEF HandlersKept
<1>4. ObserversConfigured'
  <2>1. handlers' \cap Children \subseteq handlers \cap Children
    BY <1>2, ResourceKinds DEF Children
  <2> QED
    BY <1>2, <2>1 DEF CarefulInv, ObserversConfigured, DataOf
<1>5. ConfiguredReady'
  BY <1>0, <1>3, ConfiguredKept DEF CarefulInv
<1>6. ASSUME NEW s \in Resources
      PROVE  InPlaceOrBusy(s)'
  <2>1. CASE configCache[s] = NoData
    BY <1>0, <2>1 DEF InPlaceOrBusy
  <2>2. CASE configCache[s] # NoData
    <3>1. stateCache'[s] = stateCache[s]
      BY <1>1, <1>2, <2>2
    <3>2. InPlace(s) => InPlace(s)'
      BY <1>0, <1>2, <3>1 DEF InPlace, Holds, DataOf, ConfigIn
    <3> QED
      BY <1>0, <3>2 DEF CarefulInv, InPlaceOrBusy
  <2> QED
    BY <2>1, <2>2
<1>7. ASSUME NEW j \in Clients \ {k}
      PROVE  (RpcPlace(j) /\ RpcWork(j))'
  <2>1. RpcPlace(j) /\ RpcWork(j)
    BY DEF CarefulInv
  <2> QED
    BY <1>0, <1>3, <2>1, OtherStays
<1>8. RpcPlace(k)'
  <2>1. RequestReady(req[k]) => RequestReady(req[k])'
    BY <1>0, <1>3, RequestTyped, ReadyKept
  <2> QED
    BY <1>0, <2>1 DEF RpcPlace, Empty, RequestReady, LinkReady, Known
<1>9. RpcWork(k)'
  BY <1>0 DEF RpcWork
<1> QED
  BY <1>2, <1>4, <1>5, <1>6, <1>7, <1>8, <1>9 DEF CarefulInv

\* An update event puts its resource in place, and leaves the others there.
LEMMA UpdateStep ==
  ASSUME CarefulRequests, SetInv, TypeOK, TypeOK', CarefulInv, TakeTurns, NEW k \in Clients,
         UpdateEvent(k)
  PROVE  CarefulInv'
<1>a. /\ pc[k] = "event" /\ RpcWork(k)
      /\ got[k].resource \in Resources /\ got[k].kids \in SUBSET Children
  BY DEF SetInv, SetTypeOK, CarefulInv, UpdateEvent, UpdateReturns
<1>b. PICK r \in Resources, kids \in SUBSET Children :
        r = got[k].resource /\ kids = got[k].kids
  BY <1>a
<1>c. PICK d \in ConfigsOf(r) : d = configCache[r] /\ d # NoData /\ d = got[k].data
  BY <1>a, <1>b DEF RpcWork, SetInv, SetTypeOK
<1>0. /\ RpcPlace(k) /\ RpcWork(k) /\ SetTypeOK
      /\ pc[k] = "event" /\ pc'[k] = "updates"
      /\ UNCHANGED <<configCache, req, todo, deleteObjects>>
      /\ updateObjects'[k] = updateObjects[k] \ {r}
      /\ HandleUpdate(r, d, kids)
      /\ \A j \in Clients \ {k} :
           pc'[j] = pc[j] /\ got'[j] = got[j] /\ updateObjects'[j] = updateObjects[j]
  BY <1>b, <1>c DEF SetInv, SetTypeOK, CarefulInv, UpdateEvent, UpdateReturns
<1>1. d = configCache[r] /\ d # NoData
  BY <1>c
<1>2. Holds(r, d)' /\ \A s \in Resources \ {r} : ConfigKept(s)
  BY <1>0, <1>1, HandleApplies
<1>3. /\ alive' = alive /\ handlers' = handlers \cup {Topology, r}
      /\ stateCache'[r] # NoData /\ NothingHidden
  BY <1>0, <1>1, HandleShows
<1>4. ASSUME NEW s \in Resources, s = r \/ DataOf(s) # NoData
      PROVE  (DataOf(s) # NoData)'
  <2>1. CASE s = r
    BY <1>2, <2>1 DEF Holds, DataOf
  <2>2. CASE s # r
    <3>1. Holds(s, ConfigIn(s, DataOf(s)))
      BY <1>4, <2>2 DEF Holds
    <3>2. PICK c : c = ConfigIn(s, DataOf(s))
      OBVIOUS
    <3>3. Holds(s, c)'
      BY <1>2, <2>2, <3>1, <3>2 DEF ConfigKept
    <3> QED
      BY <3>3 DEF Holds
  <2> QED
    BY <2>1, <2>2
<1>5. HandlersKept
  <2>1. topologyData # NoData => topologyData' # NoData
    BY <1>4, ResourceKinds DEF DataOf
  <2>2. \A n \in Nodes : nodeData[n] # NoData => nodeData'[n] # NoData
    BY <1>4, ResourceKinds DEF DataOf
  <2> QED
    BY <1>3, <2>1, <2>2 DEF HandlersKept, CarefulInv
<1>6. ObserversConfigured'
  <2>1. ASSUME NEW s \in handlers' \cap Children
        PROVE  (DataOf(s) # NoData)'
    <3>1. s \in Resources /\ (s = r \/ s \in handlers \cap Children)
      BY <1>3, <2>1, ResourceKinds DEF Children
    <3> QED
      BY <1>4, <3>1 DEF CarefulInv, ObserversConfigured
  <2> QED
    BY <2>1 DEF ObserversConfigured
<1>7. ConfiguredReady'
  BY <1>0, <1>5, ConfiguredKept DEF CarefulInv
<1>8. ASSUME NEW s \in Resources, configCache[s] # NoData
      PROVE  InPlace(s)' \/ \E j \in Clients : s \in updateObjects'[j]
  <2>1. CASE s = r
    <3>1. Holds(r, configCache[r])'
      BY <1>0, <1>1, <1>2 DEF Holds, DataOf, ConfigIn
    <3> QED
      BY <1>3, <2>1, <3>1 DEF InPlace
  <2>2. CASE s # r /\ InPlace(s)
    <3>1. ConfigKept(s)
      BY <1>2, <2>2
    <3>2. Holds(s, configCache[s])'
      BY <1>0, <2>2, <3>1 DEF InPlace, ConfigKept, Holds, DataOf, ConfigIn
    <3> QED
      BY <1>3, <2>2, <3>2 DEF InPlace, NothingHidden
  <2>3. CASE s # r /\ \E j \in Clients : s \in updateObjects[j]
    BY <1>0, <2>3
  <2> QED
    BY <1>8, <2>1, <2>2, <2>3 DEF CarefulInv, InPlaceOrBusy
<1>9. \A s \in Resources : InPlaceOrBusy(s)'
  BY <1>0, <1>8 DEF InPlaceOrBusy
<1>10. ASSUME NEW j \in Clients \ {k}
       PROVE  (RpcPlace(j) /\ RpcWork(j))'
  <2>1. RpcPlace(j) /\ RpcWork(j)
    BY DEF CarefulInv
  <2> QED
    BY <1>0, <1>5, <2>1, OtherStays
<1>11. RpcPlace(k)'
  <2>1. RequestReady(req[k]) => RequestReady(req[k])'
    BY <1>0, <1>5, RequestTyped, ReadyKept
  <2> QED
    BY <1>0, <2>1 DEF RpcPlace, Empty, RequestReady, LinkReady, Known
<1>12. RpcWork(k)'
  BY <1>0 DEF RpcWork
<1> QED
  BY <1>3, <1>6, <1>7, <1>9, <1>10, <1>11, <1>12 DEF CarefulInv

(***************************************************************************)
(* What careful clients never meet: a rejected element, a leaf delete, a   *)
(* refused link, a panic, and so a restart.                                *)
(***************************************************************************)
LEMMA NeverSteps ==
  ASSUME CarefulRequests, SetInv, CarefulInv, NEW k \in Clients
  PROVE  /\ ~ConfigFails(k)
         /\ \A p \in LeafPaths : ~DeleteLeaf(k, p)
         /\ ~UpdateRefused(k)
         /\ ~Rollback(k)
         /\ ~EventPanics(k)
         /\ ~ProcessRestart
<1>0. /\ RpcPlace(k) /\ RpcWork(k) /\ SetTypeOK /\ alive
      /\ ObserversConfigured /\ ConfiguredReady
  BY DEF SetInv, CarefulInv
<1>1. ~ConfigFails(k)
  BY Busy DEF ConfigFails, Careful
<1>2. \A p \in LeafPaths : ~DeleteLeaf(k, p)
  BY <1>0 DEF DeleteLeaf, RpcPlace
<1>3. ~Rollback(k) /\ ~ProcessRestart
  BY <1>0 DEF Rollback, RpcPlace, ProcessRestart, Restart
<1> DEFINE r == got[k].resource
           d == got[k].data
<1>4. pc[k] = "event" =>
        r \in Resources /\ d = configCache[r] /\ d # NoData /\ d \in ConfigsOf(r)
  BY <1>0 DEF RpcWork, SetTypeOK
<1> HIDE DEF r, d
<1>5. pc[k] = "event" /\ r \in Links => LinkReady(d) /\ topologyData # NoData
  BY <1>0, <1>4 DEF ConfiguredReady, Children
<1>6. ~UpdateRefused(k)
  BY <1>5 DEF UpdateRefused, UpdateFails, LinkRefused, NodeMissing, LinkReady, r, d
<1>7. ~EventPanics(k)
  <2> SUFFICES ASSUME pc[k] = "event", HandlePanics(r, d)
               PROVE  FALSE
    BY DEF EventPanics, r, d
  <2>1. CASE r = Topology
    <3>1. TopologyPanics(d)
      BY <2>1, ResourceKinds DEF HandlePanics
    <3> QED
      BY <1>0, <3>1, ResourceKinds DEF TopologyPanics, ObserversConfigured, Observers, DataOf
  <2>2. CASE r \in Nodes
    <3>1. NodePanics(d)
      BY <2>2, ResourceKinds DEF HandlePanics
    <3> QED
      BY <1>0, <1>4, <2>2, <3>1 DEF NodePanics, ConfiguredReady, Children
  <2>3. CASE r \in Links
    <3>1. LinkPanics(d)
      BY <2>3, ResourceKinds DEF HandlePanics
    <3> QED
      BY <1>5, <2>3, <3>1 DEF LinkPanics, LinkReady
  <2> QED
    BY <1>4, <2>1, <2>2, <2>3, ResourceKinds
<1> QED
  BY <1>1, <1>2, <1>3, <1>6, <1>7

\* Every step keeps the invariant, between states where at most one RPC changes anything.
LEMMA CarefulStep ==
  ASSUME CarefulRequests
  PROVE  SetInv /\ TypeOK /\ TypeOK' /\ TakeTurns /\ TakeTurns' /\ CarefulInv
           /\ [SetNext]_setVars => CarefulInv'
<1> SUFFICES ASSUME SetInv, TypeOK, TypeOK', TakeTurns, TakeTurns', CarefulInv,
                    [SetNext]_setVars
             PROVE  CarefulInv'
  OBVIOUS
<1>1. ASSUME NEW k \in Clients, NEW q \in Requests[k], Issue(k, q)
      PROVE  CarefulInv'
  BY <1>1, IssueStep
<1>5. ASSUME NEW k \in Clients, Get(k) \/ GetReturns(k)
      PROVE  CarefulInv'
  BY <1>5, MoveSteps
<1>2. ASSUME NEW k \in Clients, RpcStep(k)
      PROVE  CarefulInv'
  BY <1>2, NeverSteps, MoveSteps, WriteStep, DeleteStep, DeleteEventStep, UpdateStep
     DEF RpcStep
<1>3. CASE ProcessRestart
  <2>1. ~alive
    BY <1>3 DEF ProcessRestart, Restart
  <2> QED
    BY <2>1 DEF CarefulInv
<1>4. CASE UNCHANGED setVars
  <2>1. UNCHANGED <<alive, handlers, topologyData, nodeData, linkData, stateCache,
                    configCache, pc, req, todo, updateObjects, deleteObjects, got>>
    BY <1>4 DEF setVars, appVars, vars, rpcVars
  <2>2. ASSUME NEW r \in Resources
        PROVE  /\ InPlaceOrBusy(r)'
               /\ DataOf(r)' = DataOf(r)
    BY <2>1 DEF CarefulInv, InPlaceOrBusy, InPlace, Holds, DataOf, ConfigIn
  <2>3. ObserversConfigured'
    <3>1. ASSUME NEW r \in Children
          PROVE  DataOf(r)' = DataOf(r)
      BY <2>1 DEF DataOf
    <3> QED
      BY <2>1, <3>1 DEF CarefulInv, ObserversConfigured
  <2>4. ASSUME NEW c
        PROVE  LinkReady(c)' = LinkReady(c)
    BY <2>1 DEF LinkReady, Ends, Known
  <2>5. ConfiguredReady'
    BY <2>1, <2>4 DEF CarefulInv, ConfiguredReady
  <2>6. ASSUME NEW k \in Clients
        PROVE  RpcPlace(k)' /\ RpcWork(k)'
    <3>1. RpcPlace(k) /\ RpcWork(k)
      BY DEF CarefulInv
    <3>2. RequestReady(req[k])' = RequestReady(req[k])
      BY <2>1, <2>4 DEF RequestReady
    <3>3. RpcPlace(k)'
      BY <2>1, <3>1, <3>2 DEF RpcPlace, Quiet
    <3> QED
      BY <2>1, <3>1, <3>3 DEF RpcWork
  <2> QED
    BY <2>1, <2>2, <2>3, <2>5, <2>6 DEF CarefulInv
<1> QED
  BY <1>1, <1>2, <1>3, <1>4, <1>5 DEF SetNext

\* What careful clients that take turns keep true.
LEMMA CarefulInvariant ==
  ASSUME CarefulRequests
  PROVE  SetSpec /\ []TakeTurns => []CarefulInv
<1>1. SetInit => CarefulInv
  BY RequestAssumption, ResourceKinds
     DEF SetInit, Init, CarefulInv, ObserversConfigured, ConfiguredReady, InPlaceOrBusy,
     RpcPlace, RpcWork, Quiet, NoWork, Children
<1>2. SetSpec => []TypeOK
  BY DataTyped
<1>3. SetInv /\ TypeOK /\ TypeOK' /\ TakeTurns /\ TakeTurns' /\ CarefulInv
        /\ [SetNext]_setVars => CarefulInv'
  BY CarefulStep
<1> QED
  BY <1>1, <1>2, <1>3, SetInvariant, PTL DEF SetSpec

(***************************************************************************)
(* The process does not panic under careful clients that take turns,       *)
(* whatever they configure, change and delete, and however many others     *)
(* take up permits meanwhile: HandleConfigEvent never dereferences the     *)
(* data of a topology, an observer or an endpoint's node that has none     *)
(* (topology.go, node.go, link.go).                                        *)
(***************************************************************************)
THEOREM NoPanicCorrect ==
  ASSUME CarefulRequests
  PROVE  SetSpec /\ []TakeTurns => []NoPanic
<1>1. CarefulInv => NoPanic
  BY DEF CarefulInv, NoPanic
<1> QED
  BY <1>1, CarefulInvariant, PTL

(***************************************************************************)
(* What such clients have configured, and no RPC still has to hand over,   *)
(* is in the state cache, which the reconcilers and the subscribers read.  *)
(***************************************************************************)
THEOREM ShownCorrect ==
  ASSUME CarefulRequests
  PROVE  SetSpec /\ []TakeTurns => []SettledIsShown
<1>1. CarefulInv => SettledIsShown
  BY DEF CarefulInv, InPlaceOrBusy, InPlace, SettledIsShown, Settled
<1> QED
  BY <1>1, CarefulInvariant, PTL

(***************************************************************************)
(* ... and is what its handler holds.  Clients may write the resources of  *)
(* each other here, and several in one request, which SettledCorrect does  *)
(* not allow, but must wait for each other, which it does not ask.         *)
(***************************************************************************)
THEOREM CarefulApplied ==
  ASSUME CarefulRequests
  PROVE  SetSpec /\ []TakeTurns => []SettledIsApplied
<1>1. CarefulInv => SettledIsApplied
  BY DEF CarefulInv, InPlaceOrBusy, InPlace, SettledIsApplied, Settled
<1> QED
  BY <1>1, CarefulInvariant, PTL
=============================================================================
