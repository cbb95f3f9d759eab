------------------------- MODULE ServerStepsProofs -------------------------
(***************************************************************************)
(* Proofs about ServerSteps, for any nodes, links, requests and any number *)
(* of concurrent RPCs: the calls that Set makes are calls of HandlerSteps, *)
(* and when they do not meet in a resource the server is that of GnmiSet,  *)
(* where a call is one step.                                               *)
(***************************************************************************)
EXTENDS ServerSteps, HandlerAtomicProofs

(***************************************************************************)
(* What the server holds of an RPC is what Set is allowed to hand on.      *)
(***************************************************************************)
GotOK(g) ==
  \E r \in Resources : \E c \in Server!ConfigsOf(r) \cup {NoData} : \E S \in SUBSET Children :
    g = [resource |-> r, data |-> c, kids |-> S]

RpcOK(k) ==
  /\ rpc[k] \notin {"idle", "get"} => req[k] \in Requests[k]
  /\ {"write", "delete", "leaf"} \subseteq DOMAIN todo[k]
  /\ rpc[k] = "config" => todo[k].write \subseteq DOMAIN req[k].write
  /\ deleteObjects[k] \subseteq Resources
  /\ updateObjects[k] \subseteq Resources
  /\ rpc[k] \in {"event", "rollback"} => GotOK(got[k])

RpcsShape ==
  /\ DOMAIN rpc = Callers /\ DOMAIN req = Callers /\ DOMAIN todo = Callers
  /\ DOMAIN deleteObjects = Callers /\ DOMAIN updateObjects = Callers /\ DOMAIN got = Callers

CacheOK ==
  /\ DOMAIN configCache = Resources
  /\ \A r \in Resources : configCache[r] \in Server!ConfigsOf(r) \cup {NoData}

ServerInv == RpcsShape /\ CacheOK /\ \A k \in Callers : RpcOK(k)

\* The names of GnmiSet's instance.
LEMMA ServerNames ==
  Server!Topology = Topology /\ Server!Children = Children /\ Server!Resources = Resources
BY DEF Server!Topology, Topology, Server!Children, Children, Server!Resources, Resources

LEMMA ServerInitial == ServerInit => ServerInv
<1> SUFFICES ASSUME ServerInit PROVE ServerInv
  OBVIOUS
<1>1. RpcsShape /\ CacheOK
  BY DEF ServerInit, RpcsShape, CacheOK
<1>2. \A k \in Callers : RpcOK(k)
  BY DEF ServerInit, RpcOK, Server!NoWork
<1> QED
  BY <1>1, <1>2 DEF ServerInv

\* The RPCs that a step of another leaves alone.
SameRpc(j) ==
  /\ rpc'[j] = rpc[j] /\ req'[j] = req[j] /\ todo'[j] = todo[j] /\ got'[j] = got[j]
  /\ deleteObjects'[j] = deleteObjects[j] /\ updateObjects'[j] = updateObjects[j]

LEMMA SameRpcTyped ==
  ASSUME NEW j \in Callers, RpcOK(j), SameRpc(j)
  PROVE  RpcOK(j)'
BY DEF RpcOK, SameRpc, GotOK

LEMMA RpcTyped ==
  ASSUME ServerInv, NEW k \in Callers, RpcsShape', CacheOK', RpcOK(k)',
         \A j \in Callers \ {k} : SameRpc(j)
  PROVE  ServerInv'
<1>1. \A j \in Callers : RpcOK(j)'
  BY SameRpcTyped DEF ServerInv
<1> QED
  BY <1>1 DEF ServerInv

LEMMA RpcsTyped ==
  ASSUME ServerInv, UNCHANGED serverVars
  PROVE  ServerInv'
BY DEF ServerInv, serverVars, RpcsShape, CacheOK, RpcOK, GotOK

\* An RPC that ends.
LEMMA EndTyped ==
  ASSUME ServerInv, NEW k \in Callers, NEW released, Server!End(k, released), CacheOK'
  PROVE  ServerInv'
<1>1. RpcsShape' /\ RpcOK(k)' /\ \A j \in Callers \ {k} : SameRpc(j)
  BY DEF ServerInv, RpcsShape, Server!End, RpcOK, SameRpc, Server!NoWork
<1> QED
  BY <1>1, RpcTyped

\* A process that dies.
LEMMA DropTyped ==
  ASSUME Server!DropRpcs, configCache' = Server!Without(Resources)
  PROVE  ServerInv'
<1>1. RpcsShape' /\ \A k \in Callers : RpcOK(k)'
  BY DEF RpcsShape, Server!DropRpcs, RpcOK, Server!NoWork
<1>2. CacheOK'
  BY ServerNames DEF CacheOK, Server!Without
<1> QED
  BY <1>1, <1>2 DEF ServerInv

LEMMA ClientTyped ==
  ASSUME ServerInv, NEW k \in Callers, ClientStep(k)
  PROVE  ServerInv'
<1>1. ASSUME NEW q \in Requests[k], Server!Issue(k, q) PROVE ServerInv'
  <2>1. RpcsShape' /\ CacheOK' /\ RpcOK(k)' /\ \A j \in Callers \ {k} : SameRpc(j)
    BY <1>1 DEF Server!Issue, ServerInv, RpcsShape, CacheOK, RpcOK, SameRpc, GotOK
  <2> QED
    BY <2>1, RpcTyped
<1>2. CASE Server!Get(k)
  <2>1. RpcsShape' /\ CacheOK' /\ RpcOK(k)' /\ \A j \in Callers \ {k} : SameRpc(j)
    BY <1>2 DEF Server!Get, ServerInv, RpcsShape, CacheOK, RpcOK, SameRpc, GotOK
  <2> QED
    BY <2>1, RpcTyped
<1> QED
  BY <1>1, <1>2 DEF ClientStep

\* Writes and deletes keep the configurations that the constants name.
LEMMA WriteTyped ==
  ASSUME ServerInv, NEW k \in Callers, NEW r \in Resources, Server!WriteConfig(k, r)
  PROVE  ServerInv'
<1>1. /\ rpc[k] = "config" /\ r \in todo[k].write
      /\ configCache' = [configCache EXCEPT ![r] = Server!MergeConfig(r, configCache[r], req[k].write[r])]
      /\ todo' = [todo EXCEPT ![k].write = @ \ {r}]
      /\ updateObjects' = [updateObjects EXCEPT ![k] = Server!AddObject(@, r)]
      /\ UNCHANGED <<rpc, req, deleteObjects, got>>
  BY DEF Server!WriteConfig
<1>2. RpcOK(k) /\ CacheOK /\ RpcsShape
  BY DEF ServerInv
<1>3. req[k].write[r] \in Server!ConfigsOf(r)
  BY <1>1, <1>2, ServerAssumption DEF RpcOK
<1>4. Server!MergeConfig(r, configCache[r], req[k].write[r]) \in Server!ConfigsOf(r)
  <2>1. CASE configCache[r] = NoData
    <3>1. Server!MergeConfig(r, configCache[r], req[k].write[r]) = Server!Stored(r, req[k].write[r])
      BY <2>1 DEF Server!MergeConfig
    <3> QED
      BY <1>3, <3>1, ServerAssumption
  <2>2. CASE configCache[r] # NoData
    BY <1>2, <1>3, <2>2, ServerAssumption DEF CacheOK
  <2> QED
    BY <2>1, <2>2
<1>5. CacheOK'
  BY <1>1, <1>2, <1>4 DEF CacheOK
<1>6. Server!AddObject(updateObjects[k], r) \subseteq Resources
  BY <1>2 DEF Server!AddObject, RpcOK
<1>7. todo'[k] = [todo[k] EXCEPT !.write = @ \ {r}]
  BY <1>1, <1>2 DEF RpcsShape
<1>8. RpcOK(k)'
  BY <1>1, <1>2, <1>6, <1>7 DEF RpcOK, RpcsShape
<1>9. RpcsShape' /\ \A j \in Callers \ {k} : SameRpc(j)
  BY <1>1, <1>2 DEF RpcsShape, SameRpc
<1> QED
  BY <1>5, <1>8, <1>9, RpcTyped

LEMMA DeleteTyped ==
  ASSUME ServerInv, NEW k \in Callers, NEW r \in Resources, Server!DeleteConfig(k, r)
  PROVE  ServerInv'
<1>1. /\ rpc[k] = "config"
      /\ configCache' = Server!Without(IF r = Server!Topology THEN Server!Resources ELSE {r})
      /\ todo' = [todo EXCEPT ![k].delete = @ \ {r}]
      /\ deleteObjects' = [deleteObjects EXCEPT ![k] = Server!AddObject(@, r)]
      /\ UNCHANGED <<rpc, req, updateObjects, got>>
  BY DEF Server!DeleteConfig
<1>2. RpcOK(k) /\ CacheOK /\ RpcsShape
  BY DEF ServerInv
<1>3. CacheOK'
  BY <1>1, <1>2, ServerNames DEF CacheOK, Server!Without
<1>4. Server!AddObject(deleteObjects[k], r) \subseteq Resources
  BY <1>2 DEF Server!AddObject, RpcOK
<1>5. todo'[k] = [todo[k] EXCEPT !.delete = @ \ {r}]
  BY <1>1, <1>2 DEF RpcsShape
<1>6. RpcOK(k)'
  BY <1>1, <1>2, <1>4, <1>5 DEF RpcOK, RpcsShape
<1>7. RpcsShape' /\ \A j \in Callers \ {k} : SameRpc(j)
  BY <1>1, <1>2 DEF RpcsShape, SameRpc
<1> QED
  BY <1>3, <1>6, <1>7, RpcTyped

LEMMA LeafTyped ==
  ASSUME ServerInv, NEW k \in Callers, NEW p \in Server!LeafPaths, Server!DeleteLeaf(k, p)
  PROVE  ServerInv'
<1>0. PICK r, leaf : r \in Resources /\ leaf \in Server!LeavesOf(r) /\ p[1] = r /\ p[2] = leaf
  BY ServerNames DEF Server!LeafPaths
<1>1. /\ rpc[k] = "config"
      /\ configCache' = IF configCache[r] = NoData THEN configCache
                        ELSE [configCache EXCEPT ![r] = Server!WithoutLeaf(@, leaf)]
      /\ todo' = [todo EXCEPT ![k].leaf = @ \ {p}]
      /\ deleteObjects' = [deleteObjects EXCEPT ![k] = Server!AddObject(@, r)]
      /\ UNCHANGED <<rpc, req, updateObjects, got>>
  BY <1>0 DEF Server!DeleteLeaf
<1>2. RpcOK(k) /\ CacheOK /\ RpcsShape
  BY DEF ServerInv
<1>3. CacheOK'
  <2>1. CASE configCache[r] = NoData
    BY <1>1, <1>2, <2>1 DEF CacheOK
  <2>2. CASE configCache[r] # NoData
    <3>1. configCache[r] \in Server!ConfigsOf(r)
      BY <1>0, <1>2, <2>2 DEF CacheOK
    <3>2. Server!WithoutLeaf(configCache[r], leaf) \in Server!ConfigsOf(r)
      BY <1>0, <3>1, ServerAssumption
    <3> QED
      BY <1>1, <1>2, <2>2, <3>2 DEF CacheOK
  <2> QED
    BY <2>1, <2>2
<1>4. Server!AddObject(deleteObjects[k], r) \subseteq Resources
  BY <1>0, <1>2 DEF Server!AddObject, RpcOK
<1>5. todo'[k] = [todo[k] EXCEPT !.leaf = @ \ {p}]
  BY <1>1, <1>2 DEF RpcsShape
<1>6. RpcOK(k)'
  BY <1>1, <1>2, <1>4, <1>5 DEF RpcOK, RpcsShape
<1>7. RpcsShape' /\ \A j \in Callers \ {k} : SameRpc(j)
  BY <1>1, <1>2 DEF RpcsShape, SameRpc
<1> QED
  BY <1>3, <1>6, <1>7, RpcTyped

\* What is read back is typed.
LEMMA ReadTyped ==
  ASSUME ServerInv, NEW k \in Callers, NEW r \in Resources, Server!ReadConfig(k, r)
  PROVE  ServerInv'
<1>1. /\ got' = [got EXCEPT ![k] = [resource |-> r, data |-> Server!Json(r), kids |-> Server!Kids]]
      /\ rpc' = [rpc EXCEPT ![k] = "event"] /\ rpc[k] = "updates"
      /\ UNCHANGED <<configCache, req, todo, updateObjects, deleteObjects>>
  BY DEF Server!ReadConfig
<1>2. RpcOK(k) /\ CacheOK /\ RpcsShape
  BY DEF ServerInv
<1>3. Server!Json(r) \in Server!ConfigsOf(r) \cup {NoData}
  <2>1. Server!ConfigsOf(Topology) = TopologyConfigs
    BY ServerNames, ResourceFacts DEF Server!ConfigsOf
  <2> QED
    BY <1>2, <2>1, ServerNames, ServerAssumption DEF Server!Json, CacheOK
<1>4. Server!Kids \in SUBSET Children
  BY ServerNames DEF Server!Kids
<1>5. GotOK(got[k])'
  BY <1>1, <1>2, <1>3, <1>4 DEF GotOK, RpcsShape
<1>6. RpcOK(k)'
  BY <1>1, <1>2, <1>5 DEF RpcOK, RpcsShape
<1>7. CacheOK' /\ RpcsShape' /\ \A j \in Callers \ {k} : SameRpc(j)
  BY <1>1, <1>2 DEF CacheOK, RpcsShape, SameRpc
<1> QED
  BY <1>6, <1>7, RpcTyped

LEMMA SetTyped ==
  ASSUME ServerInv, NEW k \in Callers, SetStep(k)
  PROVE  ServerInv'
<1>1. CASE Server!GetReturns(k) \/ Server!Refuse(k) \/ Server!Reply(k)
  <2>1. CacheOK'
    BY <1>1 DEF Server!GetReturns, Server!Refuse, Server!Reply, ServerInv, CacheOK
  <2>2. Server!End(k, 0) \/ Server!End(k, 1)
    BY <1>1 DEF Server!GetReturns, Server!Refuse, Server!Reply
  <2> QED
    BY <2>1, <2>2, EndTyped
<1>2. CASE Server!Receive(k)
  <2>1. /\ rpc[k] = "sent"
        /\ rpc' = [rpc EXCEPT ![k] = IF Server!Empty(req[k]) THEN "reply" ELSE "config"]
        /\ todo' = [todo EXCEPT ![k] = [write |-> DOMAIN req[k].write,
                                        delete |-> req[k].delete, leaf |-> req[k].leaf]]
        /\ UNCHANGED <<configCache, req, updateObjects, deleteObjects, got>>
    BY <1>2 DEF Server!Receive
  <2>2. RpcsShape' /\ CacheOK' /\ \A j \in Callers \ {k} : SameRpc(j)
    BY <2>1 DEF ServerInv, RpcsShape, CacheOK, SameRpc
  <2>3. /\ rpc'[k] \in {"reply", "config"} /\ todo'[k].write = DOMAIN req[k].write
        /\ {"write", "delete", "leaf"} \subseteq DOMAIN todo'[k]
    BY <2>1 DEF ServerInv, RpcsShape
  <2>4. /\ RpcOK(k) /\ req'[k] = req[k] /\ deleteObjects'[k] = deleteObjects[k]
        /\ updateObjects'[k] = updateObjects[k]
    BY <2>1 DEF ServerInv
  <2>5. RpcOK(k)'
    BY <2>1, <2>3, <2>4 DEF RpcOK
  <2> QED
    BY <2>2, <2>5, RpcTyped
<1>3. CASE Server!ConfigFails(k) \/ Server!ConfigDone(k) \/ Server!DeletesDone(k)
  <2>1. /\ rpc[k] \in {"config", "deletes"} /\ rpc'[k] \in {"reply", "deletes", "updates"}
        /\ rpc' = [rpc EXCEPT ![k] = rpc'[k]]
        /\ UNCHANGED <<configCache, req, todo, updateObjects, deleteObjects, got>>
    BY <1>3 DEF Server!ConfigFails, Server!ConfigDone, Server!DeletesDone, ServerInv, RpcsShape
  <2>2. RpcsShape' /\ CacheOK' /\ \A j \in Callers \ {k} : SameRpc(j)
    BY <2>1 DEF ServerInv, RpcsShape, CacheOK, SameRpc
  <2>3. RpcOK(k)'
    BY <2>1 DEF ServerInv, RpcOK
  <2> QED
    BY <2>2, <2>3, RpcTyped
<1>4. CASE Server!Rollback(k)
  <2>1. /\ rpc[k] = "rollback" /\ rpc' = [rpc EXCEPT ![k] = "reply"]
        /\ configCache' = Server!Without({got[k].resource})
        /\ UNCHANGED <<req, todo, updateObjects, deleteObjects, got>>
    BY <1>4 DEF Server!Rollback
  <2>2. RpcsShape' /\ \A j \in Callers \ {k} : SameRpc(j)
    BY <2>1 DEF ServerInv, RpcsShape, SameRpc
  <2>3. CacheOK'
    BY <2>1, ServerNames DEF ServerInv, CacheOK, Server!Without
  <2>4. RpcOK(k)'
    BY <2>1 DEF ServerInv, RpcsShape, RpcOK
  <2> QED
    BY <2>2, <2>3, <2>4, RpcTyped
<1> QED
  BY <1>1, <1>2, <1>3, <1>4, WriteTyped, DeleteTyped, LeafTyped, ReadTyped DEF SetStep

\* A call that has returned.
LEMMA ReturnTyped ==
  ASSUME ServerInv, NEW k \in Callers,
         \/ \E r : Server!DeleteReturns(k, r)
         \/ Server!UpdateReturns(k)
         \/ Server!UpdateFails(k)
  PROVE  ServerInv'
<1>1. RpcsShape' /\ CacheOK' /\ \A j \in Callers \ {k} : SameRpc(j)
  BY DEF Server!DeleteReturns, Server!UpdateReturns, Server!UpdateFails, ServerInv, RpcsShape,
         CacheOK, SameRpc
<1>2. /\ req'[k] = req[k] /\ todo'[k] = todo[k] /\ RpcOK(k)
      /\ rpc[k] \in {"deletes", "event"} /\ rpc'[k] \in {"deletes", "updates", "rollback"}
      /\ rpc'[k] = "rollback" => rpc[k] = "event" /\ got'[k] = got[k]
      /\ deleteObjects'[k] \subseteq deleteObjects[k]
      /\ updateObjects'[k] \subseteq updateObjects[k]
  BY DEF Server!DeleteReturns, Server!UpdateReturns, Server!UpdateFails, ServerInv, RpcsShape
<1>3. RpcOK(k)'
  BY <1>2 DEF RpcOK
<1> QED
  BY <1>1, <1>3, RpcTyped

LEMMA ServerTyped == ServerInv /\ [ServerNext]_stepVars => ServerInv'
<1> SUFFICES ASSUME ServerInv, [ServerNext]_stepVars PROVE ServerInv'
  OBVIOUS
<1>1. CASE UNCHANGED stepVars
  BY <1>1, RpcsTyped DEF stepVars
<1>2. ASSUME NEW k \in Callers, Serve(k) PROVE ServerInv'
  <2>1. CASE SetStep(k)
    BY <2>1, SetTyped
  <2>2. CASE (\E r \in Resources : CallDelete(k, r)) \/ CallUpdate(k) \/ CallRuns(k)
    BY <2>2, RpcsTyped DEF CallDelete, CallUpdate, CallRuns
  <2>3. CASE DeleteCallReturns(k) \/ UpdateCallReturns(k) \/ UpdateCallFails(k)
    BY <2>3, ReturnTyped DEF DeleteCallReturns, UpdateCallReturns, UpdateCallFails
  <2>4. CASE CallPanics(k)
    BY <2>4, DropTyped DEF CallPanics
  <2> QED
    BY <1>2, <2>1, <2>2, <2>3, <2>4 DEF Serve
<1>3. CASE ServerRestart
  BY <1>3, RpcsTyped DEF ServerRestart
<1> QED
  BY <1>1, <1>2, <1>3, ClientTyped DEF ServerNext

-----------------------------------------------------------------------------
\* The calls are among the events.
LEMMA DeleteIsEvent == \A r \in Resources : DeleteOf(r) \in Events
BY ServerAssumption DEF SetEvents

LEMMA UpdateIsEvent == \A g : GotOK(g) => UpdateOf(g) \in Events
<1> SUFFICES ASSUME NEW g, GotOK(g) PROVE UpdateOf(g) \in SetEvents
  BY ServerAssumption
<1> QED
  BY DEF GotOK, SetEvents

\* Every step of the server is one of the calls, or none.
LEMMA ServerCallsStep == ServerInv /\ [ServerNext]_stepVars => [Next]_vars
<1> SUFFICES ASSUME ServerInv, [ServerNext]_stepVars PROVE [Next]_vars
  OBVIOUS
<1>1. CASE UNCHANGED stepVars
  BY <1>1 DEF stepVars
<1>2. ASSUME NEW k \in Callers, Serve(k) PROVE [Next]_vars
  <2>1. CASE SetStep(k)
    BY <2>1 DEF SetStep
  <2>2. ASSUME NEW r \in Resources, CallDelete(k, r) PROVE Next
    BY <2>2, DeleteIsEvent DEF CallDelete, Next
  <2>3. CASE CallUpdate(k)
    <3>1. UpdateOf(got[k]) \in Events
      BY <2>3, UpdateIsEvent DEF CallUpdate, ServerInv, RpcOK
    <3> QED
      BY <2>3, <3>1 DEF CallUpdate, Next
  <2>4. CASE \/ CallRuns(k) \/ DeleteCallReturns(k) \/ UpdateCallReturns(k)
             \/ UpdateCallFails(k) \/ CallPanics(k)
    <3>1. Step(k)
      BY <2>4 DEF CallRuns, DeleteCallReturns, UpdateCallReturns, UpdateCallFails, CallPanics, Step
    <3> QED
      BY <3>1 DEF Next
  <2> QED
    BY <1>2, <2>1, <2>2, <2>3, <2>4 DEF Serve
<1>3. CASE ServerRestart
  BY <1>3 DEF ServerRestart, Next
<1>4. ASSUME NEW k \in Callers, ClientStep(k) PROVE [Next]_vars
  BY <1>4 DEF ClientStep
<1> QED
  BY <1>1, <1>2, <1>3, <1>4 DEF ServerNext

(***************************************************************************)
(* Set calls HandleConfigEvent with what its requests configure, so that   *)
(* what holds of the calls whoever makes them holds of the server          *)
(* (set.go Set): its types, and, when calls do not meet, the theorems      *)
(* below.                                                                  *)
(***************************************************************************)
THEOREM ServerCalls == ServerSpec => Spec
<1>1. ServerInit => ServerInv /\ Init
  BY ServerInitial DEF ServerInit
<1> QED
  BY <1>1, ServerTyped, ServerCallsStep, PTL DEF ServerSpec, Spec

-----------------------------------------------------------------------------
(***************************************************************************)
(* An RPC and the call it waits for.                                       *)
(***************************************************************************)
CallFits(k) ==
  pc[k] # "idle" =>
    \/ rpc[k] = "event" /\ pc[k] # "delete" /\ call[k].event = UpdateOf(got[k])
    \/ /\ rpc[k] = "deletes" /\ pc[k] = "delete"
       /\ Target(k) \in deleteObjects[k]
       /\ call[k].event = DeleteOf(Target(k))

CallsFit == \A k \in Callers : CallFits(k)

\* A call and its RPC that others leave alone.
LEMMA OthersFit ==
  ASSUME NEW j \in Callers, CallFits(j), pc'[j] = pc[j], call'[j] = call[j],
         rpc'[j] = rpc[j], got'[j] = got[j], deleteObjects'[j] = deleteObjects[j]
  PROVE  CallFits(j)'
BY DEF CallFits, Target, UpdateOf, DeleteOf

\* A call that goes on keeps its event.
LEMMA CreatedRuns ==
  ASSUME StepsInv, NEW k \in Callers, NEW object, pc[k] # "idle",
         Created(k, object)
  PROVE  /\ pc'[k] # "idle" => pc'[k] # "delete" /\ call'[k].event = call[k].event
         /\ \A j \in Callers \ {k} : pc'[j] = pc[j] /\ call'[j] = call[j]
<1>1. LocalsShape /\ call[k] \in Calls
  BY DEF StepsInv, CallOK
<1>2. CASE Config(k) = NoData
  BY <1>1, <1>2 DEF Created, Return, LocalsShape
<1>3. CASE Config(k) # NoData
  <2>1. /\ pc' = [pc EXCEPT ![k] = "copy"]
        /\ call' = [call EXCEPT ![k].object = object]
    BY <1>3 DEF Created, Goto
  <2>2. call'[k] = [call[k] EXCEPT !.object = object]
    BY <1>1, <2>1 DEF LocalsShape
  <2>3. pc'[k] = "copy" /\ call'[k].event = call[k].event
    BY <1>1, <2>1, <2>2 DEF LocalsShape, Calls
  <2> QED
    BY <1>1, <2>1, <2>3 DEF LocalsShape
<1> QED
  BY <1>2, <1>3

\* Every step does, and leaves the other calls alone.
LEMMA StepRuns ==
  ASSUME StepsInv, NEW k \in Callers, Step(k), alive'
  PROVE  /\ pc[k] # "idle"
         /\ pc'[k] # "idle" =>
              pc[k] # "delete" /\ pc'[k] # "delete" /\ call'[k].event = call[k].event
         /\ \A j \in Callers \ {k} : pc'[j] = pc[j] /\ call'[j] = call[j]
<1>0. LocalsShape /\ (pc[k] # "idle" => call[k] \in Calls)
  BY DEF StepsInv, CallOK
<1>1. CASE CreateTopology(k) \/ FindChild(k) \/ Insert(k)
  <2>1. pc[k] \in {"create", "insert"} /\ \E object : Created(k, object)
    BY <1>1 DEF CreateTopology, FindChild, Insert, At
  <2> QED
    BY <2>1, CreatedRuns
<1>2. CASE MakeChild(k)
  <2>1. /\ pc[k] = "create" /\ pc' = [pc EXCEPT ![k] = "register"]
        /\ call' = [call EXCEPT ![k].object = <<Target(k), made'[Target(k)]>>]
    BY <1>2 DEF MakeChild, At, Goto
  <2>2. call'[k] = [call[k] EXCEPT !.object = <<Target(k), made'[Target(k)]>>]
    BY <1>0, <2>1 DEF LocalsShape
  <2>3. call'[k].event = call[k].event
    BY <1>0, <2>1, <2>2 DEF Calls
  <2> QED
    BY <1>0, <2>1, <2>3 DEF LocalsShape
<1>3. CASE Register(k) \/ CopyConfig(k) \/ ReadParent(k) \/ LinkStatus(k) \/ Work(k) \/ WorkTopology(k)
  <2>1. /\ pc[k] \in {"register", "copy", "parent", "status", "work"} /\ call' = call
        /\ \E label \in {"insert", "status", "parent", "parse", "write"} : Goto(k, label)
    BY <1>3 DEF Register, CopyConfig, ReadParent, LinkStatus, Work, WorkTopology, At
  <2> QED
    BY <1>0, <2>1 DEF Goto, LocalsShape
<1>4. CASE TopologyStatus(k) \/ NodeStatus(k) \/ ParseLink(k)
  <2>1. pc[k] \in {"status", "parse"} /\ \E list : Start(k, list)
    BY <1>4 DEF TopologyStatus, NodeStatus, ParseLink, At
  <2> QED
    BY <1>0, <2>1 DEF Start, Goto, LocalsShape
<1>5. CASE ParseRefused(k) \/ DeleteState(k)
  <2>1. pc[k] \in {"parse", "delete"} /\ Return(k)
    BY <1>5 DEF ParseRefused, DeleteState, At
  <2> QED
    BY <1>0, <2>1 DEF Return, LocalsShape
<1>6. CASE WriteState(k)
  <2>1. pc[k] = "write" /\ Done(k)
    BY <1>6 DEF WriteState, At
  <2> QED
    BY <1>0, <2>1 DEF Done, Return, Goto, LocalsShape
<1>7. CASE Panic(k)
  BY <1>7 DEF Panic
<1> QED
  BY <1>1, <1>2, <1>3, <1>4, <1>5, <1>6, <1>7 DEF Step

\* A step of Set outside a call is one of an RPC that does not wait for one.
LEMMA SetIdle ==
  ASSUME NEW k \in Callers, CallFits(k), ClientStep(k) \/ SetStep(k)
  PROVE  pc[k] = "idle"
<1>1. rpc[k] \notin {"event", "deletes"} \/ (rpc[k] = "deletes" /\ deleteObjects[k] = {})
  BY DEF ClientStep, SetStep, Server!Issue, Server!Get, Server!GetReturns, Server!Refuse,
         Server!Receive, Server!WriteConfig, Server!DeleteConfig, Server!DeleteLeaf,
         Server!ConfigFails, Server!ConfigDone, Server!DeletesDone, Server!ReadConfig,
         Server!Rollback, Server!Reply
<1> QED
  BY <1>1 DEF CallFits

\* The other RPCs are left alone.
LEMMA OthersRpc ==
  ASSUME ServerInv, NEW k \in Callers, NEW j \in Callers \ {k}, ClientStep(k) \/ SetStep(k)
  PROVE  SameRpc(j)
<1>0. RpcsShape
  BY DEF ServerInv
<1>1. CASE ClientStep(k)
  BY <1>0, <1>1 DEF ClientStep, Server!Issue, Server!Get, RpcsShape, SameRpc
<1>2. CASE SetStep(k)
  <2>1. CASE Server!GetReturns(k) \/ Server!Refuse(k) \/ Server!Reply(k)
    BY <1>0, <2>1 DEF Server!GetReturns, Server!Refuse, Server!Reply, Server!End, RpcsShape, SameRpc
  <2>2. CASE Server!Receive(k) \/ Server!ConfigFails(k) \/ Server!ConfigDone(k) \/ Server!DeletesDone(k)
    BY <1>0, <2>2 DEF Server!Receive, Server!ConfigFails, Server!ConfigDone, Server!DeletesDone,
       RpcsShape, SameRpc
  <2>3. ASSUME NEW r \in Resources, Server!WriteConfig(k, r) \/ Server!DeleteConfig(k, r)
        PROVE  SameRpc(j)
    BY <1>0, <2>3 DEF Server!WriteConfig, Server!DeleteConfig, RpcsShape, SameRpc
  <2>4. ASSUME NEW p \in Server!LeafPaths, Server!DeleteLeaf(k, p)
        PROVE  SameRpc(j)
    BY <1>0, <2>4 DEF Server!DeleteLeaf, RpcsShape, SameRpc
  <2>5. ASSUME NEW r \in Resources, Server!ReadConfig(k, r)
        PROVE  SameRpc(j)
    BY <1>0, <2>5 DEF Server!ReadConfig, RpcsShape, SameRpc
  <2>6. CASE Server!Rollback(k)
    BY <1>0, <2>6 DEF Server!Rollback, RpcsShape, SameRpc
  <2> QED
    BY <1>2, <2>1, <2>2, <2>3, <2>4, <2>5, <2>6 DEF SetStep
<1> QED
  BY <1>1, <1>2

\* A step of one RPC, or of its call.
LEMMA OneFits ==
  ASSUME CallsFit, NEW k \in Callers, CallFits(k)',
         \A j \in Callers \ {k} :
           /\ pc'[j] = pc[j] /\ call'[j] = call[j]
           /\ rpc'[j] = rpc[j] /\ got'[j] = got[j] /\ deleteObjects'[j] = deleteObjects[j]
  PROVE  CallsFit'
<1>1. \A j \in Callers : CallFits(j)'
  BY OthersFit DEF CallsFit
<1> QED
  BY <1>1 DEF CallsFit

\* The call of an RPC starts.
LEMMA CallFitsStart ==
  ASSUME StepsInv, CallsFit, NEW k \in Callers, NEW e, Call(k, e), UNCHANGED serverVars,
         \/ e.operation = "update" /\ rpc[k] = "event" /\ e = UpdateOf(got[k])
         \/ /\ e.operation = "delete" /\ rpc[k] = "deletes"
            /\ e.resource \in deleteObjects[k] /\ e = DeleteOf(e.resource)
  PROVE  CallsFit'
<1>1. LocalsShape
  BY DEF StepsInv
<1>2. /\ pc'[k] = IF e.operation = "update" THEN "create" ELSE "delete"
      /\ call'[k] = [event |-> e, object |-> NoData]
      /\ \A j \in Callers \ {k} : pc'[j] = pc[j] /\ call'[j] = call[j]
  BY <1>1 DEF Call, LocalsShape
<1>3. rpc' = rpc /\ got' = got /\ deleteObjects' = deleteObjects
  BY DEF serverVars
<1>4. call'[k].event = e /\ Target(k)' = e.resource
  BY <1>2 DEF Target
<1>5. CallFits(k)'
  BY <1>2, <1>3, <1>4 DEF CallFits, UpdateOf, DeleteOf
<1> QED
  BY <1>2, <1>3, <1>5, OneFits

\* Nothing that changes the RPC happens while its call runs.
LEMMA CallsFitStep ==
  StepsInv /\ ServerInv /\ CallsFit /\ [ServerNext]_stepVars => CallsFit'
<1> SUFFICES ASSUME StepsInv, ServerInv, CallsFit, [ServerNext]_stepVars PROVE CallsFit'
  OBVIOUS
<1>1. CASE UNCHANGED stepVars
  BY <1>1 DEF stepVars, vars, locals, serverVars, CallsFit, CallFits, Target, UpdateOf, DeleteOf
<1>2. ASSUME NEW k \in Callers, ClientStep(k) \/ SetStep(k) PROVE CallsFit'
  <2>1. pc[k] = "idle"
    BY <1>2, SetIdle DEF CallsFit
  <2>2. pc' = pc /\ call' = call
    BY <1>2 DEF ClientStep, SetStep, vars, locals
  <2>3. CallFits(k)'
    BY <2>1, <2>2 DEF CallFits
  <2> QED
    BY <1>2, <2>2, <2>3, OthersRpc, OneFits DEF SameRpc
<1>3. ASSUME NEW k \in Callers, NEW r \in Resources, CallDelete(k, r) PROVE CallsFit'
  BY <1>3, CallFitsStart DEF CallDelete, DeleteOf
<1>4. ASSUME NEW k \in Callers, CallUpdate(k) PROVE CallsFit'
  BY <1>4, CallFitsStart DEF CallUpdate, UpdateOf
<1>5. ASSUME NEW k \in Callers, CallRuns(k) PROVE CallsFit'
  <2>1. /\ pc[k] # "idle" /\ pc[k] # "delete" /\ pc'[k] # "delete"
        /\ call'[k].event = call[k].event
        /\ \A j \in Callers \ {k} : pc'[j] = pc[j] /\ call'[j] = call[j]
    BY <1>5, StepRuns DEF CallRuns
  <2>2. rpc' = rpc /\ got' = got /\ deleteObjects' = deleteObjects
    BY <1>5 DEF CallRuns, serverVars
  <2>3. CallFits(k)'
    BY <2>1, <2>2 DEF CallsFit, CallFits, UpdateOf
  <2> QED
    BY <2>1, <2>2, <2>3, OneFits
<1>6. ASSUME NEW k \in Callers,
             DeleteCallReturns(k) \/ UpdateCallReturns(k) \/ UpdateCallFails(k)
      PROVE  CallsFit'
  <2>1. Step(k) /\ pc'[k] = "idle" /\ alive'
    <3>1. Step(k)
      BY <1>6 DEF DeleteCallReturns, UpdateCallReturns, UpdateCallFails, Step
    <3>2. alive'
      <4>1. DeleteState(k) \/ ParseRefused(k) => alive /\ alive' = alive
        BY DEF DeleteState, ParseRefused, At
      <4>2. CreateTopology(k) \/ FindChild(k) \/ Insert(k) \/ WriteState(k) => alive /\ alive' = alive
        BY DEF CreateTopology, FindChild, Insert, WriteState, At
      <4>3. alive /\ alive' = alive
        BY <1>6, <4>1, <4>2 DEF DeleteCallReturns, UpdateCallReturns, UpdateCallFails
      <4> QED
        BY <4>3
    <3>3. CASE DeleteCallReturns(k) \/ UpdateCallFails(k)
      BY <3>1, <3>2, <3>3 DEF DeleteCallReturns, UpdateCallFails, DeleteState, ParseRefused,
                              Return, StepsInv, LocalsShape
    <3>4. CASE UpdateCallReturns(k)
      BY <3>1, <3>2, <3>4 DEF UpdateCallReturns
    <3> QED
      BY <1>6, <3>3, <3>4
  <2>2. \A j \in Callers \ {k} : pc'[j] = pc[j] /\ call'[j] = call[j]
    BY <2>1, StepRuns
  <2>3. \A j \in Callers \ {k} :
          rpc'[j] = rpc[j] /\ got'[j] = got[j] /\ deleteObjects'[j] = deleteObjects[j]
    BY <1>6 DEF DeleteCallReturns, UpdateCallReturns, UpdateCallFails, Server!DeleteReturns,
                Server!UpdateReturns, Server!UpdateFails, ServerInv, RpcsShape
  <2>4. CallFits(k)'
    BY <2>1 DEF CallFits
  <2> QED
    BY <2>2, <2>3, <2>4, OneFits
<1>7. ASSUME NEW k \in Callers, CallPanics(k) PROVE CallsFit'
  BY <1>7 DEF CallPanics, Panic, CallsFit, CallFits
<1>8. CASE ServerRestart
  BY <1>8 DEF ServerRestart, Restart, locals, serverVars, CallsFit, CallFits, Target, UpdateOf,
              DeleteOf
<1> QED
  BY <1>1, <1>2, <1>3, <1>4, <1>5, <1>6, <1>7, <1>8 DEF ServerNext, Serve

-----------------------------------------------------------------------------
(***************************************************************************)
(* The instance of AppLogic in GnmiSet's is that of HandlerSteps, operator *)
(* by operator,                                                            *)
(***************************************************************************)
LEMMA DataServed ==
  /\ Atomic!Nil = Server!Nil
  /\ Atomic!DefaultPlatform = Server!DefaultPlatform
  /\ \A c : Atomic!CopyTopology(c) = Server!CopyTopology(c)
  /\ \A c : Atomic!CopyNode(c) = Server!CopyNode(c)
  /\ \A c : Atomic!CopyLink(c) = Server!CopyLink(c)
  /\ \A d, s, why : Atomic!SetStatus(d, s, why) = Server!SetStatus(d, s, why)
  /\ \A d, parentStatus : Atomic!HandleStatus(d, parentStatus) = Server!HandleStatus(d, parentStatus)
  /\ \A d, parentStatus : Atomic!HandleLinkStatus(d, parentStatus) = Server!HandleLinkStatus(d, parentStatus)
  /\ \A d : Atomic!HandleTopologyStatus(d) = Server!HandleTopologyStatus(d)
  /\ \A d, t : Atomic!ResolvePlatform(d, t) = Server!ResolvePlatform(d, t)
  /\ \A d, t : Atomic!SetPlatform(d, t) = Server!SetPlatform(d, t)
  /\ \A d, name : Atomic!HasEndpoint(d, name) = Server!HasEndpoint(d, name)
  /\ \A d, e : Atomic!SetEndpoint(d, e) = Server!SetEndpoint(d, e)
  /\ \A le : Atomic!LogicalLag(le) = Server!LogicalLag(le)
  /\ \A le : Atomic!LagSubLink(le) = Server!LagSubLink(le)
  /\ \A le : Atomic!PlainLink(le) = Server!PlainLink(le)
  /\ Atomic!EmptyState = Server!EmptyState
  /\ \A d : Atomic!TopologyState(d) = Server!TopologyState(d)
  /\ \A d : Atomic!LinkState(d) = Server!LinkState(d)
  /\ \A d : Atomic!NodeState(d) = Server!NodeState(d)
  /\ \A old, new : Atomic!MergeLeaf(old, new) = Server!MergeLeaf(old, new)
  /\ \A old, new : Atomic!MergeEndpoints(old, new) = Server!MergeEndpoints(old, new)
  /\ \A cached, new : Atomic!MergeState(cached, new) = Server!MergeState(cached, new)
  /\ Atomic!Topology = Server!Topology
  /\ Atomic!Children = Server!Children
  /\ Atomic!Resources = Server!Resources
<1>1. Atomic!Nil = Server!Nil
  BY DEF Atomic!Nil, Server!Nil
<1>2. Atomic!DefaultPlatform = Server!DefaultPlatform
  BY DEF Atomic!DefaultPlatform, Server!DefaultPlatform
<1>3. \A c : Atomic!CopyTopology(c) = Server!CopyTopology(c)
  BY <1>1 DEF Atomic!CopyTopology, Server!CopyTopology
<1>4. \A c : Atomic!CopyNode(c) = Server!CopyNode(c)
  BY <1>1 DEF Atomic!CopyNode, Server!CopyNode
<1>5. \A c : Atomic!CopyLink(c) = Server!CopyLink(c)
  BY <1>1 DEF Atomic!CopyLink, Server!CopyLink
<1>6. \A d, s, why : Atomic!SetStatus(d, s, why) = Server!SetStatus(d, s, why)
  BY DEF Atomic!SetStatus, Server!SetStatus
<1>7. \A d, parentStatus :
       Atomic!HandleStatus(d, parentStatus) =
       Server!HandleStatus(d, parentStatus)
  BY <1>6 DEF Atomic!HandleStatus, Server!HandleStatus
<1>8. \A d, parentStatus :
       Atomic!HandleLinkStatus(d, parentStatus) =
       Server!HandleLinkStatus(d, parentStatus)
  BY <1>7 DEF Atomic!HandleLinkStatus, Server!HandleLinkStatus
<1>9. \A d : Atomic!HandleTopologyStatus(d) = Server!HandleTopologyStatus(d)
  BY <1>1, <1>7 DEF Atomic!HandleTopologyStatus, Server!HandleTopologyStatus
<1>10. \A d, t : Atomic!ResolvePlatform(d, t) = Server!ResolvePlatform(d, t)
  BY <1>1, <1>2 DEF Atomic!ResolvePlatform, Server!ResolvePlatform
<1>11. \A d, t : Atomic!SetPlatform(d, t) = Server!SetPlatform(d, t)
  BY <1>1, <1>10 DEF Atomic!SetPlatform, Server!SetPlatform
<1>12. \A d, name : Atomic!HasEndpoint(d, name) = Server!HasEndpoint(d, name)
  BY DEF Atomic!HasEndpoint, Server!HasEndpoint
<1>13. \A d, e : Atomic!SetEndpoint(d, e) = Server!SetEndpoint(d, e)
  BY <1>12 DEF Atomic!SetEndpoint, Server!SetEndpoint
<1>14. \A le : Atomic!LogicalLag(le) = Server!LogicalLag(le)
  BY DEF Atomic!LogicalLag, Server!LogicalLag
<1>15. \A le : Atomic!LagSubLink(le) = Server!LagSubLink(le)
  BY DEF Atomic!LagSubLink, Server!LagSubLink
<1>16. \A le : Atomic!PlainLink(le) = Server!PlainLink(le)
  BY DEF Atomic!PlainLink, Server!PlainLink
<1>17. Atomic!EmptyState = Server!EmptyState
  BY <1>1 DEF Atomic!EmptyState, Server!EmptyState
<1>18. \A d : Atomic!TopologyState(d) = Server!TopologyState(d)
  BY <1>17 DEF Atomic!TopologyState, Server!TopologyState
<1>19. \A d : Atomic!LinkState(d) = Server!LinkState(d)
  BY <1>17 DEF Atomic!LinkState, Server!LinkState
<1>20. \A d : Atomic!NodeState(d) = Server!NodeState(d)
  BY DEF Atomic!NodeState, Server!NodeState
<1>21. \A old, new : Atomic!MergeLeaf(old, new) = Server!MergeLeaf(old, new)
  BY <1>1 DEF Atomic!MergeLeaf, Server!MergeLeaf
<1>22. \A old, new : Atomic!MergeEndpoints(old, new) = Server!MergeEndpoints(old, new)
  BY DEF Atomic!MergeEndpoints, Server!MergeEndpoints
<1>23. \A cached, new : Atomic!MergeState(cached, new) = Server!MergeState(cached, new)
  BY <1>17, <1>21, <1>22 DEF Atomic!MergeState, Server!MergeState
<1>24. Atomic!Topology = Server!Topology
  BY DEF Atomic!Topology, Server!Topology
<1>25. Atomic!Children = Server!Children
  BY DEF Atomic!Children, Server!Children
<1>26. Atomic!Resources = Server!Resources
  BY <1>24, <1>25 DEF Atomic!Resources, Server!Resources
<1> QED
  BY <1>1, <1>2, <1>3, <1>4, <1>5, <1>6, <1>7, <1>8, <1>9, <1>10, <1>11, <1>12, <1>13,
     <1>14, <1>15, <1>16, <1>17, <1>18, <1>19, <1>20, <1>21, <1>22, <1>23, <1>24,
     <1>25, <1>26

\* and action by action.
LEMMA ActionsServed ==
  /\ \A r : Atomic!UpdateWithoutData(r) = Server!UpdateWithoutData(r)
  /\ \A c, kids : Atomic!TopologyUpdate(c, kids) = Server!TopologyUpdate(c, kids)
  /\ \A n, c : Atomic!NodeUpdate(n, c) = Server!NodeUpdate(n, c)
  /\ \A l, c : Atomic!LinkUpdate(l, c) = Server!LinkUpdate(l, c)
  /\ \A l, c : Atomic!LinkRefused(l, c) = Server!LinkRefused(l, c)
  /\ \A r : Atomic!ChildDelete(r) = Server!ChildDelete(r)
  /\ Atomic!TopologyDelete = Server!TopologyDelete
  /\ \A c : Atomic!TopologyPanics(c) = Server!TopologyPanics(c)
  /\ \A c : Atomic!NodePanics(c) = Server!NodePanics(c)
  /\ \A c : Atomic!LinkPanics(c) = Server!LinkPanics(c)
  /\ Atomic!Die = Server!Die
  /\ Atomic!Restart = Server!Restart
  /\ Atomic!Init = Server!Init
<1>1. \A r : Atomic!CreateChild(r) = Server!CreateChild(r)
  BY DataServed DEF Atomic!CreateChild, Server!CreateChild
<1>2. Atomic!Observers = Server!Observers
  BY DataServed DEF Atomic!Observers, Server!Observers
<1>3. Atomic!ParentStatus = Server!ParentStatus
  BY DEF Atomic!ParentStatus, Server!ParentStatus
<1>4. \A f, status : Atomic!Notified(f, status) = Server!Notified(f, status)
  BY <1>2, DataServed DEF Atomic!Notified, Server!Notified
<1>5. \A cache, r, s : Atomic!Cached(cache, r, s) = Server!Cached(cache, r, s)
  BY DataServed DEF Atomic!Cached, Server!Cached
<1>6. \A cache, status, nodeState, linkState :
       Atomic!CachedObservers(cache, status, nodeState, linkState) =
       Server!CachedObservers(cache, status, nodeState, linkState)
  BY <1>2, DataServed DEF Atomic!CachedObservers, Server!CachedObservers
<1>7. \A cache, d, kids :
       Atomic!CachedTopology(cache, d, kids) =
       Server!CachedTopology(cache, d, kids)
  BY <1>5, DataServed DEF Atomic!CachedTopology, Server!CachedTopology
<1>8. \A r : Atomic!UpdateWithoutData(r) = Server!UpdateWithoutData(r)
  BY <1>1 DEF Atomic!UpdateWithoutData, Server!UpdateWithoutData
<1>9. \A c, kids : Atomic!TopologyUpdate(c, kids) = Server!TopologyUpdate(c, kids)
  BY <1>1, <1>2, <1>4, <1>6, <1>7, DataServed
  DEF Atomic!TopologyUpdate, Server!TopologyUpdate
<1>10. \A n, c : Atomic!NodeUpdate(n, c) = Server!NodeUpdate(n, c)
  BY <1>1, <1>3, <1>5, DataServed DEF Atomic!NodeUpdate, Server!NodeUpdate
<1>11. \A c : Atomic!Ends(c) = Server!Ends(c)
  BY DEF Atomic!Ends, Server!Ends
<1>12. \A le : Atomic!Known(le) = Server!Known(le)
  BY DEF Atomic!Known, Server!Known
<1>13. \A f, a, ea, b, eb :
       Atomic!SetBoth(f, a, ea, b, eb) =
       Server!SetBoth(f, a, ea, b, eb)
  BY DataServed DEF Atomic!SetBoth, Server!SetBoth
<1>14. \A f, c : Atomic!ParseLink(f, c) = Server!ParseLink(f, c)
  BY <1>13, DataServed DEF Atomic!ParseLink, Server!ParseLink
<1>15. \A c : Atomic!LinkCopied(c) = Server!LinkCopied(c)
  BY <1>3, DataServed DEF Atomic!LinkCopied, Server!LinkCopied
<1>16. \A l, c : Atomic!LinkUpdate(l, c) = Server!LinkUpdate(l, c)
  BY <1>1, <1>5, <1>11, <1>12, <1>14, <1>15, DataServed
  DEF Atomic!LinkUpdate, Server!LinkUpdate
<1>17. \A c : Atomic!NodeMissing(c) = Server!NodeMissing(c)
  BY <1>11, <1>12 DEF Atomic!NodeMissing, Server!NodeMissing
<1>18. \A l, c : Atomic!LinkRefused(l, c) = Server!LinkRefused(l, c)
  BY <1>1, <1>15, <1>17, DataServed DEF Atomic!LinkRefused, Server!LinkRefused
<1>19. \A r : Atomic!ChildDelete(r) = Server!ChildDelete(r)
  BY <1>1, DataServed DEF Atomic!ChildDelete, Server!ChildDelete
<1>20. Atomic!TopologyDelete = Server!TopologyDelete
  BY DataServed DEF Atomic!TopologyDelete, Server!TopologyDelete
<1>21. \A c : Atomic!TopologyPanics(c) = Server!TopologyPanics(c)
  BY <1>2, DataServed DEF Atomic!TopologyPanics, Server!TopologyPanics
<1>22. \A c : Atomic!NodePanics(c) = Server!NodePanics(c)
  BY DEF Atomic!NodePanics, Server!NodePanics
<1>23. \A c : Atomic!LinkPanics(c) = Server!LinkPanics(c)
  BY <1>11, <1>17 DEF Atomic!LinkPanics, Server!LinkPanics
<1>24. Atomic!Die = Server!Die
  BY DataServed DEF Atomic!Die, Server!Die
<1>25. Atomic!Restart = Server!Restart
  BY DEF Atomic!Restart, Server!Restart
<1>26. Atomic!Init = Server!Init
  BY DataServed DEF Atomic!Init, Server!Init
<1> QED
  BY <1>8, <1>9, <1>10, <1>16, <1>18, <1>19, <1>20, <1>21, <1>22, <1>23, <1>24, <1>25, <1>26

\* A step that AppLogic does not see, the server does not see either.
LEMMA QuietServed == UNCHANGED Atomic!vars => UNCHANGED Server!appVars
BY DEF Atomic!vars, Server!appVars, Server!vars

-----------------------------------------------------------------------------
(***************************************************************************)
(* The steps of the server, when calls do not meet.  A call that goes on   *)
(* is a step GnmiSet does not see,                                         *)
(***************************************************************************)
LEMMA QuietStep ==
  ASSUME ApartInv, NEW k \in Callers, Step(k), alive', pc'[k] # "idle"
  PROVE  ApartInv' /\ UNCHANGED Atomic!vars
<1>0. LocalsShape
  BY DEF ApartInv, StepsInv
<1>1. ASSUME Return(k) PROVE FALSE
  BY <1>0, <1>1 DEF Return, LocalsShape
<1>2. CASE CreateTopology(k) \/ FindChild(k) \/ Insert(k)
  <2>1. Config(k) # NoData
    BY <1>1, <1>2 DEF CreateTopology, FindChild, Insert, Created
  <2> QED
    BY <1>2, <2>1, CreateTopologyApart, FindChildApart, InsertApart
<1>3. CASE MakeChild(k) \/ Register(k) \/ CopyConfig(k) \/ ReadParent(k)
  BY <1>3, MakeChildApart, RegisterApart, CopyConfigApart, ReadParentApart
<1>4. CASE TopologyStatus(k) \/ NodeStatus(k) \/ LinkStatus(k) \/ ParseLink(k)
  BY <1>4, TopologyStatusApart, NodeStatusApart, LinkStatusApart, ParseLinkApart
<1>5. CASE Work(k) \/ WorkTopology(k)
  BY <1>5, WorkApart
<1>6. CASE WriteState(k)
  <2>1. Len(jobs[k]) # 1
    BY <1>1, <1>6 DEF WriteState, Done
  <2> QED
    BY <1>6, <2>1, WriteApart
<1>7. CASE ParseRefused(k) \/ DeleteState(k)
  BY <1>1, <1>7 DEF ParseRefused, DeleteState
<1>8. CASE Panic(k)
  BY <1>8 DEF Panic
<1> QED
  BY <1>2, <1>3, <1>4, <1>5, <1>6, <1>7, <1>8 DEF Step

\* and one that returns is GnmiSet's, for the resource and data that Set handed over.
LEMMA CallGot ==
  ASSUME ServerInv, CallsFit, NEW k \in Callers, pc[k] # "idle", pc[k] # "delete"
  PROVE  /\ rpc[k] = "event" /\ GotOK(got[k])
         /\ Target(k) = got[k].resource /\ Config(k) = got[k].data
         /\ got[k].resource = Topology => call[k].event.kids = got[k].kids
<1>1. rpc[k] = "event" /\ call[k].event = UpdateOf(got[k])
  BY DEF CallsFit, CallFits
<1> QED
  BY <1>1 DEF ServerInv, RpcOK, Target, Config, UpdateOf

LEMMA UpdateServed ==
  ASSUME ApartInv, ServerInv, CallsFit, NEW k \in Callers, UpdateCallReturns(k)
  PROVE  ApartInv' /\ Server!UpdateEvent(k)
<1>1. CreateTopology(k) \/ FindChild(k) \/ Insert(k) \/ WriteState(k)
  BY DEF UpdateCallReturns
<1>2. pc[k] # "idle" /\ pc[k] # "delete" /\ LocalsShape
  BY <1>1 DEF CreateTopology, FindChild, Insert, WriteState, At, ApartInv, StepsInv
<1>3. /\ Target(k) = got[k].resource /\ Config(k) = got[k].data
      /\ got[k].resource = Topology => call[k].event.kids = got[k].kids
  BY <1>2, CallGot
<1>4. CASE WriteState(k)
  <2>1. Len(jobs[k]) = 1 /\ pc[k] \in Configuring
    <3>1. Done(k) /\ pc[k] = "write"
      BY <1>4 DEF WriteState, At
    <3>2. pc'[k] = "idle"
      BY DEF UpdateCallReturns
    <3>3. Len(jobs[k]) = 1
      BY <1>2, <3>1, <3>2 DEF Done, Goto, LocalsShape
    <3> QED
      BY <3>1, <3>3 DEF Configuring
  <2>2. Config(k) # NoData
    BY <2>1, PastCreate
  <2>3. Target(k) = Topology \/ Target(k) \in Nodes \/ Target(k) \in Links
    BY <1>2, CallerFacts, ResourceFacts
  <2>4. CASE Target(k) = Topology
    <3>1. ApartInv' /\ Atomic!TopologyUpdate(Config(k), call[k].event.kids)
      BY <1>4, <2>1, <2>4, TopologyReturns
    <3>2. Server!TopologyUpdate(got[k].data, got[k].kids)
      BY <1>3, <2>4, <3>1, ActionsServed
    <3> QED
      BY <1>3, <2>2, <2>4, <3>1, <3>2, ServerNames
      DEF Server!UpdateEvent, Server!HandleUpdate, UpdateCallReturns
  <2>5. CASE Target(k) \in Nodes
    <3>1. ApartInv' /\ Atomic!NodeUpdate(Target(k), Config(k))
      BY <1>4, <2>1, <2>5, NodeReturns
    <3> QED
      BY <1>3, <2>2, <2>5, <3>1, ActionsServed
      DEF Server!UpdateEvent, Server!HandleUpdate, UpdateCallReturns
  <2>6. CASE Target(k) \in Links
    <3>1. ApartInv' /\ Atomic!LinkUpdate(Target(k), Config(k))
      BY <1>4, <2>1, <2>6, LinkReturns
    <3> QED
      BY <1>3, <2>2, <2>6, <3>1, ActionsServed
      DEF Server!UpdateEvent, Server!HandleUpdate, UpdateCallReturns
  <2> QED
    BY <2>3, <2>4, <2>5, <2>6
<1>5. CASE CreateTopology(k) \/ FindChild(k) \/ Insert(k)
  <2>1. Config(k) = NoData
    BY <1>2, <1>5 DEF CreateTopology, FindChild, Insert, Created, Goto, LocalsShape,
                      UpdateCallReturns
  <2>2. ApartInv' /\ Atomic!UpdateWithoutData(Target(k))
    BY <1>5, <2>1, FoundWithoutData, InsertWithoutData
  <2> QED
    BY <1>3, <2>1, <2>2, ActionsServed
    DEF Server!UpdateEvent, Server!HandleUpdate, UpdateCallReturns
<1> QED
  BY <1>1, <1>4, <1>5

LEMMA RefusalServed ==
  ASSUME ApartInv, ServerInv, CallsFit, NEW k \in Callers, UpdateCallFails(k)
  PROVE  ApartInv' /\ Server!UpdateRefused(k)
<1>1. /\ ParseRefused(k) /\ pc[k] = "parse" /\ pc[k] # "idle" /\ pc[k] # "delete"
      /\ pc[k] \in Configuring
  BY DEF UpdateCallFails, ParseRefused, At, Configuring
<1>2. Target(k) \in Links /\ Config(k) # NoData
  BY <1>1, PastCreate, CallerFacts DEF CallOK
<1>3. Target(k) = got[k].resource /\ Config(k) = got[k].data
  BY <1>1, CallGot
<1>4. ApartInv' /\ Atomic!LinkRefused(Target(k), Config(k))
  BY <1>1, RefusedReturns
<1> QED
  BY <1>2, <1>3, <1>4, ActionsServed DEF Server!UpdateRefused, UpdateCallFails

LEMMA DeleteServed ==
  ASSUME ApartInv, ServerInv, CallsFit, NEW k \in Callers, DeleteCallReturns(k)
  PROVE  ApartInv' /\ Server!DeleteEvent(k, Target(k)) /\ Target(k) \in Resources
<1>1. DeleteState(k) /\ pc[k] # "idle"
  BY DEF DeleteCallReturns, DeleteState, At
<1>2. Target(k) \in Children \/ Target(k) = Topology
  BY <1>1, CallerFacts, ResourceFacts
<1>3. /\ ApartInv'
      /\ Target(k) \in Children => Atomic!ChildDelete(Target(k))
      /\ Target(k) = Topology => Atomic!TopologyDelete
  BY <1>1, DeleteReturns
<1>4. Server!HandleDelete(Target(k))
  BY <1>2, <1>3, ActionsServed, ServerNames, ResourceFacts DEF Server!HandleDelete
<1> QED
  BY <1>2, <1>3, <1>4, ResourceFacts DEF Server!DeleteEvent, DeleteCallReturns

\* A call that panics takes the server with it.
LEMMA PanicServed ==
  ASSUME ApartInv, ServerInv, CallsFit, NEW k \in Callers, CallPanics(k)
  PROVE  ApartInv' /\ Server!EventPanics(k)
<1>1. Panic(k) /\ Panics(k) /\ pc[k] \in Configuring /\ pc[k] # "idle" /\ pc[k] # "delete"
  BY DEF CallPanics, Panic, Panics, Configuring
<1>2. /\ rpc[k] = "event" /\ Config(k) # NoData
      /\ Target(k) = got[k].resource /\ Config(k) = got[k].data
  BY <1>1, CallGot, PastCreate
<1>3. ApartInv' /\ Atomic!Die
  BY <1>1, PanicReturns DEF Atomic!Panic
<1>4. \/ Target(k) = Topology /\ Server!TopologyPanics(Config(k))
      \/ Target(k) \in Nodes /\ Server!NodePanics(Config(k))
      \/ Target(k) \in Links /\ Server!LinkPanics(Config(k))
  BY <1>1, PanicSeen, ActionsServed
<1>5. Server!HandlePanics(got[k].resource, got[k].data)
  BY <1>2, <1>4, ServerNames, ResourceFacts DEF Server!HandlePanics
<1> QED
  BY <1>2, <1>3, <1>5, ActionsServed, ServerNames DEF Server!EventPanics, CallPanics

-----------------------------------------------------------------------------
\* When the calls do nothing, nothing else is seen.
LEMMA SeenSame == UNCHANGED vars => UNCHANGED Atomic!vars
<1> SUFFICES ASSUME UNCHANGED vars PROVE UNCHANGED Atomic!vars
  OBVIOUS
<1>1. alive' = alive /\ \A r : Seen(r)' = Seen(r)
  BY DEF vars, memory, locals, Seen, Busy, View, HasHandler, DataOf, Handler
<1>2. /\ {r \in Resources : Seen(r).made}' = {r \in Resources : Seen(r).made}
      /\ Seen(Topology).data' = Seen(Topology).data
      /\ [n \in Nodes |-> Seen(n).data]' = [n \in Nodes |-> Seen(n).data]
      /\ [l \in Links |-> Seen(l).data]' = [l \in Links |-> Seen(l).data]
      /\ [r \in Resources |-> Seen(r).shown]' = [r \in Resources |-> Seen(r).shown]
  BY <1>1
<1> QED
  BY <1>1, <1>2 DEF Atomic!vars

\* The invariant, and what a step of the server is to GnmiSet.
ServerApart == (ApartInv \/ Unused) /\ ServerInv /\ CallsFit

LEMMA ServerInitially == Apart /\ ServerInit => ServerApart /\ Server!SetInit
<1> SUFFICES ASSUME Apart, ServerInit PROVE ServerApart /\ Server!SetInit
  OBVIOUS
<1>1. (ApartInv \/ Unused) /\ Atomic!Init
  BY ApartInitial DEF ServerInit
<1>2. ServerInv
  BY ServerInitial
<1>3. CallsFit
  BY DEF ServerInit, Init, CallsFit, CallFits
<1>4. Server!SetInit
  BY <1>1, ActionsServed, ServerNames DEF ServerInit, Server!SetInit
<1> QED
  BY <1>1, <1>2, <1>3, <1>4 DEF ServerApart

LEMMA QuietServer ==
  ASSUME UNCHANGED Atomic!vars, UNCHANGED serverVars
  PROVE  UNCHANGED Server!setVars
BY QuietServed DEF serverVars, Server!setVars, Server!rpcVars

\* A step of the server is one of GnmiSet, or is not seen.
LEMMA ServerServed ==
  ASSUME ApartInv, ServerInv, CallsFit, [ServerNext]_stepVars
  PROVE  ApartInv' /\ [Server!SetNext]_Server!setVars
<1>1. CASE UNCHANGED stepVars
  <2>1. ApartInv' /\ UNCHANGED Atomic!vars
    BY <1>1, ApartSame DEF stepVars
  <2> QED
    BY <1>1, <2>1, QuietServer DEF stepVars
<1>2. ASSUME NEW k \in Callers, ClientStep(k)
      PROVE  ApartInv' /\ Server!SetNext
  <2>1. ApartInv'
    BY <1>2, ApartSame DEF ClientStep
  <2> QED
    BY <1>2, <2>1 DEF ClientStep, Server!SetNext
<1>3. ASSUME NEW k \in Callers, SetStep(k)
      PROVE  ApartInv' /\ Server!SetNext
  <2>1. ApartInv'
    BY <1>3, ApartSame DEF SetStep
  <2>2. Server!GetReturns(k) \/ Server!RpcStep(k)
    BY <1>3, ServerNames DEF SetStep, Server!RpcStep
  <2> QED
    BY <2>1, <2>2 DEF Server!SetNext
<1>4. ASSUME NEW k \in Callers, NEW e \in Events, Call(k, e), UNCHANGED serverVars
      PROVE  ApartInv' /\ UNCHANGED Server!setVars
  BY <1>4, CallApart, QuietServer
<1>5. ASSUME NEW k \in Callers, NEW r \in Resources, CallDelete(k, r)
      PROVE  ApartInv' /\ UNCHANGED Server!setVars
  BY <1>4, <1>5, DeleteIsEvent DEF CallDelete
<1>6. ASSUME NEW k \in Callers, CallUpdate(k)
      PROVE  ApartInv' /\ UNCHANGED Server!setVars
  <2>1. UpdateOf(got[k]) \in Events
    BY <1>6, UpdateIsEvent DEF CallUpdate, ServerInv, RpcOK
  <2> QED
    BY <1>4, <1>6, <2>1 DEF CallUpdate
<1>7. ASSUME NEW k \in Callers, CallRuns(k)
      PROVE  ApartInv' /\ UNCHANGED Server!setVars
  BY <1>7, QuietStep, QuietServer DEF CallRuns
<1>8. ASSUME NEW k \in Callers,
             \/ DeleteCallReturns(k) \/ UpdateCallReturns(k) \/ UpdateCallFails(k)
             \/ CallPanics(k)
      PROVE  ApartInv' /\ Server!SetNext
  <2>1. ApartInv' /\ Server!RpcStep(k)
    BY <1>8, DeleteServed, UpdateServed, RefusalServed, PanicServed, ServerNames
    DEF Server!RpcStep
  <2> QED
    BY <2>1 DEF Server!SetNext
<1>9. CASE ServerRestart
  <2>1. ApartInv' /\ Atomic!Restart /\ UNCHANGED serverVars
    BY <1>9, RestartApart DEF ServerRestart
  <2>2. Server!ProcessRestart
    BY <2>1, ActionsServed DEF Server!ProcessRestart, Server!rpcVars, serverVars
  <2> QED
    BY <2>1, <2>2 DEF Server!SetNext
<1> QED
  BY <1>1, <1>2, <1>3, <1>5, <1>6, <1>7, <1>8, <1>9 DEF ServerNext, Serve

LEMMA ServerStep ==
  ServerApart /\ [ServerNext]_stepVars => ServerApart' /\ [Server!SetNext]_Server!setVars
<1> SUFFICES ASSUME ServerApart, [ServerNext]_stepVars
    PROVE  ServerApart' /\ [Server!SetNext]_Server!setVars
  OBVIOUS
<1>1. ServerInv'
  BY ServerTyped DEF ServerApart
<1>2. CASE ApartInv
  <2>1. CallsFit'
    BY <1>2, CallsFitStep DEF ServerApart, ApartInv
  <2> QED
    BY <1>1, <1>2, <2>1, ServerServed DEF ServerApart
<1>3. CASE Unused
  <2>1. UNCHANGED stepVars
    BY <1>3 DEF Unused, ServerNext, ServerRestart, Restart
  <2>2. UNCHANGED Server!setVars
    BY <2>1, SeenSame, QuietServer DEF stepVars
  <2>3. Unused' /\ CallsFit'
    BY <1>3, <2>1 DEF Unused, stepVars, vars, CallsFit
  <2> QED
    BY <1>1, <2>2, <2>3 DEF ServerApart
<1> QED
  BY <1>2, <1>3 DEF ServerApart

(***************************************************************************)
(* A server whose calls of HandleConfigEvent wait for each other when they *)
(* meet in a resource is the server of GnmiSet, which makes each of them   *)
(* in one step, for any number of RPCs: Set may write, delete and read the *)
(* configuration cache between the steps of the calls of others, and fail  *)
(* and roll back, and a panic may take the calls that run with it, and no  *)
(* call can be told from one step (set.go Set; root.go, topology.go,       *)
(* node.go, link.go HandleConfigEvent).                                    *)
(***************************************************************************)
THEOREM ApartServerAtomic == Apart /\ ServerSpec => ImplementsServer
BY ServerInitially, ServerStep, PTL DEF ServerSpec, ImplementsServer, Server!SetSpec

(***************************************************************************)
(* The types of the handlers hold of the server whether its calls meet or  *)
(* not.                                                                    *)
(***************************************************************************)
THEOREM ServerStepsTyped == ServerSpec => []StepsTypeOK
BY ServerCalls, StepsTypeCorrect, PTL

(***************************************************************************)
(* When no call runs, the children of a topology that is down are down, if *)
(* calls that meet wait for each other.  Without that they need not be     *)
(* (set.go Set, "as a single transaction").                                *)
(***************************************************************************)
THEOREM ServerChildrenFollow == Apart /\ ServerSpec => []RestingChildrenFollow
BY ServerCalls, ApartChildrenFollow, PTL

(***************************************************************************)
(* And, under the same condition, the state cache that Get and Subscribe   *)
(* read agrees with the handlers when no call runs.                        *)
(***************************************************************************)
THEOREM ServerCacheFollows == Apart /\ ServerSpec => []RestingCacheFollows
BY ServerCalls, ApartCacheFollows, PTL

=============================================================================
