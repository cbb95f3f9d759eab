----------------------------- MODULE ServerSteps -----------------------------
(***************************************************************************)
(* The Set RPC with its calls of HandleConfigEvent taken apart: GnmiSet,   *)
(* where a call is one step, composed with HandlerSteps, where it is many, *)
(* each of which interleaves with the steps of every other RPC.            *)
(*                                                                         *)
(* An RPC's own steps are those of GnmiSet.  A call begins with a step of  *)
(* HandlerSteps and returns with one; what Set does at once when           *)
(* HandleConfigEvent has returned is joined to that.                       *)
(***************************************************************************)
EXTENDS HandlerSteps

CONSTANTS
  TopologyConfigs, NodeConfigs, LinkConfigs,        \* see AppLogic
  MaxUnaryRPC, Requests, NameOf, Validating         \* see GnmiSet

VARIABLES
  configCache, permits, req, todo, updateObjects, deleteObjects, got,
  rpc    \* where in Set an RPC is: GnmiSet's pc

serverVars == <<configCache, permits, rpc, req, todo, updateObjects, deleteObjects, got>>
stepVars == <<vars, serverVars>>

\* The server as GnmiSet has it, which sees a call when it returns.
Server == INSTANCE GnmiSet WITH
  Clients      <- Callers,
  handlers     <- {r \in Resources : Seen(r).made},
  topologyData <- Seen(Topology).data,
  nodeData     <- [n \in Nodes |-> Seen(n).data],
  linkData     <- [l \in Links |-> Seen(l).data],
  stateCache   <- [r \in Resources |-> Seen(r).shown],
  pc           <- rpc

\* What Set calls HandleConfigEvent with.
UpdateOf(g) ==
  [operation |-> "update", resource |-> g.resource, config |-> g.data,
   kids |-> IF g.resource = Topology THEN g.kids ELSE {}]

DeleteOf(r) == [operation |-> "delete", resource |-> r, config |-> NoData, kids |-> {}]

SetEvents ==
  {DeleteOf(r) : r \in Resources}
    \cup UNION {{UpdateOf([resource |-> r, data |-> c, kids |-> S]) :
                    c \in Server!ConfigsOf(r) \cup {NoData}, S \in SUBSET Children} :
                  r \in Resources}

\* The calls are among the events; the rest GnmiSet assumes of its requests.
ASSUME ServerAssumption ==
  /\ SetEvents \subseteq Events
  /\ \A k \in Callers : \A q \in Requests[k] :
       \A r \in DOMAIN q.write : q.write[r] \in Server!ConfigsOf(r)
  /\ Server!NoTopologyLeaves \in TopologyConfigs
  /\ \A r \in Resources : \A new \in Server!ConfigsOf(r) :
       /\ Server!Stored(r, new) \in Server!ConfigsOf(r)
       /\ \A leaf \in Server!LeavesOf(r) :
            Server!WithoutLeaf(new, leaf) \in Server!ConfigsOf(r)
       /\ \A old \in Server!ConfigsOf(r) :
            Server!MergeConfig(r, old, new) \in Server!ConfigsOf(r)

ServerInit ==
  /\ Init
  /\ configCache = [r \in Resources |-> NoData]
  /\ permits = MaxUnaryRPC
  /\ rpc = [k \in Callers |-> "idle"]
  /\ req = [k \in Callers |-> NoData]
  /\ todo = [k \in Callers |-> Server!NoWork]
  /\ updateObjects = [k \in Callers |-> {}]
  /\ deleteObjects = [k \in Callers |-> {}]
  /\ got = [k \in Callers |-> NoData]

-----------------------------------------------------------------------------
\* The steps of an RPC outside HandleConfigEvent.
ClientStep(k) ==
  /\ UNCHANGED vars
  /\ \/ \E q \in Requests[k] : Server!Issue(k, q)
     \/ Server!Get(k)

SetStep(k) ==
  /\ UNCHANGED vars
  /\ \/ Server!GetReturns(k)
     \/ Server!Refuse(k)
     \/ Server!Receive(k)
     \/ \E r \in Resources : Server!WriteConfig(k, r) \/ Server!DeleteConfig(k, r)
     \/ \E p \in Server!LeafPaths : Server!DeleteLeaf(k, p)
     \/ Server!ConfigFails(k)
     \/ Server!ConfigDone(k)
     \/ Server!DeletesDone(k)
     \/ \E r \in Resources : Server!ReadConfig(k, r)
     \/ Server!Rollback(k)
     \/ Server!Reply(k)

\* Set calls HandleConfigEvent with OperationDelete,
CallDelete(k, r) ==
  /\ rpc[k] = "deletes"
  /\ r \in deleteObjects[k]
  /\ Call(k, DeleteOf(r))
  /\ UNCHANGED serverVars

\* or with OperationUpdate and what GetJson returned.
CallUpdate(k) ==
  /\ rpc[k] = "event"
  /\ Call(k, UpdateOf(got[k]))
  /\ UNCHANGED serverVars

\* The call goes on.
CallRuns(k) ==
  /\ Step(k)
  /\ alive'
  /\ pc'[k] # "idle"
  /\ UNCHANGED serverVars

\* The call returns, and Set with it to its loop.
DeleteCallReturns(k) == DeleteState(k) /\ Server!DeleteReturns(k, Target(k))

UpdateCallReturns(k) ==
  /\ CreateTopology(k) \/ FindChild(k) \/ Insert(k) \/ WriteState(k)
  /\ pc'[k] = "idle"
  /\ Server!UpdateReturns(k)

\* Fault: Set does not look at the error.
UpdateCallFailsUnseen(k) == ParseRefused(k) /\ Server!UpdateReturns(k)

\* The call returns an error.
UpdateCallFails(k) == ParseRefused(k) /\ Server!UpdateFails(k)

\* The call panics: the process dies with its RPCs and the configuration cache.
CallPanics(k) ==
  /\ Panic(k)
  /\ Server!DropRpcs
  /\ configCache' = Server!Without(Resources)

ServerRestart == Restart /\ UNCHANGED serverVars

\* What a goroutine that serves an RPC does next.
Serve(k) ==
  \/ SetStep(k)
  \/ \E r \in Resources : CallDelete(k, r)
  \/ CallUpdate(k)
  \/ CallRuns(k)
  \/ DeleteCallReturns(k)
  \/ UpdateCallReturns(k)
  \/ UpdateCallFails(k)
  \/ CallPanics(k)

ServerNext ==
  \/ \E k \in Callers : ClientStep(k) \/ Serve(k)
  \/ ServerRestart

ServerSpec == ServerInit /\ [][ServerNext]_stepVars

-----------------------------------------------------------------------------
(***************************************************************************)
(* The server whose calls do not meet is the server of GnmiSet: whatever   *)
(* the RPCs do between the steps of each other's calls, a call that they   *)
(* can tell from one step is one that works on a resource another call     *)
(* works on (Set, and HandleConfigEvent of root.go and topology.go).       *)
(***************************************************************************)
ImplementsServer == Server!SetSpec
=============================================================================
