--------------------------- MODULE MCHandlerSteps ---------------------------
(***************************************************************************)
(* A small instance of HandlerSteps: two callers, a topology that is       *)
(* disabled while a node on it is configured.                              *)
(***************************************************************************)
EXTENDS HandlerSteps, TLC

CONSTANTS n1, e1, e2, k1, p1, c1, c2

Update(r, c) == [operation |-> "update", resource |-> r, config |-> c, kids |-> {}]

TopologyConf(a) ==
  [admin |-> a, kind |-> [k \in Kinds |-> Nil], defaults |-> Nil]
NodeConf == [admin |-> "enable", kind |-> Nil, platform |-> Nil]

\* A topology that is disabled while a node is configured.
RaceEvents ==
  {Update(Topology, TopologyConf(a)) : a \in {"enable", "disable"}}
    \cup {Update(n1, NodeConf)}
=============================================================================
