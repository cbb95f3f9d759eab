---------------------------- MODULE MCServerSteps ----------------------------
(***************************************************************************)
(* A small instance of ServerSteps: one client that enables, disables and  *)
(* deletes the topology, and one that writes and deletes a node and a link *)
(* that loops on it.                                                       *)
(***************************************************************************)
EXTENDS ServerSteps, TLC

CONSTANTS n1, l1, e1, e2, k1, p1, c1, c2

Admins == {"enable", "disable", Nil}
TopoConf(a) == [admin |-> a, kind |-> [k \in Kinds |-> Nil], defaults |-> Nil]
NodeConf(a) == [admin |-> a, kind |-> Nil, platform |-> Nil]

\* A link in a lag; each end has the other's interface name for its lag.
Side(e, lag) == [node |-> n1, interface |-> e, lagName |-> lag]
LinkConf(a) == [admin |-> a, lag |-> TRUE, endpoints |-> <<Side(e1, e2), Side(e2, e1)>>]

MCTopologies == {TopoConf(a) : a \in Admins}
MCNodes == {NodeConf(a) : a \in {"enable", Nil}}
MCLinks == {LinkConf(a) : a \in {"enable", Nil}}

One(r, c) == [s \in {r} |-> c]
Write(w) == [write |-> w, delete |-> {}, leaf |-> {}, bad |-> FALSE]
Delete(r) == [Write([s \in {} |-> NoData]) EXCEPT !.delete = {r}]

SetTopology(a) == Write(One(Topology, TopoConf(a)))
SetNode == Write(One(n1, NodeConf("enable")))
SetLinkInstead == [Write(One(l1, LinkConf("enable"))) EXCEPT !.delete = {n1}]

MCRequests ==
  [k \in Callers |->
     CASE k = c1 -> {SetTopology("enable"), SetTopology("disable"), Delete(Topology)}
       [] k = c2 -> {SetNode, SetLinkInstead}]

OwnNames == [r \in Resources |-> r]
=============================================================================
