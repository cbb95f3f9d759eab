----------------------------- MODULE MCGnmiSet -----------------------------
(***************************************************************************)
(* Small instances of GnmiSet: one topology with nodes n1 and n2 and a     *)
(* link l1 between them.  The sets of requests name who sends them.        *)
(***************************************************************************)
EXTENDS GnmiSet

CONSTANTS n1, n2, l1, e1, k1, p1, c1, c2, c3

TopoConf(admin) == [admin |-> admin, kind |-> [k \in Kinds |-> Nil], defaults |-> Nil]
NodeConf(admin) == [admin |-> admin, kind |-> Nil, platform |-> Nil]
Side(n) == [node |-> n, interface |-> e1, lagName |-> Nil]
LinkConf(admin) == [admin |-> admin, lag |-> FALSE, endpoints |-> <<Side(n1), Side(n2)>>]

\* A leaf delete leaves a resource without admin state.
Admins == {"enable", "disable", Nil}
MCTopologies == {TopoConf(a) : a \in Admins}
MCNodes == {NodeConf(a) : a \in Admins}
MCLinks == {LinkConf(a) : a \in Admins}

Nothing == [r \in {} |-> NoData]
Write(w) == [write |-> w, delete |-> {}, leaf |-> {}, bad |-> FALSE]
Delete(S) == [Write(Nothing) EXCEPT !.delete = S]
Leaf(r) == [Write(Nothing) EXCEPT !.leaf = {<<r, "admin">>}]
One(r, c) == [s \in {r} |-> c]

TopologyWrites == {Write(One(Topology, TopoConf(a))) : a \in {"enable", "disable"}}
NodeWrites == {Write(One(n1, NodeConf(a))) : a \in {"enable", "disable"}}
                \cup {Write(One(n2, NodeConf("enable")))}
LinkWrites == {Write(One(l1, LinkConf("enable")))}

\* What the controllers send, one after the other, and a Set of both nodes.
ControllerRequests ==
  TopologyWrites \cup NodeWrites \cup LinkWrites
    \cup {Delete({r}) : r \in {Topology, n1, l1}}
    \cup {Write([n \in {n1, n2} |-> NodeConf("enable")])}

\* ... while others only take up permits, with their Gets.
SerialRequests == [k \in Clients |-> IF k = c1 THEN ControllerRequests ELSE {}]

\* A link whose endpoints are the same interface, and what is left of it.
LoopConf(a) == [admin |-> a, lag |-> FALSE, endpoints |-> <<Side(n1), Side(n1)>>]
EndConf(a) == [LoopConf(a) EXCEPT !.endpoints = <<Side(n1)>>]
RawLinks == {LoopConf(a) : a \in Admins} \cup {EndConf(a) : a \in Admins}

\* Anything else two gNMI clients may send.
RawRequests ==
  [k \in Clients |->
     CASE k = c1 -> {Write(One(Topology, TopoConf("enable"))),
                     Write([r \in {n1, l1} |-> IF r = n1 THEN NodeConf("enable")
                                                         ELSE LoopConf("enable")])}
       [] k = c2 -> {Write(Nothing), Leaf(n1), Delete({Topology}),
                     [Write(One(n1, NodeConf("enable"))) EXCEPT !.bad = TRUE]}]

\* The names: all different, or a node and a link of the same name.
OwnNames == [r \in Resources |-> r]
SharedName == [r \in Resources |-> IF r = l1 THEN n1 ELSE r]
=============================================================================
