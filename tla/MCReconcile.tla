---------------------------- MODULE MCReconcile ----------------------------
(***************************************************************************)
(* Small instances of Reconcile: a topology, n1 and what else there is     *)
(* (another node or a link that loops), each with a worker.                *)
(***************************************************************************)
EXTENDS Reconcile

CONSTANTS n1, n2, l1, e1, e2, k1, p1, c1, c2, c3

TopoConf(a, p) == [admin |-> a, kind |-> [k \in Kinds |-> p], defaults |-> Nil]
NodeConf(a, k, p) == [admin |-> a, kind |-> k, platform |-> p]
Side(e) == [node |-> n1, interface |-> e, lagName |-> Nil]
LinkConf(a) == [admin |-> a, lag |-> FALSE, endpoints |-> <<Side(e1), Side(e2)>>]

Admins == {"enable", "disable", Nil}
MCTopologies == {TopoConf(a, p) : a \in Admins, p \in {p1, Nil}}
MCNodes == {NodeConf(a, k, p) : a \in Admins, k \in {k1, Nil}, p \in {p1, Nil}}
MCLinks == {LinkConf(a) : a \in Admins}

OwnerOf == [r \in Resources |-> CASE r = Topology -> c1 [] r = n1 -> c2 [] OTHER -> c3]

\* All that the reconcilers may send.
MCRequests ==
  [k \in Clients |->
     UNION {{CreateRequest(r, c) : c \in Specs(r)}
              \cup {UpdateRequest(r, c, s) : c \in Specs(r), s \in ConfigsOf(r)}
              \cup {DeleteRequest(r)} : r \in {s \in Resources : OwnerOf[s] = k}}]

OwnNames == [r \in Resources |-> r]

\* A node loses its kind, gets a platform and is disabled; another goes.
Changing ==
  [r \in Resources |->
     CASE r = Topology -> <<TopoConf("enable", p1)>>
       [] r = n1 -> <<NodeConf("enable", k1, Nil), NodeConf("disable", Nil, p1)>>
       [] r = n2 -> <<NodeConf("enable", Nil, Nil), NoData>>
       [] r \in Links -> <<>>]

\* A topology, a node and a link, all applied once.
AppliedOnce ==
  [r \in Resources |->
     CASE r = Topology -> <<TopoConf("enable", Nil)>>
       [] r \in Nodes -> <<NodeConf("enable", Nil, Nil)>>
       [] r \in Links -> <<LinkConf("enable")>>]
=============================================================================
