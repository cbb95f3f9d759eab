----------------------------- MODULE MCAppLogic -----------------------------
(***************************************************************************)
(* Small instances of AppLogic.  StatusXxx exercise the status rules over  *)
(* two nodes and a link; LagXxx the endpoint lists of two nodes that share *)
(* a plain link and a lag.                                                 *)
(***************************************************************************)
EXTENDS AppLogic

CONSTANTS n1, n2, l1, l2, e1, e2, k1, p1, p2

NoKind == [k \in Kinds |-> Nil]

Admins == {"enable", "disable", Nil}
TopoConfig(admin, kind, defaults) ==
  [admin |-> admin, kind |-> kind, defaults |-> defaults]
NodeConf(admin, kind, platform) ==
  [admin |-> admin, kind |-> kind, platform |-> platform]
End(n, e, lag) == [node |-> n, interface |-> e, lagName |-> lag]
LinkConf(admin, lag, ends) == [admin |-> admin, lag |-> lag, endpoints |-> ends]

\* The status rules: every admin state of the topology and its nodes, and a
\* link that is enabled, disabled or without endpoints.
StatusTopologies == {TopoConfig(a, NoKind, Nil) : a \in Admins}
StatusNodes == {NodeConf(a, Nil, Nil) : a \in Admins}
StatusLinks ==
  {LinkConf(a, FALSE, <<End(n1, e1, Nil), End(n2, e1, Nil)>>) :
     a \in Admins \ {Nil}}
    \cup {LinkConf("enable", FALSE, <<>>)}

\* The endpoint lists: two links, in and out of a lag, one looped to a node.
LagTopologies == {TopoConfig("enable", [k \in Kinds |-> p1], p2)}
LagNodes == {NodeConf("enable", k1, Nil)}
LagLinks ==
  {LinkConf("enable", FALSE, <<End(n1, e1, Nil), End(n2, e2, Nil)>>),
   LinkConf("enable", TRUE, <<End(n1, e1, e2), End(n2, e1, e2)>>),
   LinkConf("enable", TRUE, <<End(n1, e1, e2), End(n1, e2, e1)>>)}
=============================================================================
