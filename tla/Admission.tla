------------------------------ MODULE Admission ------------------------------
(***************************************************************************)
(* What the two semaphores of the gNMI server promise those who call it    *)
(* (unaryRPCsem, subscribeRPCsem): at most Limit are served at a time, and *)
(* a caller is turned away only when that many are. Nobody waits.          *)
(***************************************************************************)
EXTENDS Naturals, FiniteSets

CONSTANTS
  Callers,
  Limit

VARIABLE
  place  \* where every caller is

Inside == {k \in Callers : place[k] = "inside"}

\* A caller may ask from the start.
Init == place \in [Callers -> {"outside", "asking"}]

Move(k, from, to) ==
  /\ place[k] = from
  /\ place' = [place EXCEPT ![k] = to]

\* Who leaves may ask again at once.
Ask(k) == Move(k, "outside", "asking") \/ Move(k, "inside", "asking")

\* ... and who asks may be admitted at once.
Admit(k) ==
  /\ Cardinality(Inside) < Limit
  /\ Move(k, "asking", "inside") \/ Move(k, "outside", "inside")

Refuse(k) == Cardinality(Inside) = Limit /\ Move(k, "asking", "outside")

Leave(k) == Move(k, "inside", "outside")

\* The process dies: nobody is served any more.
Crash == place' = [k \in Callers |-> "outside"]

Next ==
  \/ \E k \in Callers : Ask(k) \/ Admit(k) \/ Refuse(k) \/ Leave(k)
  \/ Crash

Spec == Init /\ [][Next]_place
=============================================================================
