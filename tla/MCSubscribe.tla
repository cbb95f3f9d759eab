---------------------------- MODULE MCSubscribe ----------------------------
(***************************************************************************)
(* Small instances of Subscribe: one stream over many writes for what it   *)
(* shows, several streams over few slots for the slots.                    *)
(***************************************************************************)
EXTENDS Subscribe

CONSTANTS c1, c2, c3, p1, p2

Ask(mode, updatesOnly, valid, paths, nilPath) ==
  [mode |-> mode, updatesOnly |-> updatesOnly, valid |-> valid,
   paths |-> paths, nilPath |-> nilPath]

\* Every kind of request, for the slots.
AllRequests ==
  {Ask("once", FALSE, TRUE, {p1}, FALSE), Ask("poll", FALSE, TRUE, {p1}, FALSE),
   Ask("unknown", FALSE, TRUE, {p1}, FALSE),
   Ask("stream", FALSE, TRUE, {p1}, FALSE), Ask("stream", FALSE, FALSE, {p1}, FALSE),
   Ask("stream", TRUE, TRUE, {p1}, FALSE)}

\* Streams that ask for the values, with and without leaves they do not follow.
FullRequests ==
  {Ask("stream", FALSE, valid, {p1, p2}, FALSE) : valid \in BOOLEAN}
    \cup {Ask("stream", FALSE, TRUE, {p1}, TRUE)}
=============================================================================
