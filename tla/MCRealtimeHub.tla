---------------------------- MODULE MCRealtimeHub ---------------------------
(* An instance of RealtimeHub for TLC. *)
EXTENDS RealtimeHub

CONSTANTS h1, h2, p1, p2

\* One publisher publishes again while the other, and the handlers, act.
TwoAndOne == [p \in Publishers |-> IF p = p1 THEN 2 ELSE 1]
=============================================================================
