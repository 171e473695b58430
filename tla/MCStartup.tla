----------------------------- MODULE MCStartup -----------------------------
(* An instance of Startup for TLC: two servers and the command, at once. *)
EXTENDS Startup

CONSTANTS s1, s2, m1, d1
=============================================================================
