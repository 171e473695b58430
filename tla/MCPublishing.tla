---------------------------- MODULE MCPublishing ----------------------------
(* An instance of Publishing for TLC: a command of each QoS. *)
EXTENDS Publishing

CONSTANTS p1, p2
=============================================================================
