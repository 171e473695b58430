----------------------------- MODULE MCConsole -----------------------------
(* An instance of Console for TLC: two requests on one device. *)
EXTENDS Console

CONSTANTS r1, r2, t1, d1, plain, infrared, n1, x, y
=============================================================================
