-------------------------- MODULE MigrationLedger --------------------------
(***************************************************************************)
(* What the migrations promise whoever starts them, and however often:     *)
(* each script takes effect once, in the order of the names, together with *)
(* the row that says so.                                                   *)
(***************************************************************************)
EXTENDS Naturals, Sequences

CONSTANT N      \* how many there are

VARIABLES
    effects,    \* the scripts that have taken effect, in that order
    recorded    \* the versions in schema_migrations

vars == <<effects, recorded>>

Init == effects = <<>> /\ recorded = {}

Apply ==
    /\ Len(effects) < N
    /\ effects' = Append(effects, Len(effects) + 1)
    /\ recorded' = recorded \cup {Len(effects) + 1}

Spec == Init /\ [][Apply]_vars
=============================================================================
