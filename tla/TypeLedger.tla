----------------------------- MODULE TypeLedger -----------------------------
(***************************************************************************)
(* What the history of device types promises: a change of type and its     *)
(* entry are one step, and an entry's old type is the one that the device  *)
(* had, so that the entries of a device form a chain that ends in its type.*)
(***************************************************************************)
EXTENDS Sequences

CONSTANTS Devices, Types

VARIABLES
    type,      \* the type of each device
    ledger     \* the entries, in the order in which they were made

vars == <<type, ledger>>

Init ==
    /\ type \in [Devices -> Types]
    /\ ledger = <<>>

Change(d, new) ==
    /\ type' = [type EXCEPT ![d] = new]
    /\ ledger' = Append(ledger, [device |-> d, old |-> type[d], new |-> new])

Next == \E d \in Devices, new \in Types : Change(d, new)

Spec == Init /\ [][Next]_vars
=============================================================================
