---------------------------- MODULE CommandAudit ----------------------------
(***************************************************************************)
(* What the audit of publish commands promises.  A command is recorded     *)
(* before it can reach a subscriber, it reaches them at most once, and a   *)
(* verdict is final: a command is delivered only while it is pending, so   *)
(* one that is on record as failed was not delivered and never will be.    *)
(***************************************************************************)
CONSTANT Commands

VARIABLES
    row,       \* the status of each command in publish_commands
    routed     \* the commands that reached the subscribers

vars == <<row, routed>>

Init ==
    /\ row = [p \in Commands |-> "absent"]
    /\ routed = {}

Record(p) ==
    /\ row[p] = "absent"
    /\ row' = [row EXCEPT ![p] = "pending"]
    /\ UNCHANGED routed

Deliver(p) ==
    /\ row[p] = "pending"
    /\ p \notin routed
    /\ routed' = routed \cup {p}
    /\ UNCHANGED row

Settle(p) ==
    /\ row[p] = "pending"
    /\ row' = [row EXCEPT ![p] = "published"]
    /\ UNCHANGED routed

Fail(p) ==
    /\ row[p] = "pending"
    /\ p \notin routed
    /\ row' = [row EXCEPT ![p] = "failed"]
    /\ UNCHANGED routed

Next == \E p \in Commands : Record(p) \/ Deliver(p) \/ Settle(p) \/ Fail(p)

Spec == Init /\ [][Next]_vars
=============================================================================
