-------------------------- MODULE MCConnectLimiter --------------------------
(* An instance of ConnectLimiter for TLC: five calls, one of them from *)
(* another address.                                                    *)
EXTENDS ConnectLimiter, TLC

CONSTANTS c1, c2, c3, c4, c5, here, there

MCKeyOf == [c \in {c1, c2, c3, c4} |-> here] @@ (c5 :> there)
Symmetry == Permutations({c1, c2, c3, c4})
=============================================================================
