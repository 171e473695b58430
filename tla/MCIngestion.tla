---------------------------- MODULE MCIngestion ----------------------------
(* Instances of Ingestion for TLC. *)
EXTENDS Ingestion, TLC

CONSTANTS c1, c2, c3, d1, d2, f1

\* Connections that present the same client id, and so contend for its row.
Rivals      == (c1 :> d1) @@ (c2 :> d1)
ThreeRivals == Rivals @@ (c3 :> d1)
Symmetry    == Permutations({c1, c2, c3})

\* A connection beside one whose client id is refused.
AndMalformed == (c1 :> d1) @@ (c3 :> d2)

\* The second packet of a connection is of QoS 0, the others of QoS 1; from the
\* third on the payload is refused.  Or all are of QoS 1.
EachQoS     == {p \in Packets : p[2] # 2}
Refused     == {p \in Packets : p[2] > 2}
AllPackets  == Packets
=============================================================================
