----------------------------- MODULE MCListing -----------------------------
(* An instance of Listing for TLC: three rows, read one or two at once. *)
EXTENDS Listing

CONSTANTS a, b, c
Symmetry == Permutations(Rows)
=============================================================================
