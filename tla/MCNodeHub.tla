----------------------------- MODULE MCNodeHub -----------------------------
(* NodeHub on small instances. *)
EXTENDS NodeHub, TLC

ConnSymmetry == Permutations(Conns)

=============================================================================
