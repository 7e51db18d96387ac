------------------------------ MODULE MCGoHub ------------------------------
(* Small instances of GoHub for TLC. *)
EXTENDS GoHub, FiniteSets, TLC

(* Enough addresses that newRoom always finds one: each goroutine of each   *)
(* connection can hold on to one dead room while another one is mapped.     *)
ASSUME EnoughIncs == Cardinality(Incs) > 2 * Cardinality(Conns)

OneShard == [r \in Rooms |-> CHOOSE s \in Shards : TRUE]

ConnSymmetry == Permutations(Conns)

=============================================================================
