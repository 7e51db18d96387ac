------------------------------ MODULE MCGoConn ------------------------------
(* Small instances of GoConn for TLC. *)
EXTENDS GoConn, TLC

CONSTANT k1, k2

(* An application kick without a code of its own, and a shutdown. *)
KickCodes == [k \in Kickers |-> IF k = k1 THEN 0 ELSE 1001]

ProducerSymmetry == Permutations(Producers)

=============================================================================
