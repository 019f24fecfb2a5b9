------------------------------ MODULE MCGateway ------------------------------
(* A small instance of Gateway for TLC. *)
EXTENDS Gateway, TLC

CONSTANTS r1, r2, t1, t2, s1, s2

Symmetry == Permutations(Req) \cup Permutations(Session)

==============================================================================
