------------------------------- MODULE MCSetup -------------------------------
(***************************************************************************)
(* Model-checking instance of Setup.                                       *)
(***************************************************************************)
EXTENDS Setup, TLC

CONSTANTS t1, t2, a1, a2, q1, q2, c1, c2, x1, x2, fill, tool

\* The back-fills of the requests share one slot; a tool call has the other.
OneSlot == [q \in Req |-> fill]

Symmetry == Permutations(Token) \cup Permutations(Sid) \cup Permutations(Req) \cup Permutations(Client)
=============================================================================
