-------------------------- MODULE MCPeerRegistry --------------------------
(***************************************************************************)
(* Model-checking instances of PeerRegistry.                               *)
(***************************************************************************)
EXTENDS PeerRegistry, TLC

CONSTANTS m1, m2, k1, k2, k3, p1, p2, p3, p4, n1, n2

\* The first session shakes hands twice, the second once, both of one account;
\* the third session is another account's.
Handshakes == [p \in Peer |-> IF p \in {p1, p2} THEN k1 ELSE IF p = p3 THEN k2 ELSE k3]
Owners     == [k \in Key |-> IF k = k3 THEN m2 ELSE m1]

Symmetry == Permutations(Push)
=============================================================================
