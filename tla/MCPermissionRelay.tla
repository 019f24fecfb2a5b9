------------------------- MODULE MCPermissionRelay -------------------------
(***************************************************************************)
(* Model-checking instances of PermissionRelay.                            *)
(***************************************************************************)
EXTENDS PermissionRelay, TLC

CONSTANTS m1, k1, k2, p1, p2, p3, t1, t2, r1, r2, friend, i1, i2

\* One account with two sessions; the first one's handshake happens twice.
Handshakes == [p \in Peer |-> IF p = p3 THEN k2 ELSE k1]
OneAccount == [k \in Key |-> m1]

\* The friend is allowed and no room is named; or a room is named and nobody is
\* allowed, so that the friend is a stranger.
FriendOnly == [allowed |-> {friend}, room |-> None]
RoomOnly   == [allowed |-> {}, room |-> r1]
Either     == {FriendOnly, RoomOnly}

Symmetry == Permutations(Task)
=============================================================================
