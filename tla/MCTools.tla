------------------------------- MODULE MCTools -------------------------------
(* Small instances of Tools for TLC. *)
EXTENDS Tools, TLC

CONSTANTS c1, c2, t1, t2, e1, e2

MCQuota == [g \in Category |-> 1]
AllPaths == Paths
Symmetry == Permutations(Call) \cup Permutations(Token)
PinPaths == room_pin_message

==============================================================================
