--------------------------- MODULE MCClientCache ---------------------------
(***************************************************************************)
(* Model-checking instances of ClientCache.                                *)
(***************************************************************************)
EXTENDS ClientCache, TLC

CONSTANTS u1, u2, r1, r2, r3, b1, b2, c1, c2, c3, c4

\* Requests of one account, one connection with one token.
OneUser  == [r \in Req |-> u1]
OneToken == [r \in Req |-> b1]

\* Two connections: the second one presents a newer token of the same account.
TwoTokens == [r \in Req |-> IF r = r1 THEN b1 ELSE b2]

\* Two accounts.
TwoUsers == [r \in Req |-> IF r = r1 THEN u1 ELSE u2]

\* Only the request slots: FreshCell tells the cells apart.
Symmetry == Permutations(Req)
=============================================================================
