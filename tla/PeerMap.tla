------------------------------ MODULE PeerMap ------------------------------
(***************************************************************************)
(* What ChannelRegistry (channel.rs) promises about its peers: an account  *)
(* has at most one peer per MCP session, the one of the session's latest   *)
(* handshake, and it may lose it at any time; a peer that has left never   *)
(* comes back. PeerRegistry shows how register and notify do this;         *)
(* PermissionRelay relies on nothing more.                                 *)
(*                                                                         *)
(* A peer is one handshake: a client that replays its handshake comes back *)
(* as another peer with the same session key.                              *)
(***************************************************************************)

CONSTANTS
    Mxid,      \* Matrix accounts
    Key,       \* MCP session keys
    Peer,      \* handshakes
    KeyOf,     \* the session key of a handshake
    OwnerOf,   \* the account a session key authenticates as
    None       \* "no peer" and other absences

ASSUME PeerAssumption ==
    /\ KeyOf \in [Peer -> Key]
    /\ OwnerOf \in [Key -> Mxid]
    /\ None \notin Peer \cup Mxid

VARIABLES
    peers,     \* the peer each account has under each session key, or None
    attached   \* the handshakes that have happened

mapVars == <<peers, attached>>

MxidOf(p) == OwnerOf[KeyOf[p]]

\* The peers of an account.
Entries(m) == {p \in Peer : \E k \in Key : peers[m][k] = p}

\* An account's map without the peers under the keys K.
Without(m, K) == [k \in Key |-> IF k \in K THEN None ELSE peers[m][k]]

MapInit ==
    /\ peers = [m \in Mxid |-> [k \in Key |-> None]]
    /\ attached = {}

\* A handshake puts its peer under its session key; other sessions of the
\* account may be dropped on the way.
Attach(p) ==
    LET m == MxidOf(p) IN
    /\ p \notin attached
    /\ attached' = attached \cup {p}
    /\ \E K \in SUBSET Key :
         peers' = [peers EXCEPT ![m] = [Without(m, K) EXCEPT ![KeyOf[p]] = p]]

\* Sessions of an account are dropped.
Lose(m) ==
    /\ \E K \in SUBSET Key : peers' = [peers EXCEPT ![m] = Without(m, K)]
    /\ UNCHANGED attached

MapNext ==
    \/ \E p \in Peer : Attach(p)
    \/ \E m \in Mxid : Lose(m)

MapSpec == MapInit /\ [][MapNext]_mapVars
=============================================================================
