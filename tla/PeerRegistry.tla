---------------------------- MODULE PeerRegistry ----------------------------
(***************************************************************************)
(* The peers of ChannelRegistry (channel.rs): which MCP sessions of an     *)
(* account a channel event is pushed to. A session registers its peer      *)
(* under its session key when its handshake ends; notify sweeps the map,   *)
(* takes a snapshot of it, sends to every peer of the snapshot with no     *)
(* lock held and afterwards drops the sessions whose send failed.          *)
(*                                                                         *)
(* The transport (rmcp) is the environment: is_transport_closed may report *)
(* a live peer as closed and take it back, and a send may succeed or fail  *)
(* whatever it reports.                                                    *)
(***************************************************************************)
EXTENDS PeerMap

CONSTANT Push   \* tasks that may be inside notify

VARIABLES
    closed,    \* peers whose transport reports closed
    target,    \* the account a notify in flight is for, or None
    todo,      \* the part of its snapshot not yet sent to
    failed     \* the peers of the snapshot whose send failed

pushVars == <<target, todo, failed>>
vars     == <<mapVars, closed, pushVars>>

Init ==
    /\ MapInit
    /\ closed = {}
    /\ target = [n \in Push |-> None]
    /\ todo = [n \in Push |-> {}]
    /\ failed = [n \in Push |-> {}]

-----------------------------------------------------------------------------

\* retain(!is_transport_closed): the account's map without closed peers.
Swept(m) == Without(m, {k \in Key : peers[m][k] \in closed})

\* Mutant of register: a session that is already there keeps its old peer.
registerKeepsOld(p) ==
    LET m == MxidOf(p) IN
    /\ p \notin attached
    /\ attached' = attached \cup {p}
    /\ peers' = [peers EXCEPT ![m] =
                    [Swept(m) EXCEPT ![KeyOf[p]] = IF @ = None THEN p ELSE @]]
    /\ UNCHANGED <<closed, pushVars>>

\* register: sweep the account's map and put the peer under its session key,
\* replacing the peer of an earlier handshake of that session.
register(p) ==
    LET m == MxidOf(p) IN
    /\ p \notin attached
    /\ attached' = attached \cup {p}
    /\ peers' = [peers EXCEPT ![m] = [Swept(m) EXCEPT ![KeyOf[p]] = p]]
    /\ UNCHANGED <<closed, pushVars>>

\* notify, under the write lock: sweep, and return at once when nobody is left;
\* otherwise take the snapshot to send to.
notify(n, m) ==
    LET live == Entries(m) \ closed IN
    /\ target[n] = None
    /\ peers' = [peers EXCEPT ![m] = Swept(m)]
    /\ todo' = [todo EXCEPT ![n] = live]
    /\ target' = [target EXCEPT ![n] = IF live = {} THEN None ELSE m]
    /\ UNCHANGED <<attached, closed, failed>>

\* One send_notification of the snapshot resolves, or ...
SendOk(n, p) ==
    /\ p \in todo[n]
    /\ todo' = [todo EXCEPT ![n] = @ \ {p}]
    /\ UNCHANGED <<mapVars, closed, target, failed>>

\* ... fails.
SendErr(n, p) ==
    /\ p \in todo[n]
    /\ todo' = [todo EXCEPT ![n] = @ \ {p}]
    /\ failed' = [failed EXCEPT ![n] = @ \cup {p}]
    /\ UNCHANGED <<mapVars, closed, target>>

\* Mutant of NotifyEnd: the list of failures survives into the next push.
NotifyEndKeepsFailed(n) ==
    LET m == target[n]
        gone == {KeyOf[p] : p \in failed[n]} IN
    /\ m # None
    /\ todo[n] = {}
    /\ peers' = [peers EXCEPT ![m] =
                    [k \in Key |-> IF k \in gone THEN None ELSE Swept(m)[k]]]
    /\ target' = [target EXCEPT ![n] = None]
    /\ UNCHANGED <<attached, closed, todo, failed>>

\* Mutant of NotifyEnd: a failed send costs the account all its sessions.
NotifyEndDropsAll(n) ==
    LET m == target[n] IN
    /\ m # None
    /\ todo[n] = {}
    /\ peers' = IF failed[n] = {} THEN peers
                ELSE [peers EXCEPT ![m] = [k \in Key |-> None]]
    /\ target' = [target EXCEPT ![n] = None]
    /\ failed' = [failed EXCEPT ![n] = {}]
    /\ UNCHANGED <<attached, closed, todo>>

\* notify, under the write lock again when a send failed: remove the failed
\* sessions by key, then sweep. Without a failure it just returns.
NotifyEnd(n) ==
    LET m == target[n]
        gone == {KeyOf[p] : p \in failed[n]} IN
    /\ m # None
    /\ todo[n] = {}
    /\ peers' = IF gone = {} THEN peers
                ELSE [peers EXCEPT ![m] =
                        [k \in Key |-> IF k \in gone THEN None ELSE Swept(m)[k]]]
    /\ target' = [target EXCEPT ![n] = None]
    /\ failed' = [failed EXCEPT ![n] = {}]
    /\ UNCHANGED <<attached, closed, todo>>

\* is_transport_closed starts to answer true, rightly or not ...
ReportsClosed(p) ==
    /\ p \in attached \ closed
    /\ closed' = closed \cup {p}
    /\ UNCHANGED <<mapVars, pushVars>>

\* ... or false again: the earlier answer was a false positive.
ReportsOpen(p) ==
    /\ p \in closed
    /\ closed' = closed \ {p}
    /\ UNCHANGED <<mapVars, pushVars>>

-----------------------------------------------------------------------------

Next ==
    \/ \E p \in Peer : register(p) \/ ReportsClosed(p) \/ ReportsOpen(p)
    \/ \E n \in Push, m \in Mxid : notify(n, m)
    \/ \E n \in Push, p \in Peer : SendOk(n, p) \/ SendErr(n, p)
    \/ \E n \in Push : NotifyEnd(n)

Spec == Init /\ [][Next]_vars

-----------------------------------------------------------------------------
(* Properties *)

\* Types; a peer is where its handshake put it, and every peer a push still has
\* to deal with did shake hands with the push's account.
TypeOK ==
    /\ peers \in [Mxid -> [Key -> Peer \cup {None}]]
    /\ attached \subseteq Peer
    /\ closed \subseteq attached
    /\ target \in [Push -> Mxid \cup {None}]
    /\ todo \in [Push -> SUBSET attached]
    /\ failed \in [Push -> SUBSET attached]
    /\ \A m \in Mxid, k \in Key :
          peers[m][k] # None => /\ peers[m][k] \in attached
                                /\ KeyOf[peers[m][k]] = k
                                /\ OwnerOf[k] = m
    /\ \A n \in Push : \A p \in todo[n] \cup failed[n] : MxidOf(p) = target[n]

\* The module doc: a replayed handshake "replaces its own entry instead of
\* accumulating a second one". register and notify, with any number of pushes
\* holding snapshots of older maps, implement PeerMap: no push ever brings a
\* replaced or dropped peer back.
ImplementsPeerMap == MapSpec

\* live_peers: "Eviction belongs in notify, where a send has actually failed and
\* the evidence is real". A peer that leaves the map, other than to a newer
\* handshake of its own session, reported a closed transport or had a send of
\* its own fail.
EvictionHasEvidence ==
    [][\A m \in Mxid : \A p \in Entries(m) : p \notin Entries(m)'
          => \/ p \in closed
             \/ \E n \in Push : p \in failed[n]
             \/ peers'[m][KeyOf[p]] # None]_vars

\* What does hold of that sentence, whatever pushes overlap: the evidence is the
\* session's, not the handshake's. A peer that leaves the map, other than to a
\* newer handshake of its session, reported a closed transport, or the push
\* that ends had a send fail to it or to an earlier handshake of its own
\* session. No failure of another session, account or push costs it its entry.
EvictionFollowsFailure ==
    [][\A m \in Mxid : \A p \in Entries(m) : p \notin Entries(m)'
          => \/ p \in closed
             \/ peers'[m][KeyOf[p]] # None
             \/ \E n \in Push : /\ target[n] = m /\ target'[n] = None
                               /\ \E q \in failed[n] : KeyOf[q] = KeyOf[p]]_vars
=============================================================================
