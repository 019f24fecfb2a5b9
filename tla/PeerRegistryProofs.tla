------------------------- MODULE PeerRegistryProofs -------------------------
(***************************************************************************)
(* Proofs about PeerRegistry, for any number of accounts, sessions,        *)
(* handshakes and overlapping pushes: the types, that register and notify  *)
(* implement PeerMap, and what it takes for a session to be dropped.       *)
(***************************************************************************)
EXTENDS PeerRegistry, TLAPS

LEMMA InitType == Init => TypeOK
  BY PeerAssumption DEF Init, MapInit, TypeOK

\* The account of a handshake is an account.
LEMMA OwnerType == \A p \in Peer : MxidOf(p) \in Mxid
  BY PeerAssumption DEF MxidOf

\* Sweeping an account's map drops peers and moves none.
LEMMA SweptType ==
  ASSUME TypeOK, NEW m \in Mxid
  PROVE  /\ Swept(m) \in [Key -> Peer \cup {None}]
         /\ \A k \in Key : Swept(m)[k] # None => Swept(m)[k] = peers[m][k]
  BY DEF TypeOK, Swept, Without

\* One step of register, notify or the transport keeps the types.
LEMMA NextType == TypeOK /\ [Next]_vars => TypeOK'
<1> SUFFICES ASSUME TypeOK, [Next]_vars PROVE TypeOK'
  OBVIOUS
<1> USE PeerAssumption
<1>1. ASSUME NEW p \in Peer, register(p) PROVE TypeOK'
  <2> DEFINE m == MxidOf(p)
  <2>1. m \in Mxid /\ KeyOf[p] \in Key /\ p # None
    BY OwnerType
  <2>2. peers' = [peers EXCEPT ![m] = [Swept(m) EXCEPT ![KeyOf[p]] = p]]
    BY <1>1 DEF register
  <2>3. /\ Swept(m) \in [Key -> Peer \cup {None}]
        /\ \A k \in Key : Swept(m)[k] # None => Swept(m)[k] = peers[m][k]
    BY <2>1, SweptType
  <2>4. peers' \in [Mxid -> [Key -> Peer \cup {None}]]
    BY <2>1, <2>2, <2>3 DEF TypeOK
  <2>5. \A n \in Mxid, k \in Key :
          peers'[n][k] # None => /\ peers'[n][k] \in attached'
                                 /\ KeyOf[peers'[n][k]] = k
                                 /\ OwnerOf[k] = n
    BY <1>1, <2>1, <2>2, <2>3 DEF TypeOK, register, MxidOf
  <2> QED
    BY <1>1, <2>4, <2>5 DEF TypeOK, register, pushVars
<1>2. ASSUME NEW n \in Push, NEW m \in Mxid, notify(n, m) PROVE TypeOK'
  <2>1. peers' = [peers EXCEPT ![m] = Swept(m)]
    BY <1>2 DEF notify
  <2>2. /\ peers' \in [Mxid -> [Key -> Peer \cup {None}]]
        /\ \A a \in Mxid, k \in Key :
             peers'[a][k] # None => /\ peers'[a][k] \in attached
                                    /\ KeyOf[peers'[a][k]] = k
                                    /\ OwnerOf[k] = a
    BY <2>1, SweptType DEF TypeOK
  <2>3. \A p \in Entries(m) : p \in attached /\ MxidOf(p) = m
    BY DEF Entries, TypeOK, MxidOf
  <2>4. failed[n] = {}
    BY <1>2, OwnerType DEF TypeOK, notify
  <2>5. \A a \in Push : \A p \in todo'[a] \cup failed'[a] : MxidOf(p) = target'[a]
    BY <1>2, <2>3, <2>4 DEF TypeOK, notify
  <2> QED
    BY <1>2, <2>2, <2>3, <2>5 DEF TypeOK, notify
<1>3. ASSUME NEW n \in Push, NEW p \in Peer, SendOk(n, p) \/ SendErr(n, p) PROVE TypeOK'
  <2>1. UNCHANGED <<peers, attached, closed, target>>
    BY <1>3 DEF SendOk, SendErr, mapVars
  <2>2. p \in todo[n] /\ todo' = [todo EXCEPT ![n] = @ \ {p}]
    BY <1>3 DEF SendOk, SendErr
  <2>3. failed' = failed \/ failed' = [failed EXCEPT ![n] = @ \cup {p}]
    BY <1>3 DEF SendOk, SendErr
  <2>4. todo' \in [Push -> SUBSET attached] /\ failed' \in [Push -> SUBSET attached]
    BY <2>2, <2>3 DEF TypeOK
  <2>5. \A a \in Push : \A q \in todo'[a] \cup failed'[a] : q \in todo[a] \cup failed[a]
    BY <2>2, <2>3 DEF TypeOK
  <2> QED
    BY <2>1, <2>4, <2>5 DEF TypeOK, MxidOf
<1>4. ASSUME NEW n \in Push, NotifyEnd(n) PROVE TypeOK'
  <2> DEFINE m == target[n]
             gone == {KeyOf[p] : p \in failed[n]}
             kept == [k \in Key |-> IF k \in gone THEN None ELSE Swept(m)[k]]
  <2>1. m \in Mxid
    BY <1>4 DEF NotifyEnd, TypeOK
  <2>2. /\ kept \in [Key -> Peer \cup {None}]
        /\ \A k \in Key : kept[k] # None => kept[k] = peers[m][k]
    BY <2>1, SweptType
  <2>3. peers' = peers \/ peers' = [peers EXCEPT ![m] = kept]
    BY <1>4 DEF NotifyEnd
  <2>4. /\ peers' \in [Mxid -> [Key -> Peer \cup {None}]]
        /\ \A a \in Mxid, k \in Key : peers'[a][k] # None => peers'[a][k] = peers[a][k]
    <3> HIDE DEF m, kept
    <3>1. peers \in [Mxid -> [Key -> Peer \cup {None}]]
      BY DEF TypeOK
    <3>2. CASE peers' = peers
      BY <3>1, <3>2
    <3>3. CASE peers' = [peers EXCEPT ![m] = kept]
      BY <2>1, <2>2, <3>1, <3>3
    <3> QED
      BY <2>3, <3>2, <3>3
  <2>5. /\ todo[n] = {}
        /\ target' = [target EXCEPT ![n] = None]
        /\ failed' = [failed EXCEPT ![n] = {}]
        /\ UNCHANGED <<attached, closed, todo>>
    BY <1>4 DEF NotifyEnd
  <2> QED
    BY <2>4, <2>5 DEF TypeOK, MxidOf
<1>5. ASSUME NEW p \in Peer, ReportsClosed(p) \/ ReportsOpen(p) PROVE TypeOK'
  BY <1>5 DEF TypeOK, ReportsClosed, ReportsOpen, mapVars, pushVars
<1>6. CASE UNCHANGED vars
  BY <1>6 DEF TypeOK, vars, mapVars, pushVars
<1> QED
  BY <1>1, <1>2, <1>3, <1>4, <1>5, <1>6 DEF Next

\* Types, and where a peer is: a peer stays under the key its handshake gave it,
\* and every push works on peers of its own account (register, notify).
THEOREM RegistryTypes == Spec => []TypeOK
  BY InitType, NextType, PTL DEF Spec

\* Sweeping is dropping.
LEMMA SweepDrops ==
  ASSUME NEW m \in Mxid
  PROVE  \E K \in SUBSET Key : Swept(m) = Without(m, K)
  BY DEF Swept

\* Every step of the registry is a step of PeerMap or leaves the map alone.
LEMMA StepRefines == TypeOK /\ [Next]_vars => [MapNext]_mapVars
<1> SUFFICES ASSUME TypeOK, [Next]_vars PROVE [MapNext]_mapVars
  OBVIOUS
<1>1. ASSUME NEW p \in Peer, register(p) PROVE MapNext
  <2>1. PICK K \in SUBSET Key : Swept(MxidOf(p)) = Without(MxidOf(p), K)
    BY OwnerType, SweepDrops
  <2>2. Attach(p)
    BY <1>1, <2>1 DEF register, Attach
  <2> QED
    BY <2>2 DEF MapNext
<1>2. ASSUME NEW n \in Push, NEW m \in Mxid, notify(n, m) PROVE MapNext
  BY <1>2, SweepDrops DEF notify, Lose, MapNext
<1>3. ASSUME NEW n \in Push, NotifyEnd(n) PROVE [MapNext]_mapVars
  <2> DEFINE m == target[n]
             gone == {KeyOf[p] : p \in failed[n]}
             K == {k \in Key : k \in gone \/ peers[m][k] \in closed}
  <2>1. m \in Mxid
    BY <1>3 DEF NotifyEnd, TypeOK
  <2>2. [k \in Key |-> IF k \in gone THEN None ELSE Swept(m)[k]] = Without(m, K)
    BY DEF Swept, Without
  <2>3. CASE gone = {}
    BY <1>3, <2>3 DEF NotifyEnd, mapVars
  <2>4. CASE gone # {}
    <3>1. peers' = [peers EXCEPT ![m] = Without(m, K)]
      BY <1>3, <2>2, <2>4 DEF NotifyEnd
    <3>2. K \in SUBSET Key /\ UNCHANGED attached
      BY <1>3 DEF NotifyEnd
    <3>3. Lose(m)
      BY <3>1, <3>2 DEF Lose
    <3> QED
      BY <2>1, <3>3 DEF MapNext
  <2> QED
    BY <2>3, <2>4
<1>4. ASSUME NEW p \in Peer, ReportsClosed(p) \/ ReportsOpen(p) PROVE UNCHANGED mapVars
  BY <1>4 DEF ReportsClosed, ReportsOpen
<1>5. ASSUME NEW n \in Push, NEW p \in Peer, SendOk(n, p) \/ SendErr(n, p)
      PROVE UNCHANGED mapVars
  BY <1>5 DEF SendOk, SendErr
<1>6. CASE UNCHANGED vars
  BY <1>6 DEF vars
<1> QED
  BY <1>1, <1>2, <1>3, <1>4, <1>5, <1>6 DEF Next

\* register and notify implement PeerMap: whatever pushes are in flight, an
\* account's map changes only by a handshake or by losing sessions.
THEOREM Refinement == Spec => ImplementsPeerMap
<1>1. Init => MapInit
  BY DEF Init
<1> QED
  BY <1>1, RegistryTypes, StepRefines, PTL DEF Spec, ImplementsPeerMap, MapSpec

\* What one step takes from an account's map.
Evicts(m, p) ==
    /\ p \in Entries(m) /\ p \notin Entries(m)'
    /\ p \notin closed /\ peers'[m][KeyOf[p]] = None

Ended(n, m, p) ==
    /\ target[n] = m /\ target'[n] = None
    /\ \E q \in failed[n] : KeyOf[q] = KeyOf[p]

\* Only the end of a push takes an open peer from its session.
LEMMA EvictionStep ==
  ASSUME TypeOK, [Next]_vars, NEW m \in Mxid, NEW p \in Peer, Evicts(m, p)
  PROVE  \E n \in Push : Ended(n, m, p)
<1> USE PeerAssumption
<1>1. /\ KeyOf[p] \in Key /\ peers[m][KeyOf[p]] = p /\ p # None /\ p \notin closed
      /\ peers'[m][KeyOf[p]] = None
      /\ peers \in [Mxid -> [Key -> Peer \cup {None}]]
  <2>1. PICK k \in Key : peers[m][k] = p
    BY DEF Evicts, Entries
  <2>2. KeyOf[p] = k
    BY <2>1 DEF TypeOK
  <2> QED
    BY <2>1, <2>2 DEF Evicts, TypeOK
<1> DEFINE k == KeyOf[p]
<1>2. Swept(m)[k] = p
  BY <1>1 DEF Swept, Without
<1>3. ASSUME NEW q \in Peer, register(q) PROVE FALSE
  <2> DEFINE a == MxidOf(q)
             new == [Swept(a) EXCEPT ![KeyOf[q]] = q]
  <2>1. a \in Mxid /\ KeyOf[q] \in Key /\ q # None
    BY OwnerType
  <2>2. peers' = [peers EXCEPT ![a] = new]
    BY <1>3 DEF register
  <2>3. m = a
    BY <1>1, <2>1, <2>2
  <2>4. new[k] = IF k = KeyOf[q] THEN q ELSE p
    BY <1>1, <1>2, <2>1, <2>3, SweptType
  <2> QED
    BY <1>1, <2>1, <2>2, <2>3, <2>4
<1>4. ASSUME NEW n \in Push, NEW a \in Mxid, notify(n, a) PROVE FALSE
  <2>1. peers' = [peers EXCEPT ![a] = Swept(a)]
    BY <1>4 DEF notify
  <2> QED
    BY <1>1, <1>2, <2>1
<1>5. ASSUME NEW n \in Push, NotifyEnd(n) PROVE Ended(n, m, p)
  <2> DEFINE a == target[n]
             gone == {KeyOf[q] : q \in failed[n]}
             kept == [j \in Key |-> IF j \in gone THEN None ELSE Swept(a)[j]]
  <2>1. /\ a \in Mxid /\ target'[n] = None
        /\ peers' = peers \/ peers' = [peers EXCEPT ![a] = kept]
    BY <1>5 DEF NotifyEnd, TypeOK
  <2>2. m = a /\ kept[k] = None
    BY <1>1, <2>1
  <2>3. k \in gone
    BY <1>1, <1>2, <2>2
  <2> QED
    BY <2>1, <2>2, <2>3 DEF Ended
<1>6. ASSUME NEW q \in Peer, ReportsClosed(q) \/ ReportsOpen(q) PROVE peers' = peers
  BY <1>6 DEF ReportsClosed, ReportsOpen, mapVars
<1>7. ASSUME NEW n \in Push, NEW q \in Peer, SendOk(n, q) \/ SendErr(n, q)
      PROVE  peers' = peers
  BY <1>7 DEF SendOk, SendErr, mapVars
<1>8. CASE UNCHANGED vars
  BY <1>1, <1>8 DEF vars, mapVars
<1> QED
  BY <1>1, <1>3, <1>4, <1>5, <1>6, <1>7, <1>8 DEF Next

\* Whatever pushes overlap, an open session loses its entry only to a send of
\* the ending push that failed to it, or to an earlier handshake of it (notify).
THEOREM EvictionsHaveCause == Spec => EvictionFollowsFailure
<1> DEFINE Follows ==
      \A m \in Mxid : \A p \in Entries(m) : p \notin Entries(m)'
          => \/ p \in closed
             \/ peers'[m][KeyOf[p]] # None
             \/ \E n \in Push : /\ target[n] = m /\ target'[n] = None
                               /\ \E q \in failed[n] : KeyOf[q] = KeyOf[p]
<1>1. TypeOK /\ [Next]_vars => Follows
  <2> SUFFICES ASSUME TypeOK, [Next]_vars, NEW m \in Mxid, NEW p \in Entries(m),
                      p \notin Entries(m)', p \notin closed, peers'[m][KeyOf[p]] = None
               PROVE  \E n \in Push : Ended(n, m, p)
    BY DEF Ended
  <2>1. p \in Peer
    BY DEF Entries
  <2> QED
    BY <2>1, EvictionStep DEF Evicts
<1>2. TypeOK /\ [Next]_vars => [Follows]_vars
  BY <1>1
<1> QED
  BY <1>2, RegistryTypes, PTL DEF Spec, EvictionFollowsFailure
=============================================================================
