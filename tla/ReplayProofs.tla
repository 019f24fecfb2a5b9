---------------------------- MODULE ReplayProofs ----------------------------
(***************************************************************************)
(* Proofs about Replay, for any rooms, sessions, backlogs and caps: what   *)
(* supersede_edits keeps and the budget cuts off, for every window; the    *)
(* types, of which the budget is the hard one; that the passes of an       *)
(* account do not overlap and give a room's events oldest first; that a    *)
(* pass hands over what it owes, and nothing else, or says that it does    *)
(* not; and that the caps bound its steps.                                 *)
(***************************************************************************)
EXTENDS Replay, TLAPS, FiniteSetTheorems, WellFoundedInduction

-----------------------------------------------------------------------------
(* Least and extreme elements of finite sets *)

LEMMA LeastNat ==
  ASSUME NEW N, N \subseteq Nat, N # {}
  PROVE  \E n \in N : \A m \in N : n <= m
<1> DEFINE Less == OpToRel(<, Nat)
<1>1. Less = {e \in Nat \X Nat : e[1] < e[2]}
  BY Zenon DEF OpToRel
<1>2. IsWellFoundedOn(Less, Nat)
  BY NatLessThanWellFounded, Zenon
<1> HIDE DEF Less
<1>3. PICK n \in N : \A m \in N : ~(<<m, n>> \in Less)
  BY <1>2, WFMin, Zenon
<1>4. ASSUME NEW m \in N PROVE n <= m
  <2>1. m \in Nat /\ n \in Nat /\ <<m, n>> \notin Less
    BY <1>3
  <2>2. ~(m < n)
    BY <1>1, <2>1
  <2> QED
    BY <2>1, <2>2
<1> QED
  BY <1>4

\* A strict order on a finite set has an element that nothing is above: the
\* one with the fewest elements above it.
LEMMA Topmost ==
  ASSUME NEW V, IsFiniteSet(V), V # {}, NEW Above \in SUBSET (V \X V),
         \A a \in V : <<a, a>> \notin Above,
         \A a, b, c \in V : <<a, b>> \in Above /\ <<b, c>> \in Above => <<a, c>> \in Above
  PROVE  \E p \in V : \A q \in V : <<q, p>> \notin Above
<1> DEFINE Over(p) == {q \in V : <<q, p>> \in Above}
           N == {Cardinality(Over(p)) : p \in V}
<1>1. \A p \in V : IsFiniteSet(Over(p)) /\ Cardinality(Over(p)) \in Nat
  <2> TAKE p \in V
  <2>1. Over(p) \in SUBSET V
    OBVIOUS
  <2>2. IsFiniteSet(Over(p))
    BY <2>1, FS_Subset, Zenon
  <2> QED
    BY <2>2, FS_CardinalityType, Zenon
<1>2. N \subseteq Nat /\ N # {}
  <2> HIDE DEF Over
  <2> QED
    BY <1>1
<1>3. PICK n \in N : \A m \in N : n <= m
  <2> HIDE DEF N
  <2> QED
    BY <1>2, LeastNat
<1>4. PICK p \in V : \A q \in V : Cardinality(Over(p)) <= Cardinality(Over(q))
  <2> HIDE DEF Over
  <2> QED
    BY <1>3
<1>5. ASSUME NEW q \in V, <<q, p>> \in Above PROVE FALSE
  <2>1. Over(q) \in SUBSET Over(p)
    BY <1>5
  <2>2. q \in Over(p) /\ q \notin Over(q)
    BY <1>5
  <2>3. /\ Cardinality(Over(q)) <= Cardinality(Over(p))
        /\ Cardinality(Over(p)) = Cardinality(Over(q)) => Over(p) = Over(q)
    <3> HIDE DEF Over
    <3> QED
      BY <1>1, <2>1, FS_Subset, Zenon
  <2>4. Cardinality(Over(p)) # Cardinality(Over(q))
    BY <2>2, <2>3, Zenon
  <2> HIDE DEF Over
  <2> QED
    BY <1>1, <1>4, <2>3, <2>4
<1> QED
  BY <1>5

LEMMA Largest ==
  ASSUME NEW F, F \subseteq Nat, IsFiniteSet(F), F # {}
  PROVE  \E m \in F : \A q \in F : q <= m
<1> DEFINE Above == {e \in F \X F : e[1] > e[2]}
<1>1. /\ Above \in SUBSET (F \X F)
      /\ \A a \in F : <<a, a>> \notin Above
      /\ \A a, b, c \in F : <<a, b>> \in Above /\ <<b, c>> \in Above => <<a, c>> \in Above
  OBVIOUS
<1>2. \A a, b \in F : <<a, b>> \in Above <=> a > b
  OBVIOUS
<1>3. PICK p \in F : \A q \in F : <<q, p>> \notin Above
  <2> HIDE DEF Above
  <2> QED
    BY <1>1, Topmost, Zenon
<1>4. ASSUME NEW q \in F PROVE q <= p
  <2>1. q \in Nat /\ p \in Nat
    OBVIOUS
  <2>2. ~(q > p)
    BY <1>2, <1>3, Zenon
  <2> QED
    BY <2>1, <2>2
<1> QED
  BY <1>4

\* The k least elements of S.
Oldest(S, k) == {p \in S : Cardinality({q \in S : q < p}) < k}

LEMMA OldestOf ==
  ASSUME NEW S, S \subseteq Nat, IsFiniteSet(S), NEW k \in Nat
  PROVE  /\ Oldest(S, k) \subseteq S /\ IsFiniteSet(Oldest(S, k))
         /\ Cardinality(Oldest(S, k)) <= k
         /\ \A q \in S \ Oldest(S, k) :
                /\ Cardinality(Oldest(S, k)) = k
                /\ \A p \in Oldest(S, k) : p < q
<1> DEFINE F == Oldest(S, k)
           Under(p) == {q \in S : q < p}
<1>1. F \in SUBSET S
  BY DEF Oldest
<1>2. IsFiniteSet(F)
  BY <1>1, FS_Subset, Zenon
<1>3. \A p \in Nat : IsFiniteSet(Under(p)) /\ Cardinality(Under(p)) \in Nat
  <2> TAKE p \in Nat
  <2>1. Under(p) \in SUBSET S
    OBVIOUS
  <2>2. IsFiniteSet(Under(p))
    BY <2>1, FS_Subset, Zenon
  <2> QED
    BY <2>2, FS_CardinalityType, Zenon
<1>4. \A p \in S : p \in F <=> Cardinality(Under(p)) < k
  BY DEF Oldest
<1>5. ASSUME NEW p \in F, NEW q \in S \ F PROVE p < q
  <2>1. SUFFICES ASSUME ~(p < q) PROVE FALSE
    OBVIOUS
  <2>2. Under(q) \in SUBSET Under(p)
    <3> SUFFICES ASSUME NEW x \in S, x < q PROVE x < p
      OBVIOUS
    <3>1. x \in Nat /\ p \in Nat /\ q \in Nat
      BY <1>1
    <3> QED
      BY <2>1, <3>1
  <2>3. Cardinality(Under(q)) <= Cardinality(Under(p))
    <3> HIDE DEF Under
    <3> QED
      BY <1>1, <1>3, <2>2, FS_Subset, Zenon
  <2>4. p \in S /\ p \in Nat /\ q \in Nat
    BY <1>1
  <2> HIDE DEF Under, F
  <2> QED
    BY <1>3, <1>4, <1>5, <2>3, <2>4
<1>6. Cardinality(F) \in Nat
  BY <1>2, FS_CardinalityType, Zenon
<1>7. Cardinality(F) <= k
  <2>1. CASE F = {}
    <3> HIDE DEF F
    <3> QED
      BY <2>1, FS_EmptySet
  <2>2. CASE F # {}
    <3>1. PICK m \in F : \A q \in F : q <= m
      <4>1. F \subseteq Nat
        BY <1>1
      <4> HIDE DEF F
      <4> QED
        BY <1>2, <2>2, <4>1, Largest
    <3>2. \A q \in S : q < m => q \in F
      <4> SUFFICES ASSUME NEW q \in S, q < m, q \notin F PROVE FALSE
        OBVIOUS
      <4>1. q \in Nat /\ m \in Nat
        BY <1>1
      <4> QED
        BY <1>5, <4>1
    <3>3. Under(m) = F \ {m}
      <4>1. ASSUME NEW q \in F, q # m PROVE q < m
        <5>1. q \in Nat /\ m \in Nat
          BY <1>1
        <5> QED
          BY <3>1, <4>1, <5>1
      <4>2. m \in Nat
        BY <1>1
      <4>3. ~(m < m)
        BY <4>2
      <4> HIDE DEF F
      <4> QED
        BY <1>1, <3>2, <4>1, <4>3
    <3>4. Cardinality(F \ {m}) = Cardinality(F) - 1
      <4> HIDE DEF F
      <4>1. /\ IsFiniteSet(F \ {m})
            /\ Cardinality(F \ {m}) = IF m \in F THEN Cardinality(F) - 1 ELSE Cardinality(F)
        BY <1>2, FS_RemoveElement, Zenon
      <4> QED
        BY <3>1, <4>1
    <3>5. Cardinality(Under(m)) < k
      BY <1>1, <1>4
    <3> HIDE DEF F, Under
    <3> QED
      BY <1>6, <3>3, <3>4, <3>5
  <2> QED
    BY <2>1, <2>2
<1>8. ASSUME NEW q \in S \ F PROVE Cardinality(F) = k
  <2>1. PICK n \in S \ F : \A m \in S \ F : n <= m
    <3>1. S \ F \subseteq Nat /\ S \ F # {}
      BY <1>8
    <3> HIDE DEF F
    <3> QED
      BY <3>1, LeastNat
  <2>2. Under(n) = F
    <3>1. \A p \in S : p < n => p \in F
      BY <2>1
    <3> QED
      BY <1>1, <1>5, <3>1
  <2>3. ~(Cardinality(Under(n)) < k)
    BY <1>4
  <2> HIDE DEF F, Under
  <2> QED
    BY <1>6, <1>7, <2>2, <2>3
<1> HIDE DEF F
<1>9. /\ F \subseteq S /\ IsFiniteSet(F) /\ Cardinality(F) <= k
      /\ \A q \in S \ F : Cardinality(F) = k /\ \A p \in F : p < q
  BY <1>1, <1>2, <1>5, <1>7, <1>8
<1> QED
  BY <1>9 DEF F

-----------------------------------------------------------------------------
(* What supersede_edits keeps *)

LEMMA EventShape ==
  ASSUME NEW e \in Event
  PROVE  e.of \in Nat /\ e.ts \in Nat
<1>1. e \in [from : {"friend", "stranger"}, is : {"prose", "verdict", "caption", "other"},
             of : 0..MaxLen, ts : Nat] /\ MaxLen \in Nat
  BY ReplayAssumption
<1> QED
  BY <1>1

\* Of two edits of a window one is the newer.
LEMMA LaterOrder ==
  ASSUME NEW tl, NEW C, C \subseteq Nat, \A p \in C : tl[p].ts \in Nat
  PROVE  /\ \A a \in C : ~Later(tl, a, a)
         /\ \A a, b \in C : a = b \/ Later(tl, a, b) \/ Later(tl, b, a)
         /\ \A a, b, c \in C : Later(tl, a, b) /\ Later(tl, b, c) => Later(tl, a, c)
<1>1. ASSUME NEW a \in C PROVE ~Later(tl, a, a)
  <2>1. a \in Nat /\ tl[a].ts \in Nat
    OBVIOUS
  <2> QED
    BY <2>1 DEF Later
<1>2. ASSUME NEW a \in C, NEW b \in C PROVE a = b \/ Later(tl, a, b) \/ Later(tl, b, a)
  <2>1. a \in Nat /\ b \in Nat /\ tl[a].ts \in Nat /\ tl[b].ts \in Nat
    OBVIOUS
  <2> QED
    BY <2>1 DEF Later
<1>3. ASSUME NEW a \in C, NEW b \in C, NEW c \in C, Later(tl, a, b), Later(tl, b, c)
      PROVE  Later(tl, a, c)
  <2>1. /\ a \in Nat /\ b \in Nat /\ c \in Nat
        /\ tl[a].ts \in Nat /\ tl[b].ts \in Nat /\ tl[c].ts \in Nat
    OBVIOUS
  <2> QED
    BY <1>3, <2>1 DEF Later
<1> QED
  BY <1>1, <1>2, <1>3

\* An event that is edited has an edit that is kept and newer than all others.
LEMMA Winner ==
  ASSUME NEW tl, NEW C, C \subseteq Nat, IsFiniteSet(C), \A p \in C : tl[p].ts \in Nat,
         NEW t, t # 0, \E q \in C : tl[q].of = t
  PROVE  \E q \in supersede_edits(tl, C) :
            /\ tl[q].of = t
            /\ \A x \in C : tl[x].of = t => x = q \/ Later(tl, q, x)
<1> DEFINE V == {q \in C : tl[q].of = t}
           Above == {e \in V \X V : Later(tl, e[1], e[2])}
<1>1. V # {} /\ V \in SUBSET C
  OBVIOUS
<1>2. IsFiniteSet(V)
  BY <1>1, FS_Subset, Zenon
<1>3. \A a, b \in V : <<a, b>> \in Above <=> Later(tl, a, b)
  OBVIOUS
<1>4. PICK q \in V : \A x \in V : <<x, q>> \notin Above
  <2>1. Above \in SUBSET (V \X V)
    OBVIOUS
  <2>2. /\ \A a \in V : ~Later(tl, a, a)
        /\ \A a, b, c \in V : Later(tl, a, b) /\ Later(tl, b, c) => Later(tl, a, c)
    BY LaterOrder, Zenon
  <2> HIDE DEF Above, V
  <2>3. /\ \A a \in V : <<a, a>> \notin Above
        /\ \A a, b, c \in V : <<a, b>> \in Above /\ <<b, c>> \in Above => <<a, c>> \in Above
    BY <1>3, <2>2, Zenon
  <2> QED
    BY <1>1, <1>2, <2>1, <2>3, Topmost, Zenon
<1>5. q \in C /\ tl[q].of = t
  OBVIOUS
<1>6. \A x \in C : tl[x].of = t => ~Later(tl, x, q)
  BY <1>3, <1>4
<1>7. \A x \in C : tl[x].of = t => x = q \/ Later(tl, q, x)
  BY <1>5, <1>6, LaterOrder, Zenon
<1>8. q \in supersede_edits(tl, C)
  BY <1>5, <1>6 DEF supersede_edits, IsEdit
<1> QED
  BY <1>5, <1>7, <1>8

\* Nothing is lost: what is not kept has a version that is.
LEMMA Represented ==
  ASSUME NEW tl, NEW C, C \subseteq Nat \ {0}, IsFiniteSet(C),
         \A p \in C : tl[p].ts \in Nat /\ tl[p].of \in Nat, NEW p \in C
  PROVE  \E q \in supersede_edits(tl, C) : StandsFor(tl, q, p)
<1>1. CASE IsEdit(tl[p])
  <2>1. PICK q \in supersede_edits(tl, C) :
            /\ tl[q].of = tl[p].of
            /\ \A x \in C : tl[x].of = tl[p].of => x = q \/ Later(tl, q, x)
    <3>1. tl[p].of # 0 /\ \E q \in C : tl[q].of = tl[p].of
      BY <1>1 DEF IsEdit
    <3> QED
      BY <3>1, Winner, Zenon
  <2>2. IsEdit(tl[q])
    BY <1>1, <2>1 DEF IsEdit
  <2> QED
    BY <1>1, <2>1, <2>2 DEF StandsFor
<1>2. CASE ~IsEdit(tl[p]) /\ \E q \in C : tl[q].of = p
  <2>1. PICK q \in supersede_edits(tl, C) : tl[q].of = p
    <3>1. p # 0 /\ C \subseteq Nat /\ (\A x \in C : tl[x].ts \in Nat)
      OBVIOUS
    <3>2. \E q \in supersede_edits(tl, C) :
            /\ tl[q].of = p
            /\ \A x \in C : tl[x].of = p => x = q \/ Later(tl, q, x)
      BY <1>2, <3>1, Winner, Zenon
    <3> QED
      BY <3>2
  <2>2. IsEdit(tl[q])
    BY <2>1 DEF IsEdit
  <2> QED
    BY <1>2, <2>1, <2>2 DEF StandsFor
<1>3. CASE ~IsEdit(tl[p]) /\ \A q \in C : tl[q].of # p
  <2>1. p \in supersede_edits(tl, C)
    BY <1>3 DEF supersede_edits
  <2> QED
    BY <2>1 DEF StandsFor
<1> QED
  BY <1>1, <1>2, <1>3

LEMMA Kept ==
  ASSUME NEW tl, NEW C
  PROVE  /\ supersede_edits(tl, C) \subseteq C
         /\ \A p \in supersede_edits(tl, C) :
                IF IsEdit(tl[p])
                THEN \A q \in C : tl[q].of = tl[p].of => ~Later(tl, q, p)
                ELSE \A q \in C : tl[q].of # p
  BY DEF supersede_edits

LEMMA Deliverable ==
  ASSUME NEW tl, NEW U, NEW b
  PROVE  replay_deliverable(tl, U, b)
            = Oldest(supersede_edits(tl, {p \in U : Replayed(tl[p])}), b)
  BY Zenon DEF replay_deliverable, Oldest

\* A budget as large as the window cuts nothing off.
LEMMA AllOfThem ==
  ASSUME NEW n \in Nat, NEW K, K \subseteq 1..n
  PROVE  Oldest(K, n) = K
<1>1. IsFiniteSet(1..n) /\ Cardinality(1..n) = n
  <2>1. /\ IsFiniteSet(1..n)
        /\ Cardinality(1..n) = IF 1 > n THEN 0 ELSE n - 1 + 1
    BY FS_Interval
  <2> QED
    BY <2>1
<1>2. IsFiniteSet(K) /\ K \subseteq Nat
  <2>1. K \in SUBSET (1..n)
    OBVIOUS
  <2>2. IsFiniteSet(K)
    BY <1>1, <2>1, FS_Subset, Zenon
  <2> QED
    BY <2>2
<1>3. ASSUME NEW q \in K \ Oldest(K, n) PROVE FALSE
  <2>1. Oldest(K, n) \in SUBSET (1..n) /\ Cardinality(Oldest(K, n)) = n
    <3>1. Oldest(K, n) \subseteq K /\ Cardinality(Oldest(K, n)) = n
      BY <1>2, <1>3, OldestOf, Zenon
    <3> QED
      BY <3>1
  <2>2. 1..n = Oldest(K, n)
    BY <1>1, <2>1, FS_Subset, Zenon
  <2>3. q \in 1..n
    OBVIOUS
  <2> QED
    BY <1>3, <2>2, <2>3, Zenon
<1> QED
  BY <1>3 DEF Oldest

\* supersede_edits keeps one version of each event of a window, the newest,
\* and everything that is not edited: for every window and every receipt.
LEMMA OneVersion ==
  ASSUME NEW n \in 1..Limit, NEW tl \in [1..n -> Event], NEW mark \in 0..(n - 1),
         NEW t \in 1..Limit
  PROVE  LET owed == {p \in (mark + 1)..n : Replayed(tl[p])}
             kept == replay_deliverable(tl, (mark + 1)..n, n)
             versions == {p \in owed : tl[p].of = t}
         IN IF versions = {} THEN t \in owed /\ ~IsEdit(tl[t]) => t \in kept
            ELSE /\ Cardinality(kept \cap versions) = 1
                 /\ \A p \in kept \cap versions : \A q \in versions :
                        q > p => tl[q].ts < tl[p].ts
                 /\ t \in kept => IsEdit(tl[t])
<1> DEFINE C == {p \in (mark + 1)..n : Replayed(tl[p])}
           K == supersede_edits(tl, C)
           V == {p \in C : tl[p].of = t}
<1>1. n \in Nat /\ mark \in Nat /\ t \in Nat \ {0}
  BY ReplayAssumption DEF Limit
<1>2. C \subseteq 1..n /\ C \subseteq Nat
  BY <1>1
<1>3. IsFiniteSet(C)
  <2>1. IsFiniteSet(1..n)
    BY <1>1, FS_Interval
  <2>2. C \in SUBSET (1..n)
    BY <1>2
  <2> QED
    BY <2>1, <2>2, FS_Subset, Zenon
<1>4. \A p \in C : tl[p].ts \in Nat /\ tl[p].of \in Nat
  <2> TAKE p \in C
  <2>1. tl[p] \in Event
    BY <1>2
  <2> QED
    BY <2>1, EventShape, Zenon
<1>5. replay_deliverable(tl, (mark + 1)..n, n) = K
  <2>1. K \subseteq 1..n
    BY <1>2, Kept
  <2> HIDE DEF K
  <2>2. Oldest(K, n) = K
    BY <1>1, <2>1, AllOfThem
  <2> QED
    BY <2>2, Deliverable, Zenon DEF K
<1> SUFFICES IF V = {} THEN t \in C /\ ~IsEdit(tl[t]) => t \in K
             ELSE /\ Cardinality(K \cap V) = 1
                  /\ \A p \in K \cap V : \A q \in V : q > p => tl[q].ts < tl[p].ts
                  /\ t \in K => IsEdit(tl[t])
  <2> HIDE DEF K
  <2> QED
    BY <1>5
<1>6. CASE V = {}
  <2>1. t \in C /\ ~IsEdit(tl[t]) => t \in K
    BY <1>6 DEF supersede_edits
  <2> QED
    BY <1>6, <2>1
<1>7. CASE V # {}
  <2>1. PICK w \in K : /\ tl[w].of = t
                       /\ \A x \in C : tl[x].of = t => x = w \/ Later(tl, w, x)
    <3>1. t # 0 /\ (\E q \in C : tl[q].of = t) /\ \A x \in C : tl[x].ts \in Nat
      BY <1>1, <1>4, <1>7
    <3> HIDE DEF C
    <3> QED
      BY <1>2, <1>3, <3>1, Winner, Zenon
  <2>2. K \subseteq C
    BY Kept, Zenon
  <2>3. w \in V
    BY <2>1, <2>2
  <2>4. ASSUME NEW x \in K \cap V PROVE x = w
    <3>1. IsEdit(tl[x]) /\ tl[x].of = t
      BY <1>1, <2>4 DEF IsEdit
    <3>2. ~Later(tl, w, x)
      BY <2>1, <2>2, <3>1, Kept, Zenon
    <3> QED
      BY <2>1, <2>4, <3>1, <3>2
  <2>5. K \cap V = {w}
    <3> HIDE DEF K, V
    <3> QED
      BY <2>3, <2>4
  <2>6. Cardinality(K \cap V) = 1
    BY <2>5, FS_Singleton, Zenon
  <2>7. ASSUME NEW q \in V, q > w PROVE tl[q].ts < tl[w].ts
    <3>1. Later(tl, w, q) \/ q = w
      BY <2>1
    <3>2. q \in Nat /\ w \in Nat /\ tl[q].ts \in Nat /\ tl[w].ts \in Nat
      BY <1>2, <1>4, <2>3
    <3> QED
      BY <2>7, <3>1, <3>2 DEF Later
  <2>8. ASSUME t \in K PROVE IsEdit(tl[t])
    BY <2>1, <2>2, <2>8, Kept, Zenon
  <2> HIDE DEF K, V
  <2> QED
    BY <1>7, <2>5, <2>6, <2>7, <2>8
<1> QED
  BY <1>6, <1>7

\* However the edits of a window name each other or themselves, supersede_edits
\* sends exactly one version of what was edited.
THEOREM OneVersionIsSent == Spec => []OneVersionEach
<1>1. OneVersionEach
  BY OneVersion DEF OneVersionEach
<1> QED
  BY <1>1, PTL

-----------------------------------------------------------------------------
(* The inductive invariant *)

InRoom  == {"fetch", "tell", "send", "leave"}
Running == {"rooms"} \cup InRoom
Phase   == {"idle", "spawned", "done"} \cup Running

PassType ==
    [pc : Phase, todo : SUBSET Room, looked : 0..ReplayMaxRooms, budget : 0..ReplayMaxTotal,
     room : Room \cup {None}, mark : 0..MaxLen, cut : 0..MaxLen, end : 0..MaxLen,
     batch : SUBSET Pos, ok : BOOLEAN]

WorldTypes ==
    /\ log \in [Room -> Seq(Event)]
    /\ \A r \in Room : Len(log[r]) <= MaxLen
    /\ posts \in 0..MaxPosts /\ acks \in 0..MaxAcks
    /\ receipt \in [Room -> 0..MaxLen]
    /\ queue \in Seq(Place)

PeerTypes == peers \subseteq Session /\ hung \subseteq peers

HistTypes ==
    /\ heard \in [Session -> SUBSET Place] /\ told \in [Session -> SUBSET Place]
    /\ last \in [Room -> 0..MaxLen]

Types ==
    /\ WorldTypes /\ PeerTypes /\ HistTypes
    /\ replaying \in BOOLEAN
    /\ pass \in [Session -> PassType]

\* A pass x whose account's history is l: what it has left to send fits its
\* budget and lies behind what was sent of the room; of the rooms to come
\* nothing was sent.
Sound(x, l) ==
    /\ x.pc \notin {"tell", "send"} <=> x.batch = {}
    /\ Cardinality(x.batch) <= x.budget
    /\ x.pc = "fetch" => x.budget > 0
    /\ x.pc \in InRoom => x.room \in Room /\ x.room \notin x.todo
    /\ x.pc \in Running => \A r \in x.todo : l[r] = 0
    /\ x.pc = "fetch" => l[x.room] = 0
    /\ \A p \in x.batch : p > l[x.room]

\* The flag is set while a pass runs, and only one does.
FlagInv ==
    /\ \A s \in Session : pass[s].pc \in Running => replaying
    /\ \A s, t \in Session : pass[s].pc \in Running /\ pass[t].pc \in Running => s = t

\* A version of p that session s has got, will get, or that the budget cut off
\* behind all of these.
Covered(s, p) ==
    \E q \in 1..pass[s].end :
        /\ StandsFor(log[pass[s].room], q, p)
        /\ \/ q \in pass[s].batch
           \/ <<pass[s].room, q>> \in heard[s]
           \/ /\ Cardinality(pass[s].batch) = pass[s].budget
              /\ q > last[pass[s].room]
              /\ \A b \in pass[s].batch : b < q

\* Nothing in the window is for the session.
Silent(s) ==
    \A q \in 1..pass[s].end : q > pass[s].mark /\ q > pass[s].cut
                                => ~Replayed(log[pass[s].room][q])

Delivers(s) ==
    pass[s].pc \in {"tell", "send", "leave"} /\ pass[s].ok =>
        /\ pass[s].end <= Len(log[pass[s].room])
        /\ \A p \in (pass[s].mark + 1)..pass[s].end : Replayed(log[pass[s].room][p]) =>
            \/ Covered(s, p)
            \/ pass[s].pc = "tell" /\ p <= pass[s].cut
            \/ <<pass[s].room, p>> \in told[s]
            \/ Silent(s)

Inv ==
    /\ Types /\ FlagInv
    /\ \A s \in Session : Sound(pass[s], last)
    /\ \A s \in Reached : Delivers(s)

LEMMA Consts ==
    /\ MaxLen \in Nat \ {0} /\ ReplayMax \in Nat \ {0} /\ ReplayMaxRooms \in Nat \ {0}
    /\ ReplayMaxTotal \in Nat \ {0} /\ MaxPosts \in Nat /\ MaxAcks \in Nat
    /\ None \notin Room /\ Live \subseteq Event
  BY ReplayAssumption

LEMMA InitInv == Init => Inv
<1> SUFFICES ASSUME Init PROVE Inv
  OBVIOUS
<1>1. Idle \in PassType /\ Idle.pc = "idle" /\ Idle.batch = {} /\ Idle.budget = 0
  BY Consts DEF Idle, PassType, Phase, Running
<1>2. log \in [Room -> Seq(Event)] /\ \A r \in Room : Len(log[r]) <= MaxLen
  BY ReplayAssumption, Zenon DEF Init
<1>3. WorldTypes
  <2>1. queue \in Seq(Place)
    BY DEF Init
  <2> QED
    BY <1>2, <2>1, Consts DEF Init, WorldTypes
<1>4. pass \in [Session -> PassType] /\ \A s \in Session : pass[s] = Idle
  BY <1>1, Zenon DEF Init
<1>5. Types
  <2>1. heard \in [Session -> SUBSET Place] /\ told \in [Session -> SUBSET Place]
    BY DEF Init
  <2>2. last \in [Room -> 0..MaxLen]
    BY Consts DEF Init
  <2> QED
    BY <1>3, <1>4, <2>1, <2>2 DEF Init, Types, PeerTypes, HistTypes
<1>6. FlagInv
  BY <1>1, <1>4 DEF FlagInv, Running, InRoom
<1>7. \A s \in Session : Sound(pass[s], last)
  BY <1>1, <1>4, FS_EmptySet DEF Sound, Running, InRoom
<1>8. \A s \in Reached : Delivers(s)
  BY DEF Init, Reached
<1> QED
  BY <1>5, <1>6, <1>7, <1>8 DEF Inv

-----------------------------------------------------------------------------
(* What a step leaves alone *)

\* Only the pass of s moves, into the flag's custody or out of it.
Moves(s) ==
    /\ \A t \in Session \ {s} : pass'[t] = pass[t]
    /\ Sound(pass'[s], last')
    /\ pass'[s].pc \in Running => replaying' /\ (pass[s].pc \in Running \/ ~replaying)
    /\ replaying /\ ~replaying' => pass[s].pc \in Running
    /\ last' = last \/ ~replaying \/ pass[s].pc \in Running

\* What was sent, written or told stays so.
Grows ==
    /\ \A t \in Session : heard[t] \subseteq heard'[t] /\ told[t] \subseteq told'[t]
    /\ \A r \in Room : /\ Len(log'[r]) >= Len(log[r])
                       /\ \A p \in 1..Len(log[r]) : log'[r][p] = log[r][p]

LEMMA DeliversKeep ==
  ASSUME Inv, Types', Grows, NEW t \in Session, Delivers(t), pass'[t] = pass[t],
         pass[t].pc \in Running => last' = last
  PROVE  Delivers(t)'
<1> DEFINE x == pass[t]
           r == x.room
<1> SUFFICES ASSUME x.pc \in {"tell", "send", "leave"}, x.ok
             PROVE  /\ x.end <= Len(log'[r])
                    /\ \A p \in (x.mark + 1)..x.end : Replayed(log'[r][p]) =>
                        \/ Covered(t, p)'
                        \/ x.pc = "tell" /\ p <= x.cut
                        \/ <<r, p>> \in told'[t]
                        \/ Silent(t)'
  BY DEF Delivers
<1>1. /\ r \in Room /\ last' = last
      /\ x.end <= Len(log[r]) /\ x.end \in Nat /\ x.mark \in Nat
      /\ Len(log[r]) \in Nat /\ Len(log'[r]) \in Nat
  <2>1. r \in Room /\ last' = last
    BY DEF Inv, Sound, InRoom, Running
  <2>2. x \in PassType /\ log[r] \in Seq(Event) /\ log'[r] \in Seq(Event)
    BY <2>1 DEF Inv, Types, WorldTypes
  <2> QED
    BY <2>1, <2>2, Consts DEF Delivers, PassType
<1>2. x.end <= Len(log'[r]) /\ \A p \in 1..x.end : log'[r][p] = log[r][p]
  BY <1>1 DEF Grows
<1>3. \A p \in (x.mark + 1)..x.end : p \in 1..x.end
  BY <1>1
<1>4. ASSUME NEW p \in 1..x.end, Covered(t, p) PROVE Covered(t, p)'
  <2>1. PICK q \in 1..x.end :
            /\ StandsFor(log[r], q, p)
            /\ \/ q \in x.batch
               \/ <<r, q>> \in heard[t]
               \/ /\ Cardinality(x.batch) = x.budget
                  /\ q > last[r]
                  /\ \A b \in x.batch : b < q
    BY <1>4, Zenon DEF Covered
  <2>2. StandsFor(log'[r], q, p)
    BY <1>2, <2>1 DEF StandsFor, Later, IsEdit
  <2>3. heard[t] \subseteq heard'[t]
    BY DEF Grows
  <2> HIDE DEF x
  <2>4. /\ StandsFor(log'[r], q, p)
        /\ \/ q \in x.batch
           \/ <<r, q>> \in heard'[t]
           \/ /\ Cardinality(x.batch) = x.budget
              /\ q > last'[r]
              /\ \A b \in x.batch : b < q
    BY <1>1, <2>1, <2>2, <2>3
  <2> QED
    BY <2>4, Zenon DEF Covered, x
<1>5. ASSUME Silent(t) PROVE Silent(t)'
  BY <1>2, <1>5 DEF Silent, Replayed, SenderAllowed, is_replayed_verdict, Carries
<1>6. ASSUME NEW p \in (x.mark + 1)..x.end, Replayed(log'[r][p])
      PROVE  \/ Covered(t, p)'
             \/ x.pc = "tell" /\ p <= x.cut
             \/ <<r, p>> \in told'[t]
             \/ Silent(t)'
  <2>1. p \in 1..x.end /\ Replayed(log[r][p])
    BY <1>2, <1>3, <1>6
  <2>2. \/ Covered(t, p)
        \/ x.pc = "tell" /\ p <= x.cut
        \/ <<r, p>> \in told[t]
        \/ Silent(t)
    BY <1>6, <2>1, Zenon DEF Delivers
  <2>3. told[t] \subseteq told'[t]
    BY DEF Grows
  <2> HIDE DEF x
  <2> QED
    BY <1>4, <1>5, <2>1, <2>2, <2>3, Zenon
<1> QED
  BY <1>2, <1>6

LEMMA StepKeeps ==
  ASSUME Inv, Types', Grows, NEW s \in Session, Moves(s),
         Reached' \subseteq Reached \cup {s}, s \in Reached' => Delivers(s)'
  PROVE  Inv'
<1>1. ASSUME NEW t \in Session \ {s}, pass[t].pc \in Running
      PROVE  replaying /\ pass[s].pc \notin Running /\ last' = last
  BY <1>1 DEF Inv, FlagInv, Moves
<1>2. FlagInv'
  <2>1. ASSUME NEW t \in Session, pass'[t].pc \in Running PROVE replaying'
    <3>1. CASE t = s
      BY <2>1, <3>1 DEF Moves
    <3>2. CASE t # s
      <4>1. pass[t].pc \in Running
        BY <2>1, <3>2 DEF Moves
      <4>2. replaying /\ pass[s].pc \notin Running
        BY <1>1, <3>2, <4>1
      <4> QED
        BY <4>2 DEF Moves
    <3> QED
      BY <3>1, <3>2
  <2>2. ASSUME NEW t \in Session \ {s}, pass'[t].pc \in Running, pass'[s].pc \in Running
        PROVE  FALSE
    <3>1. pass[t].pc \in Running
      BY <2>2 DEF Moves
    <3>2. replaying /\ pass[s].pc \notin Running
      BY <1>1, <3>1
    <3> QED
      BY <2>2, <3>2 DEF Moves
  <2>3. ASSUME NEW t \in Session \ {s}, NEW u \in Session \ {s},
               pass'[t].pc \in Running, pass'[u].pc \in Running
        PROVE  t = u
    <3>1. pass[t].pc \in Running /\ pass[u].pc \in Running
      BY <2>3 DEF Moves
    <3> QED
      BY <3>1 DEF Inv, FlagInv
  <2>4. ASSUME NEW t \in Session, NEW u \in Session,
               pass'[t].pc \in Running, pass'[u].pc \in Running
        PROVE  t = u
    <3>1. CASE t = s
      BY <2>2, <2>4, <3>1
    <3>2. CASE u = s
      BY <2>2, <2>4, <3>2
    <3>3. CASE t # s /\ u # s
      BY <2>3, <2>4, <3>3
    <3> QED
      BY <3>1, <3>2, <3>3
  <2> QED
    BY <2>1, <2>4 DEF FlagInv
<1>3. ASSUME NEW t \in Session PROVE Sound(pass'[t], last')
  <2>1. CASE t = s
    BY <2>1 DEF Moves
  <2>2. CASE t # s /\ pass[t].pc \in Running
    BY <1>1, <2>2 DEF Moves, Inv
  <2>3. CASE t # s /\ pass[t].pc \notin Running
    <3>1. pass'[t] = pass[t] /\ Sound(pass[t], last)
      BY <2>3 DEF Moves, Inv
    <3> QED
      BY <2>3, <3>1 DEF Sound, Running, InRoom
  <2> QED
    BY <2>1, <2>2, <2>3
<1>4. ASSUME NEW t \in Reached', t # s PROVE Delivers(t)'
  <2>1. t \in Reached /\ t \in Session
    BY <1>4 DEF Inv, Types, PeerTypes, Reached
  <2>2. Delivers(t) /\ pass'[t] = pass[t]
    BY <1>4, <2>1 DEF Inv, Moves
  <2>3. pass[t].pc \in Running => last' = last
    BY <1>1, <1>4, <2>1
  <2> QED
    BY <2>1, <2>2, <2>3, DeliversKeep
<1> QED
  BY <1>2, <1>3, <1>4 DEF Inv

\* A step that is none of a pass.
LEMMA AsideKeeps ==
  ASSUME Inv, Types', Grows, pass' = pass, replaying' = replaying, last' = last,
         Reached' \subseteq Reached
  PROVE  Inv'
<1>1. FlagInv' /\ \A s \in Session : Sound(pass'[s], last')
  BY DEF Inv, FlagInv
<1>2. ASSUME NEW t \in Reached' PROVE Delivers(t)'
  <2>1. t \in Session /\ Delivers(t) /\ pass'[t] = pass[t]
    BY <1>2 DEF Inv, Types, PeerTypes, Reached
  <2> QED
    BY <2>1, DeliversKeep
<1> QED
  BY <1>1, <1>2 DEF Inv

-----------------------------------------------------------------------------
(* The world *)

LEMMA PostKeeps ==
  ASSUME Inv, NEW r \in Room, NEW e \in Live, Post(r, e)
  PROVE  Inv'
<1>1. e \in Event /\ log[r] \in Seq(Event) /\ Len(log[r]) \in Nat
  BY Consts DEF Inv, Types, WorldTypes
<1>2. /\ Append(log[r], e) \in Seq(Event)
      /\ Len(Append(log[r], e)) = Len(log[r]) + 1
      /\ \A p \in 1..Len(log[r]) : Append(log[r], e)[p] = log[r][p]
  BY <1>1
<1>3. /\ log' \in [Room -> Seq(Event)]
      /\ log'[r] = Append(log[r], e)
      /\ \A o \in Room \ {r} : log'[o] = log[o]
  BY <1>2 DEF Post, Inv, Types, WorldTypes
<1>4. Len(log[r]) < MaxLen
  BY DEF Post
<1>5. WorldTypes'
  <2>1. \A o \in Room : Len(log'[o]) <= MaxLen
    <3>1. Len(log'[r]) <= MaxLen
      BY <1>1, <1>2, <1>3, <1>4, Consts
    <3> QED
      BY <1>3, <3>1 DEF Inv, Types, WorldTypes
  <2>2. <<r, Len(log[r]) + 1>> \in Place
    BY <1>1, <1>4, Consts DEF Place, Pos
  <2>3. queue' \in Seq(Place)
    BY <2>2 DEF Post, Inv, Types, WorldTypes
  <2>4. posts' \in 0..MaxPosts /\ acks' \in 0..MaxAcks /\ receipt' \in [Room -> 0..MaxLen]
    BY Consts DEF Post, Inv, Types, WorldTypes
  <2> QED
    BY <1>3, <2>1, <2>3, <2>4 DEF WorldTypes
<1>6. /\ pass' = pass /\ replaying' = replaying /\ last' = last
      /\ heard' = heard /\ told' = told /\ peers' = peers /\ hung' = hung
  BY DEF Post, peerVars, histVars
<1>7. Types'
  BY <1>5, <1>6 DEF Inv, Types, PeerTypes, HistTypes
<1>8. Grows
  <2>1. ASSUME NEW o \in Room
        PROVE  Len(log'[o]) >= Len(log[o]) /\ \A p \in 1..Len(log[o]) : log'[o][p] = log[o][p]
    <3>1. CASE o = r
      BY <1>1, <1>2, <1>3, <3>1
    <3>2. CASE o # r
      <4>1. log[o] \in Seq(Event) /\ log'[o] = log[o]
        BY <1>3, <3>2 DEF Inv, Types, WorldTypes
      <4> QED
        BY <4>1
    <3> QED
      BY <3>1, <3>2
  <2> QED
    BY <1>6, <2>1 DEF Grows
<1> QED
  BY <1>6, <1>7, <1>8, AsideKeeps DEF Reached

\* The timelines are as they were.
LEMMA Unsent ==
  ASSUME Inv, log' = log, \A t \in Session : heard[t] \subseteq heard'[t] /\ told[t] \subseteq told'[t]
  PROVE  Grows
<1>1. ASSUME NEW o \in Room PROVE Len(log'[o]) >= Len(log[o])
  <2>1. log[o] \in Seq(Event)
    BY DEF Inv, Types, WorldTypes
  <2> QED
    BY <2>1
<1> QED
  BY <1>1 DEF Grows

LEMMA MarkReadKeeps ==
  ASSUME Inv, NEW r \in Room, NEW p \in Pos, MarkRead(r, p)
  PROVE  Inv'
<1>1. /\ pass' = pass /\ replaying' = replaying /\ last' = last
      /\ heard' = heard /\ told' = told /\ peers' = peers /\ hung' = hung
      /\ log' = log /\ posts' = posts /\ queue' = queue
  BY DEF MarkRead, peerVars, histVars
<1>2. acks' \in 0..MaxAcks /\ receipt' \in [Room -> 0..MaxLen]
  BY Consts DEF MarkRead, Inv, Types, WorldTypes, Pos
<1>3. Types'
  BY <1>1, <1>2 DEF Inv, Types, WorldTypes, PeerTypes, HistTypes
<1> QED
  BY <1>1, <1>3, Unsent, AsideKeeps DEF Reached

LEMMA HangUpKeeps ==
  ASSUME Inv, NEW s \in Session, HangUp(s)
  PROVE  Inv'
<1>1. /\ pass' = pass /\ replaying' = replaying /\ last' = last
      /\ heard' = heard /\ told' = told /\ peers' = peers
      /\ log' = log /\ posts' = posts /\ queue' = queue /\ acks' = acks /\ receipt' = receipt
      /\ hung' = hung \cup {s} /\ s \in peers
  BY DEF HangUp, worldVars, histVars
<1>2. Types'
  BY <1>1 DEF Inv, Types, WorldTypes, PeerTypes, HistTypes
<1> QED
  BY <1>1, <1>2, Unsent, AsideKeeps DEF Reached

\* notify drops the sessions that it did not reach.
LEMMA DroppedPeers ==
  ASSUME PeerTypes, Dropped
  PROVE  PeerTypes' /\ Reached' = Reached
  BY DEF PeerTypes, Dropped, Reached

LEMMA Written ==
  ASSUME NEW h \in [Session -> SUBSET Place], NEW Q \in SUBSET Place
  PROVE  /\ WithAll(h, Q) \in [Session -> SUBSET Place]
         /\ \A t \in Session : h[t] \subseteq WithAll(h, Q)[t]
         /\ \A t \in Session : t \in Reached => WithAll(h, Q)[t] = h[t] \cup Q
  BY DEF WithAll

LEMMA PushKeeps ==
  ASSUME Inv, Push
  PROVE  Inv'
<1>1. /\ pass' = pass /\ replaying' = replaying /\ last' = last /\ told' = told
      /\ log' = log /\ posts' = posts /\ acks' = acks /\ receipt' = receipt
  BY DEF Push
<1>2. queue' \in Seq(Place) /\ Head(queue) \in Place
  BY DEF Push, Inv, Types, WorldTypes
<1>3. /\ heard' \in [Session -> SUBSET Place]
      /\ \A t \in Session : heard[t] \subseteq heard'[t]
      /\ PeerTypes' /\ Reached' = Reached
  <2>1. CASE heard' = WithAll(heard, {Head(queue)}) /\ Dropped
    <3>1. heard \in [Session -> SUBSET Place] /\ {Head(queue)} \in SUBSET Place /\ PeerTypes
      BY <1>2 DEF Inv, Types, HistTypes
    <3> QED
      BY <2>1, <3>1, Written, DroppedPeers
  <2>2. CASE heard' = heard /\ peers' = peers /\ hung' = hung
    BY <2>2 DEF Inv, Types, HistTypes, PeerTypes, Reached
  <2> QED
    BY <2>1, <2>2 DEF Push, peerVars
<1>4. Types'
  BY <1>1, <1>2, <1>3 DEF Inv, Types, WorldTypes, HistTypes
<1> QED
  BY <1>1, <1>3, <1>4, Unsent, AsideKeeps

-----------------------------------------------------------------------------
(* The steps of a pass *)

\* A pass that is not in a room, or has failed there, owes nothing.
LEMMA OwesNothing ==
  ASSUME NEW s, pass'[s].pc \notin {"tell", "send", "leave"} \/ ~pass'[s].ok
  PROVE  Delivers(s)'
  BY DEF Delivers

\* A step that writes to nobody.
LEMMA Unwritten ==
  ASSUME Inv, UNCHANGED <<worldVars, heard, told>>, replaying' \in BOOLEAN,
         last' \in [Room -> 0..MaxLen], PeerTypes', pass' \in [Session -> PassType]
  PROVE  Types' /\ Grows
<1>1. /\ heard' = heard /\ told' = told
      /\ log' = log /\ posts' = posts /\ queue' = queue /\ acks' = acks /\ receipt' = receipt
  BY DEF worldVars
<1> QED
  BY <1>1, Unsent DEF Inv, Types, WorldTypes, HistTypes

LEMMA AttachKeeps ==
  ASSUME Inv, NEW s \in Session, Attach(s)
  PROVE  Inv'
<1>1. pass[s] \in PassType /\ Sound(pass[s], last) /\ pass[s].pc = "idle"
  BY DEF Attach, At, Inv, Types
<1>2. /\ pass' \in [Session -> PassType]
      /\ \A t \in Session \ {s} : pass'[t] = pass[t]
      /\ pass'[s].pc = "spawned" /\ pass'[s].batch = pass[s].batch
      /\ pass'[s].budget = pass[s].budget
  BY <1>1 DEF Attach, Inv, Types, PassType, Phase
<1>3. last' = last /\ replaying' = replaying /\ peers' = peers \cup {s} /\ hung' = hung
      /\ UNCHANGED <<worldVars, heard, told>>
  BY DEF Attach, histVars
<1>4. Types' /\ Grows
  BY <1>2, <1>3, Unwritten DEF Inv, Types, HistTypes, PeerTypes
<1>5. Moves(s)
  BY <1>1, <1>2, <1>3 DEF Moves, Sound, Running, InRoom
<1>6. Reached' \subseteq Reached \cup {s} /\ Delivers(s)'
  BY <1>2, <1>3, OwesNothing DEF Reached
<1> QED
  BY <1>4, <1>5, <1>6, StepKeeps

LEMMA NothingToDoKeeps ==
  ASSUME Inv, NEW s \in Session, NothingToDo(s)
  PROVE  Inv'
<1>1. pass[s] \in PassType /\ Sound(pass[s], last) /\ pass[s].pc = "spawned"
  BY DEF NothingToDo, At, Inv, Types
<1>2. /\ pass' \in [Session -> PassType]
      /\ \A t \in Session \ {s} : pass'[t] = pass[t]
      /\ pass'[s].pc = "done" /\ pass'[s].batch = pass[s].batch
      /\ pass'[s].budget = pass[s].budget
  BY <1>1 DEF NothingToDo, Inv, Types, PassType, Phase
<1>3. last' = last /\ replaying' = replaying /\ peers' = peers /\ hung' = hung
      /\ UNCHANGED <<worldVars, heard, told>>
  BY DEF NothingToDo, histVars, peerVars
<1>4. Types' /\ Grows
  BY <1>2, <1>3, Unwritten DEF Inv, Types, HistTypes, PeerTypes
<1>5. Moves(s)
  BY <1>1, <1>2, <1>3 DEF Moves, Sound, Running, InRoom
<1>6. Reached' \subseteq Reached \cup {s} /\ Delivers(s)'
  BY <1>2, <1>3, OwesNothing DEF Reached
<1> QED
  BY <1>4, <1>5, <1>6, StepKeeps

LEMMA BeginKeeps ==
  ASSUME Inv, NEW s \in Session, Begin(s)
  PROVE  Inv'
<1>1. pass[s] \in PassType /\ Sound(pass[s], last) /\ pass[s].pc = "spawned"
  BY DEF Begin, At, Inv, Types
<1>2. UNCHANGED <<worldVars, heard, told>> /\ peers' = peers /\ hung' = hung
  BY DEF Begin, peerVars
<1>3. CASE replaying
  <2>1. /\ pass' \in [Session -> PassType]
        /\ \A t \in Session \ {s} : pass'[t] = pass[t]
        /\ pass'[s].pc = "done" /\ pass'[s].batch = pass[s].batch
        /\ pass'[s].budget = pass[s].budget
        /\ last' = last /\ replaying' = replaying
    BY <1>1, <1>3 DEF Begin, Inv, Types, PassType, Phase
  <2>2. Types' /\ Grows
    BY <1>2, <2>1, Unwritten DEF Inv, Types, HistTypes, PeerTypes
  <2>3. Moves(s)
    BY <1>1, <2>1 DEF Moves, Sound, Running, InRoom
  <2>4. Reached' \subseteq Reached \cup {s} /\ Delivers(s)'
    BY <1>2, <2>1, OwesNothing DEF Reached
  <2> QED
    BY <2>2, <2>3, <2>4, StepKeeps
<1>4. CASE ~replaying
  <2>1. /\ pass' \in [Session -> PassType]
        /\ \A t \in Session \ {s} : pass'[t] = pass[t]
        /\ pass'[s].pc = "rooms" /\ pass'[s].batch = pass[s].batch
        /\ pass'[s].budget = ReplayMaxTotal
        /\ replaying' = TRUE
    BY <1>1, <1>4, Consts DEF Begin, Inv, Types, PassType, Phase, Running
  <2>2. last' \in [Room -> 0..MaxLen] /\ \A r \in Room : last'[r] = 0
    BY <1>4, Consts DEF Begin
  <2>3. Types' /\ Grows
    BY <1>2, <2>1, <2>2, Unwritten DEF Inv, Types, PeerTypes
  <2>4. Sound(pass'[s], last')
    <3>1. pass'[s].batch = {} /\ Cardinality({}) = 0 /\ pass'[s].todo \subseteq Room
      BY <1>1, <2>1, FS_EmptySet DEF Sound, PassType
    <3> QED
      BY <2>1, <2>2, <3>1, Consts DEF Sound, Running, InRoom
  <2>5. Moves(s)
    BY <1>4, <2>1, <2>4 DEF Moves
  <2>6. Reached' \subseteq Reached \cup {s} /\ Delivers(s)'
    BY <1>2, <2>1, OwesNothing DEF Reached
  <2> QED
    BY <2>3, <2>5, <2>6, StepKeeps
<1> QED
  BY <1>3, <1>4

LEMMA LoadReceiptKeeps ==
  ASSUME Inv, NEW s \in Session, NEW r \in Room, LoadReceipt(s, r)
  PROVE  Inv'
<1>1. /\ pass[s] \in PassType /\ Sound(pass[s], last) /\ pass[s].pc = "rooms"
      /\ r \in pass[s].todo /\ MoreRooms(s)
  BY DEF LoadReceipt, At, Inv, Types
<1>2. pass[s].looked + 1 \in 0..ReplayMaxRooms /\ receipt[r] \in 0..MaxLen /\ pass[s].budget > 0
  <2>1. pass[s].looked \in 0..ReplayMaxRooms /\ pass[s].looked < ReplayMaxRooms
    BY <1>1 DEF MoreRooms, PassType
  <2>2. receipt[r] \in 0..MaxLen /\ pass[s].budget > 0
    BY <1>1 DEF MoreRooms, Inv, Types, WorldTypes
  <2> QED
    BY <2>1, <2>2, Consts
<1>3. /\ pass' \in [Session -> PassType]
      /\ \A t \in Session \ {s} : pass'[t] = pass[t]
      /\ pass'[s].pc = "fetch" /\ pass'[s].batch = pass[s].batch
      /\ pass'[s].budget = pass[s].budget /\ pass'[s].room = r
      /\ pass'[s].todo = pass[s].todo \ {r}
  <2> DEFINE x == pass[s]
             y == [x EXCEPT !.pc = "fetch", !.room = r, !.mark = receipt[r],
                            !.todo = @ \ {r}, !.looked = @ + 1]
  <2>1. pass' = [pass EXCEPT ![s] = y]
    BY DEF LoadReceipt
  <2>2. /\ y.pc = "fetch" /\ y.batch = x.batch /\ y.budget = x.budget
        /\ y.room = r /\ y.todo = x.todo \ {r}
    BY <1>1 DEF PassType
  <2>3. y \in PassType
    BY <1>1, <1>2 DEF PassType, Phase, Running, InRoom
  <2> HIDE DEF y
  <2> QED
    BY <2>1, <2>2, <2>3 DEF Inv, Types
<1>4. last' = last /\ replaying' = replaying /\ peers' = peers /\ hung' = hung
      /\ UNCHANGED <<worldVars, heard, told>>
  BY DEF LoadReceipt, histVars, peerVars
<1>5. Types' /\ Grows
  BY <1>3, <1>4, Unwritten DEF Inv, Types, HistTypes, PeerTypes
<1>6. Sound(pass'[s], last')
  BY <1>1, <1>2, <1>3, <1>4 DEF Sound, Running, InRoom
<1>7. Moves(s)
  BY <1>1, <1>3, <1>4, <1>6 DEF Moves, Running, Inv, FlagInv
<1>8. Reached' \subseteq Reached \cup {s} /\ Delivers(s)'
  BY <1>3, <1>4, OwesNothing DEF Reached
<1> QED
  BY <1>5, <1>7, <1>8, StepKeeps

LEMMA FetchFailsKeeps ==
  ASSUME Inv, NEW s \in Session, FetchFails(s)
  PROVE  Inv'
<1>1. pass[s] \in PassType /\ Sound(pass[s], last) /\ pass[s].pc = "fetch"
  BY DEF FetchFails, At, Inv, Types
<1>2. /\ pass' \in [Session -> PassType]
      /\ \A t \in Session \ {s} : pass'[t] = pass[t]
      /\ pass'[s].pc = "leave" /\ pass'[s].batch = {} /\ pass'[s].ok = FALSE
      /\ pass'[s].budget = pass[s].budget /\ pass'[s].room = pass[s].room
      /\ pass'[s].todo = pass[s].todo
  BY <1>1 DEF FetchFails, Inv, Types, PassType, Phase, Running, InRoom
<1>3. last' = last /\ replaying' = replaying /\ peers' = peers /\ hung' = hung
      /\ UNCHANGED <<worldVars, heard, told>>
  BY DEF FetchFails, histVars, peerVars
<1>4. Types' /\ Grows
  BY <1>2, <1>3, Unwritten DEF Inv, Types, HistTypes, PeerTypes
<1>5. Sound(pass'[s], last')
  BY <1>1, <1>2, <1>3 DEF Sound, Running, InRoom
<1>6. Moves(s)
  BY <1>1, <1>2, <1>3, <1>5 DEF Moves, Running, InRoom, Inv, FlagInv
<1>7. Reached' \subseteq Reached \cup {s} /\ Delivers(s)'
  BY <1>2, <1>3, OwesNothing DEF Reached
<1> QED
  BY <1>4, <1>6, <1>7, StepKeeps

LEMMA LeaveKeeps ==
  ASSUME Inv, NEW s \in Session, Leave(s)
  PROVE  Inv'
<1>1. pass[s] \in PassType /\ Sound(pass[s], last) /\ pass[s].pc = "leave"
  BY DEF Leave, At, Inv, Types
<1>2. /\ pass' \in [Session -> PassType]
      /\ \A t \in Session \ {s} : pass'[t] = pass[t]
      /\ pass'[s].pc = "rooms" /\ pass'[s].batch = pass[s].batch
      /\ pass'[s].budget = pass[s].budget /\ pass'[s].todo = pass[s].todo
  <2> DEFINE x == pass[s]
             y == [x EXCEPT !.pc = "rooms", !.room = None, !.mark = 0, !.cut = 0, !.end = 0,
                            !.ok = TRUE]
  <2>1. 0 \in 0..MaxLen /\ "rooms" \in Phase
    BY Consts DEF Phase, Running
  <2>2. /\ y \in PassType /\ y.pc = "rooms" /\ y.batch = x.batch /\ y.budget = x.budget
        /\ y.todo = x.todo
    BY <1>1, <2>1 DEF PassType
  <2>3. pass' = [pass EXCEPT ![s] = y]
    BY DEF Leave
  <2> HIDE DEF y
  <2> QED
    BY <2>2, <2>3 DEF Inv, Types
<1>3. last' = last /\ replaying' = replaying /\ peers' = peers /\ hung' = hung
      /\ UNCHANGED <<worldVars, heard, told>>
  BY DEF Leave, histVars, peerVars
<1>4. Types' /\ Grows
  BY <1>2, <1>3, Unwritten DEF Inv, Types, HistTypes, PeerTypes
<1>5. Sound(pass'[s], last')
  BY <1>1, <1>2, <1>3 DEF Sound, Running, InRoom
<1>6. Moves(s)
  BY <1>1, <1>2, <1>3, <1>5 DEF Moves, Running, InRoom, Inv, FlagInv
<1>7. Reached' \subseteq Reached \cup {s} /\ Delivers(s)'
  BY <1>2, <1>3, OwesNothing DEF Reached
<1> QED
  BY <1>4, <1>6, <1>7, StepKeeps

LEMMA EndKeeps ==
  ASSUME Inv, NEW s \in Session, End(s)
  PROVE  Inv'
<1>1. pass[s].pc = "rooms"
  BY DEF End, At
<1>2. /\ [Idle EXCEPT !.pc = "done"] \in PassType
      /\ [Idle EXCEPT !.pc = "done"].pc = "done"
      /\ [Idle EXCEPT !.pc = "done"].batch = {}
      /\ [Idle EXCEPT !.pc = "done"].budget = 0
  <2>1. 0 \in 0..MaxLen /\ 0 \in 0..ReplayMaxRooms /\ 0 \in 0..ReplayMaxTotal /\ "done" \in Phase
    BY Consts DEF Phase
  <2> QED
    BY <2>1 DEF Idle, PassType
<1>3. /\ pass' \in [Session -> PassType]
      /\ \A t \in Session \ {s} : pass'[t] = pass[t]
      /\ pass'[s].pc = "done" /\ pass'[s].batch = {} /\ pass'[s].budget = 0
  BY <1>2 DEF End, Inv, Types
<1>4. last' = last /\ replaying' = FALSE /\ peers' = peers /\ hung' = hung
      /\ UNCHANGED <<worldVars, heard, told>>
  BY DEF End, histVars, peerVars
<1>5. Types' /\ Grows
  BY <1>3, <1>4, Unwritten DEF Inv, Types, HistTypes, PeerTypes
<1>6. Moves(s)
  BY <1>1, <1>3, <1>4, FS_EmptySet DEF Moves, Sound, Running, InRoom
<1>7. Reached' \subseteq Reached \cup {s} /\ Delivers(s)'
  BY <1>3, <1>4, OwesNothing DEF Reached
<1> QED
  BY <1>5, <1>6, <1>7, StepKeeps

LEMMA TellKeeps ==
  ASSUME Inv, NEW s \in Session, Tell(s)
  PROVE  Inv'
<1>1. pass[s] \in PassType /\ Sound(pass[s], last) /\ pass[s].pc = "tell" /\ s \in Session
  BY DEF Tell, At, Inv, Types
<1> DEFINE x == pass[s]
           r == x.room
           Q == {r} \X (1..x.cut)
<1>2. /\ pass' \in [Session -> PassType]
      /\ \A t \in Session \ {s} : pass'[t] = pass[t]
      /\ pass'[s].pc = "send" /\ pass'[s].batch = x.batch /\ pass'[s].ok = x.ok
      /\ pass'[s].budget = x.budget /\ pass'[s].room = x.room /\ pass'[s].mark = x.mark
      /\ pass'[s].todo = x.todo /\ pass'[s].end = x.end /\ pass'[s].cut = x.cut
  BY <1>1 DEF Tell, Inv, Types, PassType, Phase, Running, InRoom
<1>3. /\ last' = last /\ replaying' = replaying /\ heard' = heard /\ log' = log
      /\ posts' = posts /\ queue' = queue /\ acks' = acks /\ receipt' = receipt
      /\ Dropped /\ told' = WithAll(told, Q)
  BY DEF Tell, worldVars
<1>4. r \in Room /\ x.mark \in Nat /\ x.cut \in 0..MaxLen /\ x.end \in Nat
  BY <1>1, Consts DEF Sound, InRoom, PassType
<1>5. /\ told' \in [Session -> SUBSET Place]
      /\ \A t \in Session : told[t] \subseteq told'[t]
      /\ s \in Reached => told'[s] = told[s] \cup Q
  <2>1. Q \in SUBSET Place
    BY <1>4, Consts DEF Place, Pos
  <2>2. told \in [Session -> SUBSET Place]
    BY DEF Inv, Types, HistTypes
  <2> HIDE DEF Q
  <2> QED
    BY <1>3, <2>1, <2>2, Written
<1>6. PeerTypes' /\ Reached' = Reached
  BY <1>3, DroppedPeers DEF Inv, Types
<1>7. Types' /\ Grows
  <2>1. Grows
    BY <1>3, <1>5, Unsent
  <2> QED
    BY <1>2, <1>3, <1>5, <1>6, <2>1 DEF Inv, Types, WorldTypes, HistTypes
<1>8. Sound(pass'[s], last')
  BY <1>1, <1>2, <1>3 DEF Sound, Running, InRoom
<1>9. Moves(s)
  BY <1>1, <1>2, <1>3, <1>8 DEF Moves, Running, InRoom, Inv, FlagInv
<1>10. ASSUME s \in Reached, x.ok PROVE Delivers(s)'
  <2>1. /\ x.end <= Len(log[r])
        /\ \A p \in (x.mark + 1)..x.end : Replayed(log[r][p]) =>
            \/ Covered(s, p)
            \/ p <= x.cut
            \/ <<r, p>> \in told[s]
            \/ Silent(s)
    <3>1. Delivers(s)
      BY <1>10 DEF Inv
    <3> QED
      BY <1>1, <1>10, <3>1 DEF Delivers
  <2>2. \A p : Covered(s, p) => Covered(s, p)'
    BY <1>2, <1>3, Zenon DEF Covered
  <2>3. Silent(s) => Silent(s)'
    BY <1>2, <1>3, Zenon DEF Silent
  <2>4. ASSUME NEW p \in (x.mark + 1)..x.end, p <= x.cut PROVE <<r, p>> \in told'[s]
    <3>1. p \in 1..x.cut
      BY <1>4, <2>4
    <3> QED
      BY <1>5, <1>10, <3>1
  <2>5. told[s] \subseteq told'[s]
    BY <1>5
  <2>6. \A p \in (x.mark + 1)..x.end : Replayed(log'[r][p]) =>
            Covered(s, p)' \/ <<r, p>> \in told'[s] \/ Silent(s)'
    <3> HIDE DEF x
    <3> QED
      BY <1>3, <2>1, <2>2, <2>3, <2>4, <2>5
  <2> QED
    BY <1>2, <1>3, <2>1, <2>6 DEF Delivers
<1>11. s \in Reached' => Delivers(s)'
  BY <1>2, <1>6, <1>10, OwesNothing
<1> QED
  BY <1>6, <1>7, <1>9, <1>11, StepKeeps

LEMMA FinitePos ==
  ASSUME NEW B, B \subseteq Pos
  PROVE  IsFiniteSet(B) /\ Cardinality(B) \in Nat
<1>1. IsFiniteSet(Pos)
  BY Consts, FS_Interval DEF Pos
<1>2. IsFiniteSet(B)
  <2>1. B \in SUBSET Pos
    OBVIOUS
  <2> QED
    BY <1>1, <2>1, FS_Subset, Zenon
<1> QED
  BY <1>2, FS_CardinalityType, Zenon

LEMMA SendNobodyKeeps ==
  ASSUME Inv, NEW s \in Session, Send(s), Reached = {}
  PROVE  Inv'
<1>1. pass[s] \in PassType /\ Sound(pass[s], last) /\ pass[s].pc = "send"
  BY DEF Send, At, Inv, Types
<1>2. /\ pass' \in [Session -> PassType]
      /\ \A t \in Session \ {s} : pass'[t] = pass[t]
      /\ pass'[s].pc = "leave" /\ pass'[s].batch = {} /\ pass'[s].ok = FALSE
      /\ pass'[s].budget = pass[s].budget /\ pass'[s].room = pass[s].room
      /\ pass'[s].todo = pass[s].todo
  BY <1>1 DEF Send, Inv, Types, PassType, Phase, Running, InRoom
<1>3. last' = last /\ replaying' = replaying /\ Dropped
      /\ UNCHANGED <<worldVars, heard, told>>
  BY DEF Send
<1>4. PeerTypes' /\ Reached' = Reached
  BY <1>3, DroppedPeers DEF Inv, Types
<1>5. Types' /\ Grows
  BY <1>2, <1>3, <1>4, Unwritten DEF Inv, Types, HistTypes
<1>6. Sound(pass'[s], last')
  <2>1. pass[s].budget \in Nat /\ Cardinality({}) = 0
    BY <1>1, Consts, FS_EmptySet DEF PassType
  <2> QED
    BY <1>1, <1>2, <1>3, <2>1 DEF Sound, Running, InRoom
<1>7. Moves(s)
  BY <1>1, <1>2, <1>3, <1>6 DEF Moves, Running, InRoom, Inv, FlagInv
<1>8. Delivers(s)'
  BY <1>2, OwesNothing
<1> QED
  BY <1>4, <1>5, <1>7, <1>8, StepKeeps

LEMMA SendOneKeeps ==
  ASSUME Inv, NEW s \in Session, Send(s), Reached # {}
  PROVE  Inv' /\ \A o \in Room : last'[o] = last[o] \/ last'[o] > last[o]
<1>1. pass[s] \in PassType /\ Sound(pass[s], last) /\ pass[s].pc = "send"
  BY DEF Send, At, Inv, Types
<1> DEFINE x == pass[s]
           r == x.room
<1>2. PICK p \in x.batch :
        /\ \A q \in x.batch : p <= q
        /\ pass' = [pass EXCEPT ![s].batch = @ \ {p}, ![s].budget = @ - 1,
                                ![s].pc = IF x.batch = {p} THEN "leave" ELSE "send"]
        /\ heard' = WithAll(heard, {<<r, p>>})
        /\ last' = [last EXCEPT ![r] = p]
  BY DEF Send
<1>3. /\ r \in Room /\ x.mark \in Nat /\ x.end \in Nat /\ x.budget \in 0..ReplayMaxTotal
      /\ x.batch \subseteq Pos /\ r \notin x.todo /\ x.todo \subseteq Room
  BY <1>1, Consts DEF Sound, InRoom, PassType
<1>4. /\ IsFiniteSet(x.batch) /\ Cardinality(x.batch) \in Nat
      /\ Cardinality(x.batch \ {p}) = Cardinality(x.batch) - 1
      /\ Cardinality(x.batch \ {p}) \in Nat
  <2> DEFINE B == x.batch
  <2>1. B \subseteq Pos /\ p \in B
    BY <1>3
  <2> HIDE DEF B
  <2>2. IsFiniteSet(B) /\ Cardinality(B) \in Nat
    BY <2>1, FinitePos
  <2>3. /\ IsFiniteSet(B \ {p})
        /\ Cardinality(B \ {p}) = IF p \in B THEN Cardinality(B) - 1 ELSE Cardinality(B)
    BY <2>2, FS_RemoveElement, Zenon
  <2>4. Cardinality(B \ {p}) \in Nat
    BY <2>3, FS_CardinalityType, Zenon
  <2> QED
    BY <2>1, <2>2, <2>3, <2>4 DEF B
<1>5. Cardinality(x.batch) <= x.budget /\ x.budget - 1 \in 0..ReplayMaxTotal
  <2>1. Cardinality(x.batch) <= x.budget
    BY <1>1 DEF Sound
  <2>2. Cardinality(x.batch) >= 1
    <3> HIDE DEF x
    <3> QED
      BY <1>4
  <2> HIDE DEF x
  <2> QED
    BY <1>3, <1>4, <2>1, <2>2, Consts
<1>6. /\ pass' \in [Session -> PassType]
      /\ \A t \in Session \ {s} : pass'[t] = pass[t]
      /\ pass'[s].pc = (IF x.batch = {p} THEN "leave" ELSE "send")
      /\ pass'[s].batch = x.batch \ {p} /\ pass'[s].budget = x.budget - 1
      /\ pass'[s].ok = x.ok /\ pass'[s].room = x.room /\ pass'[s].mark = x.mark
      /\ pass'[s].todo = x.todo /\ pass'[s].end = x.end /\ pass'[s].cut = x.cut
  <2> DEFINE l == IF x.batch = {p} THEN "leave" ELSE "send"
             B == x.batch \ {p}
             c == x.budget - 1
             y == [x EXCEPT !.batch = B, !.budget = c, !.pc = l]
  <2>1. l \in Phase /\ B \subseteq Pos /\ c \in 0..ReplayMaxTotal
    BY <1>3, <1>5 DEF Phase, Running, InRoom
  <2>2. pass' = [pass EXCEPT ![s] = y]
    BY <1>2
  <2> HIDE DEF l, B, c
  <2>3. /\ y \in PassType /\ y.pc = l /\ y.batch = B /\ y.budget = c
        /\ y.ok = x.ok /\ y.room = x.room /\ y.mark = x.mark
        /\ y.todo = x.todo /\ y.end = x.end /\ y.cut = x.cut
    BY <1>1, <2>1 DEF PassType
  <2> HIDE DEF y
  <2>4. /\ pass' \in [Session -> PassType]
        /\ \A t \in Session \ {s} : pass'[t] = pass[t]
        /\ pass'[s] = y
    BY <2>2, <2>3 DEF Inv, Types
  <2> QED
    BY <2>3, <2>4 DEF l, B, c
<1>7. replaying' = replaying /\ told' = told /\ log' = log /\ Dropped
      /\ posts' = posts /\ queue' = queue /\ acks' = acks /\ receipt' = receipt
  BY DEF Send, worldVars
<1>8. /\ last' \in [Room -> 0..MaxLen] /\ last'[r] = p
      /\ \A o \in Room \ {r} : last'[o] = last[o]
      /\ p > last[r] /\ p \in Pos
  <2>1. p \in Pos /\ p > last[r]
    BY <1>1, <1>2, <1>3 DEF Sound
  <2>2. last \in [Room -> 0..MaxLen] /\ p \in 0..MaxLen
    BY <2>1, Consts DEF Inv, Types, HistTypes, Pos
  <2> HIDE DEF x
  <2> QED
    BY <1>2, <1>3, <2>1, <2>2
<1>9. /\ heard' \in [Session -> SUBSET Place]
      /\ \A t \in Session : heard[t] \subseteq heard'[t]
      /\ s \in Reached => <<r, p>> \in heard'[s]
  <2>1. {<<r, p>>} \in SUBSET Place
    BY <1>3, <1>8 DEF Place
  <2>2. heard \in [Session -> SUBSET Place]
    BY DEF Inv, Types, HistTypes
  <2>3. s \in Reached => heard'[s] = heard[s] \cup {<<r, p>>}
    BY <1>2, <2>1, <2>2, Written
  <2> QED
    BY <1>2, <2>1, <2>2, <2>3, Written
<1>10. PeerTypes' /\ Reached' = Reached
  BY <1>7, DroppedPeers DEF Inv, Types
<1>11. Types' /\ Grows
  <2>1. Grows
    BY <1>7, <1>9, Unsent
  <2> QED
    BY <1>6, <1>7, <1>8, <1>9, <1>10, <2>1 DEF Inv, Types, WorldTypes, HistTypes
<1>12. Sound(pass'[s], last')
  <2>1. \A q \in x.batch \ {p} : q > p
    <3> TAKE q \in x.batch \ {p}
    <3>1. q \in Nat /\ p \in Nat /\ p <= q
      BY <1>2, <1>3, <1>8, Consts DEF Pos
    <3> QED
      BY <3>1
  <2>2. x.batch = {p} <=> x.batch \ {p} = {}
    <3> HIDE DEF x
    <3> QED
      BY <1>2
  <2>3. Cardinality(x.batch \ {p}) <= x.budget - 1
    <3> HIDE DEF x
    <3> QED
      BY <1>3, <1>4, <1>5, Consts
  <2>4. \A o \in x.todo : last'[o] = 0
    BY <1>1, <1>3, <1>8 DEF Sound, Running, InRoom
  <2> HIDE DEF x
  <2> QED
    BY <1>3, <1>6, <1>8, <2>1, <2>2, <2>3, <2>4 DEF Sound, Running, InRoom
<1>13. Moves(s)
  BY <1>1, <1>6, <1>7, <1>12 DEF Moves, Running, InRoom, Inv, FlagInv
<1>14. ASSUME s \in Reached, NEW o, Covered(s, o) PROVE Covered(s, o)'
  <2>1. PICK q \in 1..x.end :
            /\ StandsFor(log[r], q, o)
            /\ \/ q \in x.batch
               \/ <<r, q>> \in heard[s]
               \/ /\ Cardinality(x.batch) = x.budget
                  /\ q > last[r]
                  /\ \A b \in x.batch : b < q
    BY <1>14, Zenon DEF Covered
  <2>2. \/ q \in x.batch \ {p}
        \/ <<r, q>> \in heard'[s]
        \/ /\ Cardinality(x.batch \ {p}) = x.budget - 1
           /\ q > last'[r]
           /\ \A b \in x.batch \ {p} : b < q
    <3>1. CASE q \in x.batch
      BY <1>9, <1>14, <3>1
    <3>2. CASE <<r, q>> \in heard[s]
      BY <1>9, <3>2
    <3>3. CASE /\ Cardinality(x.batch) = x.budget
               /\ \A b \in x.batch : b < q
      <4>1. p < q /\ p \in Nat /\ q \in Nat
        BY <1>2, <1>3, <1>8, <3>3, Consts DEF Pos
      <4> HIDE DEF x
      <4> QED
        BY <1>4, <1>8, <3>3, <4>1
    <3> HIDE DEF x
    <3> QED
      BY <2>1, <3>1, <3>2, <3>3
  <2>3. StandsFor(log'[r], q, o)
    BY <1>7, <2>1
  <2> QED
    BY <1>6, <2>2, <2>3, Zenon DEF Covered
<1>15. ASSUME s \in Reached, x.ok PROVE Delivers(s)'
  <2>1. /\ x.end <= Len(log[r])
        /\ \A o \in (x.mark + 1)..x.end : Replayed(log[r][o]) =>
            Covered(s, o) \/ <<r, o>> \in told[s] \/ Silent(s)
    <3>1. Delivers(s)
      BY <1>15 DEF Inv
    <3> QED
      BY <1>1, <1>15, <3>1 DEF Delivers
  <2>2. Silent(s) => Silent(s)'
    BY <1>6, <1>7, Zenon DEF Silent
  <2>3. \A o \in (x.mark + 1)..x.end : Replayed(log'[r][o]) =>
            Covered(s, o)' \/ <<r, o>> \in told'[s] \/ Silent(s)'
    <3> HIDE DEF x
    <3> QED
      BY <1>7, <1>14, <1>15, <2>1, <2>2
  <2> QED
    BY <1>6, <1>7, <2>1, <2>3 DEF Delivers
<1>16. s \in Reached' => Delivers(s)'
  BY <1>6, <1>10, <1>15, OwesNothing
<1>17. Inv'
  BY <1>10, <1>11, <1>13, <1>16, StepKeeps
<1> QED
  BY <1>8, <1>17

\* The window of a room of n events behind the receipt: what lies before it is
\* left out, and then the walk back has not come to the receipt.
LEMMA Window ==
  ASSUME NEW n \in Nat, NEW mark \in Nat, NEW p \in (mark + 1)..n, ~(p > n - ReplayMax)
  PROVE  LET fetched == {q \in 1..n : q > n - Limit}
             unseen  == {q \in fetched : q > mark}
         IN /\ mark \notin fetched
            /\ Cardinality(unseen) > ReplayMax
            /\ n - ReplayMax \in 1..n /\ p <= n - ReplayMax
<1> DEFINE fetched == {q \in 1..n : q > n - Limit}
           unseen  == {q \in fetched : q > mark}
<1>1. ReplayMax \in Nat \ {0} /\ Limit = ReplayMax + 1
  BY Consts DEF Limit
<1>2. mark \notin fetched
  BY <1>1
<1>3. n - ReplayMax \in 1..n /\ p <= n - ReplayMax
  BY <1>1
<1>4. unseen = (n - ReplayMax)..n
  BY <1>1, <1>3
<1>5. Cardinality((n - ReplayMax)..n) = ReplayMax + 1
  <2>1. n - ReplayMax \in Int /\ n \in Int
    BY <1>1
  <2>2. Cardinality((n - ReplayMax)..n)
            = IF n - ReplayMax > n THEN 0 ELSE n - (n - ReplayMax) + 1
    BY <2>1, FS_Interval
  <2> QED
    BY <1>1, <2>2
<1>6. Cardinality(unseen) > ReplayMax
  <2> HIDE DEF unseen
  <2> QED
    BY <1>1, <1>4, <1>5
<1> QED
  BY <1>2, <1>3, <1>6, Zenon

LEMMA FetchOkKeeps ==
  ASSUME Inv, NEW s \in Session, FetchOk(s)
  PROVE  Inv'
<1>1. pass[s] \in PassType /\ Sound(pass[s], last) /\ pass[s].pc = "fetch"
  BY DEF FetchOk, At, Inv, Types
<1> DEFINE x == pass[s]
           r == x.room
           tl == log[r]
           n == Len(tl)
           fetched == {p \in 1..n : p > n - Limit}
           unseen  == {p \in fetched : p > x.mark}
           truncated == x.mark \notin fetched /\ Cardinality(unseen) > ReplayMax
           W == {p \in unseen : p > n - ReplayMax}
           C == {p \in W : Replayed(tl[p])}
           K == supersede_edits(tl, C)
           B == replay_deliverable(tl, W, x.budget)
           cut == IF truncated THEN n - ReplayMax ELSE 0
           l == IF B = {} THEN "leave" ELSE IF truncated THEN "tell" ELSE "send"
           y == [x EXCEPT !.batch = B, !.ok = TRUE, !.end = n, !.cut = cut, !.pc = l]
<1>2. pass' = [pass EXCEPT ![s] = y]
  BY DEF FetchOk
<1>3. /\ last' = last /\ replaying' = replaying /\ peers' = peers /\ hung' = hung
      /\ UNCHANGED <<worldVars, heard, told>> /\ log' = log /\ told' = told
  BY DEF FetchOk, histVars, peerVars, worldVars
<1>4. /\ r \in Room /\ x.mark \in Nat /\ x.budget \in Nat /\ x.budget > 0
      /\ r \notin x.todo /\ last[r] = 0
  BY <1>1, Consts DEF Sound, InRoom, PassType
<1>5. tl \in Seq(Event) /\ n \in 0..MaxLen /\ n \in Nat /\ \A p \in 1..n : tl[p] \in Event
  <2>1. tl \in Seq(Event) /\ n <= MaxLen
    BY <1>4 DEF Inv, Types, WorldTypes
  <2> HIDE DEF x
  <2> QED
    BY <2>1, Consts
<1> HIDE DEF tl, n
<1>6. W \subseteq 1..n /\ C \subseteq 1..n /\ C \subseteq Nat \ {0} /\ 1..n \subseteq Pos
  <2> HIDE DEF x
  <2> QED
    BY <1>5, Consts DEF Pos
<1>7. IsFiniteSet(C) /\ \A p \in C : tl[p].ts \in Nat /\ tl[p].of \in Nat
  <2>1. C \subseteq Pos
    BY <1>6
  <2>2. ASSUME NEW p \in C PROVE tl[p].ts \in Nat /\ tl[p].of \in Nat
    <3>1. tl[p] \in Event
      BY <1>5, <1>6
    <3> QED
      BY <3>1, EventShape, Zenon
  <2> HIDE DEF C
  <2> QED
    BY <2>1, <2>2, FinitePos
<1>8. /\ B \subseteq K /\ K \subseteq C /\ IsFiniteSet(B) /\ Cardinality(B) <= x.budget
      /\ \A q \in K \ B : Cardinality(B) = x.budget /\ \A b \in B : b < q
  <2>1. B = Oldest(K, x.budget)
    BY Deliverable, Zenon
  <2>2. K \subseteq C
    BY Kept, Zenon
  <2>3. IsFiniteSet(K) /\ K \subseteq Nat
    <3>1. K \in SUBSET C
      BY <2>2, Zenon
    <3> HIDE DEF K, C
    <3>2. IsFiniteSet(K)
      BY <1>7, <3>1, FS_Subset, Zenon
    <3> QED
      BY <1>6, <3>1, <3>2
  <2> HIDE DEF B, K, C, x
  <2> QED
    BY <1>4, <2>1, <2>2, <2>3, OldestOf
<1>9. \A p \in C : \E q \in K : StandsFor(tl, q, p)
  <2> HIDE DEF C
  <2> QED
    BY <1>6, <1>7, Represented
<1>10. ASSUME NEW p \in (x.mark + 1)..n, p \notin W
       PROVE  truncated /\ p <= cut
  <2>1. ~(p > n - ReplayMax)
    <3>1. p \in 1..n /\ p > x.mark
      BY <1>4, <1>5
    <3>2. ReplayMax \in Nat /\ Limit = ReplayMax + 1
      BY Consts DEF Limit
    <3>3. p > n - ReplayMax => p \in unseen
      BY <1>5, <3>1, <3>2
    <3> QED
      BY <1>10, <3>3
  <2>2. /\ x.mark \notin fetched
        /\ Cardinality(unseen) > ReplayMax
        /\ p <= n - ReplayMax
    BY <1>4, <1>5, <2>1, Window
  <2> HIDE DEF fetched, unseen
  <2> QED
    BY <2>2
<1>11. cut \in 0..MaxLen /\ (truncated => cut = n - ReplayMax)
  <2>1. ASSUME truncated PROVE n - ReplayMax \in 0..MaxLen
    <3>1. IsFiniteSet(1..n) /\ Cardinality(1..n) = n
      <4>1. /\ IsFiniteSet(1..n)
            /\ Cardinality(1..n) = IF 1 > n THEN 0 ELSE n - 1 + 1
        BY <1>5, FS_Interval
      <4> QED
        BY <1>5, <4>1
    <3>2. Cardinality(unseen) <= n /\ Cardinality(unseen) \in Nat
      <4>1. unseen \in SUBSET (1..n)
        OBVIOUS
      <4> HIDE DEF unseen
      <4>2. IsFiniteSet(unseen) /\ Cardinality(unseen) <= Cardinality(1..n)
        BY <3>1, <4>1, FS_Subset, Zenon
      <4>3. Cardinality(unseen) \in Nat
        BY <4>2, FS_CardinalityType, Zenon
      <4> QED
        BY <3>1, <4>2, <4>3
    <3>3. Cardinality(unseen) > ReplayMax
      BY <2>1
    <3> HIDE DEF unseen
    <3> QED
      BY <1>5, <3>2, <3>3, Consts
  <2>2. 0 \in 0..MaxLen
    BY Consts
  <2> HIDE DEF truncated
  <2> QED
    BY <2>1, <2>2
<1>12. /\ y \in PassType /\ y.pc = l /\ y.batch = B /\ y.ok = TRUE /\ y.end = n /\ y.cut = cut
       /\ y.budget = x.budget /\ y.room = x.room /\ y.mark = x.mark /\ y.todo = x.todo
  <2>1. B \subseteq Pos
    <3> HIDE DEF B, K, C
    <3> QED
      BY <1>6, <1>8
  <2>2. l \in Phase
    <3> HIDE DEF B, truncated
    <3> QED
      BY DEF Phase, Running, InRoom
  <2> HIDE DEF B, l, cut
  <2> QED
    BY <1>1, <1>5, <1>11, <2>1, <2>2 DEF PassType
<1> HIDE DEF y
<1>13. /\ pass' \in [Session -> PassType]
       /\ \A t \in Session \ {s} : pass'[t] = pass[t]
       /\ pass'[s] = y
  BY <1>2, <1>12 DEF Inv, Types
<1>14. Types' /\ Grows
  BY <1>3, <1>13, Unwritten DEF Inv, Types, HistTypes, PeerTypes
<1>15. Sound(pass'[s], last')
  <2>1. \A p \in B : p > 0
    <3> HIDE DEF B, K, C
    <3> QED
      BY <1>6, <1>8
  <2>2. l \in {"leave", "tell", "send"} /\ (l = "leave" <=> B = {})
    <3> HIDE DEF B, truncated
    <3> QED
      OBVIOUS
  <2>3. \A o \in x.todo : last[o] = 0
    BY <1>1 DEF Sound, Running, InRoom
  <2> HIDE DEF B, l, x
  <2> QED
    BY <1>3, <1>4, <1>8, <1>12, <1>13, <2>1, <2>2, <2>3 DEF Sound, Running, InRoom
<1>16. Moves(s)
  BY <1>1, <1>3, <1>13, <1>15 DEF Moves, Running, InRoom, Inv, FlagInv
<1>17. ASSUME NEW p \in C PROVE Covered(s, p)'
  <2>1. PICK q \in K : StandsFor(tl, q, p)
    BY <1>9
  <2>2. q \in 1..n /\ q > 0
    <3> HIDE DEF K, C
    <3> QED
      BY <1>6, <1>8, <2>1
  <2>3. \/ q \in B
        \/ /\ Cardinality(B) = x.budget
           /\ q > last[r]
           /\ \A b \in B : b < q
    <3> HIDE DEF B, K
    <3> QED
      BY <1>4, <1>8, <2>1, <2>2
  <2>4. /\ pass'[s].end = n /\ pass'[s].batch = B /\ pass'[s].budget = x.budget
        /\ pass'[s].room = r /\ log'[r] = tl /\ last' = last
    BY <1>3, <1>12, <1>13 DEF tl
  <2> HIDE DEF B, x
  <2> QED
    BY <2>1, <2>2, <2>3, <2>4, Zenon DEF Covered
<1>18. Delivers(s)'
  <2>1. /\ pass'[s].end = n /\ pass'[s].batch = B /\ pass'[s].mark = x.mark
        /\ pass'[s].cut = cut /\ pass'[s].pc = l
        /\ pass'[s].room = r /\ log'[r] = tl
    BY <1>3, <1>12, <1>13 DEF tl
  <2>2. ASSUME B = {} PROVE Silent(s)'
    <3>1. C = {}
      <4>1. K = {}
        <5>1. \A q \in K \ B : Cardinality(B) = x.budget
          BY <1>8
        <5>2. Cardinality(B) = 0
          BY <2>2, FS_EmptySet, Zenon
        <5> HIDE DEF B, K, x
        <5> QED
          BY <1>4, <2>2, <5>1, <5>2
      <4> HIDE DEF K, C
      <4> QED
        BY <1>9, <4>1
    <3>2. ASSUME NEW q \in 1..n, q > x.mark, q > cut PROVE ~Replayed(tl[q])
      <4>1. q \in (x.mark + 1)..n
        BY <1>4, <1>5, <3>2
      <4>2. q \in W
        <5>1. q \in Int /\ cut \in Int
          BY <1>5, <1>11, Consts
        <5> HIDE DEF W, cut, truncated
        <5> QED
          BY <1>10, <3>2, <4>1, <5>1
      <4> HIDE DEF W
      <4> QED
        BY <3>1, <4>2
    <3> HIDE DEF cut, x
    <3> QED
      BY <2>1, <3>2 DEF Silent
  <2>3. ASSUME NEW p \in (x.mark + 1)..n, Replayed(tl[p])
        PROVE  Covered(s, p)' \/ (l = "tell" /\ p <= cut) \/ Silent(s)'
    <3>1. CASE p \in W
      <4>1. p \in C
        <5> HIDE DEF W
        <5> QED
          BY <2>3, <3>1
      <4> QED
        BY <1>17, <4>1
    <3>2. CASE p \notin W /\ B = {}
      BY <2>2, <3>2
    <3>3. CASE p \notin W /\ B # {}
      <4>1. truncated /\ p <= cut
        BY <1>10, <3>3
      <4> HIDE DEF truncated, B, cut
      <4> QED
        BY <3>3, <4>1
    <3> QED
      BY <3>1, <3>2, <3>3
  <2>4. n <= Len(tl)
    BY <1>5 DEF n
  <2> HIDE DEF l, cut, x
  <2> QED
    BY <2>1, <2>3, <2>4 DEF Delivers
<1>19. Reached' \subseteq Reached \cup {s}
  BY <1>3 DEF Reached
<1> QED
  BY <1>14, <1>16, <1>18, <1>19, StepKeeps

-----------------------------------------------------------------------------
(* The theorems *)

LEMMA SendKeeps ==
  ASSUME Inv, NEW s \in Session, Send(s)
  PROVE  Inv' /\ \A o \in Room : last'[o] = last[o] \/ last'[o] > last[o]
<1>1. CASE Reached = {}
  BY <1>1, SendNobodyKeeps DEF Send
<1>2. CASE Reached # {}
  BY <1>2, SendOneKeeps
<1> QED
  BY <1>1, <1>2

LEMMA NextInv == Inv /\ [Next]_vars => Inv'
<1> SUFFICES ASSUME Inv, [Next]_vars PROVE Inv'
  OBVIOUS
<1>1. CASE \E r \in Room, e \in Live : Post(r, e)
  BY <1>1, PostKeeps
<1>2. CASE \E r \in Room, p \in Pos : MarkRead(r, p)
  BY <1>2, MarkReadKeeps
<1>3. CASE \E s \in Session : HangUp(s)
  BY <1>3, HangUpKeeps
<1>4. CASE Push
  BY <1>4, PushKeeps
<1>5. CASE \E s \in Session : Attach(s)
  BY <1>5, AttachKeeps
<1>6. ASSUME NEW s \in Session, Walk(s) PROVE Inv'
  <2>1. CASE NothingToDo(s)
    BY <2>1, NothingToDoKeeps
  <2>2. CASE Begin(s)
    BY <2>2, BeginKeeps
  <2>3. CASE \E r \in Room : LoadReceipt(s, r)
    BY <2>3, LoadReceiptKeeps
  <2>4. CASE FetchOk(s)
    BY <2>4, FetchOkKeeps
  <2>5. CASE FetchFails(s)
    BY <2>5, FetchFailsKeeps
  <2>6. CASE Tell(s)
    BY <2>6, TellKeeps
  <2>7. CASE Send(s)
    BY <2>7, SendKeeps
  <2>8. CASE Leave(s)
    BY <2>8, LeaveKeeps
  <2>9. CASE End(s)
    BY <2>9, EndKeeps
  <2> QED
    BY <1>6, <2>1, <2>2, <2>3, <2>4, <2>5, <2>6, <2>7, <2>8, <2>9 DEF Walk
<1>7. CASE UNCHANGED vars
  <2>1. /\ pass' = pass /\ replaying' = replaying /\ last' = last
        /\ heard' = heard /\ told' = told /\ peers' = peers /\ hung' = hung
        /\ log' = log /\ posts' = posts /\ queue' = queue /\ acks' = acks /\ receipt' = receipt
    BY <1>7 DEF vars, worldVars, peerVars, histVars
  <2>2. Types'
    BY <2>1 DEF Inv, Types, WorldTypes, PeerTypes, HistTypes
  <2> QED
    BY <2>1, <2>2, Unsent, AsideKeeps DEF Reached
<1> QED
  BY <1>1, <1>2, <1>3, <1>4, <1>5, <1>6, <1>7 DEF Next

LEMMA Always == Spec => []Inv
  BY InitInv, NextInv, PTL DEF Spec

\* Every variable keeps its type; above all the budget, an unsigned count that
\* replay_missed subtracts the result of replay_room from, is never overdrawn.
THEOREM ReplayTypes == Spec => []TypeOK
<1>1. Inv => TypeOK
  <2> SUFFICES ASSUME Inv PROVE TypeOK
    OBVIOUS
  <2>1. 0..MaxLen = Pos \cup {0}
    BY Consts DEF Pos
  <2>2. ASSUME NEW s \in Session
        PROVE  /\ pass[s].pc \in {"idle", "spawned", "rooms", "fetch", "tell", "send",
                                  "leave", "done"}
               /\ pass[s].todo \subseteq Room /\ pass[s].looked \in 0..ReplayMaxRooms
               /\ pass[s].budget \in 0..ReplayMaxTotal
               /\ pass[s].room \in Room \cup {None}
               /\ {pass[s].mark, pass[s].cut, pass[s].end} \subseteq Pos \cup {0}
               /\ pass[s].batch \subseteq Pos /\ pass[s].ok \in BOOLEAN
    <3>1. pass[s] \in PassType
      BY DEF Inv, Types
    <3>2. /\ pass[s].mark \in Pos \cup {0} /\ pass[s].cut \in Pos \cup {0}
          /\ pass[s].end \in Pos \cup {0}
      BY <2>1, <3>1 DEF PassType
    <3> QED
      BY <3>1, <3>2 DEF PassType, Phase, Running, InRoom
  <2>3. receipt \in [Room -> Pos \cup {0}] /\ last \in [Room -> Pos \cup {0}]
    BY <2>1 DEF Inv, Types, WorldTypes, HistTypes
  <2> QED
    BY <2>2, <2>3 DEF TypeOK, Inv, Types, WorldTypes, PeerTypes, HistTypes
<1> QED
  BY <1>1, Always, PTL

\* When replay_room returns without an error, a session that is still there
\* has got every event it is owed behind the receipt, or a newer version, or
\* the notice; the budget cuts off only what is newer than all that was sent.
THEOREM NothingIsLost == Spec => []HandedOrTold
<1>1. Inv => HandedOrTold
  <2> SUFFICES ASSUME Inv, NEW s \in Reached, pass[s].pc = "leave", pass[s].ok,
                      NEW p \in (pass[s].mark + 1)..pass[s].end,
                      Replayed(log[pass[s].room][p])
               PROVE  \/ <<pass[s].room, p>> \in told[s]
                      \/ \E q \in 1..pass[s].end :
                            /\ StandsFor(log[pass[s].room], q, p)
                            /\ \/ <<pass[s].room, q>> \in heard[s]
                               \/ pass[s].budget = 0 /\ q > last[pass[s].room]
                      \/ \A q \in {q \in 1..pass[s].end :
                                     q > pass[s].mark /\ q > pass[s].cut} :
                            ~Replayed(log[pass[s].room][q])
    BY Zenon DEF HandedOrTold
  <2>1. pass[s].batch = {} /\ Cardinality({}) = 0
    <3>1. s \in Session
      BY DEF Inv, Types, PeerTypes, Reached
    <3> QED
      BY <3>1, FS_EmptySet DEF Inv, Sound
  <2>2. Covered(s, p) \/ <<pass[s].room, p>> \in told[s] \/ Silent(s)
    <3>1. Delivers(s)
      BY DEF Inv
    <3> QED
      BY <3>1 DEF Delivers
  <2>3. CASE Covered(s, p)
    <3>1. PICK q \in 1..pass[s].end :
            /\ StandsFor(log[pass[s].room], q, p)
            /\ \/ q \in pass[s].batch
               \/ <<pass[s].room, q>> \in heard[s]
               \/ /\ Cardinality(pass[s].batch) = pass[s].budget
                  /\ q > last[pass[s].room]
      BY <2>3, Zenon DEF Covered
    <3> QED
      BY <2>1, <3>1
  <2>4. CASE Silent(s)
    BY <2>4 DEF Silent
  <2> QED
    BY <2>2, <2>3, <2>4
<1> QED
  BY <1>1, Always, PTL

\* A pass gives the events of a room oldest first, and no second pass of the
\* account starts over beside it: the in-flight flag lets one run at a time.
THEOREM OldestFirst == Spec => ReplayOldestFirst
<1>1. ASSUME Inv, [Next]_vars
      PROVE  [\A r \in Room : last'[r] \in {0, last[r]} \/ last'[r] > last[r]]_vars
  <2>1. CASE last' = last
    BY <2>1
  <2>2. ASSUME NEW s \in Session, Begin(s) PROVE \A r \in Room : last'[r] \in {0, last[r]}
    BY <2>2 DEF Begin
  <2>3. ASSUME NEW s \in Session, Send(s)
        PROVE  \A r \in Room : last'[r] = last[r] \/ last'[r] > last[r]
    BY <1>1, <2>3, SendKeeps
  <2>4. last' = last \/ \E s \in Session : Begin(s) \/ Send(s)
    <3>1. ASSUME NEW s \in Session, Walk(s) PROVE last' = last \/ Begin(s) \/ Send(s)
      BY <3>1 DEF Walk, NothingToDo, LoadReceipt, FetchOk, FetchFails, Tell, Leave, End, histVars
    <3> QED
      BY <1>1, <3>1 DEF Next, Post, MarkRead, HangUp, Push, Attach, vars, histVars
  <2> QED
    BY <2>1, <2>2, <2>3, <2>4
<1> QED
  BY <1>1, Always, PTL DEF Spec, ReplayOldestFirst

-----------------------------------------------------------------------------
(* A pass comes to an end *)

LEMMA StepsLeftNat ==
  ASSUME NEW x \in PassType
  PROVE  StepsLeft(x) \in Nat
<1>1. /\ x.looked \in 0..ReplayMaxRooms /\ x.budget \in 0..ReplayMaxTotal /\ x.pc \in Phase
      /\ ReplayMaxRooms \in Nat /\ ReplayMaxTotal \in Nat
  BY Consts DEF PassType
<1>2. x.pc \in {"idle", "spawned", "done", "rooms", "fetch", "tell", "send", "leave"}
  BY <1>1 DEF Phase, Running, InRoom
<1>3. 5 * (ReplayMaxRooms - x.looked) + x.budget \in Nat
  BY <1>1
<1>4. 5 * ReplayMaxRooms + ReplayMaxTotal \in Nat
  BY <1>1
<1> QED
  BY <1>2, <1>3, <1>4 DEF StepsLeft

\* The steps of a pass that change neither the rooms looked at nor the budget.
LEMMA WithinRoom ==
  ASSUME NEW x \in PassType, NEW y \in PassType, y.looked = x.looked,
         y.budget \in {x.budget, x.budget - 1},
         \/ x.pc = "fetch" /\ y.pc \in {"tell", "send", "leave"}
         \/ x.pc = "tell" /\ y.pc = "send"
         \/ x.pc = "send" /\ y.pc = "send" /\ y.budget # x.budget
         \/ x.pc = "send" /\ y.pc = "leave"
         \/ x.pc = "leave" /\ y.pc = "rooms"
  PROVE  StepsLeft(y) < StepsLeft(x)
<1> DEFINE rest == 5 * (ReplayMaxRooms - x.looked)
<1>1. x.looked \in Nat /\ x.budget \in Nat /\ y.budget \in Nat /\ ReplayMaxRooms \in Nat
  BY Consts DEF PassType
<1>2. rest \in Int
  BY <1>1
<1>3. /\ x.pc = "fetch" => StepsLeft(x) = rest + x.budget + 5
      /\ x.pc = "tell" => StepsLeft(x) = rest + x.budget + 4
      /\ x.pc = "send" => StepsLeft(x) = rest + x.budget + 3
      /\ x.pc = "leave" => StepsLeft(x) = rest + x.budget + 2
  BY DEF StepsLeft
<1>4. /\ y.pc = "tell" => StepsLeft(y) = rest + y.budget + 4
      /\ y.pc = "send" => StepsLeft(y) = rest + y.budget + 3
      /\ y.pc = "leave" => StepsLeft(y) = rest + y.budget + 2
      /\ y.pc = "rooms" => StepsLeft(y) = rest + y.budget + 1
  BY DEF StepsLeft
<1> HIDE DEF rest
<1> QED
  BY <1>1, <1>2, <1>3, <1>4

LEMMA WalkAdvances ==
  ASSUME Inv, Inv', NEW s \in Session, Walk(s)
  PROVE  StepsLeft(pass'[s]) < StepsLeft(pass[s])
<1> DEFINE x == pass[s]
           y == pass'[s]
           whole == 5 * ReplayMaxRooms + ReplayMaxTotal
<1>0. /\ x \in PassType /\ y \in PassType /\ pass \in [Session -> PassType]
      /\ ReplayMaxRooms \in Nat /\ ReplayMaxTotal \in Nat /\ whole \in Nat
      /\ x.looked \in Nat /\ x.budget \in Nat
  BY Consts DEF Inv, Types, PassType
<1>1. CASE NothingToDo(s) \/ (Begin(s) /\ replaying)
  <2>1. x.pc = "spawned" /\ y.pc = "done"
    BY <1>0, <1>1 DEF NothingToDo, Begin, At, PassType
  <2> QED
    BY <1>0, <2>1 DEF StepsLeft
<1>2. CASE Begin(s) /\ ~replaying
  <2>1. /\ x.pc = "spawned" /\ y.pc = "rooms" /\ y.looked = x.looked
        /\ y.budget = ReplayMaxTotal
    BY <1>0, <1>2 DEF Begin, At, PassType
  <2>2. StepsLeft(x) = whole + 2
    BY <2>1 DEF StepsLeft
  <2>3. StepsLeft(y) = 5 * (ReplayMaxRooms - x.looked) + ReplayMaxTotal + 1
    BY <2>1 DEF StepsLeft
  <2> QED
    BY <1>0, <2>2, <2>3
<1>3. CASE \E r \in Room : LoadReceipt(s, r)
  <2>1. /\ x.pc = "rooms" /\ y.pc = "fetch" /\ y.looked = x.looked + 1
        /\ y.budget = x.budget
    BY <1>0, <1>3 DEF LoadReceipt, At, PassType
  <2>2. StepsLeft(x) = 5 * (ReplayMaxRooms - x.looked) + x.budget + 1
    BY <2>1 DEF StepsLeft
  <2>3. StepsLeft(y) = 5 * (ReplayMaxRooms - (x.looked + 1)) + x.budget + 5
    BY <2>1 DEF StepsLeft
  <2> QED
    BY <1>0, <2>2, <2>3
<1>4. CASE FetchOk(s) \/ FetchFails(s)
  <2>1. ASSUME FetchOk(s)
        PROVE  /\ y.pc \in {"tell", "send", "leave"} /\ y.looked = x.looked
               /\ y.budget = x.budget
    <3>1. \E b, n, c : \E q \in {"tell", "send", "leave"} :
            pass' = [pass EXCEPT ![s].batch = b, ![s].ok = TRUE, ![s].end = n,
                                 ![s].cut = c, ![s].pc = q]
      BY <2>1, Zenon DEF FetchOk
    <3> QED
      BY <1>0, <3>1 DEF PassType
  <2>2. ASSUME FetchFails(s)
        PROVE  y.pc = "leave" /\ y.looked = x.looked /\ y.budget = x.budget
    BY <1>0, <2>2 DEF FetchFails, PassType
  <2>3. /\ x.pc = "fetch" /\ y.pc \in {"tell", "send", "leave"}
        /\ y.looked = x.looked /\ y.budget = x.budget
    BY <1>4, <2>1, <2>2 DEF FetchOk, FetchFails, At
  <2> QED
    BY <1>0, <2>3, WithinRoom
<1>5. CASE Tell(s)
  <2>1. /\ x.pc = "tell" /\ y.pc = "send" /\ y.looked = x.looked /\ y.budget = x.budget
    BY <1>0, <1>5 DEF Tell, At, PassType
  <2> QED
    BY <1>0, <2>1, WithinRoom
<1>6. CASE Send(s) /\ Reached = {}
  <2>1. /\ x.pc = "send" /\ y.pc = "leave" /\ y.looked = x.looked /\ y.budget = x.budget
    BY <1>0, <1>6 DEF Send, At, PassType
  <2> QED
    BY <1>0, <2>1, WithinRoom
<1>7. CASE Send(s) /\ Reached # {}
  <2>1. PICK p \in x.batch, q \in {"leave", "send"} :
          pass' = [pass EXCEPT ![s].batch = @ \ {p}, ![s].budget = @ - 1, ![s].pc = q]
    BY <1>7, Zenon DEF Send
  <2>2. /\ y.pc \in {"send", "leave"} /\ y.looked = x.looked /\ y.budget = x.budget - 1
    BY <1>0, <2>1 DEF PassType
  <2>3. y.budget # x.budget
    BY <1>0, <2>2
  <2>4. x.pc = "send"
    BY <1>7 DEF Send, At
  <2> QED
    BY <1>0, <2>2, <2>3, <2>4, WithinRoom
<1>8. CASE Leave(s)
  <2>1. /\ x.pc = "leave" /\ y.pc = "rooms" /\ y.looked = x.looked /\ y.budget = x.budget
    BY <1>0, <1>8 DEF Leave, At, PassType
  <2> QED
    BY <1>0, <2>1, WithinRoom
<1>9. CASE End(s)
  <2>1. x.pc = "rooms" /\ y.pc = "done"
    BY <1>0, <1>9 DEF End, At, Idle
  <2>2. StepsLeft(x) = 5 * (ReplayMaxRooms - x.looked) + x.budget + 1 /\ StepsLeft(y) = 0
    BY <2>1 DEF StepsLeft
  <2>3. ReplayMaxRooms - x.looked \in Nat
    BY <1>0 DEF PassType
  <2> QED
    BY <1>0, <2>2, <2>3
<1> QED
  BY <1>1, <1>2, <1>3, <1>4, <1>5, <1>6, <1>7, <1>8, <1>9 DEF Walk

\* The caps bound a replay pass: each of its steps lowers the number of those it
\* has left, whatever the rooms hold and whatever the world does meanwhile. With
\* the weak fairness of its steps this is why the flag is cleared (ReplayResumes).
THEOREM PassesAdvance == Spec => PassAdvances
<1>1. ASSUME Inv, [Next]_vars
      PROVE  [\A s \in Session : pass'[s] # pass[s] =>
                StepsLeft(pass'[s]) \in 0..(StepsLeft(pass[s]) - 1)]_vars
  <2>0. Inv' /\ pass \in [Session -> PassType]
    BY <1>1, NextInv DEF Inv, Types
  <2>1. ASSUME NEW s \in Session, pass'[s] # pass[s]
        PROVE  StepsLeft(pass'[s]) < StepsLeft(pass[s])
    <3>1. CASE Attach(s)
      <4>1. pass[s].pc = "idle" /\ pass'[s].pc = "spawned"
        BY <2>0, <3>1 DEF Attach, At, PassType
      <4> QED
        BY <4>1, Consts DEF StepsLeft
    <3>2. CASE Walk(s)
      BY <1>1, <2>0, <3>2, WalkAdvances
    <3>3. Attach(s) \/ Walk(s)
      <4>1. ASSUME NEW t \in Session \ {s}, Attach(t) \/ Walk(t) PROVE pass'[s] = pass[s]
        BY <2>0, <4>1 DEF Attach, Walk, NothingToDo, Begin, LoadReceipt, FetchOk, FetchFails,
                          Tell, Send, Leave, End
      <4>2. pass' = pass \/ \E t \in Session : Attach(t) \/ Walk(t)
        BY <1>1 DEF Next, Post, MarkRead, HangUp, Push, vars
      <4> QED
        BY <2>1, <4>1, <4>2
    <3> QED
      BY <3>1, <3>2, <3>3
  <2>2. \A s \in Session : pass[s] \in PassType /\ pass'[s] \in PassType
    BY <2>0 DEF Inv, Types
  <2>3. ASSUME NEW s \in Session, pass'[s] # pass[s]
        PROVE  StepsLeft(pass'[s]) \in 0..(StepsLeft(pass[s]) - 1)
    <3>1. StepsLeft(pass[s]) \in Nat /\ StepsLeft(pass'[s]) \in Nat
      BY <2>2, StepsLeftNat
    <3> QED
      BY <2>1, <2>3, <3>1
  <2> QED
    BY <2>3
<1> QED
  BY <1>1, Always, PTL DEF Spec, PassAdvances


-----------------------------------------------------------------------------
(* The replay gives nothing that the live push would not *)

InLog(q) == q[1] \in Room /\ q[2] \in 1..Len(log[q[1]])
OwedAt(q) == InLog(q) /\ Owed(log[q[1]][q[2]])

\* What the sync loop has still to give is in the timeline; what a session was
\* given, and what its pass is about to send, is owed.
OwedInv ==
    /\ \A i \in 1..Len(queue) : InLog(queue[i])
    /\ \A s \in Session : \A q \in heard[s] : OwedAt(q)
    /\ \A s \in Session : \A p \in pass[s].batch : OwedAt(<<pass[s].room, p>>)

\* The replay's test for an answer is the stricter one.
LEMMA ReplayedIsOwed ==
  ASSUME NEW e, Replayed(e)
  PROVE  Owed(e)
BY DEF Replayed, Owed, is_replayed_verdict, handled_as_verdict

LEMMA InLogStays ==
  ASSUME Types, log' = log \/ \E r \in Room, e \in Live : Post(r, e), NEW q
  PROVE  (InLog(q) => InLog(q)') /\ (OwedAt(q) => OwedAt(q)')
<1>1. CASE log' = log
  BY <1>1 DEF InLog, OwedAt
<1>2. CASE \E r \in Room, e \in Live : Post(r, e)
  <2>1. PICK r \in Room, e \in Live : log' = [log EXCEPT ![r] = Append(@, e)]
    BY <1>2 DEF Post
  <2>2. log \in [Room -> Seq(Event)] /\ e \in Event
    BY Consts DEF Types, WorldTypes
  <2>3. ASSUME NEW o \in Room, NEW p \in 1..Len(log[o])
        PROVE  p \in 1..Len(log'[o]) /\ log'[o][p] = log[o][p]
    <3>1. CASE o = r
      <4>1. log'[o] = Append(log[o], e) /\ log[o] \in Seq(Event)
        BY <2>1, <2>2, <3>1
      <4> QED
        BY <2>2, <4>1
    <3>2. CASE o # r
      BY <2>1, <2>2, <3>2
    <3> QED
      BY <3>1, <3>2
  <2> QED
    BY <2>3 DEF InLog, OwedAt
<1> QED
  BY <1>1, <1>2

LEMMA OwedStep ==
  ASSUME Types, OwedInv, log' = log \/ \E r \in Room, e \in Live : Post(r, e),
         \A i \in 1..Len(queue') : InLog(queue[i])',
         \A s \in Session : \A q \in heard'[s] : q \in heard[s] \/ OwedAt(q),
         \A s \in Session : \A p \in pass'[s].batch :
            \/ p \in pass[s].batch /\ pass'[s].room = pass[s].room
            \/ OwedAt(<<pass'[s].room, p>>)
  PROVE  OwedInv'
<1>1. \A q : OwedAt(q) => OwedAt(q)'
  BY InLogStays
<1>2. ASSUME NEW s \in Session, NEW q \in heard'[s] PROVE OwedAt(q)'
  BY <1>1 DEF OwedInv
<1>3. ASSUME NEW s \in Session, NEW p \in pass'[s].batch
      PROVE  OwedAt(<<pass[s].room, p>>)'
  <2>1. PICK r : r = pass'[s].room
    OBVIOUS
  <2>2. OwedAt(<<r, p>>)
    BY <2>1 DEF OwedInv
  <2>3. OwedAt(<<r, p>>)'
    BY <1>1, <2>2
  <2> QED
    BY <2>1, <2>3 DEF OwedAt, InLog
<1> QED
  BY <1>2, <1>3 DEF OwedInv

\* A step that neither sends an event nor takes one off the queue.
LEMMA OwedAside ==
  ASSUME Types, OwedInv, log' = log, queue' = queue,
         \A s \in Session : \A q \in heard'[s] : q \in heard[s] \/ OwedAt(q),
         \A s \in Session : \A p \in pass'[s].batch :
            \/ p \in pass[s].batch /\ pass'[s].room = pass[s].room
            \/ OwedAt(<<pass'[s].room, p>>)
  PROVE  OwedInv'
<1>1. \A i \in 1..Len(queue') : InLog(queue[i])'
  BY DEF OwedInv, InLog
<1> QED
  BY <1>1, OwedStep

LEMMA OwedPost ==
  ASSUME Inv, OwedInv, NEW r \in Room, NEW e \in Live, Post(r, e)
  PROVE  OwedInv'
<1>1. /\ log \in [Room -> Seq(Event)] /\ queue \in Seq(Place) /\ e \in Event
      /\ log' = [log EXCEPT ![r] = Append(@, e)]
      /\ queue' = Append(queue, <<r, Len(log[r]) + 1>>)
      /\ heard' = heard /\ pass' = pass
  BY Consts DEF Inv, Types, WorldTypes, Post, histVars
<1>2. Len(log'[r]) = Len(log[r]) + 1 /\ Len(log[r]) \in Nat
  BY <1>1
<1>3. ASSUME NEW i \in 1..Len(queue') PROVE InLog(queue[i])'
  <2>1. CASE i \in 1..Len(queue)
    <3>1. queue'[i] = queue[i] /\ InLog(queue[i])
      BY <1>1, <2>1 DEF OwedInv
    <3> DEFINE q == queue[i]
    <3>2. InLog(q) => q[1] \in Room /\ q[2] \in 1..Len(log'[q[1]])
      BY <1>1, <1>2 DEF InLog
    <3> QED
      BY <3>1, <3>2 DEF InLog
  <2>2. CASE i = Len(queue) + 1
    <3>1. queue'[i] = <<r, Len(log[r]) + 1>>
      BY <1>1, <2>2
    <3> QED
      BY <1>2, <3>1 DEF InLog
  <2> QED
    BY <1>1, <2>1, <2>2
<1>4. Types
  BY DEF Inv
<1> QED
  BY <1>1, <1>3, <1>4, OwedStep

LEMMA OwedPush ==
  ASSUME Inv, OwedInv, Push
  PROVE  OwedInv'
<1> DEFINE q == Head(queue)
<1>1. /\ queue \in Seq(Place) /\ queue # <<>> /\ queue' = Tail(queue)
      /\ log' = log /\ pass' = pass /\ heard \in [Session -> SUBSET Place]
  BY DEF Inv, Types, WorldTypes, HistTypes, Push
<1>2. InLog(q)
  BY <1>1 DEF OwedInv
<1>3. ASSUME NEW i \in 1..Len(queue') PROVE InLog(queue[i])'
  <2>1. queue'[i] = queue[i + 1] /\ i + 1 \in 1..Len(queue)
    BY <1>1
  <2> QED
    BY <1>1, <2>1 DEF OwedInv, InLog
<1>4. ASSUME NEW s \in Session, NEW h \in heard'[s] PROVE h \in heard[s] \/ OwedAt(h)
  <2>1. CASE Owed(log[q[1]][q[2]])
    <3>1. heard'[s] \subseteq heard[s] \cup {q}
      BY DEF Push, WithAll
    <3> QED
      BY <1>2, <2>1, <3>1 DEF OwedAt
  <2>2. CASE ~Owed(log[q[1]][q[2]])
    BY <2>2 DEF Push
  <2> QED
    BY <2>1, <2>2
<1>5. Types
  BY DEF Inv
<1> QED
  BY <1>1, <1>3, <1>4, <1>5, OwedStep

LEMMA OwedFetch ==
  ASSUME Inv, OwedInv, NEW s \in Session, FetchOk(s)
  PROVE  OwedInv'
<1> DEFINE r == pass[s].room
           tl == log[r]
           U == {p \in {p \in {p \in 1..Len(tl) : p > Len(tl) - Limit} : p > pass[s].mark} :
                    p > Len(tl) - ReplayMax}
           b == replay_deliverable(tl, U, pass[s].budget)
<1>1. PICK n, c, l : pass' = [pass EXCEPT ![s].batch = b, ![s].ok = TRUE, ![s].end = n,
                                          ![s].cut = c, ![s].pc = l]
  BY Zenon DEF FetchOk
<1>2. U \subseteq 1..Len(tl)
  OBVIOUS
<1> HIDE DEF U
<1>3. \A p \in b : p \in U /\ Replayed(tl[p])
  BY DEF replay_deliverable, supersede_edits
<1> HIDE DEF b
<1>4. pass \in [Session -> PassType] /\ r \in Room
  BY DEF Inv, Types, Sound, FetchOk, At, InRoom
<1>5. pass'[s].batch = b /\ pass'[s].room = r /\ \A t \in Session \ {s} : pass'[t] = pass[t]
  BY <1>1, <1>4 DEF PassType
<1>6. \A p \in b : OwedAt(<<r, p>>)
  BY <1>2, <1>3, <1>4, ReplayedIsOwed DEF OwedAt, InLog
<1>7. Types /\ log' = log /\ queue' = queue /\ heard' = heard
  BY DEF Inv, FetchOk, worldVars, histVars
<1> QED
  BY <1>5, <1>6, <1>7, OwedAside

LEMMA OwedSend ==
  ASSUME Inv, OwedInv, NEW s \in Session, Send(s)
  PROVE  OwedInv'
<1>0. /\ pass \in [Session -> PassType] /\ heard \in [Session -> SUBSET Place]
      /\ Types /\ log' = log /\ queue' = queue
  BY DEF Inv, Types, HistTypes, Send, worldVars
<1>1. CASE Reached = {}
  <2>1. pass' = [pass EXCEPT ![s].pc = "leave", ![s].ok = FALSE, ![s].batch = {}]
    BY <1>1 DEF Send
  <2>2. heard' = heard
    BY <1>1 DEF Send
  <2>3. pass'[s].batch = {} /\ \A t \in Session \ {s} : pass'[t] = pass[t]
    BY <1>0, <2>1 DEF PassType
  <2> QED
    BY <1>0, <2>2, <2>3, OwedAside
<1>2. CASE Reached # {}
  <2>1. PICK p \in pass[s].batch, l \in {"leave", "send"} :
          /\ pass' = [pass EXCEPT ![s].batch = @ \ {p}, ![s].budget = @ - 1, ![s].pc = l]
          /\ heard' = WithAll(heard, {<<pass[s].room, p>>})
    BY <1>2, Zenon DEF Send
  <2>2. /\ pass'[s].batch \subseteq pass[s].batch /\ pass'[s].room = pass[s].room
        /\ \A t \in Session \ {s} : pass'[t] = pass[t]
    BY <1>0, <2>1 DEF PassType
  <2>3. \A t \in Session : heard'[t] \subseteq heard[t] \cup {<<pass[s].room, p>>}
    BY <1>0, <2>1 DEF WithAll
  <2>4. OwedAt(<<pass[s].room, p>>)
    BY DEF OwedInv
  <2> QED
    BY <1>0, <2>2, <2>3, <2>4, OwedAside
<1> QED
  BY <1>1, <1>2

\* The steps that send nothing: what is left of a batch is unchanged or dropped.
LEMMA OwedWalk ==
  ASSUME Inv, OwedInv, NEW s \in Session, Walk(s)
  PROVE  OwedInv'
<1>0. pass \in [Session -> PassType] /\ Types
  BY DEF Inv, Types
<1>1. pass[s].pc \notin {"tell", "send"} => pass[s].batch = {}
  BY DEF Inv, Sound
<1>2. ASSUME log' = log, queue' = queue, heard' = heard,
             \A t \in Session \ {s} : pass'[t] = pass[t],
             pass'[s].batch = {} \/ (pass'[s].batch = pass[s].batch
                                        /\ pass'[s].room = pass[s].room)
      PROVE  OwedInv'
  BY <1>0, <1>2, OwedAside
<1>3. CASE NothingToDo(s)
  <2>1. pass' = [pass EXCEPT ![s].pc = "done"]
    BY <1>3 DEF NothingToDo
  <2> QED
    BY <1>0, <1>2, <1>3, <2>1 DEF NothingToDo, PassType, worldVars, histVars
<1>4. CASE Begin(s)
  <2>1. /\ \A t \in Session \ {s} : pass'[t] = pass[t]
        /\ pass'[s].batch = pass[s].batch /\ pass'[s].room = pass[s].room
    BY <1>0, <1>4 DEF Begin, PassType
  <2> QED
    BY <1>2, <1>4, <2>1 DEF Begin, worldVars
<1>5. CASE \E r \in Room : LoadReceipt(s, r)
  <2>1. /\ \A t \in Session \ {s} : pass'[t] = pass[t]
        /\ pass'[s].batch = pass[s].batch /\ pass[s].pc = "rooms"
    BY <1>0, <1>5 DEF LoadReceipt, At, PassType
  <2> QED
    BY <1>1, <1>2, <1>5, <2>1 DEF LoadReceipt, worldVars, histVars
<1>6. CASE FetchFails(s)
  <2>1. /\ \A t \in Session \ {s} : pass'[t] = pass[t] /\ pass'[s].batch = {}
        /\ pass'[s].batch = {}
    BY <1>0, <1>6 DEF FetchFails, PassType
  <2> QED
    BY <1>2, <1>6, <2>1 DEF FetchFails, worldVars, histVars
<1>7. CASE Tell(s)
  <2>1. /\ \A t \in Session \ {s} : pass'[t] = pass[t]
        /\ pass'[s].batch = pass[s].batch /\ pass'[s].room = pass[s].room
    BY <1>0, <1>7 DEF Tell, PassType
  <2> QED
    BY <1>2, <1>7, <2>1 DEF Tell, worldVars
<1>8. CASE Leave(s)
  <2>1. /\ \A t \in Session \ {s} : pass'[t] = pass[t]
        /\ pass'[s].batch = pass[s].batch /\ pass[s].pc = "leave"
    BY <1>0, <1>8 DEF Leave, At, PassType
  <2> QED
    BY <1>1, <1>2, <1>8, <2>1 DEF Leave, worldVars, histVars
<1>9. CASE End(s)
  <2>1. /\ \A t \in Session \ {s} : pass'[t] = pass[t]
        /\ pass'[s].batch = {}
    BY <1>0, <1>9 DEF End, Idle
  <2> QED
    BY <1>2, <1>9, <2>1 DEF End, worldVars, histVars
<1> QED
  BY <1>3, <1>4, <1>5, <1>6, <1>7, <1>8, <1>9, OwedFetch, OwedSend DEF Walk

\* Whatever a session was given, live or by the pass of any session, was sent by
\* somebody allowed and is no text that the live path takes for an answer: a pass
\* gives nothing that push_message would not.
THEOREM OnlyOwedIsHeard == Spec => []OnlyOwedHeard
<1>1. Init => OwedInv
  BY DEF Init, OwedInv, Idle
<1>2. ASSUME Inv, OwedInv, [Next]_vars PROVE OwedInv'
  <2>1. ASSUME log' = log, queue' = queue, heard' = heard,
               \A s \in Session : /\ pass'[s].batch = pass[s].batch
                                  /\ pass'[s].room = pass[s].room
        PROVE  OwedInv'
    BY <1>2, <2>1, OwedAside DEF Inv
  <2>2. CASE \E r \in Room, e \in Live : Post(r, e)
    BY <1>2, <2>2, OwedPost
  <2>3. CASE (\E r \in Room, p \in Pos : MarkRead(r, p)) \/ \E s \in Session : HangUp(s)
    BY <2>1, <2>3 DEF MarkRead, HangUp, worldVars, histVars
  <2>4. CASE Push
    BY <1>2, <2>4, OwedPush
  <2>5. CASE \E s \in Session : Attach(s)
    <3>1. pass \in [Session -> PassType]
      BY <1>2 DEF Inv, Types
    <3>2. \A s \in Session : /\ pass'[s].batch = pass[s].batch
                             /\ pass'[s].room = pass[s].room
      BY <2>5, <3>1 DEF Attach, PassType
    <3> QED
      BY <2>1, <2>5, <3>2 DEF Attach, worldVars, histVars
  <2>6. CASE \E s \in Session : Walk(s)
    BY <1>2, <2>6, OwedWalk
  <2>7. CASE UNCHANGED vars
    BY <2>1, <2>7 DEF vars, worldVars, histVars
  <2> QED
    BY <1>2, <2>2, <2>3, <2>4, <2>5, <2>6, <2>7 DEF Next
<1>3. OwedInv => OnlyOwedHeard
  BY DEF OwedInv, OnlyOwedHeard, OwedAt
<1> QED
  BY <1>1, <1>2, <1>3, Always, PTL DEF Spec

=============================================================================
