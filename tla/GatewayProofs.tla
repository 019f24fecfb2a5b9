---------------------------- MODULE GatewayProofs ----------------------------
(***************************************************************************)
(* Proofs about Gateway, for any number of requests, tokens, sessions and  *)
(* restarts and any cap, burst, TTL and timeout: the types, the bound of   *)
(* the pool, the two bounds on what the token cache serves, and that the   *)
(* store of sessions implements SessionMap.                                *)
(***************************************************************************)
EXTENDS Gateway, TLAPS, FiniteSetTheorems

USE TokenCacheAssumption, GatewayAssumption

-----------------------------------------------------------------------------
(* Types *)

\* A request is about to count the pool, holds the gate, writes its state, or is
\* about a session that exists.
Gated   == {"insert", "reinsert"}
Storing == {"store", "write", "writing", "rename"}
Naming  == Storing \cup {"load", "restore", "reinsert", "delete"}
Asking  == {"asked", "answered"}
Phase   == {"idle", "admitted", "create", "insert"} \cup Asking \cup Naming

AuthTypes ==
    /\ revoked \subseteq Token
    /\ exp \in [Token -> Nat \cup {None}]
    /\ ttl \in [Token -> 0..MaxTtl]
    /\ since \in [Token -> 0..MaxSince]
    /\ pc \in [Req -> Phase]
    /\ who \in [Req -> Token \cup {None}]
    /\ waited \in [Req -> 0..Timeout]
    /\ \A r \in Req : pc[r] \in Asking => who[r] \in Token

SessionTypes ==
    /\ pool \subseteq minted /\ minted \subseteq Session /\ known \subseteq minted
    /\ gate \in Req \cup {None}
    /\ inits \in 0..Burst
    /\ disk \in [Path -> {"none", "torn", "whole", "alien"}]
    /\ old \subseteq Path
    /\ closed \subseteq Session
    /\ sid \in [Req -> Session \cup {None}]
    /\ \A r \in Req : pc[r] \in Naming => sid[r] \in minted

Types == AuthTypes /\ SessionTypes

LEMMA MaxSinceNat == MaxSince \in Nat /\ MaxTtl \in Nat /\ Timeout \in Nat
  BY DEF MaxSince

LEMMA InitTypes == Init => Types
<1> SUFFICES ASSUME Init PROVE Types
  OBVIOUS
<1>1. AuthTypes
  <2>1. exp \in [Token -> Nat \cup {None}]
    BY DEF Init, AuthInit
  <2> QED
    BY <2>1, MaxSinceNat DEF Init, AuthInit, AuthTypes, Phase, Asking
<1>2. SessionTypes
  BY DEF Init, AuthInit, SessionTypes, Naming, Storing, Path, File
<1> QED
  BY <1>1, <1>2 DEF Types

\* TtlOf never exceeds MAX_CACHE_TTL, and never the token's exp.
LEMMA TtlOfBound ==
  ASSUME AuthTypes, NEW t \in Token
  PROVE  /\ TtlOf(t) \in 0..MaxTtl
         /\ exp[t] # None => TtlOf(t) <= exp[t]
  BY MaxSinceNat DEF AuthTypes, TtlOf

LEMMA DownBound ==
  ASSUME NEW n \in Nat \cup {None}
  PROVE  /\ Down(n) \in Nat \cup {None}
         /\ n \in Nat => Down(n) \in Nat /\ Down(n) <= n /\ (n > 0 => Down(n) = n - 1)
         /\ Down(n) = None <=> n = None
         /\ n = 0 => Down(n) = 0
  BY DEF Down

\* The steps of bearer_auth and its environment.
LEMMA AuthStepTypes ==
  ASSUME AuthTypes, (\E r \in Req : Authenticate(r)) \/ AuthEnvironment
  PROVE  AuthTypes'
<1> USE MaxSinceNat
<1>1. ASSUME NEW r \in Req, NEW t \in Token, CacheHit(r, t) \/ CacheMiss(r, t)
      PROVE  AuthTypes'
  BY <1>1 DEF AuthTypes, CacheHit, CacheMiss, Goto, authVars, Phase, Asking
<1>2. ASSUME NEW r \in Req, MasActive(r) PROVE AuthTypes'
  BY <1>2 DEF AuthTypes, MasActive, Goto, authVars, Phase, Asking
<1>3. ASSUME NEW r \in Req, Unauthorized(r) \/ MasFails(r) PROVE AuthTypes'
  BY <1>3 DEF AuthTypes, Unauthorized, MasFails, Respond, Goto, Phase, Asking
<1>4. ASSUME NEW r \in Req, cache_insert(r) PROVE AuthTypes'
  <2>1. who[r] \in Token /\ TtlOf(who[r]) \in 0..MaxTtl
    BY <1>4, TtlOfBound DEF AuthTypes, cache_insert, Asking
  <2> QED
    BY <1>4, <2>1 DEF AuthTypes, cache_insert, Goto, Phase, Asking
<1>5. ASSUME NEW t \in Token, drop_token(t) \/ Revoke(t) PROVE AuthTypes'
  BY <1>5 DEF AuthTypes, drop_token, Revoke
<1>6. ASSUME Tick PROVE AuthTypes'
  <2>1. exp' \in [Token -> Nat \cup {None}] /\ ttl' \in [Token -> 0..MaxTtl]
    <3>1. \A t \in Token : Down(exp[t]) \in Nat \cup {None}
      BY DownBound DEF AuthTypes
    <3>2. \A t \in Token : Down(ttl[t]) \in 0..MaxTtl
      BY DEF AuthTypes, Down
    <3> QED
      BY <1>6, <3>1, <3>2 DEF Tick
  <2>2. since' \in [Token -> 0..MaxSince]
    BY <1>6 DEF AuthTypes, Tick
  <2>3. waited' \in [Req -> 0..Timeout]
    BY <1>6 DEF AuthTypes, Tick, Asking
  <2> QED
    BY <1>6, <2>1, <2>2, <2>3 DEF AuthTypes, Tick
<1> QED
  BY <1>1, <1>2, <1>3, <1>4, <1>5, <1>6 DEF Authenticate, AuthEnvironment

\* The steps of a request past bearer_auth.
Serve(r) ==
    \/ Initialize(r) \/ Count(r) \/ Insert(r)
    \/ \E gone \in SUBSET Path : StoreSweep(r, gone)
    \/ Write(r) \/ Written(r) \/ Rename(r) \/ WriteFails(r)
    \/ \E s \in Session : Use(r, s) \/ Close(r, s)
    \/ LoadNothing(r) \/ Load(r) \/ Reinsert(r) \/ Delete(r)

\* They leave the tokens alone, and never lead back into bearer_auth.
LEMMA ServeLeavesAuth ==
  ASSUME Types, NEW r \in Req, Serve(r)
  PROVE  /\ UNCHANGED authVars
         /\ \E p \in Phase \ (Asking \cup {"admitted"}) : pc' = [pc EXCEPT ![r] = p]
         /\ who' = who \/ who' = [who EXCEPT ![r] = None]
<1> USE DEF Phase, Naming, Storing, Asking, Goto, Done, Respond, Answer
<1>1. CASE Initialize(r) \/ Count(r) \/ Insert(r)
  BY <1>1 DEF Initialize, Count, Insert
<1>2. ASSUME NEW gone \in SUBSET Path, StoreSweep(r, gone)
      PROVE  /\ UNCHANGED authVars
             /\ \E p \in Phase \ (Asking \cup {"admitted"}) : pc' = [pc EXCEPT ![r] = p]
             /\ who' = who \/ who' = [who EXCEPT ![r] = None]
  BY <1>2 DEF StoreSweep
<1>3. CASE Write(r) \/ Written(r) \/ Rename(r) \/ WriteFails(r)
  BY <1>3 DEF Write, Written, Rename, WriteFails
<1>4. CASE \E s \in Session : Use(r, s) \/ Close(r, s)
  BY <1>4 DEF Use, Close
<1>5. CASE LoadNothing(r) \/ Load(r) \/ Reinsert(r) \/ Delete(r)
  BY <1>5 DEF LoadNothing, Load, Reinsert, Delete
<1> QED
  BY <1>1, <1>2, <1>3, <1>4, <1>5, Zenon DEF Serve, StoreSweep

LEMMA ServeAuthTypes ==
  ASSUME Types, NEW r \in Req, Serve(r)
  PROVE  AuthTypes'
  BY ServeLeavesAuth DEF Types, AuthTypes, authVars, Asking

\* The steps of a request keep the types of the pool and the store.
LEMMA ServeSessionTypes ==
  ASSUME Types, NEW r \in Req, Serve(r)
  PROVE  SessionTypes'
<1> USE DEF Types, AuthTypes, SessionTypes, Phase, Naming, Storing, Asking, Goto, Done,
            Respond, Answer, poolVars, storeVars, idVars
<1>1. CASE Initialize(r)
  BY <1>1 DEF Initialize
<1>2. CASE Count(r)
  BY <1>2 DEF Count
<1>3. CASE Insert(r)
  BY <1>3 DEF Insert
<1>4. ASSUME NEW gone \in SUBSET Path, StoreSweep(r, gone) PROVE SessionTypes'
  BY <1>4 DEF StoreSweep
<1>5. CASE Write(r) \/ Written(r)
  BY <1>5 DEF Write, Written
<1>6. CASE Rename(r)
  BY <1>6 DEF Rename, File, Tmp, Path
<1>7. CASE WriteFails(r)
  BY <1>7 DEF WriteFails
<1>8. CASE \E s \in Session : Use(r, s) \/ Close(r, s)
  BY <1>8 DEF Use, Close
<1>9. CASE LoadNothing(r) \/ Load(r)
  BY <1>9 DEF LoadNothing, Load
<1>10. CASE Reinsert(r)
  BY <1>10 DEF Reinsert
<1>11. CASE Delete(r)
  BY <1>11 DEF Delete
<1> QED
  BY <1>1, <1>2, <1>3, <1>4, <1>5, <1>6, <1>7, <1>8, <1>9, <1>10, <1>11 DEF Serve

LEMMA NextTypes == Types /\ [Next]_vars => Types'
<1> SUFFICES ASSUME Types, [Next]_vars PROVE Types'
  OBVIOUS
<1>1. ASSUME NEW r \in Req, Authenticate(r), UNCHANGED Behind PROVE Types'
  <2>1. \A q \in Req : pc'[q] \in Naming => pc[q] \in Naming
    BY <1>1 DEF Types, AuthTypes, Authenticate, CacheHit, CacheMiss, MasActive, Unauthorized,
                MasFails, cache_insert, Respond, Goto, Naming, Storing
  <2>2. AuthTypes'
    BY <1>1, AuthStepTypes DEF Types
  <2> QED
    BY <1>1, <2>1, <2>2 DEF Types, SessionTypes, Behind, poolVars, storeVars, idVars
<1>2. CASE AuthEnvironment /\ UNCHANGED Behind
  <2>1. pc' = pc
    BY <1>2 DEF AuthEnvironment, drop_token, Revoke, Tick
  <2>2. AuthTypes'
    BY <1>2, AuthStepTypes DEF Types
  <2> QED
    BY <1>2, <2>1, <2>2 DEF Types, SessionTypes, Behind, poolVars, storeVars, idVars
<1>3. ASSUME NEW r \in Req, Serve(r) PROVE Types'
  BY <1>3, ServeAuthTypes, ServeSessionTypes DEF Types
<1>4. CASE Refill \/ (\E p \in Path : Age(p)) \/ (\E s \in Session : Idle(s))
  BY <1>4 DEF Types, AuthTypes, SessionTypes, Refill, Age, Idle, Files, authVars, poolVars,
              storeVars, idVars
<1>5. CASE Restart
  BY <1>5, MaxSinceNat DEF Types, AuthTypes, SessionTypes, Restart, storeVars, idVars, Phase,
              Naming, Storing, Asking
<1>6. CASE UNCHANGED vars
  BY <1>6 DEF Types, AuthTypes, SessionTypes, vars, authVars, poolVars, storeVars, idVars
<1> QED
  BY <1>1, <1>2, <1>3, <1>4, <1>5, <1>6 DEF Next, Serve

\* The types of the whole chain, bearer_auth to the session store.
THEOREM GatewayTypes == Spec => []TypeOK
<1>1. Types => TypeOK
  BY DEF Types, AuthTypes, SessionTypes, TypeOK, AuthTypeOK
<1> QED
  BY <1>1, InitTypes, NextTypes, PTL DEF Spec

-----------------------------------------------------------------------------
(* The pool *)

\* Whoever is past the count holds the gate, and the pool has still the room
\* that it counted.
PoolInv ==
    /\ IsFiniteSet(pool)
    /\ PoolWithinCap
    /\ \A r \in Req : pc[r] \in Gated => gate = r /\ Cardinality(pool) < Cap

\* A pool that only shrinks keeps it.
LEMMA PoolShrinks ==
  ASSUME PoolInv, pool' \subseteq pool,
         \A r \in Req : pc'[r] \in Gated => pc[r] \in Gated /\ gate' = gate
  PROVE  PoolInv'
<1>1. IsFiniteSet(pool') /\ Cardinality(pool') <= Cardinality(pool)
  BY FS_Subset DEF PoolInv
<1>2. Cardinality(pool) \in Nat /\ Cardinality(pool') \in Nat
  BY <1>1, FS_CardinalityType DEF PoolInv
<1> QED
  BY <1>1, <1>2 DEF PoolInv, PoolWithinCap

\* The holder of the gate adds a session, and gives the gate back.
LEMMA PoolGrows ==
  ASSUME Types, PoolInv, NEW r \in Req, pc[r] \in Gated, NEW s, pool' = pool \cup {s},
         NEW p, p \notin Gated, pc' = [pc EXCEPT ![r] = p]
  PROVE  PoolInv'
<1>0. IsFiniteSet(pool) /\ Cardinality(pool) \in Nat
  BY FS_CardinalityType DEF PoolInv
<1>1. IsFiniteSet(pool') /\ Cardinality(pool') <= Cardinality(pool) + 1
  <2>1. /\ IsFiniteSet(pool \cup {s})
        /\ Cardinality(pool \cup {s}) = IF s \in pool THEN Cardinality(pool)
                                        ELSE Cardinality(pool) + 1
    BY <1>0, FS_AddElement, Zenon
  <2> QED
    BY <1>0, <2>1
<1>2. Cardinality(pool') <= Cap /\ Cardinality(pool') \in Nat
  BY <1>0, <1>1, FS_CardinalityType DEF PoolInv
<1>3. \A q \in Req : pc'[q] \notin Gated
  BY DEF PoolInv, Types, AuthTypes
<1> QED
  BY <1>1, <1>2, <1>3 DEF PoolInv, PoolWithinCap

LEMMA NextPool == Types /\ PoolInv /\ [Next]_vars => PoolInv'
<1> SUFFICES ASSUME Types, PoolInv, [Next]_vars PROVE PoolInv'
  OBVIOUS
<1> USE DEF Types, AuthTypes, Gated, Goto, Done, Respond, Answer, poolVars, storeVars, idVars
<1>1. ASSUME NEW r \in Req, Authenticate(r), UNCHANGED Behind PROVE PoolInv'
  BY <1>1, PoolShrinks DEF Authenticate, CacheHit, CacheMiss, MasActive, Unauthorized,
                           MasFails, cache_insert, Behind
<1>2. CASE AuthEnvironment /\ UNCHANGED Behind
  BY <1>2, PoolShrinks DEF AuthEnvironment, drop_token, Revoke, Tick, Behind
<1>3. ASSUME NEW r \in Req, Serve(r) PROVE PoolInv'
  <2>1. CASE Count(r)
    <3>1. CASE Cardinality(pool) >= Cap
      BY <2>1, <3>1, PoolShrinks DEF Count
    <3>2. CASE ~(Cardinality(pool) >= Cap)
      <4>1. Cardinality(pool) < Cap
        BY <3>2, FS_CardinalityType DEF PoolInv
      <4>2. \A q \in Req : pc[q] \notin Gated
        BY <2>1 DEF Count, PoolInv
      <4>3. pool' = pool /\ gate' = r /\ \A q \in Req : pc'[q] \in Gated => q = r
        BY <2>1, <3>2, <4>2 DEF Count
      <4> QED
        BY <4>1, <4>3 DEF PoolInv, PoolWithinCap
    <3> QED
      BY <3>1, <3>2
  <2>2. CASE Insert(r)
    <3>1. PICK s \in Session \ minted : pool' = pool \cup {s}
      BY <2>2 DEF Insert
    <3> QED
      BY <2>2, <3>1, PoolGrows DEF Insert
  <2>3. CASE Reinsert(r)
    BY <2>3, PoolGrows DEF Reinsert
  <2>4. CASE Initialize(r) \/ Write(r) \/ Written(r) \/ Rename(r) \/ WriteFails(r)
    BY <2>4, PoolShrinks DEF Initialize, Write, Written, Rename, WriteFails
  <2>5. ASSUME NEW gone \in SUBSET Path, StoreSweep(r, gone) PROVE PoolInv'
    BY <2>5, PoolShrinks DEF StoreSweep
  <2>6. ASSUME NEW s \in Session, Use(r, s) \/ Close(r, s) PROVE PoolInv'
    BY <2>6, PoolShrinks DEF Use, Close
  <2>7. CASE LoadNothing(r) \/ Load(r) \/ Delete(r)
    BY <2>7, PoolShrinks DEF LoadNothing, Load, Delete
  <2> QED
    BY <1>3, <2>1, <2>2, <2>3, <2>4, <2>5, <2>6, <2>7 DEF Serve
<1>4. CASE Refill \/ (\E p \in Path : Age(p)) \/ (\E s \in Session : Idle(s))
  BY <1>4, PoolShrinks DEF Refill, Age, Idle
<1>5. CASE Restart
  BY <1>5, PoolShrinks DEF Restart
<1>6. CASE UNCHANGED vars
  BY <1>6, PoolShrinks DEF vars
<1> QED
  BY <1>1, <1>2, <1>3, <1>4, <1>5, <1>6 DEF Next, Serve

\* create_session, restore_session: however many of them race, closes, idle
\* timeouts and restarts included, the pool stays within MAX_SESSIONS.
THEOREM PoolStaysWithinCap == Spec => []PoolWithinCap
<1>1. Init => PoolInv
  BY FS_EmptySet DEF Init, AuthInit, PoolInv, PoolWithinCap, Gated
<1>2. PoolInv => PoolWithinCap
  BY DEF PoolInv
<1> QED
  BY <1>1, <1>2, InitTypes, NextTypes, NextPool, PTL DEF Spec

-----------------------------------------------------------------------------
(* What the token cache serves *)

\* An active token is fresh; an answer on its way is no older than its request
\* has waited; what an entry may still be served for and the age of what it says
\* are together bounded.
Fresh ==
    /\ \A t \in Token : Active(t) => since[t] = 0
    /\ \A r \in Req : pc[r] = "answered" => since[who[r]] <= waited[r]
    /\ \A t \in Token : ttl[t] > 0 => since[t] + ttl[t] <= MaxTtl + Timeout

TokenInv == NotServedPastExp /\ Fresh

\* What leaves the tokens alone, or takes entries and answers away, keeps it.
LEMMA TokenShrinks ==
  ASSUME Types, TokenInv, UNCHANGED <<revoked, exp, since>>,
         ttl' \in [Token -> 0..MaxTtl], \A t \in Token : ttl'[t] = ttl[t] \/ ttl'[t] = 0,
         \A r \in Req : pc'[r] = "answered" =>
             pc[r] = "answered" /\ who'[r] = who[r] /\ waited'[r] = waited[r]
  PROVE  TokenInv'
<1>1. NotServedPastExp'
  BY DEF TokenInv, NotServedPastExp, Types, AuthTypes
<1>2. Fresh'
  BY DEF TokenInv, Fresh, Active, Types, AuthTypes
<1> QED
  BY <1>1, <1>2 DEF TokenInv

LEMMA TickTokens ==
  ASSUME Types, TokenInv, Tick
  PROVE  TokenInv'
<1> USE MaxSinceNat DEF Types, AuthTypes
<1>0. \A t \in Token :
        /\ ttl'[t] = IF ttl[t] = 0 THEN 0 ELSE ttl[t] - 1
        /\ exp'[t] = IF exp[t] = None \/ exp[t] = 0 THEN exp[t] ELSE exp[t] - 1
        /\ since'[t] \in Nat
        /\ since'[t] <= since[t] + 1
        /\ Active(t) => since'[t] = 0
  BY DEF Tick, Down
<1>1. NotServedPastExp'
  BY <1>0 DEF TokenInv, NotServedPastExp
<1>2. \A t \in Token : Active(t)' => since'[t] = 0
  BY <1>0 DEF Active, Tick
<1>3. ASSUME NEW r \in Req, pc'[r] = "answered" PROVE since'[who'[r]] <= waited'[r]
  <2>1. pc[r] = "answered" /\ who'[r] = who[r] /\ who[r] \in Token
    BY <1>3 DEF Tick, Asking
  <2>2. since[who[r]] <= waited[r] /\ waited'[r] = waited[r] + 1
    BY <2>1 DEF TokenInv, Fresh, Tick
  <2> QED
    BY <1>0, <2>1, <2>2
<1>4. \A t \in Token : ttl'[t] > 0 => since'[t] + ttl'[t] <= MaxTtl + Timeout
  BY <1>0 DEF TokenInv, Fresh
<1> QED
  BY <1>1, <1>2, <1>3, <1>4 DEF TokenInv, Fresh

LEMMA CacheInsertTokens ==
  ASSUME Types, TokenInv, NEW r \in Req, cache_insert(r)
  PROVE  TokenInv'
<1> USE MaxSinceNat DEF Types, AuthTypes
<1> DEFINE t == who[r]
<1>1. t \in Token /\ since[t] <= waited[r] /\ since[t] <= Timeout
  BY DEF cache_insert, Asking, TokenInv, Fresh
<1>2. /\ TtlOf(t) \in 0..MaxTtl
      /\ exp[t] # None => TtlOf(t) <= exp[t]
  BY <1>1, TtlOfBound
<1>3. ttl' = [ttl EXCEPT ![t] = TtlOf(t)] /\ UNCHANGED <<who, revoked, exp, since>>
  BY DEF cache_insert
<1> HIDE DEF t
<1>4. NotServedPastExp'
  BY <1>1, <1>2, <1>3 DEF TokenInv, NotServedPastExp
<1>5. \A q \in Req : pc'[q] = "answered" =>
        pc[q] = "answered" /\ waited'[q] = waited[q]
  BY DEF cache_insert, Goto
<1>6. \A u \in Token : ttl'[u] > 0 => since'[u] + ttl'[u] <= MaxTtl + Timeout
  BY <1>1, <1>2, <1>3 DEF TokenInv, Fresh
<1> QED
  BY <1>3, <1>4, <1>5, <1>6 DEF TokenInv, Fresh, Active

LEMMA NextTokens == Types /\ TokenInv /\ [Next]_vars => TokenInv'
<1> SUFFICES ASSUME Types, TokenInv, [Next]_vars PROVE TokenInv'
  OBVIOUS
<1> USE DEF Goto, Respond, authVars
<1>1. ASSUME NEW r \in Req, Authenticate(r) PROVE TokenInv'
  <2>1. CASE \E t \in Token : CacheHit(r, t) \/ CacheMiss(r, t)
    BY <2>1, TokenShrinks DEF CacheHit, CacheMiss, Types, AuthTypes
  <2>2. CASE MasActive(r)
    <3>1. since[who[r]] = 0 /\ waited[r] \in Nat
      BY <2>2 DEF MasActive, TokenInv, Fresh, Types, AuthTypes, Asking
    <3> QED
      BY <2>2, <3>1 DEF MasActive, TokenInv, NotServedPastExp, Fresh, Active, Types, AuthTypes
  <2>3. CASE Unauthorized(r) \/ MasFails(r)
    BY <2>3, TokenShrinks DEF Unauthorized, MasFails, Types, AuthTypes
  <2>4. CASE cache_insert(r)
    BY <2>4, CacheInsertTokens
  <2> QED
    BY <1>1, <2>1, <2>2, <2>3, <2>4 DEF Authenticate
<1>2. ASSUME NEW t \in Token, drop_token(t) PROVE TokenInv'
  BY <1>2, TokenShrinks, MaxSinceNat DEF drop_token, Types, AuthTypes
<1>3. ASSUME NEW t \in Token, Revoke(t) PROVE TokenInv'
  BY <1>3 DEF Revoke, TokenInv, NotServedPastExp, Fresh, Active
<1>4. CASE Tick
  BY <1>4, TickTokens
<1>5. ASSUME NEW r \in Req, Serve(r) PROVE TokenInv'
  BY <1>5, ServeLeavesAuth, TokenShrinks DEF Types, AuthTypes, Asking
<1>6. CASE Refill \/ (\E p \in Path : Age(p)) \/ (\E s \in Session : Idle(s))
  BY <1>6, TokenShrinks DEF Refill, Age, Idle, Types, AuthTypes
<1>7. CASE Restart
  BY <1>7, TokenShrinks, MaxSinceNat DEF Restart, Types, AuthTypes
<1>8. CASE UNCHANGED vars
  BY <1>8, TokenShrinks DEF vars, Types, AuthTypes
<1> QED
  BY <1>1, <1>2, <1>3, <1>4, <1>5, <1>6, <1>7, <1>8 DEF Next, Serve, AuthEnvironment

LEMMA InitTokens == Init => TokenInv
<1> SUFFICES ASSUME Init PROVE TokenInv
  OBVIOUS
<1>1. NotServedPastExp
  BY InitTypes DEF Types, AuthTypes, Init, AuthInit, NotServedPastExp
<1>2. Fresh
  BY DEF Init, AuthInit, Fresh
<1> QED
  BY <1>1, <1>2 DEF TokenInv

\* cache_insert, cache_lookup: no entry is served past its token's exp.
THEOREM EntriesEndWithToken == Spec => []NotServedPastExp
<1>1. TokenInv => NotServedPastExp
  BY DEF TokenInv
<1> QED
  BY <1>1, InitTokens, InitTypes, NextTypes, NextTokens, PTL DEF Spec

\* bearer_auth: whatever answers, hits, drop_token and restarts race, a request
\* is admitted on what MAS said at most MAX_CACHE_TTL and one timeout ago.
THEOREM StaleAdmissions == Spec => StaleAdmissionBounded
<1> DEFINE Admits == \A r \in Req : pc[r] # "admitted" /\ pc'[r] = "admitted" =>
                        since[who'[r]] <= MaxTtl + Timeout
<1>1. Types /\ TokenInv /\ [Next]_vars => [Admits]_<<pc, who>>
  <2> SUFFICES ASSUME Types, TokenInv, [Next]_vars, NEW r \in Req,
                      pc[r] # "admitted", pc'[r] = "admitted"
               PROVE  since[who'[r]] <= MaxTtl + Timeout
    OBVIOUS
  <2> USE MaxSinceNat DEF Types, AuthTypes, Goto, Respond, authVars
  <2>1. ASSUME NEW q \in Req, NEW t \in Token, CacheHit(q, t)
        PROVE  since[who'[r]] <= MaxTtl + Timeout
    BY <2>1 DEF CacheHit, TokenInv, Fresh
  <2>2. ASSUME NEW q \in Req, cache_insert(q)
        PROVE  since[who'[r]] <= MaxTtl + Timeout
    BY <2>2 DEF cache_insert, TokenInv, Fresh, Asking
  <2>3. ASSUME NEW q \in Req,
               \/ \E t \in Token : CacheMiss(q, t)
               \/ MasActive(q) \/ Unauthorized(q) \/ MasFails(q)
        PROVE  FALSE
    BY <2>3 DEF CacheMiss, MasActive, Unauthorized, MasFails
  <2>4. ASSUME NEW q \in Req, Serve(q) PROVE FALSE
    BY <2>4, ServeLeavesAuth
  <2>5. CASE \/ AuthEnvironment \/ Refill \/ Restart \/ UNCHANGED vars
             \/ (\E p \in Path : Age(p)) \/ (\E s \in Session : Idle(s))
    BY <2>5 DEF AuthEnvironment, drop_token, Revoke, Tick, Refill, Restart, Age, Idle, vars
  <2> QED
    BY <2>1, <2>2, <2>3, <2>4, <2>5 DEF Next, Serve, Authenticate
<1> QED
  BY <1>1, InitTokens, InitTypes, NextTypes, NextTokens, PTL DEF Spec, StaleAdmissionBounded

-----------------------------------------------------------------------------
(* The session store implements SessionMap *)

\* The state files: no session has one before it is minted or while it is being
\* stored, and none is ever half written.
FileInv ==
    /\ \A s \in Session : disk[File(s)] # "torn"
    /\ \A s \in Session \ minted : disk[File(s)] = "none"
    /\ \A r \in Req : pc[r] \in Storing => disk[File(sid[r])] = "none"

\* The temporary file of a store is its own, and is neither swept nor incomplete
\* when it is renamed.
TmpInv ==
    /\ \A q, r \in Req : pc[q] \in Storing /\ pc[r] \in Storing /\ sid[q] = sid[r] => q = r
    /\ \A r \in Req : pc[r] \in {"writing", "rename"} => Tmp(sid[r]) \notin old
    /\ \A r \in Req : pc[r] = "rename" => disk[Tmp(sid[r])] = "whole"

StoreInv == FileInv /\ TmpInv

\* Files and temporary files are different paths.
LEMMA DistinctPaths ==
  /\ \A s \in Session : File(s) \in Path /\ Tmp(s) \in Path
  /\ \A s, t \in Session : File(s) # Tmp(t)
  /\ \A s, t \in Session : (File(s) = File(t) <=> s = t) /\ (Tmp(s) = Tmp(t) <=> s = t)
  /\ \A p \in Path : \E s \in Session : p = File(s) \/ p = Tmp(s)
  BY DEF File, Tmp, Path

LEMMA InitStore == Init => StoreInv
  BY DistinctPaths DEF Init, AuthInit, StoreInv, FileInv, TmpInv, Storing

\* A step that leaves the files and the ids alone and starts no store keeps it.
LEMMA StoreStays ==
  ASSUME Types, StoreInv, UNCHANGED <<disk, minted>>, old' \subseteq old,
         \A r \in Req : pc'[r] \in Storing => sid'[r] = sid[r] /\ pc'[r] = pc[r]
  PROVE  StoreInv'
  BY DEF StoreInv, FileInv, TmpInv, Storing

LEMMA ServeStore ==
  ASSUME Types, StoreInv, NEW r \in Req, Serve(r)
  PROVE  StoreInv'
<1> USE DistinctPaths DEF Types, AuthTypes, SessionTypes, Goto, Done, Respond, Answer, poolVars,
                  storeVars, idVars
<1>1. CASE Initialize(r) \/ Count(r)
  BY <1>1, StoreStays DEF Initialize, Count, Storing
<1>2. CASE Insert(r)
  BY <1>2 DEF Insert, StoreInv, FileInv, TmpInv, Storing, Naming
<1>3. ASSUME NEW gone \in SUBSET Path, StoreSweep(r, gone) PROVE StoreInv'
  BY <1>3 DEF StoreSweep, Swept, StoreInv, FileInv, TmpInv, Storing, Naming
<1>4. CASE Write(r)
  BY <1>4 DEF Write, StoreInv, FileInv, TmpInv, Storing, Naming
<1>5. CASE Written(r)
  BY <1>5 DEF Written, StoreInv, FileInv, TmpInv, Storing, Naming
<1>6. CASE Rename(r)
  BY <1>6 DEF Rename, StoreInv, FileInv, TmpInv, Storing, Naming
<1>7. CASE WriteFails(r)
  BY <1>7, StoreStays DEF WriteFails, Storing
<1>8. CASE \E s \in Session : Use(r, s) \/ Close(r, s)
  BY <1>8, StoreStays DEF Use, Close, Storing
<1>9. CASE LoadNothing(r)
  BY <1>9 DEF LoadNothing, StoreInv, FileInv, TmpInv, Storing, Naming
<1>10. CASE Load(r) \/ Reinsert(r)
  BY <1>10, StoreStays DEF Load, Reinsert, Storing
<1>11. CASE Delete(r)
  BY <1>11 DEF Delete, StoreInv, FileInv, TmpInv, Storing, Naming
<1> QED
  BY <1>1, <1>2, <1>3, <1>4, <1>5, <1>6, <1>7, <1>8, <1>9, <1>10, <1>11 DEF Serve

LEMMA NextStore == Types /\ StoreInv /\ [Next]_vars => StoreInv'
<1> SUFFICES ASSUME Types, StoreInv, [Next]_vars PROVE StoreInv'
  OBVIOUS
<1> USE DEF Types, AuthTypes, Goto, Respond, poolVars, storeVars, idVars
<1>1. ASSUME NEW r \in Req, Authenticate(r), UNCHANGED Behind PROVE StoreInv'
  BY <1>1, StoreStays DEF Authenticate, CacheHit, CacheMiss, MasActive, Unauthorized,
                          MasFails, cache_insert, Behind, Storing
<1>2. CASE AuthEnvironment /\ UNCHANGED Behind
  BY <1>2, StoreStays DEF AuthEnvironment, drop_token, Revoke, Tick, Behind
<1>3. ASSUME NEW r \in Req, Serve(r) PROVE StoreInv'
  BY <1>3, ServeStore
<1>4. ASSUME NEW p \in Path, Age(p) PROVE StoreInv'
  BY <1>4 DEF Age, StoreInv, FileInv, TmpInv
<1>5. CASE Refill \/ (\E s \in Session : Idle(s))
  BY <1>5, StoreStays DEF Refill, Idle
<1>6. CASE Restart
  BY <1>6, StoreStays DEF Restart, Storing
<1>7. CASE UNCHANGED vars
  BY <1>7, StoreStays DEF vars
<1> QED
  BY <1>1, <1>2, <1>3, <1>4, <1>5, <1>6, <1>7 DEF Next, Serve

\* What SessionMap sees of the disk.
Saved    == [s \in Session |-> disk[File(s)]]
OldSaved == {s \in Session : File(s) \in old}

LEMMA ServeRefines ==
  ASSUME Types, StoreInv, NEW r \in Req, Serve(r)
  PROVE  Durable!Next \/ UNCHANGED <<Saved, OldSaved, closed>>
<1> USE DistinctPaths DEF Types, SessionTypes, Naming, Storing, poolVars, storeVars, idVars
<1>1. ASSUME NEW gone \in SUBSET Path, StoreSweep(r, gone) PROVE Durable!Next
  <2> DEFINE S == {s \in Session : File(s) \in gone}
  <2>1. Durable!Expire(S)
    BY <1>1 DEF StoreSweep, Swept, Durable!Expire, Durable!Drop
  <2> QED
    BY <2>1 DEF Durable!Next
<1>2. CASE Write(r) \/ Written(r)
  BY <1>2 DEF Write, Written, Saved, OldSaved
<1>3. CASE Rename(r)
  <2>1. Durable!Put(sid[r])
    BY <1>3 DEF Rename, Durable!Put, StoreInv, FileInv, TmpInv
  <2> QED
    BY <1>3, <2>1 DEF Durable!Next, Rename
<1>4. CASE LoadNothing(r)
  <2> DEFINE s == sid[r]
  <2>1. s \in Session /\ disk[File(s)] # "torn"
    BY <1>4 DEF LoadNothing, StoreInv, FileInv
  <2>2. CASE File(s) \in old
    <3>1. Durable!Expire({s})
      BY <1>4, <2>1, <2>2 DEF LoadNothing, Durable!Expire, Durable!Drop
    <3> QED
      BY <2>1, <3>1 DEF Durable!Next
  <2>3. CASE File(s) \notin old /\ disk[File(s)] = "alien"
    <3>1. Durable!Discard(s)
      BY <1>4, <2>1, <2>3 DEF LoadNothing, Durable!Discard, Durable!Drop
    <3> QED
      BY <2>1, <3>1 DEF Durable!Next
  <2>4. CASE File(s) \notin old /\ disk[File(s)] = "none"
    BY <1>4, <2>1, <2>4 DEF LoadNothing, Saved, OldSaved
  <2> QED
    BY <1>4, <2>1, <2>2, <2>3, <2>4 DEF LoadNothing
<1>5. CASE Delete(r)
  <2> DEFINE s == sid[r]
  <2>1. /\ s \in Session /\ closed' = closed \cup {s}
        /\ disk' = [disk EXCEPT ![File(s)] = "none"] /\ old' = old \ {File(s)}
    BY <1>5 DEF Delete
  <2> HIDE DEF s
  <2>2. Durable!Close(s)
    <3>1. \A u \in Session : disk'[File(u)] = IF u = s THEN "none" ELSE disk[File(u)]
      BY <2>1
    <3>2. \A u \in Session : File(u) \in old' <=> File(u) \in old /\ u # s
      BY <2>1
    <3>3. [u \in Session |-> disk'[File(u)]]
            = [[u \in Session |-> disk[File(u)]] EXCEPT ![s] = "none"]
      <4>1. [u \in Session |-> disk'[File(u)]]
              = [u \in Session |-> IF u = s THEN "none" ELSE disk[File(u)]]
        BY <3>1
      <4>2. [[u \in Session |-> disk[File(u)]] EXCEPT ![s] = "none"]
              = [u \in Session |-> IF u = s THEN "none" ELSE disk[File(u)]]
        OBVIOUS
      <4> QED
        BY <4>1, <4>2
    <3>4. {u \in Session : File(u) \in old'} = {u \in Session : File(u) \in old} \ {s}
      BY <3>2
    <3> QED
      BY <2>1, <3>3, <3>4 DEF Durable!Close
  <2> QED
    BY <2>1, <2>2 DEF Durable!Next
<1>6. CASE Initialize(r) \/ Count(r) \/ Insert(r) \/ WriteFails(r) \/ Load(r) \/ Reinsert(r)
  BY <1>6 DEF Initialize, Count, Insert, WriteFails, Load, Reinsert, Saved, OldSaved
<1>7. CASE \E s \in Session : Use(r, s) \/ Close(r, s)
  BY <1>7 DEF Use, Close, Saved, OldSaved
<1> QED
  BY <1>1, <1>2, <1>3, <1>4, <1>5, <1>6, <1>7 DEF Serve

\* Every step of the chain, a crash between any two of them included, is a step
\* of SessionMap or leaves it alone.
LEMMA NextRefines ==
  Types /\ StoreInv /\ [Next]_vars => [Durable!Next]_<<Saved, OldSaved, closed>>
<1> SUFFICES ASSUME Types, StoreInv, [Next]_vars
             PROVE  Durable!Next \/ UNCHANGED <<Saved, OldSaved, closed>>
  OBVIOUS
<1>1. CASE ((\E r \in Req : Authenticate(r)) \/ AuthEnvironment) /\ UNCHANGED Behind
  BY <1>1 DEF Behind, storeVars, Saved, OldSaved
<1>2. ASSUME NEW r \in Req, Serve(r)
      PROVE  Durable!Next \/ UNCHANGED <<Saved, OldSaved, closed>>
  BY <1>2, ServeRefines
<1>3. ASSUME NEW p \in Path, Age(p)
      PROVE  Durable!Next \/ UNCHANGED <<Saved, OldSaved, closed>>
  <2>1. PICK s \in Session : p = File(s) \/ p = Tmp(s)
    BY DistinctPaths
  <2>2. CASE p = File(s)
    <3>1. Durable!Age(s)
      BY <1>3, <2>2, DistinctPaths DEF Age, Files, Durable!Age
    <3> QED
      BY <3>1 DEF Durable!Next
  <2>3. CASE p = Tmp(s)
    BY <1>3, <2>3, DistinctPaths DEF Age, Saved, OldSaved
  <2> QED
    BY <2>1, <2>2, <2>3
<1>4. CASE Refill \/ Restart \/ UNCHANGED vars \/ (\E s \in Session : Idle(s))
  BY <1>4 DEF Refill, Restart, Idle, vars, storeVars, Saved, OldSaved
<1> QED
  BY <1>1, <1>2, <1>3, <1>4 DEF Next, Serve

\* session_store.rs: whatever requests, sweeps, write errors and crashes are
\* interleaved, the files are a SessionMap: a state appears whole, and goes only
\* by a delete, its TTL or because it does not parse.
THEOREM StoreRefinesSessionMap == Spec => DurableSessions
<1>1. Init => Durable!Init
  BY DistinctPaths DEF Init, Durable!Init
<1> QED
  BY <1>1, InitStore, InitTypes, NextTypes, NextStore, NextRefines, PTL
     DEF Spec, DurableSessions, Durable!Spec, Saved, OldSaved

==============================================================================
