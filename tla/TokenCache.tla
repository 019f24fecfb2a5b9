------------------------------ MODULE TokenCache ------------------------------
(***************************************************************************)
(* Bearer authentication: the middleware bearer_auth (auth.rs) and the     *)
(* introspection client it asks, with its cache (mas.rs). A request is     *)
(* admitted on a cached answer or on a fresh one of MAS, the authorization *)
(* server; a tool that meets the homeserver's 401 drops the token's entry. *)
(*                                                                         *)
(* Time passes in ticks. MAS decides when it answers; its answer arrives   *)
(* later, within the HTTP client's timeout.                                *)
(***************************************************************************)
EXTENDS Naturals

CONSTANTS
    Req,       \* slots in which a request may be in flight
    Token,     \* access tokens
    Unfit,     \* tokens MAS calls active for good that introspect refuses all the
               \* same: no Matrix scope, no sub, no username, another audience
    Life,      \* ticks until exp, for the tokens whose answer carries an exp
    MaxTtl,    \* MAX_CACHE_TTL, in ticks
    Timeout,   \* the introspection request's timeout, in ticks
    None

ASSUME TokenCacheAssumption ==
    /\ Unfit \subseteq Token
    /\ Life \subseteq Nat
    /\ MaxTtl \in Nat \ {0} /\ Timeout \in Nat \ {0}
    /\ None \notin Token \cup Nat

VARIABLES
    revoked,   \* tokens that MAS was told to revoke
    exp,       \* ticks until each token's exp, None without one
    ttl,       \* ticks for which each token's cache entry is still served
    since,     \* history: ticks since MAS would last have called it active
    pc,        \* where each request is
    who,       \* the token it presents
    waited     \* ticks since it asked MAS

authVars == <<revoked, exp, ttl, since, waited>>

\* The age from which on TLC no longer counts.
MaxSince == MaxTtl + Timeout + 1

AuthInit ==
    /\ revoked = {}
    /\ exp \in {e \in [Token -> Life \cup {None}] : \A t \in Unfit : e[t] = None}
    /\ ttl = [t \in Token |-> 0]
    /\ since = [t \in Token |-> 0]
    /\ pc = [r \in Req |-> "idle"]
    /\ who = [r \in Req |-> None]
    /\ waited = [r \in Req |-> 0]

Active(t) == t \notin revoked /\ exp[t] # 0

Goto(r, p) == pc' = [pc EXCEPT ![r] = p]

\* The response goes out.
Respond(r) ==
    /\ Goto(r, "idle")
    /\ who' = [who EXCEPT ![r] = None]

-----------------------------------------------------------------------------

\* Mutant of CacheHit: a hit prolongs the entry.
CacheHitSliding(r, t) ==
    /\ pc[r] = "idle"
    /\ ttl[t] > 0
    /\ who' = [who EXCEPT ![r] = t]
    /\ Goto(r, "admitted")
    /\ ttl' = [ttl EXCEPT ![t] = MaxTtl]
    /\ UNCHANGED <<revoked, exp, since, waited>>

\* bearer_auth, cache_lookup: an entry whose expires_at is still ahead admits the
\* request without asking anybody.
CacheHit(r, t) ==
    /\ pc[r] = "idle"
    /\ ttl[t] > 0
    /\ who' = [who EXCEPT ![r] = t]
    /\ Goto(r, "admitted")
    /\ UNCHANGED authVars

\* Otherwise MAS is asked.
CacheMiss(r, t) ==
    /\ pc[r] = "idle"
    /\ ttl[t] = 0
    /\ who' = [who EXCEPT ![r] = t]
    /\ Goto(r, "asked")
    /\ UNCHANGED authVars

\* MAS calls the token active; the answer is on its way.
MasActive(r) ==
    /\ pc[r] = "asked"
    /\ Active(who[r])
    /\ who[r] \notin Unfit
    /\ Goto(r, "answered")
    /\ UNCHANGED <<who, authVars>>

\* An inactive token, or one introspect refuses, is a 401.
Unauthorized(r) ==
    /\ pc[r] = "asked"
    /\ ~Active(who[r]) \/ who[r] \in Unfit
    /\ Respond(r)
    /\ waited' = [waited EXCEPT ![r] = 0]
    /\ UNCHANGED <<revoked, exp, ttl, since>>

\* No answer in time, or an error status: a 500, nothing is cached.
MasFails(r) ==
    /\ pc[r] \in {"asked", "answered"}
    /\ Respond(r)
    /\ waited' = [waited EXCEPT ![r] = 0]
    /\ UNCHANGED <<revoked, exp, ttl, since>>

\* Mutant of TtlOf: an exp that has passed counts as no exp.
TtlOfPast(t) ==
    IF exp[t] = None \/ exp[t] = 0 \/ exp[t] > MaxTtl THEN MaxTtl ELSE exp[t]

\* min(remaining, MAX_CACHE_TTL) as of now; without an exp the whole TTL, with
\* one in the past nothing.
TtlOf(t) == IF exp[t] = None \/ exp[t] > MaxTtl THEN MaxTtl ELSE exp[t]

\* The answer arrives: it is cached, whatever happened to the token or to its
\* entry since MAS gave it, and the request is admitted. (An overfull cache is
\* swept of the expired entries, which are never served anyway.)
cache_insert(r) ==
    /\ pc[r] = "answered"
    /\ ttl' = [ttl EXCEPT ![who[r]] = TtlOf(who[r])]
    /\ waited' = [waited EXCEPT ![r] = 0]
    /\ Goto(r, "admitted")
    /\ UNCHANGED <<who, revoked, exp, since>>

\* react_to_auth_expiry, in a tool call that runs with the token.
drop_token(t) ==
    /\ t \in revoked
    /\ ttl[t] > 0
    /\ ttl' = [ttl EXCEPT ![t] = 0]
    /\ UNCHANGED <<revoked, exp, since, waited, pc, who>>

Revoke(t) ==
    /\ t \notin revoked \cup Unfit
    /\ revoked' = revoked \cup {t}
    /\ UNCHANGED <<exp, ttl, since, waited, pc, who>>

Down(n) == IF n = None \/ n = 0 THEN n ELSE n - 1

\* Time passes; a request that has waited for MAS as long as the HTTP client
\* allows fails before it does.
Tick ==
    LET Waiting == {r \in Req : pc[r] \in {"asked", "answered"}} IN
    /\ \A r \in Waiting : waited[r] < Timeout
    /\ exp' = [t \in Token |-> Down(exp[t])]
    /\ ttl' = [t \in Token |-> Down(ttl[t])]
    /\ since' = [t \in Token |-> IF Active(t) THEN 0
                                 ELSE IF since[t] < MaxSince THEN since[t] + 1 ELSE since[t]]
    /\ waited' = [r \in Req |-> IF r \in Waiting THEN waited[r] + 1 ELSE waited[r]]
    /\ UNCHANGED <<revoked, pc, who>>

Authenticate(r) ==
    \/ \E t \in Token : CacheHit(r, t) \/ CacheMiss(r, t)
    \/ MasActive(r) \/ Unauthorized(r) \/ MasFails(r) \/ cache_insert(r)

AuthEnvironment ==
    \/ \E t \in Token : drop_token(t) \/ Revoke(t)
    \/ Tick

-----------------------------------------------------------------------------
(* Properties *)

AuthTypeOK ==
    /\ revoked \subseteq Token
    /\ \A t \in Token :
         /\ exp[t] \in Nat \cup {None}
         /\ ttl[t] \in 0..MaxTtl
         /\ since[t] \in 0..MaxSince
    /\ \A r \in Req :
         /\ who[r] \in Token \cup {None}
         /\ waited[r] \in 0..Timeout

\* A request is admitted only with a token that MAS would have called active no
\* longer ago than the cache's TTL plus the time an answer may take: neither a
\* hit, nor an answer that overtakes drop_token on its way back, stretches that.
StaleAdmissionBounded ==
    [][\A r \in Req :
         pc[r] # "admitted" /\ pc'[r] = "admitted" => since[who'[r]] <= MaxTtl + Timeout]_<<pc, who>>

\* No cache entry outlives the token's exp (cache_insert: an exp in the past is
\* "read as expired on the very next lookup").
NotServedPastExp == \A t \in Token : exp[t] # None => ttl[t] <= exp[t]

==============================================================================
