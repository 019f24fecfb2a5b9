-------------------------------- MODULE Setup --------------------------------
(***************************************************************************)
(* The browser flow of /setup (setup.rs): sign-in with a one-time state    *)
(* token, a setup session, the key form, and the import of the recovery    *)
(* key into the client that the connector's tool calls have put into the   *)
(* cache, which may be evicted, lose its bearer or be given a new one by a *)
(* tool call at any moment. The back-fill that an import spawns goes       *)
(* through KeyBackupGate.                                                  *)
(*                                                                         *)
(* One account. Entries of the two maps are live, or stale once their TTL  *)
(* has passed; a stale one stays in its map until somebody prunes it.      *)
(***************************************************************************)
EXTENDS KeyBackupGate

CONSTANTS
    Token,          \* state tokens that are ever minted
    Sid,            \* setup session ids that are ever minted
    Req,            \* browser requests in flight at a time
    Client,         \* matrix-sdk clients that are ever built
    JobOf,          \* the task slot of each request's back-fill
    MaxPkce,        \* PKCE_MAX_PENDING
    MaxSessions     \* SESSIONS_MAX_PENDING

ASSUME SetupAssumption ==
    /\ MaxPkce \in Nat \ {0} /\ MaxSessions \in Nat \ {0}
    /\ JobOf \in [Req -> Job]
    /\ None \notin Token \cup Sid \cup Client

VARIABLES
    pkce,      \* pkce_states: what became of each state token
    sess,      \* sessions: what became of each session id
    madeBy,    \* history: the state token each session was made with
    spent,     \* history: sessions whose import was answered with success
    cached,    \* MatrixClientCache's client of the account, or None
    built,     \* clients built so far (bound)
    dead,      \* clients whose bearer the homeserver does not accept
    req        \* the requests

webVars   == <<pkce, sess, madeBy, spent>>
cacheVars == <<cached, built, dead>>
vars == <<webVars, cacheVars, req, gateVars>>

Entry == {"unused", "live", "stale", "gone"}
InMap(m) == {k \in DOMAIN m : m[k] \in {"live", "stale"}}

\* prune_expired_pkce, prune_expired_sessions
Pruned(m) == [k \in DOMAIN m |-> IF m[k] = "stale" THEN "gone" ELSE m[k]]

\* Mutant of Inserted: a full map is pruned and then inserted into.
InsertedAnyway(m, k, max) ==
    [(IF Cardinality(InMap(m)) >= max THEN Pruned(m) ELSE m) EXCEPT ![k] = "live"]

\* insert_pending_pkce, insert_pending_session: prune when full, refuse when
\* still full.
Inserted(m, k, max) ==
    LET room == IF Cardinality(InMap(m)) >= max THEN Pruned(m) ELSE m
    IN IF Cardinality(InMap(room)) >= max THEN room ELSE [room EXCEPT ![k] = "live"]

\* A request; `revoked' (history) are the clients whose bearer has been dead ever
\* since the request came in.
NoReq == [pc |-> "idle", tok |-> None, sid |-> None, client |-> None,
          late |-> FALSE, revoked |-> {}]

Init ==
    /\ GateInit
    /\ pkce = [t \in Token |-> "unused"]
    /\ sess = [s \in Sid |-> "unused"]
    /\ madeBy = [s \in Sid |-> None] /\ spent = {}
    /\ cached = None /\ built = {} /\ dead = {}
    /\ req = [q \in Req |-> NoReq]

At(q, l)   == req[q].pc = l
Answer(q)  == req' = [req EXCEPT ![q] = NoReq]
Goto(q, l) == req' = [req EXCEPT ![q].pc = l]

-----------------------------------------------------------------------------
(* Signing in *)

\* GET /setup/login
Login ==
    /\ \E t \in Token : pkce[t] = "unused" /\ pkce' = Inserted(pkce, t, MaxPkce)
    /\ UNCHANGED <<sess, madeBy, spent, cacheVars, req, gateVars>>

\* Mutant of Callback: the state token is looked up and stays.
CallbackKeeps(q, t) ==
    /\ At(q, "idle")
    /\ pkce' = Pruned(pkce)
    /\ IF pkce[t] = "live" THEN req' = [req EXCEPT ![q].pc = "exchange", ![q].tok = t]
       ELSE UNCHANGED req
    /\ UNCHANGED <<sess, madeBy, spent, cacheVars, gateVars>>

\* GET /setup/callback with a code: the state token is taken out of its map.
Callback(q, t) ==
    /\ At(q, "idle")
    /\ LET rest == Pruned(pkce)
       IN IF rest[t] = "live"
          THEN /\ pkce' = [rest EXCEPT ![t] = "gone"]
               /\ req' = [req EXCEPT ![q].pc = "exchange", ![q].tok = t]
          ELSE pkce' = rest /\ UNCHANGED req
    /\ UNCHANGED <<sess, madeBy, spent, cacheVars, gateVars>>

\* exchange_and_introspect gives an identity: a session, if there is room.
ExchangeOk(q) ==
    /\ At(q, "exchange")
    /\ \E s \in Sid :
        /\ sess[s] = "unused"
        /\ sess' = Inserted(sess, s, MaxSessions)
        /\ madeBy' = IF sess'[s] = "live" THEN [madeBy EXCEPT ![s] = req[q].tok] ELSE madeBy
    /\ Answer(q)
    /\ UNCHANGED <<pkce, spent, cacheVars, gateVars>>

\* The token endpoint or the introspection fails or refuses.
ExchangeFails(q) ==
    /\ At(q, "exchange")
    /\ Answer(q)
    /\ UNCHANGED <<webVars, cacheVars, gateVars>>

-----------------------------------------------------------------------------
(* The key form and the import *)

\* current_session: the maps are pruned, then the cookie's session looked up.
CurrentSession(q, s, l) ==
    /\ At(q, "idle")
    /\ sess' = Pruned(sess)
    /\ IF sess[s] = "live"
       THEN req' = [req EXCEPT ![q] = [NoReq EXCEPT !.pc = l, !.sid = s,
                                                    !.late = s \in spent, !.revoked = dead]]
       ELSE UNCHANGED req
    /\ UNCHANGED <<pkce, madeBy, spent, cacheVars, gateVars>>

\* GET /setup/form: no client yet is no reason to refuse the form.
Form(q, s) == CurrentSession(q, s, "form")

FormCached(q) ==
    /\ At(q, "form")
    /\ req' = [req EXCEPT ![q].client = cached,
                          ![q].pc = IF cached = None THEN "shown" ELSE "form_whoami"]
    /\ UNCHANGED <<webVars, cacheVars, gateVars>>

\* POST /setup/recover
Recover(q, s) == CurrentSession(q, s, "recover")

\* A wrong CSRF token, or an empty key.
Refuse(q) ==
    /\ At(q, "recover")
    /\ Answer(q)
    /\ UNCHANGED <<webVars, cacheVars, gateVars>>

\* contains(): the connector's client has to be there.
Contains(q) ==
    /\ At(q, "recover")
    /\ IF cached = None THEN Answer(q) ELSE Goto(q, "get")
    /\ UNCHANGED <<webVars, cacheVars, gateVars>>

\* Mutant of GetIfCached: the cache hit is taken for granted after contains().
GetGuaranteed(q) ==
    /\ At(q, "get")
    /\ req' = [req EXCEPT ![q].pc = "whoami", ![q].client = cached]
    /\ UNCHANGED <<webVars, cacheVars, gateVars>>

\* get_if_cached(): it may have been evicted, or replaced, since.
GetIfCached(q) ==
    /\ At(q, "get")
    /\ IF cached = None THEN Answer(q)
       ELSE req' = [req EXCEPT ![q].pc = "whoami", ![q].client = cached]
    /\ UNCHANGED <<webVars, cacheVars, gateVars>>

\* Mutant of Live: a client that is there is good enough.
Cached(c) == TRUE

\* The homeserver accepts the client's bearer.
Live(c) == c \notin dead

\* setup_gate(true, cached_bearer_is_live): proceeds only when whoami answers.
WhoAmI(q) ==
    /\ \/ At(q, "whoami") /\ Live(req[q].client) /\ Goto(q, "import")
       \/ At(q, "form_whoami") /\ Live(req[q].client) /\ Goto(q, "shown")
       \/ (At(q, "whoami") \/ At(q, "form_whoami")) /\ Answer(q)
    /\ UNCHANGED <<webVars, cacheVars, gateVars>>

Shown(q) ==
    /\ At(q, "shown")
    /\ Answer(q)
    /\ UNCHANGED <<webVars, cacheVars, gateVars>>

\* recover(&key) succeeds, and the back-fill is spawned.
ImportOk(q) ==
    /\ At(q, "import") /\ req[q].client \notin dead
    /\ Spawn(JobOf[q])
    /\ Goto(q, "invalidate")
    /\ UNCHANGED <<webVars, cacheVars>>

\* The key is wrong, or the bearer died since.
ImportFails(q) ==
    /\ At(q, "import")
    /\ Answer(q)
    /\ UNCHANGED <<webVars, cacheVars, gateVars>>

\* Mutant of Invalidate: only the browser's cookie is cleared.
InvalidateCookie(q) ==
    /\ At(q, "invalidate")
    /\ spent' = spent \cup {req[q].sid}
    /\ Answer(q)
    /\ UNCHANGED <<pkce, sess, madeBy, cacheVars, gateVars>>

\* `so reload doesn't replay'
Invalidate(q) ==
    /\ At(q, "invalidate")
    /\ sess' = [sess EXCEPT ![req[q].sid] = "gone"]
    /\ spent' = spent \cup {req[q].sid}
    /\ Answer(q)
    /\ UNCHANGED <<pkce, madeBy, cacheVars, gateVars>>

-----------------------------------------------------------------------------
(* Time, and the connector's tool calls *)

Ages ==
    /\ \/ /\ \E t \in Token : pkce[t] = "live" /\ pkce' = [pkce EXCEPT ![t] = "stale"]
          /\ UNCHANGED sess
       \/ /\ \E s \in Sid : sess[s] = "live" /\ sess' = [sess EXCEPT ![s] = "stale"]
          /\ UNCHANGED pkce
    /\ UNCHANGED <<madeBy, spent, cacheVars, req, gateVars>>

\* for_user builds the account's client.
Build(c) ==
    /\ cached = None /\ c \notin built
    /\ cached' = c /\ built' = built \cup {c}
    /\ UNCHANGED <<dead, webVars, req, gateVars>>

\* react_to_auth_expiry, or verify_or_heal before it wipes the store.
Evict ==
    /\ cached # None
    /\ cached' = None
    /\ UNCHANGED <<built, dead, webVars, req, gateVars>>

\* The device is signed out elsewhere, or its token expires.
Revoke(c) ==
    /\ c \in built \ dead
    /\ dead' = dead \cup {c}
    /\ UNCHANGED <<cached, built, webVars, req, gateVars>>

\* refresh_token_if_needed: a tool call with a newer token installs it in place,
\* in a client that it found in the cache, whoever else holds that client.
Refresh(c) ==
    /\ c \in dead
    /\ dead' = dead \ {c}
    /\ req' = [q \in Req |-> [req[q] EXCEPT !.revoked = @ \ {c}]]
    /\ UNCHANGED <<cached, built, webVars, gateVars>>

\* A tool call downloads keys.
ToolPull ==
    /\ \E j \in Job, x \in KeyRoom : (\A q \in Req : JobOf[q] # j) /\ PullRoom(j, x)
    /\ UNCHANGED <<webVars, cacheVars, req>>

Download ==
    /\ \/ \E j \in Job : JobStep(j)
       \/ \E x \in KeyRoom : CooldownEnds(x)
    /\ UNCHANGED <<webVars, cacheVars, req>>

Handle(q) ==
    \/ \E t \in Token : Callback(q, t)
    \/ ExchangeOk(q) \/ ExchangeFails(q)
    \/ \E s \in Sid : Form(q, s) \/ Recover(q, s)
    \/ FormCached(q) \/ Refuse(q) \/ Contains(q) \/ GetIfCached(q)
    \/ WhoAmI(q) \/ Shown(q) \/ ImportOk(q) \/ ImportFails(q) \/ Invalidate(q)

Next ==
    \/ Login
    \/ \E q \in Req : Handle(q)
    \/ Ages
    \/ \E c \in Client : Build(c) \/ Revoke(c) \/ Refresh(c)
    \/ Evict
    \/ ToolPull
    \/ Download

Spec == Init /\ [][Next]_vars

-----------------------------------------------------------------------------
(* Properties *)

\* Every variable stays in its set; a request has the session, the token and
\* the client that its step works with.
TypeOK ==
    /\ GateTypeOK
    /\ pkce \in [Token -> Entry] /\ sess \in [Sid -> Entry]
    /\ madeBy \in [Sid -> Token \cup {None}] /\ spent \subseteq Sid
    /\ cached \in Client \cup {None} /\ built \subseteq Client /\ dead \subseteq built
    /\ \A q \in Req :
        /\ req[q].sid \in Sid \cup {None} /\ req[q].tok \in Token \cup {None}
        /\ At(q, "exchange") => req[q].tok # None
        /\ req[q].pc \in {"whoami", "form_whoami", "import", "invalidate"}
              => req[q].sid # None /\ req[q].client \in built
        /\ req[q].late \in BOOLEAN /\ req[q].revoked \subseteq dead

\* The endpoint is public: whatever the order of logins, callbacks and expiry,
\* neither map holds more than its cap, stale entries included.
MapsBounded ==
    /\ Cardinality(InMap(pkce)) <= MaxPkce
    /\ Cardinality(InMap(sess)) <= MaxSessions

\* A sign-in is good for one session: a callback that is repeated, also while
\* the first one waits for the token endpoint, finds its state token gone.
OneSessionPerLogin ==
    \A s1, s2 \in Sid : madeBy[s1] = madeBy[s2] /\ madeBy[s1] # None => s1 = s2

\* Once an import was answered with success, a reload with the same session
\* does not import again, however many requests are in flight meanwhile.
SpentNotReused == \A q \in Req : At(q, "import") => ~req[q].late

\* A client whose bearer was dead when the request came in, and that no tool call
\* has given a new one since, gets neither the key form nor an import, even if the
\* cache changes and other clients die or are revived while the request runs
\* ("liveness, not presence").
GateBeforeKey ==
    \A q \in Req : At(q, "import") \/ At(q, "shown") => req[q].client \notin req[q].revoked
=============================================================================
