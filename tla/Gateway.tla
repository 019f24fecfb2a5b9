------------------------------- MODULE Gateway -------------------------------
(***************************************************************************)
(* What a request to /mcp passes on its way to a tool (build_router,       *)
(* main.rs): bearer_auth (TokenCache), the limiter of fresh sessions       *)
(* (initialize_rate_limit, rate_limit.rs), the capped session pool         *)
(* (session.rs) and the durable session store (session_store.rs).          *)
(*                                                                         *)
(* rmcp's transport, which calls the pool and the store, is external: a    *)
(* POST without a session id creates a session, persists it and answers    *)
(* with its id; a request with an id that is not in memory is looked up in *)
(* the store and restored; a DELETE closes the session, then its state.    *)
(***************************************************************************)
EXTENDS TokenCache, Integers, FiniteSets

CONSTANTS
    Session,       \* session ids that are ever minted
    Cap,           \* MAX_SESSIONS
    Burst,         \* MAX_INITIALIZES_PER_IDENTITY
    MaxEntries,    \* MAX_PERSISTED_SESSIONS
    MaxRestarts    \* bound on restarts

ASSUME GatewayAssumption ==
    /\ Cap \in Nat \ {0} /\ Burst \in Nat \ {0} /\ MaxEntries \in Nat
    /\ MaxRestarts \in Nat
    /\ None \notin Session \cup Req

VARIABLES
    pool,      \* sessions in memory
    gate,      \* create_gate: the request that holds it, or None
    inits,     \* what the identity's initialize bucket still allows
    disk,      \* the files of the store: state files and temporary ones
    old,       \* files whose mtime is further back than SESSION_STATE_TTL
    minted,    \* ids that were given to a session
    known,     \* ids whose client has got them
    closed,    \* history: sessions whose persisted state was deleted
    sid,       \* the session each request is about, None for a fresh one
    restarts   \* restarts so far (bound)

poolVars  == <<pool, gate, inits>>
storeVars == <<disk, old, closed>>
idVars    == <<minted, known>>
vars == <<authVars, pc, who, poolVars, storeVars, idVars, sid, restarts>>

\* {sha256(id)}.json, and the same with the extension json.tmp.
Path == Session \X {"json", "tmp"}
File(s) == <<s, "json">>
Tmp(s)  == <<s, "tmp">>
Files   == {p \in Path : disk[p] # "none"}

Init ==
    /\ AuthInit
    /\ pool = {} /\ gate = None /\ inits = Burst
    /\ disk \in {d \in [Path -> {"none", "alien"}] : \A s \in Session : d[Tmp(s)] = "none"}
    /\ old = {}
    /\ minted = {s \in Session : disk[File(s)] = "alien"}
    /\ known = minted
    /\ closed = {}
    /\ sid = [r \in Req |-> None]
    /\ restarts = 0

Done(r) ==
    /\ Respond(r)
    /\ sid' = [sid EXCEPT ![r] = None]

-----------------------------------------------------------------------------
(* A fresh session *)

\* Mutant of Initialize: the bucket is charged without a look at it.
InitializeBlind(r) ==
    /\ pc[r] = "admitted"
    /\ minted # Session
    /\ inits' = inits - 1 /\ Goto(r, "create") /\ UNCHANGED <<who, sid>>
    /\ UNCHANGED <<authVars, pool, gate, storeVars, idVars, restarts>>

\* initialize_rate_limit: a POST without a session id is charged to the identity.
Initialize(r) ==
    /\ pc[r] = "admitted"
    /\ minted # Session
    /\ IF inits = 0 THEN Done(r) /\ UNCHANGED inits
       ELSE inits' = inits - 1 /\ Goto(r, "create") /\ UNCHANGED <<who, sid>>
    /\ UNCHANGED <<authVars, pool, gate, storeVars, idVars, restarts>>

\* The initialize bucket gets a cell back.
Refill ==
    /\ inits < Burst
    /\ inits' = inits + 1
    /\ UNCHANGED <<authVars, pc, who, pool, gate, storeVars, idVars, sid, restarts>>

\* Mutant of Count: the pool is counted without the gate.
CountUngated(r) ==
    /\ pc[r] \in {"create", "restore"}
    /\ IF Cardinality(pool) >= Cap THEN Done(r) /\ UNCHANGED gate
       ELSE /\ Goto(r, IF pc[r] = "create" THEN "insert" ELSE "reinsert")
            /\ UNCHANGED <<gate, who, sid>>
    /\ UNCHANGED <<authVars, pool, inits, storeVars, idVars, restarts>>

\* create_session and restore_session take the gate, and give it back at once
\* when the pool is full.
Count(r) ==
    /\ pc[r] \in {"create", "restore"}
    /\ gate = None
    /\ IF Cardinality(pool) >= Cap THEN Done(r) /\ UNCHANGED gate
       ELSE /\ gate' = r
            /\ Goto(r, IF pc[r] = "create" THEN "insert" ELSE "reinsert")
            /\ UNCHANGED <<who, sid>>
    /\ UNCHANGED <<authVars, pool, inits, storeVars, idVars, restarts>>

Insert(r) ==
    /\ pc[r] = "insert"
    /\ \E s \in Session \ minted :
         /\ pool' = pool \cup {s}
         /\ minted' = minted \cup {s}
         /\ sid' = [sid EXCEPT ![r] = s]
    /\ gate' = None
    /\ Goto(r, "store")
    /\ UNCHANGED <<authVars, who, inits, storeVars, known, restarts>>

-----------------------------------------------------------------------------
(* The durable store *)

\* The session id goes back to its client.
Answer(r) ==
    /\ known' = known \cup {sid[r]}
    /\ Done(r)

\* The files that a sweep leaves: a removal may fail.
Swept(gone) == gone \subseteq old \cap Files

\* store: a new file makes it sweep first (removing the expired files, counting
\* the rest, temporary ones included), and refuse at the cap; the session then
\* lives in memory only.
StoreSweep(r, gone) ==
    /\ pc[r] = "store"
    /\ Swept(gone)
    /\ disk' = [p \in Path |-> IF p \in gone THEN "none" ELSE disk[p]]
    /\ old' = old \ gone
    /\ IF Cardinality(Files \ gone) >= MaxEntries
       THEN Answer(r)
       ELSE Goto(r, "write") /\ UNCHANGED <<who, sid, known>>
    /\ UNCHANGED <<authVars, poolVars, closed, minted, restarts>>

\* Mutant of Write: the state file itself is written.
WriteInPlace(r) ==
    /\ pc[r] = "write"
    /\ disk' = [disk EXCEPT ![File(sid[r])] = "torn"]
    /\ old' = old \ {Tmp(sid[r])}
    /\ Goto(r, "writing")
    /\ UNCHANGED <<authVars, who, poolVars, closed, idVars, sid, restarts>>

\* std::fs::write of the temporary file: it is there before it is complete.
Write(r) ==
    /\ pc[r] = "write"
    /\ disk' = [disk EXCEPT ![Tmp(sid[r])] = "torn"]
    /\ old' = old \ {Tmp(sid[r])}
    /\ Goto(r, "writing")
    /\ UNCHANGED <<authVars, who, poolVars, closed, idVars, sid, restarts>>

Written(r) ==
    /\ pc[r] = "writing"
    /\ disk' = [disk EXCEPT ![Tmp(sid[r])] = "whole"]
    /\ Goto(r, "rename")
    /\ UNCHANGED <<authVars, who, old, poolVars, closed, idVars, sid, restarts>>

\* The rename puts the state in place; then the handshake is answered.
Rename(r) ==
    LET s == sid[r] IN
    /\ pc[r] = "rename"
    /\ disk' = [disk EXCEPT ![File(s)] = disk[Tmp(s)], ![Tmp(s)] = "none"]
    /\ old' = old \ {File(s), Tmp(s)}
    /\ Answer(r)
    /\ UNCHANGED <<authVars, poolVars, closed, minted, restarts>>

\* A write error leaves what is on the disk and the session in memory.
WriteFails(r) ==
    /\ pc[r] \in {"write", "writing", "rename"}
    /\ Answer(r)
    /\ UNCHANGED <<authVars, poolVars, storeVars, minted, restarts>>

\* A file that is not being written reaches its TTL.
Age(p) ==
    /\ p \in Files \ old
    /\ \A r \in Req : pc[r] \in {"writing", "rename"} => p # Tmp(sid[r])
    /\ old' = old \cup {p}
    /\ UNCHANGED <<authVars, pc, who, poolVars, disk, closed, idVars, sid, restarts>>

-----------------------------------------------------------------------------
(* A request with a session id *)

\* has_session: one that is in memory gets the request; an unknown id goes to
\* the store.
Use(r, s) ==
    /\ pc[r] = "admitted"
    /\ s \in known
    /\ IF s \in pool THEN Done(r)
       ELSE Goto(r, "load") /\ sid' = [sid EXCEPT ![r] = s] /\ UNCHANGED who
    /\ UNCHANGED <<authVars, poolVars, storeVars, idVars, restarts>>

\* load: no file, an expired one or one that does not parse is a 404, and the
\* latter two are removed.
LoadNothing(r) ==
    LET f == File(sid[r]) IN
    /\ pc[r] = "load"
    /\ disk[f] \in {"none", "alien", "torn"} \/ f \in old
    /\ disk' = [disk EXCEPT ![f] = "none"]
    /\ old' = old \ {f}
    /\ Done(r)
    /\ UNCHANGED <<authVars, poolVars, closed, idVars, restarts>>

Load(r) ==
    LET f == File(sid[r]) IN
    /\ pc[r] = "load"
    /\ disk[f] = "whole" /\ f \notin old
    /\ Goto(r, "restore")
    /\ UNCHANGED <<authVars, who, poolVars, storeVars, idVars, sid, restarts>>

\* restore_session, the gate still held: two restores of one id are one session.
Reinsert(r) ==
    /\ pc[r] = "reinsert"
    /\ pool' = pool \cup {sid[r]}
    /\ gate' = None
    /\ Done(r)
    /\ UNCHANGED <<authVars, inits, storeVars, idVars, restarts>>

\* DELETE: close_session, then delete.
Close(r, s) ==
    /\ pc[r] = "admitted"
    /\ s \in known
    /\ pool' = pool \ {s}
    /\ Goto(r, "delete")
    /\ sid' = [sid EXCEPT ![r] = s]
    /\ UNCHANGED <<authVars, who, gate, inits, storeVars, idVars, restarts>>

Delete(r) ==
    /\ pc[r] = "delete"
    /\ disk' = [disk EXCEPT ![File(sid[r])] = "none"]
    /\ old' = old \ {File(sid[r])}
    /\ closed' = closed \cup {sid[r]}
    /\ Done(r)
    /\ UNCHANGED <<authVars, poolVars, idVars, restarts>>

\* SESSION_KEEP_ALIVE passes without a request: the session leaves the memory.
Idle(s) ==
    /\ s \in pool
    /\ \A r \in Req : sid[r] # s
    /\ pool' = pool \ {s}
    /\ UNCHANGED <<authVars, pc, who, gate, inits, storeVars, idVars, sid, restarts>>

\* The process stops, anywhere, and starts again: only the disk stays.
Restart ==
    /\ restarts < MaxRestarts
    /\ restarts' = restarts + 1
    /\ pool' = {} /\ gate' = None /\ inits' = Burst
    /\ pc' = [r \in Req |-> "idle"]
    /\ who' = [r \in Req |-> None]
    /\ sid' = [r \in Req |-> None]
    /\ waited' = [r \in Req |-> 0]
    /\ ttl' = [t \in Token |-> 0]
    /\ UNCHANGED <<revoked, exp, since, storeVars, idVars>>

-----------------------------------------------------------------------------

Behind == <<poolVars, storeVars, idVars, sid, restarts>>

Next ==
    \/ \E r \in Req : Authenticate(r) /\ UNCHANGED Behind
    \/ AuthEnvironment /\ UNCHANGED Behind
    \/ \E r \in Req :
         \/ Initialize(r) \/ Count(r) \/ Insert(r)
         \/ \E gone \in SUBSET Path : StoreSweep(r, gone)
         \/ Write(r) \/ Written(r) \/ Rename(r) \/ WriteFails(r)
         \/ \E s \in Session : Use(r, s) \/ Close(r, s)
         \/ LoadNothing(r) \/ Load(r) \/ Reinsert(r) \/ Delete(r)
    \/ Refill
    \/ \E p \in Path : Age(p)
    \/ \E s \in Session : Idle(s)
    \/ Restart

Spec == Init /\ [][Next]_vars

-----------------------------------------------------------------------------
(* Properties *)

\* Type correctness of the whole chain.
TypeOK ==
    /\ AuthTypeOK
    /\ pool \subseteq minted /\ minted \subseteq Session /\ known \subseteq minted
    /\ gate \in Req \cup {None}
    /\ inits \in 0..Burst
    /\ disk \in [Path -> {"none", "torn", "whole", "alien"}]
    /\ old \subseteq Path
    /\ \A r \in Req : sid[r] \in Session \cup {None}

\* However many handshakes and restores arrive at once, the pool never holds
\* more than its cap (create_session: "concurrent initializes cannot all observe
\* `count < MAX_SESSIONS` and then each insert").
PoolWithinCap == Cardinality(pool) <= Cap

\* The files of the store, through crashes and restarts between any two of its
\* steps, are a session map: a state is whole when it can be loaded, and it goes
\* only by a delete, its TTL, or because it does not parse.
Durable == INSTANCE SessionMap WITH
    saved <- [s \in Session |-> disk[File(s)]],
    old <- {s \in Session : File(s) \in old},
    closed <- closed

DurableSessions == Durable!Spec

==============================================================================
