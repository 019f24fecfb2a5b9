----------------------------- MODULE ClientCache -----------------------------
(***************************************************************************)
(* MatrixClientCache (matrix_client.rs): one matrix-sdk client per Matrix  *)
(* account, built on demand inside a per-account OnceCell, shared by every *)
(* concurrent request of that account, checked against the homeserver's    *)
(* /keys/query and, once per process, healed by wiping the account's store *)
(* and building it again.                                                  *)
(*                                                                         *)
(* A request is a process that runs for_user one await point at a time.    *)
(* The homeserver, the background sync task, the operator who restarts the *)
(* pod and the tool that runs with the client are the environment.         *)
(*                                                                         *)
(* A cell identity stands for one Arc<OnceCell<Arc<CachedClient>>>: it is  *)
(* free again once the map and every stack frame have dropped it, and that *)
(* is the moment CachedClient's Drop aborts the sync task.                 *)
(***************************************************************************)
EXTENDS Naturals

CONSTANTS
    User,          \* Matrix accounts (mxids)
    Req,           \* slots in which a request may be in flight
    Bearer,        \* access tokens
    UserOf,        \* the account a request slot authenticates as
    BearerOf,      \* the access token a request slot presents
    DeviceBound,   \* the tokens whose scope carries a device id
    Cell,          \* identities for OnceCells alive at the same time
    None,          \* "no entry" / "no reference" / "no token"
    MaxRestarts    \* bound on process restarts

ASSUME RequestAssumption ==
    /\ UserOf \in [Req -> User]
    /\ BearerOf \in [Req -> Bearer]
    /\ DeviceBound \subseteq Bearer
ASSUME CellAssumption == None \notin Cell \cup Bearer
ASSUME RestartAssumption == MaxRestarts \in Nat

VARIABLES
    map,        \* inner: the cell each account's entry holds, or None
    cell,       \* what each cell holds
    healed,     \* accounts whose one heal this process has claimed
    pc,         \* where each request is in for_user
    retry,      \* the retry argument of the request's current pass
    cur,        \* the cell the request's current frame works on
    slow,       \* that frame also holds the OnceCell itself (slow path)
    outer,      \* the OnceCell kept alive by the frame the heal recursed from
    dead,       \* history: cells already dead when the request started
    storeGen,   \* generation of the account's store directory
    latched,    \* generations whose device_keys_published flag is set
                \* although the homeserver did not take the keys
    published,  \* the generation whose device keys the homeserver holds,
                \* as a set: empty while it holds none
    backup,     \* the homeserver holds a key backup for the account
    late,       \* history: healing requests whose yes to the backup question
                \* a deletion of the backup has overtaken
    wipes,      \* history: store wipes per account in this process
    restarts    \* restarts so far (bound)

reqVars   == <<pc, retry, cur, slow, outer, dead>>
cacheVars == <<map, cell, healed>>
envVars   == <<storeGen, latched, published, backup, late>>
vars      == <<reqVars, cacheVars, envVars, wipes, restarts>>

-----------------------------------------------------------------------------
(* State *)

Phase == { "idle",
           "lookup", "stale", "insert", "init", "build", "restore",
           "refresh", "verify", "query", "claim", "backup", "evict", "wipe",
           "await", "ok", "failed" }

\* A CachedClient and the state of the OnceCell around it.
CellRecord ==
    [ st       : {"free", "empty", "building", "ready"},
      gen      : Nat,
      sync     : {"none", "running", "finished"},
      verified : BOOLEAN,
      token    : Bearer \cup {None} ]

FreeCell  == [st |-> "free",  gen |-> 0, sync |-> "none",
              verified |-> FALSE, token |-> None]
EmptyCell == [FreeCell EXCEPT !.st = "empty"]

InMap(c) == \E u \in User : map[u] = c

\* Every cell some Arc still reaches: the map entry, a frame's cached or cell
\* binding, or the cell binding of the frame a heal recursed from.
Held == {c \in Cell : \/ InMap(c)
                      \/ \E r \in Req : cur[r] = c \/ outer[r] = c}

\* The identity of a newly allocated cell.
FreshCell == CHOOSE c \in Cell : c \notin Held

\* contains(): the entry exists and its cell is initialised.
contains(u) == map[u] # None /\ cell[map[u]].st = "ready"

\* Dead to later callers: no longer in the map, or in it with a finished sync.
Dead == {c \in Held : ~InMap(c) \/ cell[c].sync = "finished"}

Init ==
    /\ map = [u \in User |-> None]
    /\ cell = [c \in Cell |-> FreeCell]
    /\ healed = {}
    /\ pc = [r \in Req |-> "idle"]
    /\ retry = [r \in Req |-> FALSE]
    /\ cur = [r \in Req |-> None]
    /\ slow = [r \in Req |-> FALSE]
    /\ outer = [r \in Req |-> None]
    /\ dead = [r \in Req |-> {}]
    /\ storeGen = [u \in User |-> 0]
    /\ latched \in [User -> {{}, {0}}]
    /\ published = [u \in User |-> {}]
    /\ backup \in [User -> BOOLEAN]
    /\ late = {}
    /\ wipes = [u \in User |-> 0]
    /\ restarts = 0

-----------------------------------------------------------------------------
(* Dropping references *)

\* The cells after a step that leaves the contents s: a cell nothing reaches
\* any more is freed, and CachedClient's Drop aborts its sync task with it.
Cells(s) ==
    /\ cell' = [c \in Cell |-> IF c \in Held' THEN s[c] ELSE FreeCell]
    /\ dead' = [r \in Req |-> dead[r] \cap Held']

Goto(r, p) == pc' = [pc EXCEPT ![r] = p]

\* Mutant of ReturnOk: the frame's reference to the client is not released.
ReturnOkLeaks(r) ==
    /\ Goto(r, IF retry[r] THEN "await" ELSE "ok")
    /\ UNCHANGED <<cur, slow, outer>>

\* The pass returns Ok(client). The first pass hands the client to its caller
\* and its frame is gone; the retry pass hands it to the frame that healed,
\* which still has to wait for the publication.
ReturnOk(r) ==
    /\ Goto(r, IF retry[r] THEN "await" ELSE "ok")
    /\ cur' = [cur EXCEPT ![r] = None]
    /\ slow' = [slow EXCEPT ![r] = FALSE]
    /\ UNCHANGED outer

\* An error propagates through every frame of the request.
ReturnErr(r) ==
    /\ Goto(r, "failed")
    /\ cur' = [cur EXCEPT ![r] = None]
    /\ slow' = [slow EXCEPT ![r] = FALSE]
    /\ outer' = [outer EXCEPT ![r] = None]

-----------------------------------------------------------------------------
(* for_user_inner *)

\* for_user: a request arrives and starts the first pass.
for_user(r) ==
    /\ pc[r] = "idle"
    /\ Goto(r, "lookup")
    /\ dead' = [dead EXCEPT ![r] = Dead]
    /\ UNCHANGED <<retry, cur, slow, outer, cacheVars, envVars, wipes, restarts>>

\* Under the read lock: a built client whose sync task is still running.
FastPathHit(r) ==
    LET c == map[UserOf[r]] IN
    /\ pc[r] = "lookup"
    /\ contains(UserOf[r])
    /\ cell[c].sync # "finished"
    /\ cur' = [cur EXCEPT ![r] = c]
    /\ Goto(r, "refresh")
    /\ UNCHANGED <<retry, slow, outer, dead, cacheVars, envVars, wipes, restarts>>

FastPathMiss(r) ==
    /\ pc[r] = "lookup"
    /\ contains(UserOf[r]) => cell[map[UserOf[r]]].sync = "finished"
    /\ Goto(r, "stale")
    /\ UNCHANGED <<retry, cur, slow, outer, dead, cacheVars, envVars, wipes, restarts>>

\* Mutant of EvictStale: the finished sync task is not noticed.
EvictStaleSkips(r) ==
    /\ pc[r] = "stale"
    /\ Goto(r, "insert")
    /\ UNCHANGED <<retry, cur, slow, outer, dead, cacheVars, envVars, wipes, restarts>>

\* Under the write lock: remove an entry whose sync task has finished.
EvictStale(r) ==
    LET u == UserOf[r] IN
    /\ pc[r] = "stale"
    /\ map' = IF contains(u) /\ cell[map[u]].sync = "finished"
                THEN [map EXCEPT ![u] = None] ELSE map
    /\ Goto(r, "insert")
    /\ UNCHANGED <<retry, cur, slow, outer>>
    /\ Cells(cell)
    /\ UNCHANGED <<healed, envVars, wipes, restarts>>

\* Under the write lock again: get the entry's OnceCell or insert a new one.
GetCell(r) ==
    /\ pc[r] = "insert"
    /\ map[UserOf[r]] # None
    /\ cur' = [cur EXCEPT ![r] = map[UserOf[r]]]
    /\ slow' = [slow EXCEPT ![r] = TRUE]
    /\ Goto(r, "init")
    /\ UNCHANGED <<retry, outer, dead, cacheVars, envVars, wipes, restarts>>

InsertCell(r) ==
    /\ pc[r] = "insert"
    /\ map[UserOf[r]] = None
    /\ Cell \ Held # {}
    /\ map' = [map EXCEPT ![UserOf[r]] = FreshCell]
    /\ cell' = [cell EXCEPT ![FreshCell] = EmptyCell]
    /\ cur' = [cur EXCEPT ![r] = FreshCell]
    /\ slow' = [slow EXCEPT ![r] = TRUE]
    /\ Goto(r, "init")
    /\ UNCHANGED <<retry, outer, dead, healed, envVars, wipes, restarts>>

\* get_or_try_init on an initialised cell returns the client in it.
InitReady(r) ==
    /\ pc[r] = "init"
    /\ cell[cur[r]].st = "ready"
    /\ Goto(r, "refresh")
    /\ UNCHANGED <<retry, cur, slow, outer, dead, cacheVars, envVars, wipes, restarts>>

\* On an empty cell it takes the cell's permit and starts build_cached; a
\* request that finds the permit taken waits in "init".
InitBuild(r) ==
    /\ pc[r] = "init"
    /\ cell[cur[r]].st = "empty"
    /\ cell' = [cell EXCEPT ![cur[r]].st = "building"]
    /\ Goto(r, "build")
    /\ UNCHANGED <<map, healed, retry, cur, slow, outer, dead, envVars, wipes, restarts>>

\* build_cached, first half: the token must be bound to a device; then the
\* store directory is created if it is missing and the SQLite store in it is
\* opened, whichever generation it is by then.
BuildOpen(r) ==
    /\ pc[r] = "build"
    /\ BearerOf[r] \in DeviceBound
    /\ cell' = [cell EXCEPT ![cur[r]].gen = storeGen[UserOf[r]]]
    /\ Goto(r, "restore")
    /\ UNCHANGED <<map, healed, retry, cur, slow, outer, dead, envVars, wipes, restarts>>

\* build_cached, second half: the session is restored, the event handler and
\* the event cache are installed, the sync task is spawned and the cell is set.
BuildDone(r) ==
    /\ pc[r] = "restore"
    /\ cell' = [cell EXCEPT ![cur[r]].st = "ready",
                            ![cur[r]].sync = "running",
                            ![cur[r]].token = BearerOf[r]]
    /\ Goto(r, "refresh")
    /\ UNCHANGED <<map, healed, retry, cur, slow, outer, dead, envVars, wipes, restarts>>

\* Mutant of BuildFail: the permit is not handed on.
BuildFailKeepsPermit(r) ==
    /\ pc[r] \in {"build", "restore"}
    /\ ReturnErr(r)
    /\ UNCHANGED <<map, retry>>
    /\ Cells(cell)
    /\ UNCHANGED <<healed, envVars, wipes, restarts>>

\* Any step of build_cached may fail, and always does without a device id: the
\* cell is empty again, for the next waiter or caller to try.
BuildFail(r) ==
    /\ pc[r] \in {"build", "restore"}
    /\ ReturnErr(r)
    /\ UNCHANGED <<map, retry>>
    /\ Cells([cell EXCEPT ![cur[r]] = EmptyCell])
    /\ UNCHANGED <<healed, envVars, wipes, restarts>>

\* refresh_token_if_needed, under the client's token mutex: nothing to do when
\* the presented token is the installed one; otherwise restore_session swaps
\* it, which needs a device id and may fail.
RefreshToken(r) ==
    /\ pc[r] = "refresh"
    /\ \/ BearerOf[r] = cell[cur[r]].token
       \/ BearerOf[r] \in DeviceBound
    /\ cell' = [cell EXCEPT ![cur[r]].token = BearerOf[r]]
    /\ Goto(r, "verify")
    /\ UNCHANGED <<map, healed, retry, cur, slow, outer, dead, envVars, wipes, restarts>>

RefreshFail(r) ==
    /\ pc[r] = "refresh"
    /\ BearerOf[r] # cell[cur[r]].token
    /\ ReturnErr(r)
    /\ UNCHANGED <<map, retry>>
    /\ Cells(cell)
    /\ UNCHANGED <<healed, envVars, wipes, restarts>>

-----------------------------------------------------------------------------
(* verify_or_heal *)

\* keys_verified already latched: no round trip.
VerifyLatched(r) ==
    /\ pc[r] = "verify"
    /\ cell[cur[r]].verified
    /\ ReturnOk(r)
    /\ UNCHANGED <<map, retry>>
    /\ Cells(cell)
    /\ UNCHANGED <<healed, envVars, wipes, restarts>>

VerifyAsk(r) ==
    /\ pc[r] = "verify"
    /\ ~cell[cur[r]].verified
    /\ Goto(r, "query")
    /\ UNCHANGED <<retry, cur, slow, outer, dead, cacheVars, envVars, wipes, restarts>>

\* verify_device_keys_published: does the /keys/query answer list the device?
Announced(u) == published[u] # {}

QueryTrue(r) ==
    /\ pc[r] = "query"
    /\ Announced(UserOf[r])
    /\ ReturnOk(r)
    /\ UNCHANGED <<map, retry>>
    /\ Cells([cell EXCEPT ![cur[r]].verified = TRUE])
    /\ UNCHANGED <<healed, envVars, wipes, restarts>>

\* The retry pass does not heal again: it returns the client as it is.
QueryFalse(r) ==
    /\ pc[r] = "query"
    /\ ~Announced(UserOf[r])
    /\ IF retry[r]
         THEN ReturnOk(r)
         ELSE Goto(r, "claim") /\ UNCHANGED <<cur, slow, outer>>
    /\ UNCHANGED <<map, retry>>
    /\ Cells(cell)
    /\ UNCHANGED <<healed, envVars, wipes, restarts>>

\* A failed round trip leaves keys_verified false and serves the client.
QueryError(r) ==
    /\ pc[r] = "query"
    /\ ReturnOk(r)
    /\ UNCHANGED <<map, retry>>
    /\ Cells(cell)
    /\ UNCHANGED <<healed, envVars, wipes, restarts>>

\* Mutant of Claim: the claim is recorded but its answer is ignored.
ClaimUnchecked(r) ==
    /\ pc[r] = "claim"
    /\ healed' = healed \cup {UserOf[r]}
    /\ Goto(r, "backup")
    /\ UNCHANGED <<map, cell, retry, cur, slow, outer, dead, envVars, wipes, restarts>>

\* claim_heal: take the account's one heal ...
Claim(r) ==
    /\ pc[r] = "claim"
    /\ UserOf[r] \notin healed
    /\ healed' = healed \cup {UserOf[r]}
    /\ Goto(r, "backup")
    /\ UNCHANGED <<map, cell, retry, cur, slow, outer, dead, envVars, wipes, restarts>>

\* ... or find it already taken and serve the client unhealed.
ClaimRefused(r) ==
    /\ pc[r] = "claim"
    /\ UserOf[r] \in healed
    /\ ReturnOk(r)
    /\ UNCHANGED <<map, retry>>
    /\ Cells(cell)
    /\ UNCHANGED <<healed, envVars, wipes, restarts>>

\* Mutant of BackupYes: a failed question counts as a backup.
BackupAssumed(r) ==
    /\ pc[r] = "backup"
    /\ Goto(r, "evict")
    /\ outer' = [outer EXCEPT ![r] = IF slow[r] THEN cur[r] ELSE None]
    /\ cur' = [cur EXCEPT ![r] = None]
    /\ slow' = [slow EXCEPT ![r] = FALSE]
    /\ UNCHANGED <<map, retry>>
    /\ Cells(cell)
    /\ UNCHANGED <<healed, envVars, wipes, restarts>>

\* key_backup_is_recoverable said yes. drop(cached) follows, but on the slow
\* path the frame of for_user_inner keeps its cell binding, and with it the
\* client, until the whole request is over.
BackupYes(r) ==
    /\ pc[r] = "backup"
    /\ backup[UserOf[r]]
    /\ Goto(r, "evict")
    /\ outer' = [outer EXCEPT ![r] = IF slow[r] THEN cur[r] ELSE None]
    /\ cur' = [cur EXCEPT ![r] = None]
    /\ slow' = [slow EXCEPT ![r] = FALSE]
    /\ UNCHANGED <<map, retry>>
    /\ Cells(cell)
    /\ UNCHANGED <<healed, envVars, wipes, restarts>>

\* No backup, or the question failed: refuse to wipe. The claim stays taken.
BackupNo(r) ==
    /\ pc[r] = "backup"
    /\ ReturnOk(r)
    /\ UNCHANGED <<map, retry>>
    /\ Cells(cell)
    /\ UNCHANGED <<healed, envVars, wipes, restarts>>

\* evict: remove whatever entry the account has by now.
Evict(u) == map' = [map EXCEPT ![u] = None]

HealEvict(r) ==
    /\ pc[r] = "evict"
    /\ Evict(UserOf[r])
    /\ Goto(r, "wipe")
    /\ UNCHANGED <<retry, cur, slow, outer>>
    /\ Cells(cell)
    /\ UNCHANGED <<healed, envVars, wipes, restarts>>

\* Mutant of HealWipe: the recursive call is another first pass.
HealWipeAgain(r) ==
    LET u == UserOf[r] IN
    /\ pc[r] = "wipe"
    /\ storeGen' = [storeGen EXCEPT ![u] = @ + 1]
    /\ wipes' = [wipes EXCEPT ![u] = @ + 1]
    /\ late' = late \ {r}
    /\ Goto(r, "lookup")
    /\ UNCHANGED <<retry, cur, slow, outer, dead, cacheVars, latched, published, backup,
                   restarts>>

\* wipe_user_store: the directory is gone and the next store opened there is a
\* new one; the request recurses with retry = true.
HealWipe(r) ==
    LET u == UserOf[r] IN
    /\ pc[r] = "wipe"
    /\ storeGen' = [storeGen EXCEPT ![u] = @ + 1]
    /\ wipes' = [wipes EXCEPT ![u] = @ + 1]
    /\ late' = late \ {r}
    /\ retry' = [retry EXCEPT ![r] = TRUE]
    /\ Goto(r, "lookup")
    /\ UNCHANGED <<cur, slow, outer, dead, cacheVars, latched, published, backup, restarts>>

\* remove_dir_all failed; the error propagates.
HealWipeFail(r) ==
    /\ pc[r] = "wipe"
    /\ ReturnErr(r)
    /\ UNCHANGED <<map, retry>>
    /\ Cells(cell)
    /\ late' = late \ {r}
    /\ UNCHANGED <<healed, storeGen, latched, published, backup, wipes, restarts>>

\* Mutant of AwaitPublication: the healing frame never lets go of its cell.
AwaitPublicationLeaks(r) ==
    /\ pc[r] = "await"
    /\ Goto(r, "ok")
    /\ UNCHANGED <<retry, cur, slow, outer, dead, cacheVars, envVars, wipes, restarts>>

\* await_publication: poll until the device is announced, the ceiling passes or
\* a poll fails. Whichever ends the wait, the rebuilt client is returned and
\* keys_verified is left alone.
AwaitPublication(r) ==
    /\ pc[r] = "await"
    /\ Goto(r, "ok")
    /\ outer' = [outer EXCEPT ![r] = None]
    /\ UNCHANGED <<map, retry, cur, slow>>
    /\ Cells(cell)
    /\ UNCHANGED <<healed, envVars, wipes, restarts>>

-----------------------------------------------------------------------------
(* The tool that asked for the client *)

\* The tool call ends.
Finish(r) ==
    /\ pc[r] \in {"ok", "failed"}
    /\ Goto(r, "idle")
    /\ retry' = [retry EXCEPT ![r] = FALSE]
    /\ dead' = [dead EXCEPT ![r] = {}]
    /\ UNCHANGED <<cur, slow, outer, cacheVars, envVars, wipes, restarts>>

\* react_to_auth_expiry: the tool call failed with the homeserver's 401, and
\* the account's entry is evicted, whichever client it holds by now.
AuthExpiry(r) ==
    /\ pc[r] \in {"ok", "failed"}
    /\ Evict(UserOf[r])
    /\ Goto(r, "idle")
    /\ retry' = [retry EXCEPT ![r] = FALSE]
    /\ UNCHANGED <<cur, slow, outer>>
    /\ cell' = [c \in Cell |-> IF c \in Held' THEN cell[c] ELSE FreeCell]
    /\ dead' = [q \in Req |-> IF q = r THEN {} ELSE dead[q] \cap Held']
    /\ UNCHANGED <<healed, envVars, wipes, restarts>>

-----------------------------------------------------------------------------
(* Environment *)

\* sync_watchdog returns: the stream was closed or the token was rejected.
\* Transient errors only make it sleep and try again.
SyncEnds(c) ==
    /\ cell[c].sync = "running"
    /\ cell' = [cell EXCEPT ![c].sync = "finished"]
    /\ UNCHANGED <<map, healed, reqVars, envVars, wipes, restarts>>

\* The account whose store a running client opened.
Syncs(u, c) ==
    /\ cell[c].sync = "running"
    /\ \/ map[u] = c
       \/ \E r \in Req : UserOf[r] = u /\ (cur[r] = c \/ outer[r] = c)

\* The SDK's sync loop uploads the device keys of a store that does not believe
\* they are published, and the homeserver keeps the first keys of a device.
KeysUpload(u, c) ==
    /\ Syncs(u, c)
    /\ cell[c].gen \notin latched[u]
    /\ published[u] = {}
    /\ published' = [published EXCEPT ![u] = {cell[c].gen}]
    /\ UNCHANGED <<reqVars, cacheVars, storeGen, latched, backup, late, wipes, restarts>>

\* The upload is rejected and the SDK latches device_keys_published anyway.
KeysUploadRejected(u, c) ==
    /\ Syncs(u, c)
    /\ cell[c].gen \notin latched[u]
    /\ cell[c].gen \notin published[u]
    /\ latched' = [latched EXCEPT ![u] = @ \cup {cell[c].gen}]
    /\ UNCHANGED <<reqVars, cacheVars, storeGen, published, backup, late, wipes, restarts>>

\* The user sets up key backup from some other device.
BackupCreated(u) ==
    /\ ~backup[u]
    /\ backup' = [backup EXCEPT ![u] = TRUE]
    /\ UNCHANGED <<reqVars, cacheVars, storeGen, latched, published, late, wipes, restarts>>

\* ... or deletes it, possibly after a heal has asked and before it wipes.
BackupDeleted(u) ==
    /\ backup[u]
    /\ backup' = [backup EXCEPT ![u] = FALSE]
    /\ late' = late \cup {r \in Req : UserOf[r] = u /\ pc[r] \in {"evict", "wipe"}}
    /\ UNCHANGED <<reqVars, cacheVars, storeGen, latched, published, wipes, restarts>>

\* The process restarts: everything in memory is gone, the stores and the
\* homeserver are as they were.
Restart ==
    /\ restarts < MaxRestarts
    /\ restarts' = restarts + 1
    /\ map' = [u \in User |-> None]
    /\ cell' = [c \in Cell |-> FreeCell]
    /\ healed' = {}
    /\ pc' = [r \in Req |-> "idle"]
    /\ retry' = [r \in Req |-> FALSE]
    /\ cur' = [r \in Req |-> None]
    /\ slow' = [r \in Req |-> FALSE]
    /\ outer' = [r \in Req |-> None]
    /\ dead' = [r \in Req |-> {}]
    /\ wipes' = [u \in User |-> 0]
    /\ late' = {}
    /\ UNCHANGED <<storeGen, latched, published, backup>>

-----------------------------------------------------------------------------
(* Specification *)

\* The steps of one request's call of for_user.
Step(r) ==
    \/ FastPathHit(r) \/ FastPathMiss(r)
    \/ EvictStale(r)
    \/ GetCell(r) \/ InsertCell(r)
    \/ InitReady(r) \/ InitBuild(r)
    \/ BuildOpen(r) \/ BuildDone(r) \/ BuildFail(r)
    \/ RefreshToken(r) \/ RefreshFail(r)
    \/ VerifyLatched(r) \/ VerifyAsk(r)
    \/ QueryTrue(r) \/ QueryFalse(r) \/ QueryError(r)
    \/ Claim(r) \/ ClaimRefused(r)
    \/ BackupYes(r) \/ BackupNo(r)
    \/ HealEvict(r) \/ HealWipe(r) \/ HealWipeFail(r)
    \/ AwaitPublication(r)

Caller(r) == for_user(r) \/ Finish(r) \/ AuthExpiry(r)

Environment ==
    \/ \E c \in Cell : SyncEnds(c)
    \/ \E u \in User, c \in Cell : KeysUpload(u, c) \/ KeysUploadRejected(u, c)
    \/ \E u \in User : BackupCreated(u) \/ BackupDeleted(u)
    \/ Restart

Next ==
    \/ \E r \in Req : Step(r) \/ Caller(r)
    \/ Environment

Spec == Init /\ [][Next]_vars

\* tokio polls every ready task, and every call for_user awaits ends (HTTP and
\* SQLite calls time out, the publication wait has a ceiling). No other
\* fairness: nobody has to call, end a tool, sync or restart. The OnceCell's
\* permit is a tokio semaphore, which serves its waiters first come first
\* served: a waiter is not overtaken for ever by callers that keep failing.
Fairness ==
    \A r \in Req : /\ WF_vars(Step(r))
                   /\ SF_vars(InitReady(r) \/ InitBuild(r))

FairSpec == Spec /\ Fairness

-----------------------------------------------------------------------------
(* Properties *)

\* Phases in which the current frame works on a cell, and those in which the
\* request is on its way to wipe the store or past it.
Working == {"init", "build", "restore", "refresh", "verify", "query", "claim", "backup"}
Healing == {"backup", "evict", "wipe"}

\* Types, and the ownership the Arcs express: a frame has a cell exactly while
\* it works on one, only its builder sees a cell under construction, and a cell
\* is free exactly when nothing reaches it.
TypeOK ==
    /\ map \in [User -> Cell \cup {None}]
    /\ cell \in [Cell -> CellRecord]
    /\ healed \subseteq User
    /\ pc \in [Req -> Phase]
    /\ retry \in [Req -> BOOLEAN]
    /\ cur \in [Req -> Cell \cup {None}]
    /\ slow \in [Req -> BOOLEAN]
    /\ outer \in [Req -> Cell \cup {None}]
    /\ dead \in [Req -> SUBSET Cell]
    /\ storeGen \in [User -> Nat]
    /\ latched \in [User -> SUBSET Nat]
    /\ published \in [User -> SUBSET Nat]
    /\ backup \in [User -> BOOLEAN]
    /\ late \subseteq Req
    /\ wipes \in [User -> Nat]
    /\ restarts \in 0..MaxRestarts
    /\ \A r \in Req : (cur[r] # None) <=> (pc[r] \in Working)
    /\ \A c \in Cell : (cell[c].st = "free") <=> (c \notin Held)

\* "At most one heal per identity per process" (verify_or_heal): whatever the
\* interleaving of the account's requests, and however often they fail and
\* come back, one process wipes one account's store at most once.
AtMostOneWipe == \A u \in User : wipes[u] <= 1

\* "Never wipe a store whose contents cannot be restored": when the directory
\* is removed the account has a key backup on the homeserver. The question was
\* asked several awaits earlier, so the one exception is a backup its owner
\* deleted after that very request had been told of it.
WipeOnlyRecoverable ==
    [][\A u \in User : storeGen'[u] # storeGen[u]
          => backup[u] \/ \E r \in late : UserOf[r] = u /\ pc[r] = "wipe"]_vars

\* evict ("the stale in-flight result becomes unreachable") and the finished
\* sync check of for_user_inner: a request never works on a client that had
\* been evicted, or had stopped syncing, before the request started, not even
\* on its retry pass and not when a build outlived the eviction of its cell.
NoDeadClientServed == \A r \in Req : cur[r] \notin dead[r]

\* One permit per OnceCell, handed on when a build fails: two requests never
\* build into one cell, and a cell marked as being built has a builder.
OneBuilderPerCell ==
    \A c \in Cell :
        LET builders == {r \in Req : cur[r] = c /\ pc[r] \in {"build", "restore"}} IN
        /\ \A r, q \in builders : r = q
        /\ (cell[c].st = "building") <=> (builders # {})

\* The most steps that a call of for_user in phase p still has before it in its
\* pass, and with the retry pass that a first pass may still recurse into.
Ahead(p) ==
    CASE p = "lookup"  -> 14 [] p = "stale"   -> 13 [] p = "insert" -> 12
      [] p = "init"    -> 11 [] p = "build"   -> 10 [] p = "restore" -> 9
      [] p = "refresh" -> 8  [] p = "verify"  -> 7  [] p = "query"  -> 6
      [] p = "claim"   -> 5  [] p = "backup"  -> 4  [] p = "evict"  -> 3
      [] p = "wipe"    -> 2  [] p = "await"   -> 1  [] OTHER        -> 0

StepsLeft(r) == Ahead(pc[r]) + (IF retry[r] THEN 0 ELSE Ahead("lookup"))

\* for_user_inner recurses, and the requests of an account send each other back
\* to lock, wait and build again: yet every step of a call brings it nearer to
\* its return, and no step of another request, of a sync task or of the
\* homeserver sets it back. A call takes at most 28 steps, restarts aside.
CallAdvances ==
    [][\A r \in Req : pc'[r] # pc[r] \/ retry'[r] # retry[r] =>
          \/ pc[r] \in {"idle", "ok", "failed"} \/ pc'[r] = "idle"
          \/ StepsLeft(r)' < StepsLeft(r)]_vars

\* Every call of for_user returns, also when the build it waits for fails, when
\* its cell is evicted under it, and when it heals.
EveryCallReturns ==
    \A r \in Req : (pc[r] = "lookup") ~> (pc[r] \in {"ok", "failed", "idle"})

\* A client that left the map stops syncing: once the requests that still hold
\* it return, its sync task is aborted.
EvictedClientStops ==
    \A c \in Cell : (cell[c].sync = "running" /\ ~InMap(c)) ~> (cell[c].sync # "running")

=============================================================================
