# A TLA+ model of matrix-mcp

matrix-mcp is an MCP server in Rust that gives an assistant a Matrix account: one
HTTP service with two mounts, `/mcp` (62 tools) and `/channel` (a small tool set,
plus Matrix messages pushed into the session and tool-approval prompts relayed to
a Matrix room). Line numbers below are those of `src/src/*.rs`.

## Inventory

| component | file | state | operations | what is hard | what makes it correct | module |
|---|---|---|---|---|---|---|
| matrix client cache | `matrix_client.rs` | map mxid to `OnceCell<Arc<CachedClient>>`; `healed`; per client: sync task, token hash, `keys_verified` | `for_user`, `evict`, `contains`, build, token refresh, verify-or-heal, `wipe_user_store`, `await_publication` | concurrent first builds, Arc lifetimes that decide when a sync task stops, a destructive self-heal between awaits, restarts | one wipe per process and only of a recoverable store; one builder per cell; no dead client served; every call returns | `ClientCache`, `ClientCacheProofs` |
| peer registry | `channel.rs` | map mxid to session key to peer | `register`, `live_peers`, `notify` | snapshot, unlocked sends, eviction by key; a transport flag with false positives | an entry is the session's latest handshake or nothing | `PeerMap`, `PeerRegistry`, `PeerRegistryProofs` |
| permission relay, live push | `channel.rs`, `mcp.rs` | pending prompts, cached config, last rooms | `on_custom_notification`, `push_message`, `push_reaction`, `deliver_verdict` | prompt, verdict, expiry, eviction and re-issue of an id race; the config is cached or late | bounded map; answerable until answered; the verdict reaches the asker; only allowed senders reach a session | `PermissionRelay`, `PermissionRelayProofs` |
| replay | `channel.rs` | replay-in-flight set; the read receipt as watermark | `replay_missed`, `replay_room`, `replay_deliverable`, `supersede_edits` | two attaches, live messages and acknowledgements during a pass, three caps, malformed edits | what is owed is handed over or its loss announced; one version of an edited message; the flag is always cleared | `Replay`, `ReplayProofs` |
| tool handlers | `mcp.rs` | none of their own | 62 tools with one common protocol | tokens revoked and swapped at any await, partial fan-outs, read-modify-write of pins | the quota bounds what the account writes; a refused call may be retried; an evicted token stays out | `ToolRows`, `Tools`, `ToolsProofs` |
| authentication | `auth.rs`, `mas.rs`, `token_introspect.rs` | introspection cache | `bearer_auth`, `introspect`, `drop_token` | a late "active" answer after `drop_token`; TTL edges | admission on a stale answer is bounded; nothing is served past `exp` | `TokenCache`, `Gateway`, `GatewayProofs` |
| session pool and store | `session.rs`, `session_store.rs` | in-memory sessions; one file per session | create, restore, load, store, sweep, delete | cap races, crash between write and rename | the cap holds; a stored session is whole or absent | `Gateway`, `SessionMap`, `GatewayProofs` |
| key-backup gate, setup | `key_backup_gate.rs`, `setup.rs` | semaphore, cooldowns, pending PKCE and sessions | login, callback, form, recover, `try_acquire` | concurrent recovers; acting on a cached client that is evicted, replaced or revoked meanwhile | one session per sign-in; bounded maps; no import into a dead client; no permit lost | `KeyBackupGate`, `Setup`, `SetupProofs` |
| rate limiter | `rate_limit.rs` | buckets per bearer and per subject | `Limiter::check`, `InitializeLimiter::check` | two buckets, one charged when the other denies | no more writes than the subject's quota | `Tools`, `Gateway` |
| device identity, last-used | `device_identity.rs`, `last_used.rs` | one file; a bounded map | `resolve_device_id`, `record` | start-up, bookkeeping | | not modelled, see below |
| audit, sandbox, URL safety, OAuth metadata, config, metrics, wiring | their files | none that decides anything | | formatting, parsing, start-up | | not modelled or in part, see below |

How they interact: `auth` puts an identity and a token into each HTTP request; a
tool handler asks `MatrixClientCache::for_user` for the account's client and
reports a 401 back with `evict` and `drop_token`. The client's background sync
task runs the handlers of `channel.rs`, which share one `ChannelRegistry` with the
sessions of `/channel`. `/setup/recover` uses the same cached client and the same
key-backup gate as the tools. Everything runs as tokio tasks; each `await` is a
point where other tasks run.

## The modules

**`ClientCache`.** A request is a process and `pc` its place in `for_user_inner`
and `verify_or_heal`, one action per await point: the read-locked fast path
(`FastPathHit`, `FastPathMiss`), the write-locked stale eviction (`EvictStale`),
get-or-insert (`GetCell`, `InsertCell`), the `OnceCell` (`InitReady`, `InitBuild`,
`BuildOpen`, `BuildDone`, `BuildFail`), `RefreshToken`, and the heal (`VerifyAsk`,
`Query*`, `Claim`, `Backup*`, `HealEvict`, `HealWipe`, `AwaitPublication`).
`Cell` is a pool of identities for OnceCells: `Held` is what some Arc reaches (the
map, `cur`, or `outer`, the `cell` binding of the frame that healed), and a cell
that leaves `Held` is freed, which is the `Drop` that aborts the sync task.
`storeGen` counts the directories an account has had. The homeserver, the sync
task's end, the operator's restart and the deletion or creation of a key backup
are the environment. `retry`, `slow` and `outer` keep the recursion's one level.

**`PeerMap`** is what the registry promises: a handshake puts its peer under its
key, anything else only loses entries. **`PeerRegistry`** is `register` and
`notify` with their lock sections as steps, and implements it. A peer is one
handshake, so a session that reconnects is a second peer with the same key.
The empty inner map that `notify` leaves or removes is not told apart. A request
without `mcp-session-id` gets a key of its own; it is simply another key.

**`PermissionRelay`** stands on `PeerMap` only, so that its checks cover every
registry with that specification. A task is one run of a handler; `job` is what it
handles, `pc` its next await. Ages saturate at their TTL, so `Tick` needs no
clock. Verdicts, chat, uncarried kinds and reactions are the only texts the
properties tell apart; whether a verdict allows or denies is not, because it is
carried unchanged. `trusted` and `named` are histories of the account data, `open`
is the set of prompts that must still be answerable. `for_user` failing, an
unparsable request and the other early returns of `on_custom_notification` before
its first effect are the handler not starting.

**`Replay`.** `replay_missed` and `replay_room`, one action per await, beside the
live push, the agent's `mark_read` and transports that close. An event's id is its
position in its room's timeline, so "behind the watermark" is a comparison; sender,
kind, edited event and time are the only data. What is an answer to a prompt is decided
twice, as in the code: `handled_as_verdict` (live) takes texts only,
`is_replayed_verdict` the body of any event, so a `caption` that reads like an answer is
one for the replay and none for the live path. `Owed` and `Replayed` are the two
paths' filters. `pass[s]` is the pass that the
handshake of session `s` spawned: the rooms left, the budget, the loaded receipt and
the batch, a set of positions that `Send` takes the least of, as the code walks a
list in timeline order. `notify` is one step (`PeerRegistry` takes it apart) and the allowlist
does not change (`PermissionRelay` changes it). `heard`, `told` and `last` are
histories. The agent acknowledges only what a session was given; `mark_read`
without an event id, which takes the latest event of the room, is an
acknowledgement of something it may not have been given and is left out.

**`ToolRows`, `Tools`.** All handlers have the same frame, so `ToolRows` gives each
tool as the set of its paths: limiter category, the steps of its body in source
order, whether it posts a notice. `Tools` executes these paths, one step per await,
for concurrent calls of one account: `check` (the bearer's bucket is charged
first and stays charged when the subject's denies), `client_for` (leaves the call's
token in the shared client, also for whoever holds it already), reads, web
requests and writes that fail, are lost or get a 401, `React`
(`react_to_auth_expiry`), and `Notice` (`emit_write_notice`, which asks for the
client again). What the homeserver keeps of a call is counted in two histories: `credit`
for the writes of the tools, each of which has been charged, and `extra` for what goes
along with a charged call and is not charged itself: an upload (`Upload`, which stays
whatever becomes of the call), `recovery().enable()` after a bootstrap
(`EnableRecovery`) and the `m.notice`, counted when it is spawned, so that a notice
that finds no audit room or fails counts too. Requests that the SDK makes of its own
accord (device keys, room key shares, receipts of the sync) are not the tools' and are not
counted. Checks that wait for nobody are folded into the step before them.
`toggle_pin` (`ReadPins`, `WritePins`, `Sync`) and the fan-outs (`FanOut`, `Each`,
`send_text_to_room`) are in detail.

**`TokenCache`, `Gateway`, `SessionMap`.** A request to `/mcp` in the order of
`build_router`. `TokenCache` is `bearer_auth` over the introspection cache; MAS
decides at one moment (`MasActive`) and its answer is cached at a later one
(`cache_insert`), with `Tick`, `Revoke` and `drop_token` in between. `Gateway`
extends it with the initialize limiter, the create gate (`Count` to `Insert` or
`Reinsert`) and the file store, whose `std::fs::write` is two steps because a crash
can leave a torn file. `Restart` keeps only the disk. `SessionMap` is what the
store promises, and `Durable` the refinement mapping: a session's state is its
`.json` file, temporary files are invisible.

**`KeyBackupGate`, `Setup`.** `Setup` is the browser's requests through `login`,
`callback`, `form` and `recover`, one action per lock or await, over the two
pending maps (an entry is live, or stale once its TTL has passed but nobody has
pruned it) and the connector's cached client, which tool calls build, evict, lose to
revocation and give a new token (`Refresh`) at any time; `for_user` itself is in
`ClientCache`. `revoked` in a request is the set of clients that have been dead ever
since it came in. An import
spawns a back-fill, which goes through `KeyBackupGate` beside the pulls of tool
calls.

`MC*` modules only give the constants their instances.

## Runs

| run | instance | states | shows |
|---|---|---|---|
| `clientcache_safety` | 2 requests, 1 account, 3 cells, 1 restart | 3.1 M | one wipe per process, only of a recoverable store; one builder per cell; no request on a client that was dead before it; every step of a call brings it nearer to its return |
| `clientcache_liveness` | 2 connections, 2 tokens, one without device id | 165 k | every call returns, every evicted client stops |
| `registry` | 2 pushes, 2 accounts, 3 sessions, 4 handshakes | 42 k | the registry implements `PeerMap`; a session is dropped only for a failure of its own |
| `registry_evidence` | as above | violation | a reconnected session is dropped for its old peer's failure (605) |
| `relay` | 2 tasks, 2 sessions, 2 ids, cap 1, 2 prompts | 2.6 M | bounded map, prompts answerable until answered and not longer, verdict to the asker |
| `relay_trust` | 2 tasks, 2 rooms, 1 edit of account data or membership | 2.0 M | only allowed senders reach a session or decide where a prompt goes |
| `tools` | 2 calls, 2 tokens, every path, quota 1 and one refill, fan-out 2 | 2.8 M | the quota bounds writes, uploads and notices; a refused call has not made its write; no dead token put back |
| `tools_pins` | 1 call at a time, 2 events | violation | a pin before the next sync removes the previous one (7829) |
| `gateway` | 2 requests, a good and an unfit token, 2 sessions for a pool of 1, 2 files, 1 restart | 2.4 M | bounded stale admission, nothing past `exp`, the pool's cap, the files implement `SessionMap` |
| `replay` | 2 sessions, 2 rooms, 4 backlogs, window 3, budget 2, 1 further message, 1 acknowledgement | 902 k | everything the replay's filter lets through is handed over or its loss announced, and nothing the live path would refuse, in order, one version each; the caps bound a pass; the flag is cleared |
| `replay_silence` | as above | violation | a live message acknowledged before the receipt is loaded hides the missed ones (990) |
| `setup` | 2 requests, 2 sign-ins, 2 clients, caps of 1, 1 permit for 2 tasks | 1.6 M | one session per sign-in, none reused, bounded maps, no form or import for a client that has been dead throughout, permits conserved |

The violation runs each state a sentence of a comment or doc that the code does
not keep; `PROJECT.json` quotes it under `findings`. Where a property
covers only part of a hazard (an answer that grows stale after it was given, the length
of a delay, a leftover temporary file that is counted), the hazard's note there says which.

Bounds. Two requests are enough for each race between an account's requests, all
of which are pairwise: one builds, evicts or heals while another is between two
awaits; each slot starts again without limit, so a third request is the first one
again. Three cells are enough for `InsertCell` never to wait for one: when it runs
the map has no cell for the account, the inserting request has no `cur`, and of
the two requests at most one has an `outer`, because a process heals once. One restart separates two processes. In the relay a cap
of one makes every second prompt meet the cap, TTLs of one tick make "fresh" and
"expired" the only ages, two prompts are an id issued again or an older prompt
displaced (which of several prompts is the oldest is left to a larger instance); `MaxPrompts` and `MaxEdits` bound the histories and stop nothing else
but a third prompt. `relay` and `relay_trust` split the relay because edits
multiply the states by four and the properties of `relay` do not depend on them.

`tools`: quotas of one make every second write meet the limit, one refill
(`MaxRefills`) lets a denied call succeed later, a fan-out of two (`MaxFan`) can be
cut in the middle, and two tokens are enough for one call to swap the token under
another; each slot calls again without limit. All calls of the account work in one
room, because only pins relate two calls' effects. `gateway`: `MaxTtl` 2, `Timeout`
1 and a token that lives 2 ticks (or has no `exp`) put every order of expiry, answer
and eviction within reach; two files for two sessions let a leftover temporary file
fill the store. `replay`: the window (`ReplayMax` 3) is smaller than the backlogs
(4 events), `MaxLen` leaves room for one more, the budget (`ReplayMaxTotal` 2) is
smaller than what one room can owe, and after the other room it is small enough to
cut off an edit whose original was dropped for it; each session attaches once, `MaxPosts` and
`MaxAcks` bound the histories. `OneVersionEach` does not depend on the backlogs: it
compares `replay_deliverable` with its specification for every timeline of up to
`ReplayMax + 1` of the twelve kinds of event, edits of themselves and of each other
included. `setup`: caps of one (`MaxPkce`, `MaxSessions`, `MaxConcurrent`,
`MaxRooms`), so that everything meets its limit; two state tokens, session ids and
clients ever; the back-fills of both requests share one task slot, so a second
import waits for the first back-fill there, which the code does not.

Deadlock is checked in `setup`, where tool calls can always go on. It is off in
`gateway`, `tools` and `replay`, whose bounded histories end.

Fairness. `clientcache_liveness` uses `WF` on every request's step (tokio polls
each ready task; HTTP calls have timeouts, the publication wait has
`PUBLISH_CEILING`), and `SF` on taking the OnceCell's permit (tokio's semaphore is
first come, first served). `replay` uses `WF` on each spawned pass, for the same
reason: its only waits are a store read, `/messages` and `notify`, each of which
ends. No tool call, message, attach, sync, upload or restart is assumed to happen.

## Disagreements between code and comments

Three are runs (`registry_evidence`, `tools_pins`, `replay_silence`). What does hold of
the first is `EvictionFollowsFailure`: the evidence is the session's, not the
handshake's. What holds of the third is `HandedOrTold`: a pass keeps its promise for
what lies behind the receipt it loaded. These others can be read off the modules'
actions:

- `matrix_client.rs` 514-517 says that dropping the Arc before `evict` aborts the
  old sync task. On the slow path the frame of `for_user_inner` owns `cell` until
  `verify_or_heal` returns, so the task runs on while its directory is removed
  (`outer` in `ClientCache`).
- 564-567 says the call after a wipe rebuilds a fresh store. `evict` and
  `wipe_user_store` are two awaits (519, 520): a request that rebuilds in between
  opens the directory about to be removed (`HealEvict`, `HealWipe`).
- 264-268, 364-367 and `setup.rs` 525-531 say that `restore_session` on a client that is
  built already panics, which `panic = "abort"` (`Cargo.toml` 153) makes the end of the
  process; yet `refresh_token_if_needed` (593-630) calls it on a cached client and
  handles an `Err`. `RefreshToken` follows the code: it succeeds or fails. A process that
  ends there is a `Restart` of `ClientCache`, and no verdict depends on which it is;
  `Install` (`Tools`) and `Refresh` (`Setup`) are its success.
- 289-300 says the heal is for a latched upload flag, but the first pass asks
  `/keys/query` right after the build (426), before sync could upload: a healthy
  store with a key backup is wiped once.
- `channel.rs` 668-669 says a configured permission room "cannot be moved by
  traffic". A failed fetch of the account data is cached as the default config
  (708), and for up to `ALLOWLIST_TTL` prompts go to the last room with traffic.
- `channel.rs` 91-92 says a truncated room's session is told how many messages were
  skipped: the notice has no number, is not sent when nothing in the window is for
  the session (1039), and the aggregate budget cuts the newest with a log line only.
  A session that attaches during a pass is skipped, not served afterwards (952).
- `channel.rs` 1414-1415 says the live path and the replay "must agree about what a
  session is owed", and 2026-2027 that a "media caption that happens to read
  `yes abcde` is a caption". `handled_as_verdict` keeps to that; `is_replayed_verdict`
  (1416-1419) tests the body of an event of any msgtype. An upload with such a caption
  is given live and withheld from every replay, without a notice: a pass over the
  backlog `<<Prose, ForeignEdit(1), Caption>>` of `MCReplay` hands over the first event
  only. What holds is one direction, `OnlyOwedHeard`: the replay's filter is the
  narrower one and gives nothing that the live path refuses. `HandedOrTold` and
  `SilenceNever` are accordingly about what the replay's filter lets through.
- `setup.rs` 494-496 says a client that `contains()` finds "has already been
  validated"; the cell is initialised before `verify_or_heal` runs. 657-659 says two
  recovers "can't double-pull the same room": the cooldown is recorded only when a
  download succeeds, so concurrent ones both pass it (`InCooldown`).
- `mas.rs` 27-28 says revocations propagate "in at most this window" of 60 s. An answer
  can be given before the revocation and cached after it: the bound that holds is the
  window and the timeout of the introspection request together (`StaleAdmissionBounded`).
- `set_audit_room` (7185) says every write tool posts a notice;
  `bootstrap_cross_signing` does not. `send_bulk`, `send_broadcast` and
  `request_room_keys` report a revoked token inside a successful result, so
  nothing is evicted.
- `main.rs` 243 calls `MAX_SESSIONS` the global session count; each of the two
  mounts has a manager, and so a cap, of its own.

## Proofs

Every invariant and action property of the passing runs, and both refinements, is
also a theorem: for every value of the constants, from the named assumptions of
the modules and nothing else. The assumptions say what kind of thing each constant
is (`Nat`, not zero, a subset) and that `None` is none of the ids it stands beside
(`GatewayAssumption`; `ToolsAssumption` adds that the mark of the shared client is
not a token). No set of tasks, requests, sessions, rooms or files is assumed to be
finite; where a count is compared with a cap the invariant carries finiteness along.

`ClientCacheProofs`, from `RequestAssumption`, `CellAssumption` and
`RestartAssumption`:

- `TypeCorrect`: `TypeOK`, whose last two conjuncts are the ownership facts (a
  frame has a cell exactly while it works on one; a cell is free exactly when
  nothing reaches it). `CellUpdates` and `HeldShrinks` reduce every step that
  drops references to one argument.
- `OneWipePerProcess`, `WipesAreRecoverable`: from `HealInv`, which says that the
  requests on their way to a wipe and the wipes done are together at most one per
  account and that each of them has claimed it. `AtMostOneWipe` alone is not
  inductive: it says nothing of a request that is about to wipe.
- `BuildersAreUnique`: from `BuildInv`, which ties a cell's `building` state to
  exactly one request, and needs the ownership facts to know that a failing
  builder's cell is still its own.
- `DeadClientsStayDead`: from `DeadInv`, which follows a dead cell while anything
  holds it: it stays out of the map, or in it with a finished sync.
- `CallsAdvance`, an action property: `StepsLeft` counts what is before a call in
  its pass and, while it has not healed, in the pass it may recurse into. `PassInv`
  says that a call in its second pass does not heal, so that it cannot recurse
  again. With the fairness of the steps this is why `EveryCallReturns`; what only
  TLC shows is that some step is always enabled.

`PeerRegistryProofs`, from `PeerAssumption`: `RegistryTypes` and `Refinement`
(`Spec => MapSpec`) for any number of overlapping pushes. `TypeOK` there says that an
entry sits under its own key and account and that a push holds peers of its account
only; without it `NotifyEnd` cannot be matched to a step of `PeerMap`.
`EvictionsHaveCause` is an action property from the same invariant: what a push drops
at its end it drops by the keys of peers it saw fail, which are peers of its account.

`PermissionRelayProofs`:

- `RelayTypes`, `VerdictsGoHome`, `StrangersAreKeptOut`, `PromptsStayInTrustedRooms`
  from one invariant `Inv`. The three safety properties speak of the moment of
  sending; `Inv` follows an allowed sender from the account data (`MatrixInv`)
  through the cached config (`CacheInv`) and the remembered room (`RoomInv`) into
  what a task carries between two awaits (`Fits`).
- `PendingStaysBounded` from `CapInv`, which adds only that the map is finite:
  `record_request` makes room before it inserts.
- `PromptsStayAnswerable` from `AnswerInv`: a task about to retire a prompt has the
  serial of none that is still open. This is the fact `Pending::serial` exists for.
- `AnsweredPromptsGo` from `RetireInv`: no two entries have the same serial, and a
  task that has looked a prompt up finds its serial only under the key it looked at.
  So the task that delivers a verdict is the one that can retire that prompt, and
  nothing that happens before it does so (`PromptSteps`) takes the prompt's entry
  out of its reach other than by removing it.

`GatewayProofs`:

- `GatewayTypes`, and `PoolStaysWithinCap` from `PoolInv` (between counting and
  inserting a request holds the gate, and the pool it counted is still below the cap).
- `EntriesEndWithToken` and `StaleAdmissions` from `TokenInv`, which bounds how long
  ago MAS can have said "active" by the TTL used up, and for an answer on its way by
  the time waited; the second is an action property.
- `StoreRefinesSessionMap` (`Spec => DurableSessions`) from `StoreInv`: no `.json`
  file is ever torn, a store has its temporary file to itself, and at the rename it
  is complete. A step on temporary files is then a stutter of `SessionMap`, and the
  rename the only step by which a state appears.

`SetupProofs`: `SetupTypes`; `PermitsAddUp` from `GateInv`; `DeadClientsGetNoKey` (a
request keeps the set of clients dead ever since it came in: these are dead now, so
`whoami` fails for them, and a `Refresh` takes its client out of every such set);
`ImportsAreNotRepeated` from `SpentInv` (a spent session is gone from its map, and
nobody who came in later holds it); `CapsHold` from `BoundInv`;
`LoginsMakeOneSession` from `LoginInv` (a state token is in its map, or in one
request's hands, or has made one session).

`ToolsProofs`, over all paths of the 62 tools:

- `PathsOK` goes through `ToolRows` and shows what the proofs need of a path: behind
  a write, or a room of a fan-out, only steps follow that cannot refuse (`Shape`).
- `ToolTypes` and `RefusalsWriteNothing` from `Legal`, which relates the steps a
  call has left to what it has done already.
- `QuotaHolds` from `QuotaInv`: what is left in the subject's bucket and the calls
  that have paid for a write they have not made are together within the credit. For what
  goes along uncharged, `SideInv`: a path has at most one upload or `enable` (`Once`),
  so the calls that have theirs still before them, those that may still post a notice,
  two for each cell of the write bucket and one for each of the read bucket are together
  within `extra`.
- `EvictionsLast`, an action property: after a 401 the path ends without asking for
  the client again.

`ReplayProofs`:

- `OneVersionIsSent`: what `supersede_edits` keeps, for windows of every size. The
  newest edit exists because a strict order on a finite set has an element with the
  fewest above it (`Topmost`); `OldestOf` says what `take(budget)` leaves.
- `ReplayTypes`, `NothingIsLost` and the action property `OldestFirst` from `Inv`:
  one pass runs at a time and only under the flag (`FlagInv`); what a pass has left
  to send fits its budget and lies behind what was sent of the room (`Sound`); every
  replayed event has a version that was written, is in the batch, or lies behind a batch
  that uses up the budget (`Delivers`).
- `OnlyOwedIsHeard` from `ReplayedIsOwed` (what the replay's filter passes the live one
  passes) and `OwedInv`, which says the same of what a pass is about to
  send, and that what the sync loop has still to give is in the timeline. It closes
  a gap that `NothingIsLost` leaves: the version that stands for a message there is
  never a stranger's edit.
- `PassesAdvance`, an action property: each step of a pass lowers `StepsLeft`, at most
  five steps for each room the room limit allows and one more for each event of the
  budget. It needs `Inv` for the budget, without which the count could go below zero.

`HandedOrTold` says "a version of it" also where the budget cuts: `take(budget)`
comes after `supersede_edits` (1288-1291), so an original can be dropped for an edit
that is then cut off. Neither is sent in that pass; the edit lies behind everything
that was, so no acknowledgement of what was sent hides it from the next pass.

Only model-checked: `EveryCallReturns`, `EvictedClientStops` and `ReplayResumes`, and
the three violations. Liveness under fairness, and that a step is enabled, are out of
the prover's reach; of the first and the third the part that is safety is proved
(`CallsAdvance`, `PassesAdvance`).

## Not modelled

Formatting, sandboxing and capping of text (`content_sandbox.rs`, `cap_*`,
`format_prompt`, `replay_body`, `replay_meta`, reply quotes, pages of `/setup`), URL
classification, OAuth metadata, environment parsing, metrics, log set-up: pure
functions or start-up code that unit tests reach. `resolve_device_id` runs once,
before anything is concurrent. The last-used tracker and the audit log decide
nothing. What a read tool returns is data. Store encryption keys, PKCE arithmetic,
CSRF tokens and the recovery passphrase are data. The backoff of `sync_watchdog` is
time; the model has its end only. rmcp's transport, governor, matrix-sdk, MAS and
Synapse are external and appear only as the choices they leave to this code; the
read-modify-write that matrix-sdk does for power levels and ignored users is theirs.
The `/channel` mount has the same `Gateway` with a pool of its own. Clocks have no
sub-tick resolution: an `exp` in whole seconds can be overshot by less than one.

## State of the project

Every component with state that decides anything has a module, every safety property
that a passing run checks is proved, and so is the safety part of two of the three
liveness arguments. What would be worth adding when the code changes:

1. of pins, what holds is that a toggle made after sync has brought the last one back
   changes one event. To say so takes a history of what sync has brought, which
   `Tools` does not have; when `toggle_pin` reads the list from the homeserver,
   `PinChangesOne` itself should hold;
2. `EvictedClientStops` has no measure: whether the sync task stops depends on who
   drops the last Arc, and `TypeCorrect` (a cell that nothing reaches is free) is all
   of it that is safety.
