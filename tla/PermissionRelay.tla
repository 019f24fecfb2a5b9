--------------------------- MODULE PermissionRelay ---------------------------
(***************************************************************************)
(* The permission relay of the channel mount (channel.rs, mcp.rs): a       *)
(* session's tool-approval dialog goes out as a prompt into a Matrix room, *)
(* and the reply "yes <id>" of an allowlisted sender goes back to the      *)
(* session that asked. On top of PeerMap it models the pending map, the    *)
(* cached channel config, the remembered rooms, and the handlers that use  *)
(* them: on_custom_notification (a session asks), push_message (a Matrix   *)
(* message arrives) and push_reaction (a reaction does).                   *)
(*                                                                         *)
(* A task is one run of such a handler, one await point per step. Matrix   *)
(* (the account data, the rooms, who writes what) is the environment, and  *)
(* so is time: a tick makes everything that has a TTL one tick older.      *)
(***************************************************************************)
EXTENDS PeerMap, Naturals, FiniteSets

CONSTANTS
    Task,          \* slots in which a handler may be running
    RequestId,     \* permission request ids
    Room,          \* Matrix rooms
    Sender,        \* Matrix users, the accounts themselves included
    Configs,       \* channel configs a user may put into the account data
    AllowlistTtl,  \* ALLOWLIST_TTL, in ticks
    PendingTtl,    \* PENDING_TTL, in ticks
    PendingMax,    \* PENDING_MAX
    MaxPrompts,    \* bound on prompts recorded
    MaxEdits       \* bound on changes of account data and membership

Config == [allowed : SUBSET Sender, room : Room \cup {None}]

\* ChannelConfigEventContent::default(): nobody may push, no room is named.
NoConfig == [allowed |-> {}, room |-> None]

\* What an inbound message is: the verdict on an id, text or an attachment that
\* is carried, a kind of message that is not, or (not a message) a reaction.
Text == RequestId \cup {"chat", "other", "reaction"}

ASSUME RelayAssumption ==
    /\ Mxid \subseteq Sender
    /\ None \notin Room \cup Sender \cup Key
    /\ Configs \subseteq Config
    /\ AllowlistTtl \in Nat \ {0} /\ PendingTtl \in Nat \ {0}
    /\ PendingMax \in Nat \ {0}
    /\ MaxPrompts \in Nat /\ MaxEdits \in Nat
    /\ RequestId \cap {"chat", "other", "reaction"} = {}

VARIABLES
    account,    \* the channel config in each account's account data
    joined,     \* the rooms each account is joined to
    edits,      \* changes of the two so far (bound)
    cached,     \* configs: the config last fetched, or None
    age,        \* configs: how long ago it was put there, up to its TTL
    lastRoom,   \* last_rooms: where an allowlisted message last arrived
    pending,    \* the pending map: from (mxid, request id) to its prompt
    serial,     \* PENDING_SERIAL: serials drawn so far
    open,       \* history: key and serial of the prompts that were neither
                \* answered nor displaced by a later prompt and have not expired
    lastBy,     \* history: who wrote the message that lastRoom remembers
    named,      \* history: rooms the account data ever named
    trusted,    \* history: senders the account data ever allowed
    pc,         \* where each task is
    job,        \* what the task handles
    quiet,      \* push_message found no live peer
    conf,       \* the config just fetched
    found,      \* the serial of the prompt the task looked up
    peer        \* the peer the task is about to send a verdict to, or None

matrixVars == <<account, joined, edits, named, trusted>>
cacheVars  == <<cached, age>>
roomVars   == <<lastRoom, lastBy>>
promptVars == <<pending, serial, open>>
taskVars   == <<pc, job, quiet, conf, found, peer>>
relayVars  == <<matrixVars, cacheVars, roomVars, promptVars, taskVars>>
vars       == <<mapVars, relayVars>>

Phase == { "idle", "outstanding", "config", "fetch", "store", "lastroom", "record",
           "prompt", "lookup", "peer", "send", "retire", "remember", "notify" }

\* A session's request (id and session key), or a message (room, sender, text).
NoJob == [mxid |-> None, key |-> None, id |-> None, room |-> None, sender |-> None]
Job == [ mxid   : Mxid \cup {None},
         key    : Key \cup {None},
         id     : Text \cup {None},
         room   : Room \cup {None},
         sender : Sender \cup {None} ]

IsAsk(t) == job[t].key # None

Init ==
    /\ MapInit
    /\ account \in [Mxid -> Configs]
    /\ joined \in [Mxid -> {Room}]
    /\ edits = 0
    /\ cached = [m \in Mxid |-> None]
    /\ age = [m \in Mxid |-> 0]
    /\ lastRoom = [m \in Mxid |-> None]
    /\ pending = <<>>
    /\ serial = 0
    /\ open = {}
    /\ lastBy = [m \in Mxid |-> None]
    /\ named = [m \in Mxid |-> {account[m].room} \ {None}]
    /\ trusted = [m \in Mxid |-> account[m].allowed]
    /\ pc = [t \in Task |-> "idle"]
    /\ job = [t \in Task |-> NoJob]
    /\ quiet = [t \in Task |-> FALSE]
    /\ conf = [t \in Task |-> NoConfig]
    /\ found = [t \in Task |-> 0]
    /\ peer = [t \in Task |-> None]

-----------------------------------------------------------------------------
(* Helpers *)

Goto(t, p) == pc' = [pc EXCEPT ![t] = p]

\* The handler returns and its locals are gone.
Return(t) ==
    /\ Goto(t, "idle")
    /\ job' = [job EXCEPT ![t] = NoJob]
    /\ quiet' = [quiet EXCEPT ![t] = FALSE]
    /\ conf' = [conf EXCEPT ![t] = NoConfig]
    /\ found' = [found EXCEPT ![t] = 0]
    /\ peer' = [peer EXCEPT ![t] = None]

Stay(t, p) == Goto(t, p) /\ UNCHANGED <<job, quiet, conf, found, peer>>

\* The pending map restricted to a set of keys.
Only(K) == [k \in K |-> pending[k]]

\* retain(issued.elapsed() < PENDING_TTL)
Live == {k \in DOMAIN pending : pending[k].age < PendingTtl}

PromptKey(t) == <<job[t].mxid, job[t].id>>

-----------------------------------------------------------------------------
(* config: the account's channel config, cached for AllowlistTtl *)

\* What a handler does with its config, up to its next await. A session's
\* request takes the room the config names, if it is joined, or goes on to the
\* remembered room. A message is classified (classify_inbound): an allowlisted
\* sender's verdict is routed; nothing else goes on when nobody listens or the
\* sender is not allowed. A reaction past the gate is pushed, its room is not
\* remembered.
Continue(t, c) ==
    /\ conf' = [conf EXCEPT ![t] = NoConfig]
    /\ quiet' = [quiet EXCEPT ![t] = FALSE]
    /\ UNCHANGED <<found, peer>>
    /\ IF IsAsk(t)
       THEN /\ job' = [job EXCEPT ![t].room = c.room]
            /\ Goto(t, IF c.room = None THEN "lastroom" ELSE "record")
       ELSE /\ UNCHANGED job
            /\ Goto(t, CASE job[t].id \in RequestId  -> "lookup"
                         [] job[t].id = "reaction"  -> "notify"
                         [] OTHER                   -> "remember")

\* Mutant of Stops: the sender is not looked up in the allowlist.
StopsUngated(t, c) ==
    IF IsAsk(t)
    THEN c.room # None /\ c.room \notin joined[job[t].mxid]
    ELSE quiet[t] /\ job[t].id \notin RequestId

\* The branches of Continue that return instead.
Stops(t, c) ==
    IF IsAsk(t)
    THEN c.room # None /\ c.room \notin joined[job[t].mxid]
    ELSE \/ job[t].sender \notin c.allowed
         \/ quiet[t] /\ job[t].id \notin RequestId

Proceed(t, c) == IF Stops(t, c) THEN Return(t) ELSE Continue(t, c)

\* A fetched config that is young enough is used, whatever it says.
ConfigCached(t) ==
    LET m == job[t].mxid IN
    /\ pc[t] = "config"
    /\ cached[m] # None
    /\ age[m] < AllowlistTtl
    /\ Proceed(t, cached[m])
    /\ UNCHANGED <<mapVars, matrixVars, cacheVars, roomVars, promptVars>>

ConfigMiss(t) ==
    LET m == job[t].mxid IN
    /\ pc[t] = "config"
    /\ cached[m] = None \/ age[m] >= AllowlistTtl
    /\ Stay(t, "fetch")
    /\ UNCHANGED <<mapVars, matrixVars, cacheVars, roomVars, promptVars>>

\* The homeserver answers with the account data; an absent, malformed or
\* unreadable answer is the default config.
FetchOk(t) ==
    /\ pc[t] = "fetch"
    /\ Goto(t, "store")
    /\ conf' = [conf EXCEPT ![t] = account[job[t].mxid]]
    /\ UNCHANGED <<job, quiet, found, peer>>
    /\ UNCHANGED <<mapVars, matrixVars, cacheVars, roomVars, promptVars>>

FetchFails(t) ==
    /\ pc[t] = "fetch"
    /\ Goto(t, "store")
    /\ conf' = [conf EXCEPT ![t] = NoConfig]
    /\ UNCHANGED <<job, quiet, found, peer>>
    /\ UNCHANGED <<mapVars, matrixVars, cacheVars, roomVars, promptVars>>

\* The answer is cached as of now, whenever it was given, and used.
StoreConfig(t) ==
    LET m == job[t].mxid IN
    /\ pc[t] = "store"
    /\ cached' = [cached EXCEPT ![m] = conf[t]]
    /\ age' = [age EXCEPT ![m] = 0]
    /\ Proceed(t, conf[t])
    /\ UNCHANGED <<mapVars, matrixVars, roomVars, promptVars>>

-----------------------------------------------------------------------------
(* on_custom_notification: a session asks *)

\* A session sends a permission request and for_user finds its client. Nothing
\* makes the request wait for the task that registers the session's peer.
on_custom_notification(t, k, i) ==
    /\ pc[t] = "idle"
    /\ serial < MaxPrompts
    /\ Goto(t, "config")
    /\ job' = [job EXCEPT ![t] = [NoJob EXCEPT !.mxid = OwnerOf[k], !.key = k, !.id = i]]
    /\ UNCHANGED <<quiet, conf, found, peer>>
    /\ UNCHANGED <<mapVars, matrixVars, cacheVars, roomVars, promptVars>>

\* permission_room, second half: no room is named, so the remembered one; no
\* room at all, or one the account is not joined to, drops the prompt.
LastRoom(t) ==
    LET m == job[t].mxid IN
    /\ pc[t] = "lastroom"
    /\ IF lastRoom[m] = None \/ lastRoom[m] \notin joined[m]
       THEN Return(t)
       ELSE /\ job' = [job EXCEPT ![t].room = lastRoom[m], ![t].sender = lastBy[m]]
            /\ Goto(t, "record")
            /\ UNCHANGED <<quiet, conf, found, peer>>
    /\ UNCHANGED <<mapVars, matrixVars, cacheVars, roomVars, promptVars>>

\* How many live prompts the cap makes room for: it evicts while len >= max.
Excess == IF Cardinality(Live) >= PendingMax THEN Cardinality(Live) - PendingMax + 1 ELSE 0

\* Mutant of Record: the serial is read but never advanced.
RecordSameSerial(t, gone) ==
    LET k == PromptKey(t) IN
    /\ UNCHANGED serial
    /\ pending' = [j \in (Live \ gone) \cup {k} |->
                     IF j = k THEN [age |-> 0, session |-> job[t].key, serial |-> serial]
                     ELSE pending[j]]
    /\ open' = {o \in open : o.key \notin gone \cup {k}} \cup {[key |-> k, serial |-> serial]}
    /\ Goto(t, "prompt")
    /\ job' = [job EXCEPT ![t].id = None, ![t].key = None]
    /\ UNCHANGED <<quiet, conf, found, peer>>

\* The pending map with t's prompt instead of those at the keys gone, and of an
\* older one with the same id.
Record(t, gone) ==
    LET k == PromptKey(t) IN
    /\ serial' = serial + 1
    /\ pending' = [j \in (Live \ gone) \cup {k} |->
                     IF j = k THEN [age |-> 0, session |-> job[t].key, serial |-> serial']
                     ELSE pending[j]]
    /\ open' = {o \in open : o.key \notin gone \cup {k}} \cup {[key |-> k, serial |-> serial']}
    /\ Goto(t, "prompt")
    /\ job' = [job EXCEPT ![t].id = None, ![t].key = None]
    /\ UNCHANGED <<quiet, conf, found, peer>>

\* Mutant of record_request: the cap is tested before the insertion, with >.
record_request_over(t) ==
    /\ pc[t] = "record"
    /\ serial < MaxPrompts
    /\ \E gone \in SUBSET Live :
         /\ Cardinality(gone) = IF Cardinality(Live) > PendingMax THEN 1 ELSE 0
         /\ Record(t, gone)
    /\ UNCHANGED <<mapVars, matrixVars, cacheVars, roomVars>>

\* record_request, under the write lock: prune the expired prompts, evict the
\* oldest ones (any of those issued in the same tick) down to the cap, insert
\* the new prompt with the next serial.
record_request(t) ==
    /\ pc[t] = "record"
    /\ serial < MaxPrompts
    /\ \E gone \in SUBSET Live :
         /\ Cardinality(gone) = Excess
         /\ \A g \in gone, j \in Live \ gone : pending[g].age >= pending[j].age
         /\ Record(t, gone)
    /\ UNCHANGED <<mapVars, matrixVars, cacheVars, roomVars>>

\* room.send: the prompt reaches the room or the send fails (the SDK refuses a
\* room that is not joined); either way the prompt stays pending.
SendPrompt(t) ==
    /\ pc[t] = "prompt"
    /\ Return(t)
    /\ UNCHANGED <<mapVars, matrixVars, cacheVars, roomVars, promptVars>>

-----------------------------------------------------------------------------
(* push_message: a Matrix message arrives *)

\* Room state and sender are local reads: no await separates them from the
\* look at the peers or at the pending map before them.
Passes(j) == j.room \in joined[j.mxid] /\ j.sender # j.mxid

\* Someone writes to a room; the sync task hands the message to the handler,
\* which looks for live peers (live_peers counts, it never evicts) and may find
\* none although there are entries: is_transport_closed has false positives. A
\* message that is handled twice (two clients of the account syncing at once)
\* is two of these.
push_message(t, m, r, w, x, none) ==
    LET j == [NoJob EXCEPT !.mxid = m, !.room = r, !.sender = w, !.id = x] IN
    /\ pc[t] = "idle"
    /\ x # "reaction"
    /\ none \/ Passes(j)
    /\ none \/ Entries(m) # {}
    /\ Goto(t, IF none THEN "outstanding" ELSE "config")
    /\ job' = [job EXCEPT ![t] = j]
    /\ quiet' = [quiet EXCEPT ![t] = none]
    /\ UNCHANGED <<conf, found, peer>>
    /\ UNCHANGED <<mapVars, matrixVars, cacheVars, roomVars, promptVars>>

\* Someone reacts to a message: the same gates, but without a live peer the
\* handler returns at once.
push_reaction(t, m, r, w) ==
    LET j == [NoJob EXCEPT !.mxid = m, !.room = r, !.sender = w, !.id = "reaction"] IN
    /\ pc[t] = "idle"
    /\ Passes(j)
    /\ Entries(m) # {}
    /\ Goto(t, "config")
    /\ job' = [job EXCEPT ![t] = j]
    /\ UNCHANGED <<quiet, conf, found, peer>>
    /\ UNCHANGED <<mapVars, matrixVars, cacheVars, roomVars, promptVars>>

\* has_pending: with nobody live, go on only for an outstanding prompt.
HasPending(t) ==
    /\ pc[t] = "outstanding"
    /\ IF (\E k \in Live : k[1] = job[t].mxid) /\ Passes(job[t])
       THEN Stay(t, "config") ELSE Return(t)
    /\ UNCHANGED <<mapVars, matrixVars, cacheVars, roomVars, promptVars>>

\* deliver_verdict: prune, and look the prompt up without consuming it.
Lookup(t) ==
    LET k == PromptKey(t) IN
    /\ pc[t] = "lookup"
    /\ pending' = Only(Live)
    /\ IF k \in Live
       THEN /\ Goto(t, "peer")
            /\ job' = [job EXCEPT ![t].key = pending[k].session]
            /\ found' = [found EXCEPT ![t] = pending[k].serial]
            /\ UNCHANGED <<quiet, conf, peer>>
       ELSE Return(t)
    /\ UNCHANGED <<mapVars, matrixVars, cacheVars, roomVars, serial, open>>

\* Mutant of FindPeer: any session of the account will do.
FindAnyPeer(t) ==
    /\ pc[t] = "peer"
    /\ \E p \in Entries(job[t].mxid) :
         /\ Goto(t, "send")
         /\ peer' = [peer EXCEPT ![t] = p]
         /\ UNCHANGED <<job, quiet, conf, found>>
    /\ UNCHANGED <<mapVars, matrixVars, cacheVars, roomVars, promptVars>>

\* The peer registered under the asking session's key, closed or not; without
\* one the verdict is dropped and the prompt stays answerable.
FindPeer(t) ==
    LET p == peers[job[t].mxid][job[t].key] IN
    /\ pc[t] = "peer"
    /\ IF p = None
       THEN Return(t)
       ELSE /\ Goto(t, "send")
            /\ peer' = [peer EXCEPT ![t] = p]
            /\ UNCHANGED <<job, quiet, conf, found>>
    /\ UNCHANGED <<mapVars, matrixVars, cacheVars, roomVars, promptVars>>

\* send_notification of the verdict, with no lock held.
SendVerdict(t) ==
    /\ pc[t] = "send"
    /\ open' = {o \in open : o.serial # found[t]}
    /\ Goto(t, "retire")
    /\ peer' = [peer EXCEPT ![t] = None]
    /\ UNCHANGED <<job, quiet, conf, found>>
    /\ UNCHANGED <<mapVars, matrixVars, cacheVars, roomVars, pending, serial>>

SendVerdictFails(t) ==
    /\ pc[t] = "send"
    /\ Return(t)
    /\ UNCHANGED <<mapVars, matrixVars, cacheVars, roomVars, promptVars>>

\* Mutant of Retire: whatever prompt has the key by now is removed.
RetireByKey(t) ==
    /\ pc[t] = "retire"
    /\ pending' = Only(DOMAIN pending \ {PromptKey(t)})
    /\ Return(t)
    /\ UNCHANGED <<mapVars, matrixVars, cacheVars, roomVars, serial, open>>

\* Mutant of Retire: the prompt is left for its TTL to remove.
RetireNever(t) ==
    /\ pc[t] = "retire"
    /\ Return(t)
    /\ UNCHANGED <<mapVars, matrixVars, cacheVars, roomVars, promptVars>>

\* retire_if_current: remove the prompt if it is still the one delivered.
Retire(t) ==
    /\ pc[t] = "retire"
    /\ pending' = Only({k \in DOMAIN pending :
                         k = PromptKey(t) => pending[k].serial # found[t]})
    /\ Return(t)
    /\ UNCHANGED <<mapVars, matrixVars, cacheVars, roomVars, serial, open>>

\* remember_room, past the gate; a kind of message that is not carried goes no
\* further.
Remember(t) ==
    LET m == job[t].mxid IN
    /\ pc[t] = "remember"
    /\ lastRoom' = [lastRoom EXCEPT ![m] = job[t].room]
    /\ lastBy' = [lastBy EXCEPT ![m] = job[t].sender]
    /\ IF job[t].id = "chat" THEN Stay(t, "notify") ELSE Return(t)
    /\ UNCHANGED <<mapVars, matrixVars, cacheVars, promptVars>>

\* notify: the message is pushed into the account's sessions, and those that
\* are swept now are lost; what a failed send costs later is another Lose.
Deliver(t) ==
    /\ pc[t] = "notify"
    /\ Lose(job[t].mxid)
    /\ Return(t)
    /\ UNCHANGED <<matrixVars, cacheVars, roomVars, promptVars>>

-----------------------------------------------------------------------------
(* Environment *)

Older(n, ttl) == IF n < ttl THEN n + 1 ELSE n

Tick ==
    /\ age' = [m \in Mxid |-> Older(age[m], AllowlistTtl)]
    /\ pending' = [k \in DOMAIN pending |->
                     [pending[k] EXCEPT !.age = Older(@, PendingTtl)]]
    /\ open' = {o \in open : \A k \in DOMAIN pending :
                  pending[k].serial = o.serial => pending[k].age + 1 < PendingTtl}
    /\ UNCHANGED <<mapVars, matrixVars, cached, roomVars, serial, taskVars>>

\* The user edits the channel config in the account data.
EditConfig(m) ==
    /\ edits < MaxEdits
    /\ edits' = edits + 1
    /\ \E c \in Configs : /\ account' = [account EXCEPT ![m] = c]
                          /\ named' = [named EXCEPT ![m] = @ \cup ({c.room} \ {None})]
                          /\ trusted' = [trusted EXCEPT ![m] = @ \cup c.allowed]
    /\ UNCHANGED <<mapVars, joined, cacheVars, roomVars, promptVars, taskVars>>

\* The account joins or leaves a room.
EditMembership(m, r) ==
    /\ edits < MaxEdits
    /\ edits' = edits + 1
    /\ joined' = [joined EXCEPT ![m] = IF r \in @ THEN @ \ {r} ELSE @ \cup {r}]
    /\ UNCHANGED <<mapVars, account, named, trusted, cacheVars, roomVars, promptVars,
                   taskVars>>

-----------------------------------------------------------------------------
(* Specification *)

Step(t) ==
    \/ ConfigCached(t) \/ ConfigMiss(t) \/ FetchOk(t) \/ FetchFails(t) \/ StoreConfig(t)
    \/ LastRoom(t) \/ record_request(t) \/ SendPrompt(t)
    \/ HasPending(t)
    \/ Lookup(t) \/ FindPeer(t) \/ SendVerdict(t) \/ SendVerdictFails(t) \/ Retire(t)
    \/ Remember(t) \/ Deliver(t)

\* A task takes up a request, a message or a reaction.
Start(t) ==
    \/ \E k \in Key, i \in RequestId : on_custom_notification(t, k, i)
    \/ \E m \in Mxid, r \in Room, w \in Sender, x \in Text, none \in BOOLEAN :
          push_message(t, m, r, w, x, none)
    \/ \E m \in Mxid, r \in Room, w \in Sender : push_reaction(t, m, r, w)

Next ==
    \/ \E t \in Task : Step(t) \/ Start(t)
    \/ MapNext /\ UNCHANGED relayVars
    \/ Tick
    \/ \E m \in Mxid : EditConfig(m) \/ \E r \in Room : EditMembership(m, r)

Spec == Init /\ [][Next]_vars

-----------------------------------------------------------------------------
(* Properties *)

Prompt == [age : 0..PendingTtl, session : Key, serial : 1..serial]

TypeOK ==
    /\ peers \in [Mxid -> [Key -> Peer \cup {None}]]
    /\ attached \subseteq Peer
    /\ account \in [Mxid -> Config]
    /\ joined \in [Mxid -> SUBSET Room]
    /\ edits \in 0..MaxEdits
    /\ cached \in [Mxid -> Config \cup {None}]
    /\ age \in [Mxid -> 0..AllowlistTtl]
    /\ lastRoom \in [Mxid -> Room \cup {None}]
    /\ lastBy \in [Mxid -> Sender \cup {None}]
    /\ named \in [Mxid -> SUBSET Room]
    /\ trusted \in [Mxid -> SUBSET Sender]
    /\ DOMAIN pending \subseteq Mxid \X RequestId
    /\ \A k \in DOMAIN pending : pending[k] \in Prompt
    /\ serial \in 0..MaxPrompts
    /\ open \subseteq [key : Mxid \X RequestId, serial : 1..serial]
    /\ pc \in [Task -> Phase]
    /\ job \in [Task -> Job]
    /\ quiet \in [Task -> BOOLEAN]
    /\ conf \in [Task -> Config]
    /\ found \in [Task -> 0..serial]
    /\ peer \in [Task -> Peer \cup {None}]

\* PENDING_MAX: "the cap is what actually bounds the memory", however fast
\* sessions ask and whatever expires or is answered meanwhile.
PendingBounded == Cardinality(DOMAIN pending) <= PendingMax

\* deliver_verdict and retire_if_current: a prompt stays answerable until a
\* verdict on it was delivered, it expired, or a later prompt displaced it. A
\* delivery that fails, or that ends after its id was issued again, costs no
\* prompt its answer.
StaysAnswerable ==
    \A o \in open : o.key \in Live /\ pending[o.key].serial = o.serial

\* The other half: a prompt whose verdict was delivered does not stay answerable.
\* Every prompt that a verdict would still find is open, or the very task that
\* delivered its verdict is about to retire it, whatever other verdicts, prompts
\* of the same id, evictions and expiries come in between.
AnsweredIsRetired ==
    \A k \in Live :
        \/ \E o \in open : o.key = k /\ o.serial = pending[k].serial
        \/ \E t \in Task : /\ pc[t] = "retire" /\ PromptKey(t) = k
                         /\ found[t] = pending[k].serial

\* "The verdict goes back to this peer and no other": the peer a verdict is sent
\* to is a handshake of the session that asked, and of its account, however the
\* map changed between the lookup of the prompt and the lookup of the peer.
VerdictReachesAsker ==
    \A t \in Task : pc[t] = "send" =>
        KeyOf[peer[t]] = job[t].key /\ MxidOf(peer[t]) = job[t].mxid

\* "A stranger's yes abcde must never become a tool approval": a verdict, a
\* message or a reaction on its way to a session was written by someone the
\* account data has allowed, and not by the account itself.
OnlyAllowlistedReach ==
    \A t \in Task : pc[t] \in {"send", "notify"} =>
        job[t].sender \in trusted[job[t].mxid] \ {job[t].mxid}

\* last_rooms: "a stranger who DMs the bot must not be able to redirect every
\* future prompt". A prompt goes to a room the account data has named, or to
\* one remembered for a message of somebody it has allowed.
PromptOnlyWhereTrusted ==
    \A t \in Task : pc[t] = "prompt" =>
        \/ job[t].room \in named[job[t].mxid]
        \/ job[t].sender \in trusted[job[t].mxid] \ {job[t].mxid}
=============================================================================
