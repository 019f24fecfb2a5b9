--------------------------------- MODULE Tools ---------------------------------
(***************************************************************************)
(* The tool handlers of MatrixMcpService (mcp.rs) running concurrently for *)
(* one account: the paths of ToolRows executed one await point at a time   *)
(* over what the calls share, which is the rate limiter's buckets          *)
(* (rate_limit.rs), the account's cached SDK client with the token         *)
(* installed in it, and the homeserver.                                    *)
(*                                                                         *)
(* for_user is one step here; ClientCache takes it apart. The introspection*)
(* cache that react_to_auth_expiry also clears is in Gateway, so a call may*)
(* start here with a token that is already revoked.                        *)
(***************************************************************************)
EXTENDS ToolRows, Integers, FiniteSets

CONSTANTS
    Call,        \* slots in which a call may be running
    Token,       \* access tokens of the account
    Sub,         \* the account's MAS subject
    Event,       \* events of the room that may be pinned
    Offered,     \* the paths that calls take
    Quota,       \* reads_per_min and writes_per_min
    MaxFan,      \* MAX_ROOMS_PER_CALL, MAX_ROOMS_TOTAL
    MaxRefills,  \* bound on bucket cells that come back
    None

Category == {"read", "write"}

ASSUME ToolsAssumption ==
    /\ Offered \subseteq Paths
    /\ Quota \in [Category -> Nat \ {0}]
    /\ MaxFan \in Nat \ {0}
    /\ MaxRefills \in Nat
    /\ Sub \notin Token /\ None \notin Token
    /\ "shared" \notin Token \cup {None}

VARIABLES
    alive,    \* tokens the homeserver still accepts
    entry,    \* the token installed in the cached client, None without a client
    left,     \* what each bucket still allows, per category, per bearer and sub
    refills,  \* cells that came back so far (bound)
    pins,     \* m.room.pinned_events at the homeserver
    local,    \* the same in the SDK's store, as of the last sync
    credit,   \* history: writes that the account's quota still justifies
    extra,    \* history: uploads, notices and writes on the side that it justifies
    at,       \* where each call is
    steps,    \* the rest of its path
    notice,   \* the tool posts a notice
    tok,      \* the token the call presents
    handle,   \* the client it holds: the cached one, or an evicted one's token
    seen,     \* the list of pins it is about to write
    res,      \* its result
    did       \* history: it has made its write (an upload alone is none)

limitVars == <<left, refills>>
callVars  == <<at, steps, notice, tok, handle, seen, res, did>>
matrixVars == <<alive, pins, local>>
ledger    == <<credit, extra>>
vars == <<matrixVars, entry, limitVars, ledger, callVars>>

Bucket == Token \cup {Sub}

Result == {"none", "ok", "invalid", "internal", "unknown_token", "rate_limited", "auth_expired"}

Init ==
    /\ alive = Token
    /\ entry = None
    /\ left = [g \in Category |-> [b \in Bucket |-> Quota[g]]]
    /\ refills = 0
    /\ pins = {} /\ local = {}
    /\ credit = Quota["write"]
    /\ extra = 2 * Quota["write"] + Quota["read"]
    /\ at = [c \in Call |-> "idle"]
    /\ steps = [c \in Call |-> <<>>]
    /\ notice = [c \in Call |-> FALSE]
    /\ tok = [c \in Call |-> None]
    /\ handle = [c \in Call |-> None]
    /\ seen = [c \in Call |-> {}]
    /\ res = [c \in Call |-> "none"]
    /\ did = [c \in Call |-> FALSE]

-----------------------------------------------------------------------------
(* Helpers *)

\* Call c is at one of the steps in S.
Doing(c, S) == at[c] = "run" /\ steps[c] # <<>> /\ Head(steps[c]) \in S

\* Mutant of Follows: emit_write_notice only skips a rate-limit denial.
FollowsAlways(r, n) ==
    IF n /\ r # "rate_limited" THEN "notice" ELSE "done"

\* Where a call with result r is next. emit_write_notice skips a rate-limit
\* denial and an expired token.
Follows(r, n) ==
    IF n /\ r \notin {"rate_limited", "auth_expired"} THEN "notice" ELSE "done"

\* The body ends with r. Only the homeserver's 401 makes react_to_auth_expiry do
\* anything (the errors of the handlers themselves never are internal errors
\* with its text in them). The body's locals are gone, the client included.
End(c, r) ==
    /\ at' = [at EXCEPT ![c] = IF r = "unknown_token" THEN "react" ELSE Follows(r, notice[c])]
    /\ res' = [res EXCEPT ![c] = r]
    /\ steps' = [steps EXCEPT ![c] = <<>>]
    /\ handle' = [handle EXCEPT ![c] = None]
    /\ seen' = [seen EXCEPT ![c] = {}]
    /\ UNCHANGED <<notice, tok>>

Checks == {"args", "room", "member"}

\* What is left of a body once the checks at its front have passed.
PastChecks(s) ==
    SubSeq(s, 1 + Cardinality({i \in 1..Len(s) : \A j \in 1..i : s[j] \in Checks}), Len(s))

\* The body goes on with s: the checks up to its next await refuse the call
\* (invalid_params), or pass; it returns Ok when nothing is left.
GoOn(c, s) ==
    \/ s # <<>> /\ Head(s) \in Checks /\ End(c, "invalid")
    \/ PastChecks(s) = <<>> /\ End(c, "ok")
    \/ /\ PastChecks(s) # <<>>
       /\ steps' = [steps EXCEPT ![c] = PastChecks(s)]
       /\ UNCHANGED <<at, notice, tok, handle, seen, res>>

Advance(c) == GoOn(c, Tail(steps[c]))

\* The token a homeserver request of c carries: the one installed in its client
\* now, which another call of the account may have swapped.
Carries(c) == IF handle[c] = "shared" THEN entry ELSE handle[c]

Accepted(c) == Carries(c) \in alive

-----------------------------------------------------------------------------
(* The rate limiter *)

Allows(g, t) == left[g][t] > 0 /\ left[g][Sub] > 0

\* Mutant of check: the subject's bucket is charged without a look at it.
check_blind(g, t) ==
    left' = IF left[g][t] = 0 THEN left
            ELSE [left EXCEPT ![g][t] = @ - 1, ![g][Sub] = @ - 1]

\* Limiter::check: the bearer's bucket is charged first, and stays charged when
\* the subject's bucket then denies.
check(g, t) ==
    left' = IF left[g][t] = 0 THEN left
            ELSE IF left[g][Sub] = 0 THEN [left EXCEPT ![g][t] = @ - 1]
            ELSE [left EXCEPT ![g][t] = @ - 1, ![g][Sub] = @ - 1]

\* Time passes: every bucket of a category that is not full gets a cell back.
Refill(g) ==
    /\ \E b \in Bucket : left[g][b] < Quota[g]
    /\ refills < MaxRefills
    /\ refills' = refills + 1
    /\ left' = [left EXCEPT ![g] = [b \in Bucket |-> IF @[b] < Quota[g] THEN @[b] + 1 ELSE @[b]]]
    /\ credit' = IF g = "write" THEN credit + 1 ELSE credit
    /\ extra' = IF g = "write" THEN extra + 2 ELSE extra + 1
    /\ UNCHANGED <<matrixVars, entry, callVars>>

-----------------------------------------------------------------------------
(* The frame of every handler *)

\* What a call has come to at its first await: denied, refused by the checks
\* before it, still running, or (whoami) over.
Outcome(p, allowed) ==
    IF ~allowed THEN {"rate_limited"}
    ELSE IF p.steps = <<>> THEN {"ok"}
    ELSE {"none"} \cup (IF Head(p.steps) \in Checks THEN {"invalid"} ELSE {})

\* A tool is called with token t, which is revoked if its introspection is
\* still cached. rate_limit_check comes before everything else.
CallTool(c, t, p) ==
    /\ at[c] = "idle"
    /\ check(p.cat, t)
    /\ tok' = [tok EXCEPT ![c] = t]
    /\ notice' = [notice EXCEPT ![c] = p.notice]
    /\ \E r \in Outcome(p, Allows(p.cat, t)) :
         /\ at' = [at EXCEPT ![c] = IF r = "none" THEN "run" ELSE Follows(r, p.notice)]
         /\ steps' = [steps EXCEPT ![c] = IF r = "none" THEN PastChecks(p.steps) ELSE <<>>]
         /\ res' = [res EXCEPT ![c] = r]
    /\ UNCHANGED <<matrixVars, entry, refills, ledger, handle, seen, did>>

\* for_user with token t leaves t installed in the cached client; whoever holds
\* that client now sends t too.
Install(t) == entry' = t

\* react_to_auth_expiry: evict the account's client, whichever it is by now.
\* The calls that hold it keep it, with the token that is in it.
React(c) ==
    /\ at[c] = "react"
    /\ entry' = None
    /\ handle' = [d \in Call |-> IF handle[d] = "shared" THEN entry ELSE handle[d]]
    /\ res' = [res EXCEPT ![c] = "auth_expired"]
    /\ at' = [at EXCEPT ![c] = Follows("auth_expired", notice[c])]
    /\ UNCHANGED <<matrixVars, limitVars, ledger, steps, notice, tok, seen, did>>

\* The result goes back to the caller.
Return(c) ==
    /\ at' = [at EXCEPT ![c] = "idle"]
    /\ notice' = [notice EXCEPT ![c] = FALSE]
    /\ tok' = [tok EXCEPT ![c] = None]
    /\ res' = [res EXCEPT ![c] = "none"]
    /\ did' = [did EXCEPT ![c] = FALSE]
    /\ UNCHANGED <<steps, handle, seen>>

\* emit_write_notice asks for the client again, with the call's token, and spawns
\* the send of an m.notice into the audit room, which no bucket is charged for.
\* It is counted here, whether or not there is a room and it gets through.
Notice(c) ==
    /\ at[c] = "notice"
    /\ Return(c)
    /\ Install(tok[c])
    /\ extra' = extra - 1
    /\ UNCHANGED <<matrixVars, limitVars, credit>>

\* It is skipped, or for_user fails.
NoNotice(c) ==
    /\ at[c] \in {"notice", "done"}
    /\ Return(c)
    /\ UNCHANGED <<matrixVars, entry, limitVars, ledger>>

-----------------------------------------------------------------------------
(* The steps of a body *)

\* The gate's cooldown is an invalid_params error.
GateCooldown(c) ==
    /\ Doing(c, {"gate"})
    /\ End(c, "invalid")
    /\ UNCHANGED <<matrixVars, entry, limitVars, ledger, did>>

\* request_room_keys reports a busy gate with the code of a rate-limit denial.
GateBusy(c) ==
    /\ Doing(c, {"gate"})
    /\ End(c, "rate_limited")
    /\ UNCHANGED <<matrixVars, entry, limitVars, ledger, did>>

client_for(c) ==
    LET s == Tail(steps[c]) IN
    /\ Doing(c, {"client"})
    /\ Install(tok[c])
    /\ \/ s = <<>> /\ End(c, "ok")
       \/ s # <<>> /\ Head(s) \in Checks /\ End(c, "invalid")
       \/ /\ s # <<>>
          /\ handle' = [handle EXCEPT ![c] = "shared"]
          /\ steps' = [steps EXCEPT ![c] = PastChecks(s)]
          /\ UNCHANGED <<at, notice, tok, seen, res>>
    /\ UNCHANGED <<matrixVars, limitVars, ledger, did>>

\* Building or checking the client fails, with the homeserver's 401 when the
\* token is revoked. A client that was built before stays, with or without the
\* new token.
client_for_fails(c) ==
    /\ Doing(c, {"client"})
    /\ \/ UNCHANGED entry
       \/ entry # None /\ Install(tok[c])
    /\ \/ End(c, "internal")
       \/ tok[c] \notin alive /\ End(c, "unknown_token")
    /\ UNCHANGED <<matrixVars, limitVars, ledger, did>>

\* Reads that succeed. An ignored error is as good as a success.
ReadOk(c) ==
    /\ \/ Doing(c, {"store", "web", "try", "gate"})
       \/ Doing(c, {"fetch"}) /\ Accepted(c)
    /\ Advance(c)
    /\ UNCHANGED <<matrixVars, entry, limitVars, ledger, did>>

\* Anything that waits may fail without having done anything.
Fails(c) ==
    /\ Doing(c, {"store", "web", "fetch", "upload", "pin", "unpin", "send", "setpins"})
    /\ End(c, "internal")
    /\ UNCHANGED <<matrixVars, entry, limitVars, ledger, did>>

\* Another server's answer that is refused (not a 2xx, the wrong type, too big).
WebRefused(c) ==
    /\ Doing(c, {"web"})
    /\ End(c, "invalid")
    /\ UNCHANGED <<matrixVars, entry, limitVars, ledger, did>>

\* The homeserver answers 401: the token in the client is revoked.
Unauthorized(c) ==
    /\ Doing(c, {"fetch", "upload", "send", "setpins"})
    /\ ~Accepted(c)
    /\ End(c, "unknown_token")
    /\ UNCHANGED <<matrixVars, entry, limitVars, ledger, did>>

\* The homeserver stores the file; its answer may be lost. Nothing refers to the
\* file yet, and nothing removes it when the call fails later.
Upload(c, answered) ==
    /\ Doing(c, {"upload"})
    /\ Accepted(c)
    /\ extra' = extra - 1
    /\ IF answered THEN Advance(c) ELSE End(c, "internal")
    /\ UNCHANGED <<matrixVars, entry, limitVars, credit, did>>

\* recovery().enable() after the bootstrap: it writes, or its error is ignored.
EnableRecovery(c) ==
    /\ Doing(c, {"enable"})
    /\ \/ /\ Accepted(c)
          /\ extra' = extra - 1
          /\ did' = [did EXCEPT ![c] = TRUE]
       \/ UNCHANGED <<extra, did>>
    /\ Advance(c)
    /\ UNCHANGED <<matrixVars, entry, limitVars, credit>>

\* A write of call c takes effect.
Effect(c) ==
    /\ Accepted(c)
    /\ credit' = credit - 1
    /\ did' = [did EXCEPT ![c] = TRUE]
    /\ UNCHANGED extra

Send(c) ==
    /\ Doing(c, {"send"})
    /\ Effect(c)
    /\ Advance(c)
    /\ UNCHANGED <<matrixVars, entry, limitVars>>

\* The homeserver applied it, but the answer was lost.
SendLost(c) ==
    /\ Doing(c, {"send"})
    /\ Effect(c)
    /\ End(c, "internal")
    /\ UNCHANGED <<matrixVars, entry, limitVars>>

-----------------------------------------------------------------------------
(* toggle_pin *)

\* The current list is read from the SDK's store and changed.
ReadPins(c, e) ==
    /\ Doing(c, {"pin", "unpin"})
    /\ seen' = [seen EXCEPT ![c] = IF Head(steps[c]) = "pin" THEN local \cup {e}
                                   ELSE local \ {e}]
    /\ steps' = [steps EXCEPT ![c] = Tail(@)]
    /\ UNCHANGED <<at, notice, tok, handle, res>>
    /\ UNCHANGED <<matrixVars, entry, limitVars, ledger, did>>

\* send_state_event replaces the whole list; its answer may be lost.
WritePins(c, answered) ==
    /\ Doing(c, {"setpins"})
    /\ Effect(c)
    /\ pins' = seen[c]
    /\ IF answered THEN Advance(c) ELSE End(c, "internal")
    /\ UNCHANGED <<alive, local, entry, limitVars>>

-----------------------------------------------------------------------------
(* send_bulk and send_broadcast *)

\* n rooms to send to; a room that send_broadcast skips for its size is neither
\* charged nor sent to.
FanOut(c, n) ==
    /\ Doing(c, {"bulk", "broadcast"})
    /\ n > 0 \/ Head(steps[c]) = "broadcast"
    /\ GoOn(c, [i \in 1..n |-> "each"])
    /\ UNCHANGED <<matrixVars, entry, limitVars, ledger, did>>

\* Mutant of Each: only the call is charged, not its rooms.
EachFree(c) ==
    /\ Doing(c, {"each"})
    /\ GoOn(c, <<"quiet">> \o Tail(steps[c]))
    /\ UNCHANGED <<matrixVars, entry, limitVars, ledger, did>>

\* Mutant of Each: a denial ends the call.
EachStops(c) ==
    /\ Doing(c, {"each"})
    /\ check("write", tok[c])
    /\ IF Allows("write", tok[c]) THEN GoOn(c, <<"quiet">> \o Tail(steps[c]))
       ELSE End(c, "rate_limited")
    /\ UNCHANGED <<matrixVars, entry, refills, ledger, did>>

\* Every room is charged as one write; a denied one is skipped and noted.
Each(c) ==
    /\ Doing(c, {"each"})
    /\ check("write", tok[c])
    /\ GoOn(c, IF Allows("write", tok[c]) THEN <<"quiet">> \o Tail(steps[c])
               ELSE Tail(steps[c]))
    /\ UNCHANGED <<matrixVars, entry, refills, ledger, did>>

\* send_text_to_room: whatever goes wrong is noted in the outcome and the loop
\* goes on.
send_text_to_room(c) ==
    /\ Doing(c, {"quiet"})
    /\ \/ Effect(c)
       \/ UNCHANGED <<ledger, did>>
    /\ Advance(c)
    /\ UNCHANGED <<matrixVars, entry, limitVars>>

-----------------------------------------------------------------------------
(* Environment *)

Revoke(t) ==
    /\ t \in alive
    /\ alive' = alive \ {t}
    /\ UNCHANGED <<pins, local, entry, limitVars, ledger, callVars>>

\* A sync response reaches the SDK's store.
Sync ==
    /\ local # pins
    /\ local' = pins
    /\ UNCHANGED <<alive, pins, entry, limitVars, ledger, callVars>>

Body(c) ==
    \/ React(c) \/ Notice(c) \/ NoNotice(c)
    \/ GateCooldown(c) \/ GateBusy(c)
    \/ client_for(c) \/ client_for_fails(c)
    \/ ReadOk(c) \/ Fails(c) \/ WebRefused(c) \/ Unauthorized(c)
    \/ Send(c) \/ SendLost(c) \/ EnableRecovery(c)
    \/ \E a \in BOOLEAN : Upload(c, a)
    \/ \E e \in Event : ReadPins(c, e)
    \/ \E a \in BOOLEAN : WritePins(c, a)
    \/ \E n \in 0..MaxFan : FanOut(c, n)
    \/ Each(c) \/ send_text_to_room(c)

Next ==
    \/ \E c \in Call, t \in Token, p \in Offered : CallTool(c, t, p)
    \/ \E c \in Call : Body(c)
    \/ \E g \in Category : Refill(g)
    \/ \E t \in Token : Revoke(t)
    \/ Sync

Spec == Init /\ [][Next]_vars

-----------------------------------------------------------------------------
(* Properties *)

\* Type correctness; a call that holds the cached client implies there is one.
TypeOK ==
    /\ alive \subseteq Token /\ pins \subseteq Event /\ local \subseteq Event
    /\ entry \in Token \cup {None}
    /\ \A g \in Category, b \in Bucket : left[g][b] \in 0..Quota[g]
    /\ refills \in 0..MaxRefills
    /\ credit \in Int /\ extra \in Int
    /\ \A c \in Call :
         /\ at[c] \in {"idle", "run", "react", "notice", "done"}
         /\ notice[c] \in BOOLEAN /\ did[c] \in BOOLEAN
         /\ tok[c] \in Token \cup {None}
         /\ handle[c] \in Token \cup {None, "shared"}
         /\ handle[c] = "shared" => entry # None
         /\ seen[c] \subseteq Event
         /\ res[c] \in Result

\* What the quota bounds, the cells that came back included, however the calls are
\* spread over tokens, slots and the rooms of a fan-out ("a single call can't fan
\* out cheaper than `N` discrete send_text_message calls", send_bulk). A cell of the
\* write bucket allows one write of a tool and on the side, where nothing is charged,
\* at most one upload (or the enabling of recovery) and one notice; a cell of the
\* read bucket allows no write, but one notice (request_room_keys posts one).
WritesWithinQuota == credit >= 0 /\ extra >= 0

\* A caller that is told to slow down, to fix its arguments or to reconnect and
\* then retry may do so: the write of the failed call has not been made, nor any
\* room of its fan-out, so a retry repeats no message and no change of state, account
\* or keys (emit_write_notice: "the write never actually executed"). It may upload a
\* file a second time: the send tools upload before they can be refused.
RetrySafe ==
    \A c \in Call : res[c] \in {"invalid", "rate_limited", "auth_expired"} => ~did[c]

\* A call that evicted the client because of the homeserver's 401 does not put
\* its token back into the cache: whatever is installed is installed by a call
\* that has not seen the 401 (emit_write_notice: "undoing the eviction").
EvictionNotUndone ==
    [][entry' \notin {entry, None} =>
         \E c \in Call : tok[c] = entry' /\ res[c] \notin {"unknown_token", "auth_expired"}]_vars

\* Pinning or unpinning one message changes the pinned events by that message
\* alone (the description of room_pin_message: "append to m.room.pinned_events").
PinChangesOne ==
    [][Cardinality((pins \ pins') \cup (pins' \ pins)) <= 1]_vars

==============================================================================
