------------------------------- MODULE Replay -------------------------------
(***************************************************************************)
(* Missed-message replay (channel.rs): a session that attaches is handed   *)
(* what arrived behind the read receipt of each room, while the live push  *)
(* and the agent's acknowledgements (mark_read) go on. One account.        *)
(*                                                                         *)
(* An event's id is its position in the timeline of its room. notify is    *)
(* one step here: PeerRegistry takes it apart. The account data, and so    *)
(* the allowlist, stays as it is: PermissionRelay changes it.              *)
(***************************************************************************)
EXTENDS Integers, Sequences, FiniteSets

CONSTANTS
    Room,            \* joined rooms
    Session,         \* channel sessions, each of which attaches once
    Event,           \* events: who sent it, what it is, which event it edits, when
    Backlogs,        \* the timelines that the first session may find
    Live,            \* the events that may still be sent then
    ReplayMax,       \* REPLAY_MAX
    ReplayMaxRooms,  \* REPLAY_MAX_ROOMS
    ReplayMaxTotal,  \* REPLAY_MAX_TOTAL
    MaxLen,          \* bound on the length of a timeline
    MaxPosts,        \* bound on the events that are still sent
    MaxAcks,         \* bound on the acknowledgements
    None

ASSUME ReplayAssumption ==
    /\ {ReplayMax, ReplayMaxRooms, ReplayMaxTotal, MaxLen} \subseteq Nat \ {0}
    /\ MaxPosts \in Nat /\ MaxAcks \in Nat
    /\ Event \subseteq [from : {"friend", "stranger"}, is : {"prose", "verdict", "caption", "other"},
                        of : 0..MaxLen, ts : Nat]
    /\ Live \subseteq Event
    /\ Backlogs \subseteq [Room -> Seq(Event)]
    /\ \A b \in Backlogs : \A r \in Room : Len(b[r]) <= MaxLen
    /\ None \notin Room

VARIABLES
    log,        \* the timeline of each room, on the homeserver
    posts,      \* events sent so far (bound)
    acks,       \* acknowledgements so far (bound)
    receipt,    \* the account's read receipt of each room, in the store (0: none)
    queue,      \* events the sync loop has still to give to the live handler
    peers,      \* registered sessions
    hung,       \* sessions whose transport is closed
    replaying,  \* ChannelRegistry::replaying: the account is in it
    pass,       \* the replay pass that each session's handshake spawned
    heard,      \* history: events written to each session, live or replayed
    told,       \* history: events that a truncation notice to it stands for
    last        \* history: per room, the last event the running pass sent

worldVars == <<log, posts, acks, receipt, queue>>
peerVars  == <<peers, hung>>
histVars  == <<heard, told, last>>
vars == <<worldVars, peerVars, replaying, pass, histVars>>

Pos   == 1..MaxLen
Place == Room \X Pos

\* A pass before its first room; `cut' is the newest event that the window
\* leaves out when it is truncated.
Idle == [pc |-> "idle", todo |-> {}, looked |-> 0, budget |-> 0,
         room |-> None, mark |-> 0, cut |-> 0, end |-> 0, batch |-> {}, ok |-> TRUE]

Init ==
    /\ log \in Backlogs /\ posts = 0 /\ acks = 0
    /\ receipt = [r \in Room |-> 0]
    /\ queue = <<>>
    /\ peers = {} /\ hung = {}
    /\ replaying = FALSE
    /\ pass = [s \in Session |-> Idle]
    /\ heard = [s \in Session |-> {}] /\ told = heard
    /\ last = [r \in Room |-> 0]

-----------------------------------------------------------------------------
(* What a session is owed *)

IsEdit(e) == e.of # 0

\* Sent by an allowlisted sender who is not the account itself.
SenderAllowed(e) == e.from = "friend"

\* Live, an answer to a permission prompt is a text that reads like one: the
\* caption of an upload that happens to read `yes abcde' is a caption.
handled_as_verdict(e) == e.is = "verdict"

\* The replay looks at the body of the event, of whatever msgtype.
is_replayed_verdict(e) == e.is \in {"verdict", "caption"}

\* carried_of: a text, an upload or a reaction, or an edit into one.
Carries(e) == e.is # "other"

\* What push_message gives to a session, and what replay_deliverable does.
Owed(e)     == SenderAllowed(e) /\ ~handled_as_verdict(e) /\ Carries(e)
Replayed(e) == SenderAllowed(e) /\ ~is_replayed_verdict(e) /\ Carries(e)

\* Of two edits, q counts as the newer one: its time, and within a millisecond its place.
Later(tl, q, p) ==
    \/ tl[q].ts > tl[p].ts
    \/ tl[q].ts = tl[p].ts /\ q > p

\* Mutant of supersede_edits: asks whether it is superseded before whether it won.
supersede_first(tl, C) ==
    {p \in C : /\ \A q \in C : tl[q].of # p
               /\ IsEdit(tl[p]) => ~ \E q \in C : tl[q].of = tl[p].of /\ Later(tl, q, p)}

\* Winner first: an edit stays when no edit of its target is newer, anything
\* else when no edit of the batch names it.
supersede_edits(tl, C) ==
    {p \in C : IF IsEdit(tl[p]) THEN ~ \E q \in C : tl[q].of = tl[p].of /\ Later(tl, q, p)
                                ELSE \A q \in C : tl[q].of # p}

\* Mutant of replay_deliverable: the budget does not cut the batch.
replay_unbudgeted(tl, U, budget) == supersede_edits(tl, {p \in U : Replayed(tl[p])})

\* Mutant of replay_deliverable: an answer to a prompt goes out as prose.
replay_verdicts(tl, U, budget) ==
    LET kept == supersede_edits(tl, {p \in U : SenderAllowed(tl[p]) /\ Carries(tl[p])})
    IN {p \in kept : Cardinality({q \in kept : q < p}) < budget}

\* Of the unseen events the ones to send: no more than the budget, the oldest.
replay_deliverable(tl, U, budget) ==
    LET kept == supersede_edits(tl, {p \in U : Replayed(tl[p])})
    IN {p \in kept : Cardinality({q \in kept : q < p}) < budget}

-----------------------------------------------------------------------------
(* The world: senders, the agent, transports *)

\* Somebody sends an event, which the sync loop will see.
Post(r, e) ==
    /\ posts < MaxPosts /\ Len(log[r]) < MaxLen
    /\ posts' = posts + 1
    /\ log' = [log EXCEPT ![r] = Append(@, e)]
    /\ queue' = Append(queue, <<r, Len(log[r]) + 1>>)
    /\ UNCHANGED <<acks, receipt, peerVars, replaying, pass, histVars>>

\* mark_read by an agent: the receipt moves to an event that a session has
\* been given, never back. It counts once sync has brought it to the store.
MarkRead(r, p) ==
    /\ \E s \in Session : <<r, p>> \in heard[s]
    /\ p > receipt[r]
    /\ acks < MaxAcks /\ acks' = acks + 1
    /\ receipt' = [receipt EXCEPT ![r] = p]
    /\ UNCHANGED <<log, posts, queue, peerVars, replaying, pass, histVars>>

\* A client goes away; the registry finds out when a write to it fails.
HangUp(s) ==
    /\ s \in peers \ hung
    /\ hung' = hung \cup {s}
    /\ UNCHANGED <<worldVars, peers, replaying, pass, histVars>>

\* notify: to every registered session; the ones that fail are dropped.
Reached == peers \ hung
Dropped == peers' = Reached /\ hung' = hung \cap Reached
WithAll(h, Q) == [s \in Session |-> IF s \in Reached THEN h[s] \cup Q ELSE h[s]]

\* push_message for the next event that sync brings.
Push ==
    /\ queue # <<>>
    /\ LET q == Head(queue)
           e == log[q[1]][q[2]]
       IN IF Owed(e) /\ peers # {}
          THEN /\ heard' = WithAll(heard, {q})
               /\ Dropped
          ELSE UNCHANGED <<heard, peerVars>>
    /\ queue' = Tail(queue)
    /\ UNCHANGED <<log, posts, acks, receipt, replaying, pass, told, last>>

-----------------------------------------------------------------------------
(* replay_missed, one pass per handshake *)

At(s, l) == pass[s].pc = l

\* on_initialized: the session is registered, then its pass spawned.
Attach(s) ==
    /\ At(s, "idle") /\ s \notin peers
    /\ peers' = peers \cup {s}
    /\ pass' = [pass EXCEPT ![s].pc = "spawned"]
    /\ UNCHANGED <<worldVars, hung, replaying, histVars>>

\* No client for the account, or an allowlist that is empty or cannot be read.
NothingToDo(s) ==
    /\ At(s, "spawned")
    /\ pass' = [pass EXCEPT ![s].pc = "done"]
    /\ UNCHANGED <<worldVars, peerVars, replaying, histVars>>

\* Mutant of Begin: no look at the flag.
BeginAnyway(s) ==
    /\ At(s, "spawned")
    /\ replaying' = TRUE
    /\ pass' = [pass EXCEPT ![s].pc = "rooms", ![s].todo = Room, ![s].budget = ReplayMaxTotal]
    /\ last' = [r \in Room |-> 0]
    /\ UNCHANGED <<worldVars, peerVars, heard, told>>

\* The in-flight flag: a second pass of the account is skipped, not delayed.
Begin(s) ==
    /\ At(s, "spawned")
    /\ IF replaying
       THEN /\ pass' = [pass EXCEPT ![s].pc = "done"]
            /\ UNCHANGED <<replaying, last>>
       ELSE /\ replaying' = TRUE
            /\ pass' = [pass EXCEPT ![s].pc = "rooms", ![s].todo = Room,
                                    ![s].budget = ReplayMaxTotal]
            /\ last' = [r \in Room |-> 0]
    /\ UNCHANGED <<worldVars, peerVars, heard, told>>

\* The loop over the rooms goes on.
MoreRooms(s) ==
    pass[s].todo # {} /\ pass[s].looked < ReplayMaxRooms /\ pass[s].budget > 0

\* Mutant of LoadReceipt: the room is not counted.
LoadReceiptUncounted(s, r) ==
    /\ At(s, "rooms") /\ MoreRooms(s) /\ r \in pass[s].todo
    /\ pass' = [pass EXCEPT ![s].pc = "fetch", ![s].room = r, ![s].mark = receipt[r],
                            ![s].todo = @ \ {r}]
    /\ UNCHANGED <<worldVars, peerVars, replaying, histVars>>

\* replay_room reads the receipt of the next room, whichever that is.
LoadReceipt(s, r) ==
    /\ At(s, "rooms") /\ MoreRooms(s) /\ r \in pass[s].todo
    /\ pass' = [pass EXCEPT ![s].pc = "fetch", ![s].room = r, ![s].mark = receipt[r],
                            ![s].todo = @ \ {r}, ![s].looked = @ + 1]
    /\ UNCHANGED <<worldVars, peerVars, replaying, histVars>>

\* Mutant of Limit: not one more than is replayed.
LimitExact == ReplayMax

\* One more than is replayed, to tell `exactly' from `more than'.
Limit == ReplayMax + 1

\* The newest events of the room, back to the receipt.
FetchOk(s) ==
    /\ At(s, "fetch")
    /\ LET tl == log[pass[s].room]
           n  == Len(tl)
           fetched == {p \in 1..n : p > n - Limit}
           unseen  == {p \in fetched : p > pass[s].mark}
           reached == pass[s].mark \in fetched
           truncated == ~reached /\ Cardinality(unseen) > ReplayMax
           batch == replay_deliverable(tl, {p \in unseen : p > n - ReplayMax}, pass[s].budget)
       IN pass' = [pass EXCEPT
              ![s].batch = batch,
              ![s].ok = TRUE,
              ![s].end = n,
              ![s].cut = IF truncated THEN n - ReplayMax ELSE 0,
              ![s].pc = IF batch = {} THEN "leave"
                        ELSE IF truncated THEN "tell" ELSE "send"]
    /\ UNCHANGED <<worldVars, peerVars, replaying, histVars>>

\* The history cannot be read: the room counts for nothing.
FetchFails(s) ==
    /\ At(s, "fetch")
    /\ pass' = [pass EXCEPT ![s].pc = "leave", ![s].ok = FALSE, ![s].batch = {}]
    /\ UNCHANGED <<worldVars, peerVars, replaying, histVars>>

\* `some earlier messages in this room were not replayed'
Tell(s) ==
    /\ At(s, "tell")
    /\ told' = WithAll(told, {pass[s].room} \X (1..pass[s].cut))
    /\ Dropped
    /\ pass' = [pass EXCEPT ![s].pc = "send"]
    /\ UNCHANGED <<worldVars, replaying, heard, last>>

\* The oldest event left; when it reaches nobody the rest of the room is left.
Send(s) ==
    /\ At(s, "send")
    /\ IF Reached = {}
       THEN /\ pass' = [pass EXCEPT ![s].pc = "leave", ![s].ok = FALSE, ![s].batch = {}]
            /\ UNCHANGED <<heard, last>>
       ELSE \E p \in pass[s].batch :
            /\ \A q \in pass[s].batch : p <= q
            /\ pass' = [pass EXCEPT ![s].batch = @ \ {p}, ![s].budget = @ - 1,
                                    ![s].pc = IF pass[s].batch = {p} THEN "leave" ELSE "send"]
            /\ heard' = WithAll(heard, {<<pass[s].room, p>>})
            /\ last' = [last EXCEPT ![pass[s].room] = p]
    /\ Dropped
    /\ UNCHANGED <<worldVars, replaying, told>>

\* replay_room returns.
Leave(s) ==
    /\ At(s, "leave")
    /\ pass' = [pass EXCEPT ![s].pc = "rooms", ![s].room = None, ![s].mark = 0,
                            ![s].cut = 0, ![s].end = 0, ![s].ok = TRUE]
    /\ UNCHANGED <<worldVars, peerVars, replaying, histVars>>

\* Mutant of End: the flag is cleared only when the rooms ran out.
EndEarly(s) ==
    /\ At(s, "rooms") /\ ~MoreRooms(s)
    /\ pass' = [pass EXCEPT ![s] = [Idle EXCEPT !.pc = "done"]]
    /\ replaying' = (pass[s].todo # {})
    /\ UNCHANGED <<worldVars, peerVars, histVars>>

\* The rooms, the room limit or the budget ran out; ReplayGuard is dropped.
End(s) ==
    /\ At(s, "rooms") /\ ~MoreRooms(s)
    /\ pass' = [pass EXCEPT ![s] = [Idle EXCEPT !.pc = "done"]]
    /\ replaying' = FALSE
    /\ UNCHANGED <<worldVars, peerVars, histVars>>

Walk(s) ==
    \/ NothingToDo(s)
    \/ Begin(s)
    \/ \E r \in Room : LoadReceipt(s, r)
    \/ FetchOk(s)
    \/ FetchFails(s)
    \/ Tell(s)
    \/ Send(s)
    \/ Leave(s)
    \/ End(s)

Next ==
    \/ \E r \in Room, e \in Live : Post(r, e)
    \/ \E r \in Room, p \in Pos : MarkRead(r, p)
    \/ \E s \in Session : HangUp(s)
    \/ Push
    \/ \E s \in Session : Attach(s)
    \/ \E s \in Session : Walk(s)

Spec == Init /\ [][Next]_vars

\* A spawned pass runs, whatever the homeserver answers.
FairSpec == Spec /\ \A s \in Session : WF_vars(Walk(s))

-----------------------------------------------------------------------------
(* Properties *)

\* Every variable stays in its set: in particular the budget of a pass, which
\* is an unsigned count that one room's replay is subtracted from, is never
\* overdrawn by what replay_room sent.
TypeOK ==
    /\ \A r \in Room : log[r] \in Seq(Event) /\ Len(log[r]) <= MaxLen
    /\ posts \in 0..MaxPosts /\ acks \in 0..MaxAcks
    /\ receipt \in [Room -> Pos \cup {0}]
    /\ queue \in Seq(Place)
    /\ peers \subseteq Session /\ hung \subseteq peers
    /\ replaying \in BOOLEAN
    /\ \A s \in Session :
        /\ pass[s].pc \in {"idle", "spawned", "rooms", "fetch", "tell", "send", "leave", "done"}
        /\ pass[s].todo \subseteq Room /\ pass[s].looked \in 0..ReplayMaxRooms
        /\ pass[s].budget \in 0..ReplayMaxTotal
        /\ pass[s].room \in Room \cup {None}
        /\ {pass[s].mark, pass[s].cut, pass[s].end} \subseteq Pos \cup {0}
        /\ pass[s].batch \subseteq Pos /\ pass[s].ok \in BOOLEAN
    /\ heard \in [Session -> SUBSET Place] /\ told \in [Session -> SUBSET Place]
    /\ last \in [Room -> Pos \cup {0}]

\* supersede_edits sends exactly one version of what was edited, however the
\* edits name each other or themselves: one edit per edited event, none that
\* a later or simultaneous one follows, the original never beside it, and
\* nothing else is lost: for every window over Event, and every receipt in it,
\* that the first session to attach might find.
OneVersionEach ==
    (\A s \in Session : At(s, "idle")) =>
    \A n \in 1..Limit : \A tl \in [1..n -> Event] : \A mark \in 0..(n - 1) :
        LET owed == {p \in (mark + 1)..n : Replayed(tl[p])}
            kept == replay_deliverable(tl, (mark + 1)..n, n)
        IN \A t \in 1..Limit :
            LET versions == {p \in owed : tl[p].of = t}
            IN IF versions = {} THEN t \in owed /\ ~IsEdit(tl[t]) => t \in kept
               ELSE /\ Cardinality(kept \cap versions) = 1
                    /\ \A p \in kept \cap versions : \A q \in versions :
                            q > p => tl[q].ts < tl[p].ts
                    /\ t \in kept => IsEdit(tl[t])

\* q stands for p: it is p, or an edit of it, or of the same event and newer.
StandsFor(tl, q, p) ==
    \/ q = p
    \/ IsEdit(tl[q]) /\ IF IsEdit(tl[p]) THEN tl[q].of = tl[p].of /\ Later(tl, q, p)
                                         ELSE tl[q].of = p

\* Delivery is at least once: when replay_room returns without an error, a
\* session that is still there has got every event behind the receipt that
\* replay_deliverable is meant to give it, or a newer version of it, or the truncation notice; except that
\* the budget cuts off what is newer than the last one sent (and with it an
\* edit whose original was left out for it), or that nothing at all in the
\* window was for the session (no notice then, channel.rs:1040).
HandedOrTold ==
    \A s \in Reached : pass[s].pc = "leave" /\ pass[s].ok =>
        LET r == pass[s].room
            recent == {p \in 1..pass[s].end : p > pass[s].mark /\ p > pass[s].cut}
        IN \A p \in (pass[s].mark + 1)..pass[s].end : Replayed(log[r][p]) =>
            \/ <<r, p>> \in told[s]
            \/ \E q \in 1..pass[s].end :
                /\ StandsFor(log[r], q, p)
                /\ <<r, q>> \in heard[s] \/ (pass[s].budget = 0 /\ q > last[r])
            \/ \A q \in recent : ~Replayed(log[r][q])

\* The replay gives no session what the live path refuses to give (the fault that
\* the comment at channel.rs:1271 is about), although the two decide by predicates
\* of their own: whatever a session was given, live or by the pass of any session,
\* was sent by somebody allowed and is no text that push_message takes for an
\* answer. So what StandsFor a message in HandedOrTold is never a stranger's edit.
OnlyOwedHeard ==
    \A s \in Session : \A q \in heard[s] : Owed(log[q[1]][q[2]])

\* A bound on the steps that a pass x still takes: to read, tell, send and leave
\* each room that the room limit lets it look at, and one more per event that the
\* budget lets it send.
StepsLeft(x) ==
    LET whole == 5 * ReplayMaxRooms + ReplayMaxTotal
        left  == 5 * (ReplayMaxRooms - x.looked) + x.budget
    IN CASE x.pc = "idle"    -> whole + 3
         [] x.pc = "spawned" -> whole + 2
         [] x.pc = "fetch"   -> left + 5
         [] x.pc = "tell"    -> left + 4
         [] x.pc = "send"    -> left + 3
         [] x.pc = "leave"   -> left + 2
         [] x.pc = "rooms"   -> left + 1
         [] x.pc = "done"    -> 0

\* REPLAY_MAX_ROOMS and REPLAY_MAX_TOTAL bound the whole pass, however many rooms
\* the account is in, whatever they hold and whatever arrives, fails or hangs up
\* meanwhile: every step of a pass lowers what it has left, which is a natural
\* number, so it takes at most 5 * ReplayMaxRooms + ReplayMaxTotal + 2.
PassAdvances ==
    [][\A s \in Session : pass'[s] # pass[s] =>
          StepsLeft(pass'[s]) \in 0..(StepsLeft(pass[s]) - 1)]_vars

\* A pass gives the events of a room oldest first, and no second pass of the
\* account that runs beside it starts over in between (the in-flight flag).
ReplayOldestFirst ==
    [][\A r \in Room : last'[r] \in {0, last[r]} \/ last'[r] > last[r]]_vars

\* However a pass ends, its flag is cleared, so that the next session that
\* attaches is not skipped (ReplayGuard's drop).
ReplayResumes == replaying ~> ~replaying

\* "Duplicates are the acceptable failure here; silence is not" (channel.rs:925):
\* what lies behind the receipt, which only an acknowledgement moves, has been
\* given to some session, or a newer version of it, or the truncation notice.
SilenceNever ==
    \A r \in Room : \A p \in 1..receipt[r] : Replayed(log[r][p]) =>
        \E s \in Session :
            \/ <<r, p>> \in told[s]
            \/ \E q \in 1..Len(log[r]) : StandsFor(log[r], q, p) /\ <<r, q>> \in heard[s]
=============================================================================
