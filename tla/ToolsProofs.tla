------------------------------ MODULE ToolsProofs ------------------------------
(***************************************************************************)
(* Proofs about Tools, for any number of concurrent calls and tokens, all  *)
(* the paths of ToolRows, and any quotas and fan-out limits.               *)
(***************************************************************************)
EXTENDS Tools, TLAPS, FiniteSetTheorems, SequenceTheorems

USE ToolsAssumption DEF ledger

-----------------------------------------------------------------------------
(* What the paths are like *)

StepName == Checks \cup {
    "client", "store", "fetch", "try", "web", "upload", "send", "enable", "pin", "unpin", "setpins",
    "bulk", "broadcast", "gate", "each", "quiet" }

\* The writes of the tools, each of them paid for.
Effects == {"send", "setpins", "quiet"}

\* The steps that neither make a write that has to be paid for nor end in an error
\* that tells the caller to retry; the rooms of a fan-out are charged when they are
\* reached.
Calm == {"enable", "try", "store", "each"}

\* The steps that a refusal may not follow.
Final == Effects \cup {"each", "enable"}

Settled == Calm \cup {"quiet"}

Within(s, S) == \A i \in 1..Len(s) : s[i] \in S

Harmless(s) == \A i \in 1..Len(s) : s[i] \notin Effects

\* Behind a write, or a room of a fan-out, only calm steps follow.
Shape(s) ==
    \A i, j \in 1..Len(s) : i < j /\ s[i] \in Final => s[j] \in Calm

\* The steps that change something on the side, which nobody pays for.
Sides == {"upload", "enable"}

Clean(s) == \A i \in 1..Len(s) : s[i] \notin Sides

\* Behind one of them, or a room of a fan-out, there is none.
Once(s) ==
    \A i, j \in 1..Len(s) : i < j /\ s[i] \in Sides \cup {"each", "quiet"} => s[j] \notin Sides

Quiet(s) == Harmless(s) /\ Clean(s)

PathOK(p) ==
    /\ p.cat \in Category /\ p.notice \in BOOLEAN
    /\ p.steps \in Seq(StepName) /\ Shape(p.steps) /\ Once(p.steps)
    /\ p.cat = "read" => Quiet(p.steps)

Row(s)  == s \in Seq(StepName) /\ Shape(s)
Line(s) == Row(s) /\ Once(s)

LEMMA RowPaths ==
  ASSUME NEW s, Line(s)
  PROVE  /\ PathOK(Write(s)) /\ PathOK([Write(s) EXCEPT !.notice = FALSE])
         /\ Quiet(s) => PathOK(Read(s)) /\ PathOK([Read(s) EXCEPT !.notice = TRUE])
  BY DEF PathOK, Read, Write, Category, Row, Line

LEMMA ReadRows ==
  /\ Line(<<>>)
  /\ Line(<<"client">>)
  /\ Line(<<"client", "room", "fetch">>)
  /\ Line(<<"client", "room", "member", "args", "fetch">>)
  /\ Line(<<"client", "room", "member", "args", "fetch", "fetch">>)
  /\ Line(<<"client", "try", "store", "store">>)
  /\ Line(<<"client", "room", "member", "try">>)
  /\ Line(<<"client", "room", "args", "store">>)
  /\ Line(<<"client", "room", "store">>)
  /\ Line(<<"client", "store">>)
  /\ Line(<<"client", "room", "member", "args", "fetch", "args", "fetch", "args">>)
  /\ Line(<<"client", "args", "fetch">>)
  /\ Line(<<"client", "room", "member", "args", "gate", "try">>)
  BY DEF Line, Row, StepName, Checks, Shape, Effects, Final, Calm, Once, Sides

LEMMA ReadsAreHarmless ==
  /\ Quiet(<<>>)
  /\ Quiet(<<"client">>)
  /\ Quiet(<<"client", "room", "fetch">>)
  /\ Quiet(<<"client", "room", "member", "args", "fetch">>)
  /\ Quiet(<<"client", "room", "member", "args", "fetch", "fetch">>)
  /\ Quiet(<<"client", "try", "store", "store">>)
  /\ Quiet(<<"client", "room", "member", "try">>)
  /\ Quiet(<<"client", "room", "args", "store">>)
  /\ Quiet(<<"client", "room", "store">>)
  /\ Quiet(<<"client", "store">>)
  /\ Quiet(<<"client", "room", "member", "args", "fetch", "args", "fetch", "args">>)
  /\ Quiet(<<"client", "args", "fetch">>)
  /\ Quiet(<<"client", "room", "member", "args", "gate", "try">>)
  BY DEF Quiet, Harmless, Effects, Clean, Sides

LEMMA WriteRows ==
  /\ Line(<<"args", "client", "room", "send">>)
  /\ Line(<<"args", "client", "room", "args", "fetch", "args", "send">>)
  /\ Line(<<"client", "room", "room", "args", "fetch", "args", "send">>)
  /\ Line(<<"client", "fetch", "args", "send", "enable", "try", "store">>)
  /\ Line(<<"client", "room", "send">>)
  /\ Line(<<"client", "args", "send">>)
  /\ Line(<<"client", "room", "args", "send">>)
  /\ Line(<<"args", "client", "room", "args", "send">>)
  /\ Line(<<"client", "room", "args", "pin", "setpins">>)
  /\ Line(<<"client", "room", "args", "unpin", "setpins">>)
  /\ Line(<<"client", "web", "upload", "room", "send">>)
  /\ Line(<<"args", "client", "web", "upload", "room", "send">>)
  /\ Line(<<"args", "web", "client", "upload", "room", "send">>)
  /\ Line(<<"args", "client", "bulk">>)
  /\ Line(<<"args", "client", "args", "broadcast">>)
  /\ Line(<<"args", "client", "send">>)
  /\ Line(<<"client", "send">>)
  /\ Line(<<"client", "web", "upload", "send">>)
  /\ Line(<<"client", "room", "member", "send">>)
  /\ Line(<<"args", "client", "args", "send">>)
  /\ Line(<<"client", "web", "upload">>)
  BY DEF Line, Row, StepName, Checks, Shape, Effects, Final, Calm, Once, Sides

LEMMA PathsOK == \A p \in Paths : PathOK(p)
<1>1. \A p \in whoami \cup list_joined_rooms \cup get_unread_summary : PathOK(p)
  BY RowPaths, ReadRows, ReadsAreHarmless
     DEF whoami, list_joined_rooms, get_unread_summary
<1>2. \A p \in list_recent_activity \cup invites_list \cup read_recent_messages : PathOK(p)
  BY RowPaths, ReadRows, ReadsAreHarmless
     DEF list_recent_activity, invites_list, read_recent_messages
<1>3. \A p \in list_threads_in_room \cup read_thread \cup read_reactions : PathOK(p)
  BY RowPaths, ReadRows, ReadsAreHarmless
     DEF list_threads_in_room, read_thread, read_reactions
<1>4. \A p \in verify_status \cup room_info \cup room_members : PathOK(p)
  BY RowPaths, ReadRows, ReadsAreHarmless
     DEF verify_status, room_info, room_members
<1>5. \A p \in get_user_receipts \cup get_event_receipts \cup get_room_state : PathOK(p)
  BY RowPaths, ReadRows, ReadsAreHarmless
     DEF get_user_receipts, get_event_receipts, get_room_state
<1>6. \A p \in admin_get_power_levels \cup list_ignored_users \cup get_account_data : PathOK(p)
  BY RowPaths, ReadRows, ReadsAreHarmless
     DEF admin_get_power_levels, list_ignored_users, get_account_data
<1>7. \A p \in download_attachment \cup users_get_profile \cup search_messages : PathOK(p)
  BY RowPaths, ReadRows, ReadsAreHarmless
     DEF download_attachment, users_get_profile, search_messages
<1>8. \A p \in get_presence \cup get_space_hierarchy \cup request_room_keys : PathOK(p)
  BY RowPaths, ReadRows, ReadsAreHarmless
     DEF get_presence, get_space_hierarchy, request_room_keys
<1>9. \A p \in send_text_message \cup message_edit \cup message_forward : PathOK(p)
  BY RowPaths, WriteRows
     DEF send_text_message, message_edit, message_forward
<1>10. \A p \in bootstrap_cross_signing \cup set_room_name \cup set_room_topic : PathOK(p)
  BY RowPaths, WriteRows
     DEF bootstrap_cross_signing, set_room_name, set_room_topic
<1>11. \A p \in leave_room \cup set_audit_room \cup ignore_user : PathOK(p)
  BY RowPaths, WriteRows
     DEF leave_room, set_audit_room, ignore_user
<1>12. \A p \in unignore_user \cup join_room \cup room_create : PathOK(p)
  BY RowPaths, WriteRows
     DEF unignore_user, join_room, room_create
<1>13. \A p \in room_create_dm \cup mark_read \cup admin_set_power_level : PathOK(p)
  BY RowPaths, WriteRows
     DEF room_create_dm, mark_read, admin_set_power_level
<1>14. \A p \in invite_user \cup send_reaction \cup redact_message : PathOK(p)
  BY RowPaths, WriteRows
     DEF invite_user, send_reaction, redact_message
<1>15. \A p \in membership_change \cup room_pin_message \cup room_unpin_message : PathOK(p)
  BY RowPaths, WriteRows
     DEF membership_change, room_pin_message, room_unpin_message
<1>16. \A p \in send_image_from_url \cup send_media_from_url \cup send_voice_message : PathOK(p)
  BY RowPaths, WriteRows
     DEF send_image_from_url, send_media_from_url, send_voice_message
<1>17. \A p \in send_tts_voice_message \cup send_bulk \cup send_broadcast : PathOK(p)
  BY RowPaths, WriteRows
     DEF send_tts_voice_message, send_bulk, send_broadcast
<1>18. \A p \in me_set_displayname \cup me_set_avatar \cup set_presence : PathOK(p)
  BY RowPaths, WriteRows
     DEF me_set_displayname, me_set_avatar, set_presence
<1>19. \A p \in invites_accept \cup invites_reject \cup set_account_data : PathOK(p)
  BY RowPaths, WriteRows
     DEF invites_accept, invites_reject, set_account_data
<1>20. \A p \in upload_media_from_url : PathOK(p)
  BY RowPaths, WriteRows
     DEF upload_media_from_url
<1> QED
  BY <1>1, <1>2, <1>3, <1>4, <1>5, <1>6, <1>7, <1>8, <1>9, <1>10, <1>11, <1>12,
     <1>13, <1>14, <1>15, <1>16, <1>17, <1>18, <1>19, <1>20 DEF Paths
-----------------------------------------------------------------------------
(* What is left of a path *)

\* r is s without its first n steps.
Drops(r, s, n) ==
    r \in Seq(StepName) /\ Len(r) = Len(s) - n /\ \A i \in 1..Len(r) : r[i] = s[i + n]

LEMMA DropsKeeps ==
  ASSUME NEW s \in Seq(StepName), NEW n \in Nat, NEW r, Drops(r, s, n)
  PROVE  /\ r \in Seq(StepName)
         /\ Shape(s) => Row(r)
         /\ Harmless(s) => Harmless(r)
         /\ Within(s, Settled) => Within(r, Settled)
<1>1. /\ r \in Seq(StepName) /\ Len(r) \in Nat /\ Len(s) \in Nat /\ Len(r) = Len(s) - n
      /\ \A i \in 1..Len(r) : r[i] = s[i + n]
  BY DEF Drops
<1>2. \A i \in 1..Len(r) : i + n \in 1..Len(s)
  BY <1>1
<1>3. \A i, j \in 1..Len(r) : i < j => i + n < j + n
  BY <1>1
<1> QED
  BY <1>1, <1>2, <1>3 DEF Row, Shape, Harmless, Within

LEMMA TailDrops ==
  ASSUME NEW s \in Seq(StepName), s # <<>>
  PROVE  Drops(Tail(s), s, 1) /\ Head(s) = s[1] /\ 1 \in 1..Len(s)
  BY HeadTailProperties, EmptySeq DEF Drops

\* PastChecks leaves a step out only at the front.
LEMMA PastDrops ==
  ASSUME NEW s \in Seq(StepName)
  PROVE  \E n \in Nat : Drops(PastChecks(s), s, n)
<1> DEFINE C == {i \in 1..Len(s) : \A j \in 1..i : s[j] \in Checks}
           n == Cardinality(C)
<1>1. Len(s) \in Nat
  OBVIOUS
<1>2. IsFiniteSet(1..Len(s)) /\ Cardinality(1..Len(s)) = Len(s)
  BY <1>1, FS_Interval
<1>3. IsFiniteSet(C) /\ n <= Len(s)
  <2>1. C \in SUBSET (1..Len(s))
    OBVIOUS
  <2> QED
    BY <1>2, <2>1, FS_Subset
<1>4. n \in Nat
  BY <1>3, FS_CardinalityType
<1>5. PastChecks(s) = SubSeq(s, 1 + n, Len(s))
  BY DEF PastChecks
<1> HIDE DEF n
<1>6. \A i \in (1 + n)..Len(s) : s[i] \in StepName
  BY <1>1, <1>4
<1>7. 1 + n \in Int /\ Len(s) \in Int
  BY <1>1, <1>4
<1>8. /\ SubSeq(s, 1 + n, Len(s)) \in Seq(StepName)
      /\ Len(SubSeq(s, 1 + n, Len(s))) = IF 1 + n <= Len(s) THEN Len(s) - (1 + n) + 1 ELSE 0
      /\ \A i \in 1..(Len(s) - (1 + n) + 1) : SubSeq(s, 1 + n, Len(s))[i] = s[1 + n + i - 1]
  BY <1>6, <1>7, SubSeqProperties
<1>9. Drops(PastChecks(s), s, n)
  BY <1>1, <1>3, <1>4, <1>5, <1>8 DEF Drops
<1> QED
  BY <1>4, <1>9

LEMMA PastKeeps ==
  ASSUME NEW s \in Seq(StepName)
  PROVE  /\ PastChecks(s) \in Seq(StepName)
         /\ Shape(s) => Row(PastChecks(s))
         /\ Harmless(s) => Harmless(PastChecks(s))
         /\ Within(s, Settled) => Within(PastChecks(s), Settled)
  BY PastDrops, DropsKeeps

\* Behind a write or a room of a fan-out.
LEMMA BehindWrite ==
  ASSUME NEW s, Row(s), s # <<>>, Head(s) \in Final
  PROVE  Within(Tail(s), Calm)
<1>1. s \in Seq(StepName) /\ Shape(s)
  BY DEF Row
<1>2. Drops(Tail(s), s, 1) /\ Head(s) = s[1] /\ 1 \in 1..Len(s)
  BY <1>1, TailDrops
<1>3. ASSUME NEW i \in 1..Len(Tail(s)) PROVE Tail(s)[i] \in Calm
  <2>1. i + 1 \in 1..Len(s) /\ 1 < i + 1 /\ Tail(s)[i] = s[i + 1]
    BY <1>1, <1>2 DEF Drops
  <2> QED
    BY <1>1, <1>2, <2>1 DEF Shape
<1> QED
  BY <1>3 DEF Within

LEMMA CalmRow ==
  ASSUME NEW s \in Seq(StepName), Within(s, Calm)
  PROVE  /\ Row(s) /\ Harmless(s) /\ Within(s, Settled)
         /\ Row(<<"quiet">> \o s) /\ Within(<<"quiet">> \o s, Settled)
<1>1. Row(s) /\ Harmless(s) /\ Within(s, Settled)
  BY DEF Row, Shape, Harmless, Within, Calm, Effects, Final, Settled
<1> DEFINE q == <<"quiet">> \o s
<1>2. <<"quiet">> \in Seq(StepName) /\ Len(<<"quiet">>) = 1 /\ <<"quiet">>[1] = "quiet"
  BY DEF StepName
<1>3. /\ q \in Seq(StepName) /\ Len(q) = 1 + Len(s) /\ Len(s) \in Nat
      /\ \A i \in 1..(1 + Len(s)) : q[i] = IF i <= 1 THEN <<"quiet">>[i] ELSE s[i - 1]
  BY <1>2, ConcatProperties
<1> HIDE DEF q
<1>4. \A i \in 1..Len(q) : i = 1 \/ i - 1 \in 1..Len(s)
  BY <1>3
<1>5. \A i \in 1..Len(q) : /\ i = 1 => q[i] = "quiet"
                           /\ i > 1 => q[i] = s[i - 1] /\ q[i] \in Calm
  BY <1>2, <1>3, <1>4 DEF Within
<1>6. \A i, j \in 1..Len(q) : i < j => j > 1
  BY <1>3
<1>7. Shape(q)
  BY <1>5, <1>6 DEF Shape
<1>8. Within(q, Settled)
  <2>1. \A i \in 1..Len(q) : i = 1 \/ i > 1
    BY <1>3
  <2> QED
    BY <1>5, <2>1 DEF Within, Settled
<1> QED
  BY <1>1, <1>3, <1>7, <1>8 DEF Row, q

-----------------------------------------------------------------------------
(* The invariant *)

WorldInv ==
    /\ alive \subseteq Token /\ pins \subseteq Event /\ local \subseteq Event
    /\ entry \in Token \cup {None}
    /\ refills \in 0..MaxRefills

LimitInv ==
    /\ left \in [Category -> [Bucket -> Nat]]
    /\ \A g \in Category, b \in Bucket : left[g][b] <= Quota[g]
    /\ credit \in Int

Where == {"idle", "run", "react", "notice", "done"}

CallTypes ==
    /\ at \in [Call -> Where]
    /\ steps \in [Call -> Seq(StepName)]
    /\ notice \in [Call -> BOOLEAN]
    /\ tok \in [Call -> Token \cup {None}]
    /\ handle \in [Call -> Token \cup {None, "shared"}]
    /\ seen \in [Call -> SUBSET Event]
    /\ res \in [Call -> Result]
    /\ did \in [Call -> BOOLEAN]

\* The results that invite a retry, and the one that becomes auth_expired.
Refusals == {"invalid", "rate_limited", "unknown_token", "auth_expired"}

\* A call that is at a, with steps s left, token k, result r, and that has
\* changed something or not (d). One that has, has only settled steps left.
Legal(a, s, k, r, d) ==
    /\ Shape(s)
    /\ a # "run" => s = <<>>
    /\ a = "run" => r = "none"
    /\ a # "idle" => k \in Token
    /\ a = "idle" => ~d /\ r = "none"
    /\ a = "react" <=> r = "unknown_token"
    /\ a = "notice" => r # "auth_expired"
    /\ d => Within(s, Settled) /\ r \notin Refusals

CallOK(c) == Legal(at[c], steps[c], tok[c], res[c], did[c])

CallsInv == CallTypes /\ \A c \in Call : CallOK(c)

SharedInv == \A c \in Call : handle[c] = "shared" => entry # None

Inv == WorldInv /\ LimitInv /\ CallsInv /\ SharedInv

\* The calls that have paid for a write they have not made yet.
Owing == {c \in Call : ~Harmless(steps[c])}

QuotaInv == IsFiniteSet(Owing) /\ left["write"][Sub] + Cardinality(Owing) <= credit

LEMMA Nothing == Row(<<>>) /\ Harmless(<<>>) /\ Within(<<>>, Settled)
  BY ReadRows, ReadsAreHarmless DEF Within, Line, Quiet

LEMMA InitInv == Init => Inv /\ QuotaInv
<1> SUFFICES ASSUME Init PROVE Inv /\ QuotaInv
  OBVIOUS
<1>1. WorldInv
  BY DEF Init, WorldInv
<1>2. LimitInv
  BY DEF Init, LimitInv, Category
<1>3. CallTypes /\ SharedInv
  BY Nothing DEF Init, CallTypes, SharedInv, Where, Result, Row
<1>4. \A c \in Call : CallOK(c)
  BY Nothing DEF Init, CallOK, Legal, Row
<1>5. Owing = {}
  BY Nothing DEF Init, Owing
<1>6. QuotaInv
  <2>1. left["write"][Sub] = Quota["write"] /\ credit = Quota["write"] /\ Quota["write"] \in Nat
    BY DEF Init, Category, Bucket
  <2> QED
    BY <1>5, <2>1, FS_EmptySet DEF QuotaInv
<1> QED
  BY <1>1, <1>2, <1>3, <1>4, <1>6 DEF Inv, CallsInv

-----------------------------------------------------------------------------
(* How a call moves on *)

\* One call moves, the others stay.
LEMMA CallMoves ==
  ASSUME CallsInv, NEW c \in Call, CallTypes',
         \A u \in Call \ {c} : /\ at'[u] = at[u] /\ steps'[u] = steps[u]
                               /\ tok'[u] = tok[u] /\ res'[u] = res[u] /\ did'[u] = did[u],
         Legal(at'[c], steps'[c], tok'[c], res'[c], did'[c])
  PROVE  CallsInv'
  BY DEF CallsInv, CallOK

\* did: whether this step has changed something.
Marks(c) == did' \in [Call -> BOOLEAN] /\ \A u \in Call \ {c} : did'[u] = did[u]

LEMMA MarksSame == ASSUME CallsInv, NEW c \in Call, UNCHANGED did PROVE Marks(c)
  BY DEF CallsInv, CallTypes, Marks

LEMMA FollowsWhere ==
  ASSUME NEW r, NEW n
  PROVE  Follows(r, n) \in {"notice", "done"} /\ (Follows(r, n) = "notice" => r # "auth_expired")
  BY DEF Follows

LEMMA EndCall ==
  ASSUME CallsInv, NEW c \in Call, at[c] = "run", NEW r \in Result \ {"none"}, r # "auth_expired",
         End(c, r), Marks(c), did'[c] => r \notin Refusals
  PROVE  CallsInv' /\ Owing' \subseteq Owing \ {c}
<1> DEFINE a == IF r = "unknown_token" THEN "react" ELSE Follows(r, notice[c])
<1>1. /\ at' = [at EXCEPT ![c] = a] /\ res' = [res EXCEPT ![c] = r]
      /\ steps' = [steps EXCEPT ![c] = <<>>] /\ handle' = [handle EXCEPT ![c] = None]
      /\ seen' = [seen EXCEPT ![c] = {}] /\ UNCHANGED <<notice, tok>>
  BY DEF End
<1>2. /\ a \in {"react", "notice", "done"} /\ (a = "react" <=> r = "unknown_token")
  BY FollowsWhere
<1> HIDE DEF a
<1>3. CallTypes'
  BY <1>1, <1>2, Nothing DEF CallsInv, CallTypes, Marks, Where, Row
<1>4. tok[c] \in Token
  BY DEF CallsInv, CallOK, Legal
<1>5. /\ at'[c] = a /\ steps'[c] = <<>> /\ tok'[c] = tok[c] /\ res'[c] = r
      /\ \A u \in Call \ {c} : /\ at'[u] = at[u] /\ steps'[u] = steps[u]
                               /\ tok'[u] = tok[u] /\ res'[u] = res[u]
  BY <1>1 DEF CallsInv, CallTypes
<1>6. Legal(a, <<>>, tok[c], r, did'[c])
  BY <1>2, <1>4, Nothing DEF Legal, Row
<1>7. CallsInv'
  BY <1>3, <1>5, <1>6, CallMoves DEF Marks
<1>8. Owing' \subseteq Owing \ {c}
  BY <1>5, Nothing DEF Owing
<1> QED
  BY <1>7, <1>8

LEMMA GoOnCall ==
  ASSUME CallsInv, NEW c \in Call, at[c] = "run", NEW s, Row(s), GoOn(c, s), Marks(c),
         did'[c] => Within(s, Settled)
  PROVE  /\ CallsInv' /\ Owing' \subseteq Owing \cup {c}
         /\ Harmless(s) => Owing' \subseteq Owing \ {c}
<1>0. s \in Seq(StepName) /\ Shape(s)
  BY DEF Row
<1>1. CASE s # <<>> /\ Head(s) \in Checks /\ End(c, "invalid")
  <2>1. s[1] \in Checks /\ 1 \in 1..Len(s)
    BY <1>0, <1>1, TailDrops
  <2>2. ~Within(s, Settled)
    BY <2>1 DEF Within, Settled, Calm, Checks
  <2>3. "invalid" \in Result \ {"none"}
    BY DEF Result
  <2> QED
    BY <1>1, <2>2, <2>3, EndCall
<1>2. CASE End(c, "ok")
  <2>1. "ok" \in Result \ {"none"} /\ "ok" \notin Refusals
    BY DEF Result, Refusals
  <2> QED
    BY <1>2, <2>1, EndCall
<1>3. CASE /\ steps' = [steps EXCEPT ![c] = PastChecks(s)]
           /\ UNCHANGED <<at, notice, tok, handle, seen, res>>
  <2>1. /\ Row(PastChecks(s)) /\ PastChecks(s) \in Seq(StepName) /\ Shape(PastChecks(s))
        /\ Within(s, Settled) => Within(PastChecks(s), Settled)
        /\ Harmless(s) => Harmless(PastChecks(s))
    BY <1>0, PastKeeps DEF Row
  <2>2. CallTypes'
    BY <1>3, <2>1 DEF CallsInv, CallTypes, Marks
  <2>3. /\ steps'[c] = PastChecks(s)
        /\ \A u \in Call \ {c} : steps'[u] = steps[u]
    BY <1>3 DEF CallsInv, CallTypes
  <2>4. Legal(at[c], steps[c], tok[c], res[c], did[c])
    BY DEF CallsInv, CallOK
  <2>5. Legal(at[c], PastChecks(s), tok[c], res[c], did'[c])
    BY <2>1, <2>4 DEF Legal, Refusals
  <2>6. CallsInv'
    BY <1>3, <2>2, <2>3, <2>5, CallMoves DEF Marks
  <2> QED
    BY <2>1, <2>3, <2>6 DEF Owing
<1> QED
  BY <1>1, <1>2, <1>3 DEF GoOn

-----------------------------------------------------------------------------
(* The account's quota *)

FullInv == Inv /\ QuotaInv

LEMMA WriteLeft ==
  ASSUME LimitInv
  PROVE  left["write"][Sub] \in Nat /\ credit \in Int
  BY DEF LimitInv, Category, Bucket

\* Nothing more is owed than before.
LEMMA QuotaKept ==
  ASSUME QuotaInv, LimitInv, LimitInv', Owing' \subseteq Owing,
         left'["write"][Sub] - left["write"][Sub] <= credit' - credit
  PROVE  QuotaInv'
<1>1. IsFiniteSet(Owing') /\ Cardinality(Owing') <= Cardinality(Owing)
  BY FS_Subset DEF QuotaInv
<1>2. Cardinality(Owing') \in Nat /\ Cardinality(Owing) \in Nat
  BY <1>1, FS_CardinalityType DEF QuotaInv
<1>3. /\ left["write"][Sub] \in Nat /\ left'["write"][Sub] \in Nat
      /\ credit \in Int /\ credit' \in Int
  BY DEF LimitInv, Category, Bucket
<1> QED
  BY <1>1, <1>2, <1>3 DEF QuotaInv

\* A write is paid for.
LEMMA QuotaCharged ==
  ASSUME QuotaInv, LimitInv, NEW c, Owing' \subseteq Owing \cup {c},
         left'["write"][Sub] = left["write"][Sub] - 1, UNCHANGED credit
  PROVE  QuotaInv'
<1>1. /\ IsFiniteSet(Owing \cup {c})
      /\ Cardinality(Owing \cup {c}) = IF c \in Owing THEN Cardinality(Owing)
                                                     ELSE Cardinality(Owing) + 1
  BY FS_AddElement, Zenon DEF QuotaInv
<1>2. IsFiniteSet(Owing') /\ Cardinality(Owing') <= Cardinality(Owing \cup {c})
  BY <1>1, FS_Subset
<1>3. Cardinality(Owing') \in Nat /\ Cardinality(Owing) \in Nat
  BY <1>2, FS_CardinalityType DEF QuotaInv
<1> QED
  BY <1>1, <1>2, <1>3, WriteLeft DEF QuotaInv

\* A write that was paid for is made.
LEMMA QuotaSpent ==
  ASSUME QuotaInv, LimitInv, NEW c \in Owing, Owing' \subseteq Owing \ {c},
         UNCHANGED left, credit' = credit - 1
  PROVE  QuotaInv'
<1>1. IsFiniteSet(Owing \ {c}) /\ Cardinality(Owing \ {c}) = Cardinality(Owing) - 1
  <2>1. /\ IsFiniteSet(Owing \ {c})
        /\ Cardinality(Owing \ {c}) = IF c \in Owing THEN Cardinality(Owing) - 1
                                                    ELSE Cardinality(Owing)
    BY FS_RemoveElement, Zenon DEF QuotaInv
  <2> QED
    BY <2>1
<1>2. IsFiniteSet(Owing') /\ Cardinality(Owing') <= Cardinality(Owing \ {c})
  BY <1>1, FS_Subset
<1>3. Cardinality(Owing') \in Nat /\ Cardinality(Owing) \in Nat
  BY <1>2, FS_CardinalityType DEF QuotaInv
<1> QED
  BY <1>1, <1>2, <1>3, WriteLeft DEF QuotaInv

\* Limiter::check: what it leaves, and that it charges the account for what it
\* allows.
LEMMA CheckCharges ==
  ASSUME LimitInv, NEW g \in Category, NEW t \in Token, check(g, t), UNCHANGED credit
  PROVE  /\ LimitInv'
         /\ left'["write"][Sub] <= left["write"][Sub]
         /\ g = "write" /\ Allows(g, t) => left'["write"][Sub] = left["write"][Sub] - 1
         /\ \A h \in Category : left'[h][Sub] \in Nat /\ left'[h][Sub] <= left[h][Sub]
         /\ Allows(g, t) => left'[g][Sub] = left[g][Sub] - 1
<1>0. t \in Bucket /\ Sub \in Bucket /\ t # Sub /\ "write" \in Category
  BY DEF Bucket, Category
<1>1. left[g][t] \in Nat /\ left[g][Sub] \in Nat /\ left["write"][Sub] \in Nat
  BY <1>0 DEF LimitInv
<1>2. CASE left[g][t] = 0
  <2>1. left' = left
    BY <1>2 DEF check
  <2>2. \A h \in Category : left[h][Sub] \in Nat
    BY <1>0 DEF LimitInv
  <2> QED
    BY <1>1, <1>2, <2>1, <2>2 DEF Allows, LimitInv
<1>3. CASE left[g][t] # 0 /\ left[g][Sub] = 0
  <2>1. left' = [left EXCEPT ![g][t] = @ - 1]
    BY <1>3 DEF check
  <2>2. left[g][t] - 1 \in Nat
    BY <1>1, <1>3
  <2>3. ASSUME NEW h \in Category, NEW b \in Bucket
        PROVE  left'[h][b] = IF h = g /\ b = t THEN left[g][t] - 1 ELSE left[h][b]
    BY <1>0, <2>1 DEF LimitInv
  <2>4. left' \in [Category -> [Bucket -> Nat]]
    BY <1>0, <2>1, <2>2 DEF LimitInv
  <2>5. \A h \in Category, b \in Bucket : left'[h][b] <= left[h][b]
    BY <1>1, <2>3 DEF LimitInv
  <2>6. \A h \in Category, b \in Bucket : left'[h][b] <= Quota[h]
    BY <2>4, <2>5 DEF LimitInv
  <2> QED
    BY <1>0, <1>3, <2>4, <2>5, <2>6 DEF LimitInv, Allows
<1>4. CASE left[g][t] # 0 /\ left[g][Sub] # 0
  <2>1. left' = [left EXCEPT ![g][t] = @ - 1, ![g][Sub] = @ - 1]
    BY <1>4 DEF check
  <2>2. left[g][t] - 1 \in Nat /\ left[g][Sub] - 1 \in Nat
    BY <1>1, <1>4
  <2>3. ASSUME NEW h \in Category, NEW b \in Bucket
        PROVE  left'[h][b] = IF h = g /\ b = t THEN left[g][t] - 1
                             ELSE IF h = g /\ b = Sub THEN left[g][Sub] - 1 ELSE left[h][b]
    BY <1>0, <2>1 DEF LimitInv
  <2>4. left' \in [Category -> [Bucket -> Nat]]
    BY <1>0, <2>1, <2>2 DEF LimitInv
  <2>5. \A h \in Category, b \in Bucket : left'[h][b] <= left[h][b]
    BY <1>1, <2>3 DEF LimitInv
  <2>6. \A h \in Category, b \in Bucket : left'[h][b] <= Quota[h]
    BY <2>4, <2>5 DEF LimitInv
  <2>7. left'[g][Sub] = left[g][Sub] - 1
    BY <1>0, <2>3
  <2> QED
    BY <1>0, <2>4, <2>5, <2>6, <2>7 DEF LimitInv
<1> QED
  BY <1>2, <1>3, <1>4

\* Refill: a cell that comes back to the account is a write more that it may make.
LEMMA RefillStep ==
  ASSUME FullInv, NEW g \in Category, Refill(g)
  PROVE  FullInv'
<1>0. "write" \in Category /\ Sub \in Bucket
  BY DEF Category, Bucket
<1>1. /\ UNCHANGED <<matrixVars, entry, callVars>> /\ refills < MaxRefills /\ refills' = refills + 1
      /\ credit' = IF g = "write" THEN credit + 1 ELSE credit
  BY DEF Refill
<1>2. left \in [Category -> [Bucket -> Nat]] /\ credit \in Int
  BY DEF FullInv, Inv, LimitInv
<1> DEFINE more(h, b) == IF left[h][b] < Quota[h] THEN left[h][b] + 1 ELSE left[h][b]
<1>3. \A b \in Bucket : more(g, b) \in Nat /\ more(g, b) <= Quota[g] /\ more(g, b) <= left[g][b] + 1
  <2>1. \A b \in Bucket : left[g][b] \in Nat /\ left[g][b] <= Quota[g] /\ Quota[g] \in Nat
    BY DEF FullInv, Inv, LimitInv
  <2> QED
    BY <2>1
<1>4. left' = [left EXCEPT ![g] = [b \in Bucket |-> more(g, b)]]
  BY DEF Refill
<1> HIDE DEF more
<1>5. /\ left' \in [Category -> [Bucket -> Nat]]
      /\ \A h \in Category, b \in Bucket : left'[h][b] = IF h = g THEN more(g, b) ELSE left[h][b]
  BY <1>2, <1>3, <1>4
<1>6. LimitInv'
  <2>1. \A h \in Category, b \in Bucket : left'[h][b] <= Quota[h]
    BY <1>3, <1>5 DEF FullInv, Inv, LimitInv
  <2> QED
    BY <1>1, <1>2, <1>5, <2>1 DEF LimitInv
<1>7. left'["write"][Sub] - left["write"][Sub] <= credit' - credit
  <2>1. left["write"][Sub] \in Nat /\ left'["write"][Sub] \in Nat
    BY <1>0, <1>2, <1>5
  <2>2. CASE g = "write"
    BY <1>0, <1>1, <1>2, <1>3, <1>5, <2>1, <2>2
  <2>3. CASE g # "write"
    BY <1>0, <1>1, <1>2, <1>5, <2>1, <2>3
  <2> QED
    BY <2>2, <2>3
<1>8. Owing' = Owing
  BY <1>1 DEF Owing, callVars
<1>9. QuotaInv'
  BY <1>6, <1>7, <1>8, QuotaKept DEF FullInv, Inv
<1>10. WorldInv'
  BY <1>1 DEF FullInv, Inv, WorldInv, matrixVars
<1>11. CallsInv' /\ SharedInv'
  BY <1>1 DEF FullInv, Inv, CallsInv, CallTypes, CallOK, SharedInv, callVars
<1> QED
  BY <1>6, <1>9, <1>10, <1>11 DEF FullInv, Inv

-----------------------------------------------------------------------------
(* The actions *)

LEMMA DoingFacts ==
  ASSUME CallsInv, NEW c \in Call, NEW S, Doing(c, S)
  PROVE  /\ at[c] = "run" /\ tok[c] \in Token /\ res[c] = "none"
         /\ Head(steps[c]) \in S
         /\ Row(Tail(steps[c])) /\ Tail(steps[c]) \in Seq(StepName)
         /\ did[c] => Within(Tail(steps[c]), Settled) /\ Head(steps[c]) \in Settled
         /\ Harmless(steps[c]) => Harmless(Tail(steps[c]))
         /\ Head(steps[c]) \in Final => Within(Tail(steps[c]), Calm)
         /\ Head(steps[c]) \in Effects => c \in Owing
<1> DEFINE s == steps[c]
<1>1. at[c] = "run" /\ s # <<>> /\ Head(s) \in S
  BY DEF Doing
<1>2. s \in Seq(StepName) /\ Legal(at[c], s, tok[c], res[c], did[c])
  BY DEF CallsInv, CallTypes, CallOK
<1>3. tok[c] \in Token /\ res[c] = "none" /\ Row(s) /\ (did[c] => Within(s, Settled))
  BY <1>1, <1>2 DEF Legal, Row
<1> HIDE DEF s
<1>4. Drops(Tail(s), s, 1) /\ Head(s) = s[1] /\ 1 \in 1..Len(s)
  BY <1>1, <1>2, TailDrops
<1>5. /\ Row(Tail(s)) /\ (Harmless(s) => Harmless(Tail(s)))
      /\ Within(s, Settled) => Within(Tail(s), Settled)
  BY <1>2, <1>3, <1>4, DropsKeeps DEF Row
<1>6. Within(s, Settled) => Head(s) \in Settled
  BY <1>4 DEF Within
<1>7. Head(s) \in Effects => ~Harmless(s)
  BY <1>4 DEF Harmless
<1>8. Head(s) \in Final => Within(Tail(s), Calm)
  BY <1>1, <1>3, BehindWrite
<1> QED
  BY <1>1, <1>3, <1>5, <1>6, <1>7, <1>8 DEF Row, Owing, s

\* A step of a call that concerns nothing but the call.
LEMMA OwnStep ==
  ASSUME FullInv, CallsInv', Owing' \subseteq Owing,
         \A d \in Call : handle'[d] \in {handle[d], None},
         UNCHANGED <<matrixVars, entry, limitVars, credit>>
  PROVE  FullInv'
<1>1. WorldInv' /\ LimitInv' /\ UNCHANGED left
  BY DEF FullInv, Inv, WorldInv, LimitInv, matrixVars, limitVars
<1>2. SharedInv'
  BY DEF FullInv, Inv, SharedInv
<1>3. left'["write"][Sub] - left["write"][Sub] <= credit' - credit
  BY <1>1, WriteLeft DEF FullInv, Inv
<1>4. QuotaInv'
  BY <1>1, <1>3, QuotaKept DEF FullInv, Inv
<1> QED
  BY <1>1, <1>2, <1>4 DEF FullInv, Inv

LEMMA EndHandles ==
  ASSUME CallsInv, NEW c \in Call, NEW r, End(c, r)
  PROVE  \A d \in Call : handle'[d] \in {handle[d], None}
  BY DEF End, CallsInv, CallTypes

LEMMA GoOnHandles ==
  ASSUME CallsInv, NEW c \in Call, NEW s, GoOn(c, s)
  PROVE  \A d \in Call : handle'[d] \in {handle[d], None}
  BY EndHandles DEF GoOn

\* The steps that end the body with an error and change nothing.
LEMMA ErrorSteps ==
  ASSUME FullInv, NEW c \in Call,
         GateCooldown(c) \/ GateBusy(c) \/ Fails(c) \/ WebRefused(c) \/ Unauthorized(c)
  PROVE  FullInv'
<1>0. CallsInv
  BY DEF FullInv, Inv
<1>1. /\ UNCHANGED <<matrixVars, entry, limitVars, credit>> /\ UNCHANGED did
  BY DEF GateCooldown, GateBusy, Fails, WebRefused, Unauthorized
<1>2. ASSUME NEW r \in Result \ {"none"}, r # "auth_expired", End(c, r), at[c] = "run",
             did[c] => r \notin Refusals
      PROVE  FullInv'
  <2>1. CallsInv' /\ Owing' \subseteq Owing \ {c}
    BY <1>0, <1>1, <1>2, MarksSame, EndCall
  <2> QED
    BY <1>0, <1>1, <1>2, <2>1, EndHandles, OwnStep
<1>3. CASE Fails(c)
  <2>1. at[c] = "run" /\ End(c, "internal")
    BY <1>3 DEF Fails, Doing
  <2>2. "internal" \in Result \ {"none"} /\ "internal" \notin Refusals
    BY DEF Result, Refusals
  <2> QED
    BY <1>2, <2>1, <2>2
<1>4. CASE GateCooldown(c) \/ GateBusy(c) \/ WebRefused(c) \/ Unauthorized(c)
  <2>1. PICK S \in {{"gate"}, {"web"}, {"fetch", "upload", "send", "setpins"}} : Doing(c, S)
    BY <1>4 DEF GateCooldown, GateBusy, WebRefused, Unauthorized
  <2>2. at[c] = "run" /\ (did[c] => Head(steps[c]) \in Settled) /\ Head(steps[c]) \in S
    BY <1>0, <2>1, DoingFacts
  <2>3. ~did[c]
    BY <2>2 DEF Settled, Calm
  <2>4. \/ End(c, "invalid") \/ End(c, "rate_limited") \/ End(c, "unknown_token")
    BY <1>4 DEF GateCooldown, GateBusy, WebRefused, Unauthorized
  <2>5. {"invalid", "rate_limited", "unknown_token"} \subseteq Result \ {"none"}
    BY DEF Result
  <2> QED
    BY <1>2, <2>2, <2>3, <2>4, <2>5
<1> QED
  BY <1>3, <1>4

LEMMA ReadStep ==
  ASSUME FullInv, NEW c \in Call, ReadOk(c)
  PROVE  FullInv'
<1> DEFINE s == Tail(steps[c])
<1>0. CallsInv
  BY DEF FullInv, Inv
<1>1. PICK S : Doing(c, S)
  BY DEF ReadOk
<1>2. /\ at[c] = "run" /\ Row(s) /\ (did[c] => Within(s, Settled))
      /\ Harmless(steps[c]) => Harmless(s)
  BY <1>0, <1>1, DoingFacts
<1>3. /\ GoOn(c, s) /\ UNCHANGED <<matrixVars, entry, limitVars, credit>> /\ UNCHANGED did
  BY DEF ReadOk, Advance
<1> HIDE DEF s
<1>4. /\ CallsInv' /\ Owing' \subseteq Owing \cup {c}
      /\ Harmless(s) => Owing' \subseteq Owing \ {c}
  BY <1>0, <1>2, <1>3, MarksSame, GoOnCall
<1>5. Owing' \subseteq Owing
  BY <1>2, <1>4 DEF Owing
<1> QED
  BY <1>0, <1>3, <1>4, <1>5, GoOnHandles, OwnStep

LEMMA FanOutStep ==
  ASSUME FullInv, NEW c \in Call, NEW n \in 0..MaxFan, FanOut(c, n)
  PROVE  FullInv'
<1> DEFINE s == [i \in 1..n |-> "each"]
<1>0. CallsInv
  BY DEF FullInv, Inv
<1>1. s \in Seq(StepName) /\ Len(s) = n /\ n \in Nat
  BY DEF StepName
<1>2. Row(s) /\ Harmless(s) /\ Within(s, Settled)
  <2>1. Within(s, Calm)
    BY <1>1 DEF Within, Calm
  <2> QED
    BY <1>1, <2>1, CalmRow
<1>3. /\ GoOn(c, s) /\ UNCHANGED <<matrixVars, entry, limitVars, credit>> /\ UNCHANGED did
      /\ at[c] = "run"
  BY DEF FanOut, Doing
<1> HIDE DEF s
<1>4. CallsInv' /\ Owing' \subseteq Owing \ {c}
  BY <1>0, <1>2, <1>3, MarksSame, GoOnCall
<1> QED
  BY <1>0, <1>3, <1>4, GoOnHandles, OwnStep

LEMMA EachStep ==
  ASSUME FullInv, NEW c \in Call, Each(c)
  PROVE  FullInv'
<1> DEFINE s == Tail(steps[c])
<1>0. CallsInv /\ LimitInv /\ QuotaInv
  BY DEF FullInv, Inv
<1>1. /\ at[c] = "run" /\ tok[c] \in Token /\ s \in Seq(StepName)
      /\ Within(s, Calm)
  BY <1>0, DoingFacts DEF Each, Final
<1>2. /\ check("write", tok[c]) /\ UNCHANGED <<matrixVars, entry, refills, credit, did>>
      /\ GoOn(c, IF Allows("write", tok[c]) THEN <<"quiet">> \o s ELSE s)
  BY DEF Each
<1>3. /\ LimitInv' /\ left'["write"][Sub] <= left["write"][Sub]
      /\ Allows("write", tok[c]) => left'["write"][Sub] = left["write"][Sub] - 1
  BY <1>0, <1>1, <1>2, CheckCharges DEF Category
<1>4. WorldInv'
  BY <1>2 DEF FullInv, Inv, WorldInv, matrixVars
<1>5. SharedInv'
  BY <1>0, <1>2, GoOnHandles DEF FullInv, Inv, SharedInv
<1>6. Marks(c)
  BY <1>0, <1>2, MarksSame
<1> HIDE DEF s
<1>7. /\ Row(s) /\ Harmless(s) /\ Within(s, Settled)
      /\ Row(<<"quiet">> \o s) /\ Within(<<"quiet">> \o s, Settled)
  BY <1>1, CalmRow
<1>8. CASE Allows("write", tok[c])
  <2>1. CallsInv' /\ Owing' \subseteq Owing \cup {c}
    BY <1>0, <1>1, <1>2, <1>6, <1>7, <1>8, GoOnCall
  <2>2. QuotaInv'
    BY <1>0, <1>2, <1>3, <1>8, <2>1, QuotaCharged
  <2> QED
    BY <1>3, <1>4, <1>5, <2>1, <2>2 DEF FullInv, Inv
<1>9. CASE ~Allows("write", tok[c])
  <2>1. CallsInv' /\ Owing' \subseteq Owing \ {c}
    BY <1>0, <1>1, <1>2, <1>6, <1>7, <1>9, GoOnCall
  <2>2. left'["write"][Sub] - left["write"][Sub] <= credit' - credit
    <3>1. left["write"][Sub] \in Nat /\ left'["write"][Sub] \in Nat /\ credit \in Int
      BY <1>0, <1>3, WriteLeft DEF LimitInv, Category, Bucket
    <3> QED
      BY <1>2, <1>3, <3>1
  <2>3. QuotaInv'
    BY <1>0, <1>3, <2>1, <2>2, QuotaKept
  <2> QED
    BY <1>3, <1>4, <1>5, <2>1, <2>3 DEF FullInv, Inv
<1> QED
  BY <1>8, <1>9

\* The steps that write. A write was paid for, and what is behind it is neither
\* another write nor a step that ends in a refusal.
LEMMA WriteSteps ==
  ASSUME FullInv, NEW c \in Call,
         Send(c) \/ SendLost(c) \/ (\E a \in BOOLEAN : WritePins(c, a)) \/ send_text_to_room(c)
  PROVE  FullInv'
<1> DEFINE s == Tail(steps[c])
<1>0. CallsInv /\ LimitInv /\ QuotaInv
  BY DEF FullInv, Inv
<1>1. PICK S \in SUBSET Effects : Doing(c, S)
  BY DEF Send, SendLost, WritePins, send_text_to_room, Effects
<1>2. /\ at[c] = "run" /\ s \in Seq(StepName) /\ Within(s, Calm) /\ c \in Owing
      /\ Row(s)
  <2>1. Head(steps[c]) \in Effects
    BY <1>0, <1>1, DoingFacts
  <2> QED
    BY <1>0, <1>1, <2>1, DoingFacts DEF Final
<1> HIDE DEF s
<1>3. Row(s) /\ Harmless(s) /\ Within(s, Settled)
  BY <1>2, CalmRow
<1>4. /\ Effect(c) \/ UNCHANGED <<credit, did>>
      /\ GoOn(c, s) \/ End(c, "internal")
      /\ UNCHANGED <<alive, local, entry, limitVars>>
      /\ pins' \in {pins, seen[c]}
  <2>1. CASE Send(c) \/ SendLost(c)
    BY <2>1 DEF Send, SendLost, Advance, matrixVars, s
  <2>2. CASE \E a \in BOOLEAN : WritePins(c, a)
    BY <2>2 DEF WritePins, Advance, s
  <2>3. CASE send_text_to_room(c)
    BY <2>3 DEF send_text_to_room, Advance, matrixVars, s
  <2> QED
    BY <2>1, <2>2, <2>3
<1>5. Marks(c) /\ UNCHANGED left
  <2>1. did \in [Call -> BOOLEAN]
    BY <1>0 DEF CallsInv, CallTypes
  <2> QED
    BY <1>4, <2>1 DEF Marks, Effect, limitVars
<1>6. CallsInv' /\ Owing' \subseteq Owing \ {c}
  <2>1. CASE GoOn(c, s)
    BY <1>0, <1>2, <1>3, <1>5, <2>1, GoOnCall
  <2>2. CASE End(c, "internal")
    <3>1. "internal" \in Result \ {"none"} /\ "internal" \notin Refusals
      BY DEF Result, Refusals
    <3> QED
      BY <1>0, <1>2, <1>5, <2>2, <3>1, EndCall
  <2> QED
    BY <1>4, <2>1, <2>2
<1>7. SharedInv'
  <2>1. \A d \in Call : handle'[d] \in {handle[d], None}
    BY <1>0, <1>4, EndHandles, GoOnHandles
  <2> QED
    BY <1>4, <2>1 DEF FullInv, Inv, SharedInv
<1>8. WorldInv'
  <2>1. seen[c] \subseteq Event
    BY <1>0 DEF CallsInv, CallTypes
  <2> QED
    BY <1>4, <2>1 DEF FullInv, Inv, WorldInv, limitVars
<1>9. LimitInv' /\ QuotaInv'
  <2>1. CASE Effect(c)
    <3>1. credit' = credit - 1
      BY <2>1 DEF Effect
    <3>2. LimitInv'
      BY <1>0, <1>5, <3>1 DEF LimitInv
    <3> QED
      BY <1>0, <1>2, <1>5, <1>6, <3>1, <3>2, QuotaSpent
  <2>2. CASE UNCHANGED <<credit, did>>
    <3>1. LimitInv'
      BY <1>0, <1>5, <2>2 DEF LimitInv
    <3>2. left'["write"][Sub] - left["write"][Sub] <= credit' - credit
      BY <1>0, <1>5, <2>2, WriteLeft
    <3> QED
      BY <1>0, <1>6, <3>1, <3>2, QuotaKept
  <2> QED
    BY <1>4, <2>1, <2>2
<1> QED
  BY <1>6, <1>7, <1>8, <1>9 DEF FullInv, Inv

\* The steps that change something on the side.
LEMMA SideSteps ==
  ASSUME FullInv, NEW c \in Call, (\E a \in BOOLEAN : Upload(c, a)) \/ EnableRecovery(c)
  PROVE  FullInv'
<1> DEFINE s == Tail(steps[c])
<1>0. CallsInv
  BY DEF FullInv, Inv
<1>1. PICK S \in {{"upload"}, {"enable"}} : Doing(c, S)
  BY DEF Upload, EnableRecovery
<1>2. /\ at[c] = "run" /\ Row(s) /\ (did[c] => Within(s, Settled)) /\ s \in Seq(StepName)
      /\ Harmless(steps[c]) => Harmless(s)
      /\ Head(steps[c]) = "enable" => Within(s, Calm)
  BY <1>0, <1>1, DoingFacts DEF Final
<1> HIDE DEF s
<1>3. /\ GoOn(c, s) \/ End(c, "internal")
      /\ UNCHANGED <<matrixVars, entry, limitVars, credit>>
  BY DEF Upload, EnableRecovery, Advance, s
<1>4. Marks(c) /\ (did'[c] => Within(s, Settled))
  <2>1. CASE UNCHANGED did
    BY <1>0, <1>2, <2>1, MarksSame
  <2>2. CASE did' = [did EXCEPT ![c] = TRUE] /\ Head(steps[c]) = "enable"
    <3>1. Within(s, Settled)
      BY <1>2, <2>2, CalmRow
    <3> QED
      BY <1>0, <2>2, <3>1 DEF CallsInv, CallTypes, Marks
  <2> QED
    BY <2>1, <2>2 DEF Upload, EnableRecovery, Doing
<1>5. /\ CallsInv' /\ Owing' \subseteq Owing
      /\ \A d \in Call : handle'[d] \in {handle[d], None}
  <2>1. CASE GoOn(c, s)
    <3>1. /\ CallsInv' /\ Owing' \subseteq Owing \cup {c}
          /\ Harmless(s) => Owing' \subseteq Owing \ {c}
      BY <1>0, <1>2, <1>4, <2>1, GoOnCall
    <3> QED
      BY <1>0, <1>2, <2>1, <3>1, GoOnHandles DEF Owing
  <2>2. CASE End(c, "internal")
    <3>1. "internal" \in Result \ {"none"} /\ "internal" \notin Refusals
      BY DEF Result, Refusals
    <3>2. CallsInv' /\ Owing' \subseteq Owing \ {c}
      BY <1>0, <1>2, <1>4, <2>2, <3>1, EndCall
    <3> QED
      BY <1>0, <2>2, <3>2, EndHandles
  <2> QED
    BY <1>3, <2>1, <2>2
<1> QED
  BY <1>3, <1>5, OwnStep

LEMMA ReadPinsStep ==
  ASSUME FullInv, NEW c \in Call, NEW e \in Event, ReadPins(c, e)
  PROVE  FullInv'
<1>0. CallsInv
  BY DEF FullInv, Inv
<1>1. /\ at[c] = "run" /\ Row(Tail(steps[c])) /\ Tail(steps[c]) \in Seq(StepName)
      /\ did[c] => Within(Tail(steps[c]), Settled)
      /\ Harmless(steps[c]) => Harmless(Tail(steps[c]))
  BY <1>0, DoingFacts DEF ReadPins
<1> DEFINE q == IF Head(steps[c]) = "pin" THEN local \cup {e} ELSE local \ {e}
<1>2. q \subseteq Event
  BY DEF FullInv, Inv, WorldInv
<1>3. /\ seen' = [seen EXCEPT ![c] = q] /\ steps' = [steps EXCEPT ![c] = Tail(steps[c])]
      /\ UNCHANGED <<at, notice, tok, handle, res, did>>
      /\ UNCHANGED <<matrixVars, entry, limitVars, credit>>
  BY <1>0 DEF ReadPins, CallsInv, CallTypes
<1> HIDE DEF q
<1>4. CallTypes'
  BY <1>0, <1>1, <1>2, <1>3 DEF CallsInv, CallTypes
<1>5. steps'[c] = Tail(steps[c]) /\ \A u \in Call \ {c} : steps'[u] = steps[u]
  BY <1>0, <1>3 DEF CallsInv, CallTypes
<1>6. Legal(at[c], steps[c], tok[c], res[c], did[c])
  BY <1>0 DEF CallsInv, CallOK
<1>7. Legal(at[c], Tail(steps[c]), tok[c], res[c], did[c])
  BY <1>1, <1>6 DEF Legal, Row
<1>8. CallsInv'
  BY <1>0, <1>3, <1>4, <1>5, <1>7, CallMoves
<1>9. Owing' \subseteq Owing
  BY <1>1, <1>5 DEF Owing
<1> QED
  BY <1>3, <1>8, <1>9, OwnStep

\* A step that installs the token of a call, or evicts.
LEMMA EntryStep ==
  ASSUME FullInv, CallsInv', SharedInv', Owing' \subseteq Owing, entry' \in Token \cup {None},
         UNCHANGED <<matrixVars, limitVars, credit>>
  PROVE  FullInv'
<1>1. WorldInv' /\ LimitInv' /\ UNCHANGED left
  BY DEF FullInv, Inv, WorldInv, LimitInv, matrixVars, limitVars
<1>2. left'["write"][Sub] - left["write"][Sub] <= credit' - credit
  BY <1>1, WriteLeft DEF FullInv, Inv
<1>3. QuotaInv'
  BY <1>1, <1>2, QuotaKept DEF FullInv, Inv
<1> QED
  BY <1>1, <1>3 DEF FullInv, Inv

LEMMA ClientSteps ==
  ASSUME FullInv, NEW c \in Call, client_for(c) \/ client_for_fails(c)
  PROVE  FullInv'
<1> DEFINE s == Tail(steps[c])
<1>0. CallsInv /\ entry \in Token \cup {None}
  BY DEF FullInv, Inv, WorldInv
<1>1. Doing(c, {"client"}) /\ UNCHANGED <<matrixVars, limitVars, credit>> /\ UNCHANGED did
  BY DEF client_for, client_for_fails
<1>2. /\ at[c] = "run" /\ tok[c] \in Token /\ Row(s) /\ s \in Seq(StepName) /\ ~did[c]
      /\ Harmless(steps[c]) => Harmless(s)
  <2>1. did[c] => "client" \in Settled
    BY <1>0, <1>1, DoingFacts
  <2>2. ~did[c]
    BY <2>1 DEF Settled, Calm
  <2> QED
    BY <1>0, <1>1, <2>2, DoingFacts
<1>3. Marks(c)
  BY <1>0, <1>1, MarksSame
<1>4. entry' \in Token \cup {None} /\ (entry # None => entry' # None)
  BY <1>0, <1>2 DEF client_for, client_for_fails, Install
<1>5. ASSUME NEW r \in {"ok", "invalid", "internal", "unknown_token"}, End(c, r) PROVE FullInv'
  <2>1. r \in Result \ {"none"}
    BY DEF Result
  <2>2. CallsInv' /\ Owing' \subseteq Owing \ {c}
    BY <1>0, <1>1, <1>2, <1>3, <1>5, <2>1, EndCall
  <2>3. SharedInv'
    BY <1>0, <1>4, <1>5, EndHandles DEF FullInv, Inv, SharedInv
  <2> QED
    BY <1>1, <1>4, <2>2, <2>3, EntryStep
<1>6. ASSUME Install(tok[c]), handle' = [handle EXCEPT ![c] = "shared"],
             steps' = [steps EXCEPT ![c] = PastChecks(s)],
             UNCHANGED <<at, notice, tok, seen, res>>
      PROVE  FullInv'
  <2>1. /\ Row(PastChecks(s)) /\ PastChecks(s) \in Seq(StepName)
        /\ Harmless(s) => Harmless(PastChecks(s))
    BY <1>2, PastKeeps DEF Row
  <2>2. CallTypes'
    BY <1>0, <1>1, <1>6, <2>1 DEF CallsInv, CallTypes
  <2>3. steps'[c] = PastChecks(s) /\ \A u \in Call \ {c} : steps'[u] = steps[u]
    BY <1>0, <1>6 DEF CallsInv, CallTypes
  <2>4. Legal(at[c], steps[c], tok[c], res[c], did[c])
    BY <1>0 DEF CallsInv, CallOK
  <2>5. Legal(at[c], PastChecks(s), tok[c], res[c], did[c])
    BY <1>2, <2>1, <2>4 DEF Legal, Row
  <2>6. CallsInv'
    BY <1>0, <1>1, <1>6, <2>2, <2>3, <2>5, CallMoves
  <2>7. Owing' \subseteq Owing
    BY <1>2, <2>1, <2>3 DEF Owing
  <2>8. SharedInv'
    BY <1>2, <1>6 DEF Install, SharedInv
  <2> QED
    BY <1>1, <1>4, <2>6, <2>7, <2>8, EntryStep
<1>7. CASE client_for(c)
  BY <1>5, <1>6, <1>7 DEF client_for
<1>8. CASE client_for_fails(c)
  BY <1>5, <1>8 DEF client_for_fails
<1> QED
  BY <1>7, <1>8

LEMMA ReturnCall ==
  ASSUME CallsInv, NEW c \in Call, at[c] # "run", Return(c)
  PROVE  CallsInv' /\ Owing' = Owing /\ UNCHANGED handle
<1>1. /\ at' = [at EXCEPT ![c] = "idle"] /\ notice' = [notice EXCEPT ![c] = FALSE]
      /\ tok' = [tok EXCEPT ![c] = None] /\ res' = [res EXCEPT ![c] = "none"]
      /\ did' = [did EXCEPT ![c] = FALSE] /\ UNCHANGED <<steps, handle, seen>>
  BY DEF Return
<1>2. CallTypes'
  BY <1>1 DEF CallsInv, CallTypes, Where, Result
<1>3. /\ at'[c] = "idle" /\ tok'[c] = None /\ res'[c] = "none" /\ did'[c] = FALSE
      /\ \A u \in Call \ {c} : /\ at'[u] = at[u] /\ tok'[u] = tok[u]
                               /\ res'[u] = res[u] /\ did'[u] = did[u]
  BY <1>1 DEF CallsInv, CallTypes
<1>4. steps'[c] = <<>> /\ \A u \in Call : steps'[u] = steps[u]
  BY <1>1 DEF CallsInv, CallOK, Legal
<1>5. Legal("idle", <<>>, None, "none", FALSE)
  BY Nothing DEF Legal, Row
<1>6. CallsInv'
  BY <1>2, <1>3, <1>4, <1>5, CallMoves
<1> QED
  BY <1>1, <1>6 DEF Owing

LEMMA NoticeSteps ==
  ASSUME FullInv, NEW c \in Call, Notice(c) \/ NoNotice(c)
  PROVE  FullInv'
<1>0. CallsInv
  BY DEF FullInv, Inv
<1>1. at[c] \in {"notice", "done"} /\ Return(c) /\ UNCHANGED <<matrixVars, limitVars, credit>>
  BY DEF Notice, NoNotice
<1>2. tok[c] \in Token
  BY <1>0, <1>1 DEF CallsInv, CallOK, Legal
<1>3. CallsInv' /\ Owing' = Owing /\ UNCHANGED handle
  BY <1>0, <1>1, ReturnCall
<1>4. entry' \in Token \cup {None} /\ (entry # None => entry' # None)
  BY <1>2 DEF Notice, NoNotice, Install, FullInv, Inv, WorldInv
<1>5. SharedInv'
  BY <1>3, <1>4 DEF FullInv, Inv, SharedInv
<1> QED
  BY <1>1, <1>3, <1>4, <1>5, EntryStep

LEMMA ReactStep ==
  ASSUME FullInv, NEW c \in Call, React(c)
  PROVE  FullInv'
<1>0. CallsInv /\ SharedInv /\ entry \in Token \cup {None}
  BY DEF FullInv, Inv, WorldInv
<1> DEFINE a == Follows("auth_expired", notice[c])
<1>1. /\ entry' = None /\ res' = [res EXCEPT ![c] = "auth_expired"] /\ at' = [at EXCEPT ![c] = a]
      /\ handle' = [d \in Call |-> IF handle[d] = "shared" THEN entry ELSE handle[d]]
      /\ UNCHANGED <<matrixVars, limitVars, credit>> /\ UNCHANGED <<steps, notice, tok, seen, did>>
  BY DEF React
<1>2. a = "done"
  BY DEF Follows
<1> HIDE DEF a
<1>3. handle' \in [Call -> Token \cup {None, "shared"}] /\ SharedInv'
  BY <1>0, <1>1 DEF CallsInv, CallTypes, SharedInv
<1>4. CallTypes'
  BY <1>0, <1>1, <1>2, <1>3 DEF CallsInv, CallTypes, Where, Result
<1>5. Legal("react", steps[c], tok[c], res[c], did[c])
  BY <1>0 DEF React, CallsInv, CallOK
<1>6. Legal("done", steps[c], tok[c], "auth_expired", did[c])
  BY <1>5 DEF Legal, Refusals
<1>7. /\ at'[c] = "done" /\ res'[c] = "auth_expired"
      /\ \A u \in Call \ {c} : at'[u] = at[u] /\ res'[u] = res[u]
  BY <1>0, <1>1, <1>2 DEF CallsInv, CallTypes
<1>8. CallsInv'
  BY <1>0, <1>1, <1>4, <1>6, <1>7, CallMoves
<1>9. Owing' = Owing
  BY <1>1 DEF Owing
<1> QED
  BY <1>1, <1>3, <1>8, <1>9, EntryStep

\* A call starts: a write tool that goes past rate_limit_check is charged for the
\* one write in its path.
LEMMA CallToolStep ==
  ASSUME FullInv, NEW c \in Call, NEW t \in Token, NEW p \in Offered, CallTool(c, t, p)
  PROVE  FullInv'
<1>0. CallsInv /\ LimitInv /\ QuotaInv /\ PathOK(p)
  BY PathsOK DEF FullInv, Inv
<1>1. /\ p.cat \in Category /\ p.notice \in BOOLEAN /\ p.steps \in Seq(StepName) /\ Shape(p.steps)
      /\ p.cat = "read" => Harmless(p.steps)
  BY <1>0 DEF PathOK, Quiet
<1>2. PICK r \in Outcome(p, Allows(p.cat, t)) :
         /\ at' = [at EXCEPT ![c] = IF r = "none" THEN "run" ELSE Follows(r, p.notice)]
         /\ steps' = [steps EXCEPT ![c] = IF r = "none" THEN PastChecks(p.steps) ELSE <<>>]
         /\ res' = [res EXCEPT ![c] = r]
  BY DEF CallTool
<1>3. /\ at[c] = "idle" /\ check(p.cat, t)
      /\ tok' = [tok EXCEPT ![c] = t] /\ notice' = [notice EXCEPT ![c] = p.notice]
      /\ UNCHANGED <<matrixVars, entry, refills>> /\ UNCHANGED credit
      /\ UNCHANGED <<handle, seen, did>>
  BY DEF CallTool
<1>4. /\ r \in {"none", "ok", "invalid", "rate_limited"} /\ r \in Result
      /\ r = "none" => Allows(p.cat, t)
  BY <1>2 DEF Outcome, Result
<1> DEFINE s == IF r = "none" THEN PastChecks(p.steps) ELSE <<>>
           a == IF r = "none" THEN "run" ELSE Follows(r, p.notice)
<1>5. /\ s \in Seq(StepName) /\ Shape(s) /\ (Harmless(p.steps) => Harmless(s))
      /\ r # "none" => s = <<>>
  BY <1>1, PastKeeps, Nothing DEF Row
<1>6. /\ a \in {"run", "notice", "done"} /\ (a = "run" <=> r = "none")
  BY FollowsWhere
<1>7. at' = [at EXCEPT ![c] = a] /\ steps' = [steps EXCEPT ![c] = s]
  BY <1>2
<1> HIDE DEF s, a
<1>8. CallTypes'
  BY <1>0, <1>1, <1>2, <1>3, <1>4, <1>5, <1>6, <1>7 DEF CallsInv, CallTypes, Where
<1>9. ~did[c] /\ steps[c] = <<>>
  BY <1>0, <1>3 DEF CallsInv, CallOK, Legal
<1>10. Legal(a, s, t, r, did[c])
  BY <1>4, <1>5, <1>6, <1>9 DEF Legal
<1>11. /\ at'[c] = a /\ steps'[c] = s /\ tok'[c] = t /\ res'[c] = r
       /\ \A u \in Call \ {c} : /\ at'[u] = at[u] /\ steps'[u] = steps[u]
                                /\ tok'[u] = tok[u] /\ res'[u] = res[u]
  BY <1>0, <1>2, <1>3, <1>7 DEF CallsInv, CallTypes
<1>12. CallsInv'
  BY <1>0, <1>3, <1>8, <1>10, <1>11, CallMoves
<1>13. /\ LimitInv' /\ left'["write"][Sub] <= left["write"][Sub]
       /\ p.cat = "write" /\ r = "none" => left'["write"][Sub] = left["write"][Sub] - 1
  BY <1>0, <1>1, <1>3, <1>4, CheckCharges
<1>14. QuotaInv'
  <2>1. Owing' \subseteq Owing \cup {c} /\ (Harmless(s) => Owing' \subseteq Owing)
    BY <1>11 DEF Owing
  <2>2. CASE p.cat = "write" /\ r = "none"
    BY <1>0, <1>3, <1>13, <2>1, <2>2, QuotaCharged
  <2>3. CASE p.cat = "read" \/ r # "none"
    <3>1. Owing' \subseteq Owing
      BY <1>1, <1>5, <2>1, <2>3, Nothing
    <3>2. left'["write"][Sub] - left["write"][Sub] <= credit' - credit
      <4>1. left["write"][Sub] \in Nat /\ left'["write"][Sub] \in Nat /\ credit \in Int
        BY <1>0, <1>13, WriteLeft DEF LimitInv, Category, Bucket
      <4> QED
        BY <1>3, <1>13, <4>1
    <3> QED
      BY <1>0, <1>13, <3>1, <3>2, QuotaKept
  <2> QED
    BY <1>1, <2>2, <2>3 DEF Category
<1>15. WorldInv' /\ SharedInv'
  BY <1>3 DEF FullInv, Inv, WorldInv, SharedInv, matrixVars
<1> QED
  BY <1>12, <1>13, <1>14, <1>15 DEF FullInv, Inv

\* Tokens are revoked, the store catches up, or nothing changes.
LEMMA OtherSteps ==
  ASSUME FullInv, (\E t \in Token : Revoke(t)) \/ Sync \/ UNCHANGED vars
  PROVE  FullInv'
<1>1. /\ UNCHANGED <<entry, limitVars, credit, callVars>>
      /\ alive' \subseteq alive /\ pins' = pins /\ local' \in {local, pins}
  BY DEF Revoke, Sync, vars, matrixVars
<1>2. WorldInv' /\ LimitInv'
  BY <1>1 DEF FullInv, Inv, WorldInv, LimitInv, limitVars
<1>3. CallsInv' /\ SharedInv'
  BY <1>1 DEF FullInv, Inv, CallsInv, CallTypes, CallOK, SharedInv, callVars
<1>4. QuotaInv'
  BY <1>1 DEF FullInv, QuotaInv, Owing, limitVars, callVars
<1> QED
  BY <1>2, <1>3, <1>4 DEF FullInv, Inv

LEMMA NextInv == FullInv /\ [Next]_vars => FullInv'
<1> SUFFICES ASSUME FullInv, [Next]_vars PROVE FullInv'
  OBVIOUS
<1>1. ASSUME NEW c \in Call, Body(c) PROVE FullInv'
  BY <1>1, ReactStep, NoticeSteps, ErrorSteps, ClientSteps, ReadStep, WriteSteps,
     SideSteps, ReadPinsStep, FanOutStep, EachStep DEF Body
<1> QED
  BY <1>1, CallToolStep, RefillStep, OtherSteps DEF Next

LEMMA AlwaysInv == Spec => []FullInv
<1>1. Init => FullInv
  BY InitInv DEF FullInv
<1> QED
  BY <1>1, NextInv, PTL DEF Spec

-----------------------------------------------------------------------------
(* What is written on the side *)

\* The calls that have still to upload or to enable recovery, and those that may
\* still post a notice.
Aside   == {c \in Call : ~Clean(steps[c])}
Telling == {c \in Call : notice[c] /\ at[c] \in {"run", "notice"}}

\* Every path has at most one of the former, and only a tool that posts notices comes
\* to where they are posted.
SideShape == \A c \in Call : Once(steps[c]) /\ (at[c] = "notice" => notice[c])

\* A write cell covers one of each, a read cell one notice.
SideInv ==
    /\ SideShape /\ extra \in Int
    /\ IsFiniteSet(Aside) /\ IsFiniteSet(Telling)
    /\ 2 * left["write"][Sub] + left["read"][Sub] + Cardinality(Aside) + Cardinality(Telling)
         <= extra

LEMMA Stays ==
  ASSUME NEW A, NEW B, IsFiniteSet(A), B \subseteq A
  PROVE  /\ IsFiniteSet(B) /\ Cardinality(A) \in Nat /\ Cardinality(B) \in Nat
         /\ Cardinality(B) <= Cardinality(A)
  BY FS_Subset, FS_CardinalityType

LEMMA Grows ==
  ASSUME NEW A, NEW B, NEW c, IsFiniteSet(A), B \subseteq A \cup {c}
  PROVE  /\ IsFiniteSet(B) /\ Cardinality(A) \in Nat /\ Cardinality(B) \in Nat
         /\ Cardinality(B) <= Cardinality(A) + 1
<1>1. /\ IsFiniteSet(A \cup {c})
      /\ Cardinality(A \cup {c}) = IF c \in A THEN Cardinality(A) ELSE Cardinality(A) + 1
  BY FS_AddElement, Zenon
<1>2. IsFiniteSet(B) /\ Cardinality(B) <= Cardinality(A \cup {c})
  BY <1>1, FS_Subset
<1>3. Cardinality(A) \in Nat /\ Cardinality(B) \in Nat
  BY <1>2, FS_CardinalityType
<1> QED
  BY <1>1, <1>2, <1>3

LEMMA Shrinks ==
  ASSUME NEW A, NEW B, NEW c \in A, IsFiniteSet(A), B \subseteq A \ {c}
  PROVE  /\ IsFiniteSet(B) /\ Cardinality(A) \in Nat /\ Cardinality(B) \in Nat
         /\ Cardinality(B) <= Cardinality(A) - 1
<1>1. /\ IsFiniteSet(A \ {c})
      /\ Cardinality(A \ {c}) = IF c \in A THEN Cardinality(A) - 1 ELSE Cardinality(A)
  BY FS_RemoveElement, Zenon
<1>2. IsFiniteSet(B) /\ Cardinality(B) <= Cardinality(A \ {c})
  BY <1>1, FS_Subset
<1>3. Cardinality(A) \in Nat /\ Cardinality(B) \in Nat
  BY <1>2, FS_CardinalityType
<1> QED
  BY <1>1, <1>2, <1>3

LEMMA Cells ==
  ASSUME LimitInv
  PROVE  left["write"][Sub] \in Nat /\ left["read"][Sub] \in Nat
  BY DEF LimitInv, Category, Bucket

\* Nothing more is outstanding on the side than before.
LEMMA SideKept ==
  ASSUME SideInv, LimitInv, SideShape', Aside' \subseteq Aside, Telling' \subseteq Telling,
         UNCHANGED <<left, extra>>
  PROVE  SideInv'
<1>1. /\ IsFiniteSet(Aside') /\ Cardinality(Aside) \in Nat /\ Cardinality(Aside') \in Nat
      /\ Cardinality(Aside') <= Cardinality(Aside)
  BY Stays DEF SideInv
<1>2. /\ IsFiniteSet(Telling') /\ Cardinality(Telling) \in Nat /\ Cardinality(Telling') \in Nat
      /\ Cardinality(Telling') <= Cardinality(Telling)
  BY Stays DEF SideInv
<1> QED
  BY <1>1, <1>2, Cells DEF SideInv

\* One of them is done.
LEMMA SideSpent ==
  ASSUME SideInv, LimitInv, SideShape', NEW c, extra' = extra - 1, UNCHANGED left,
         \/ c \in Aside /\ Aside' \subseteq Aside \ {c} /\ Telling' \subseteq Telling
         \/ c \in Telling /\ Telling' \subseteq Telling \ {c} /\ Aside' \subseteq Aside
  PROVE  SideInv'
<1>0. IsFiniteSet(Aside) /\ IsFiniteSet(Telling) /\ extra \in Int
  BY DEF SideInv
<1>1. CASE c \in Aside /\ Aside' \subseteq Aside \ {c} /\ Telling' \subseteq Telling
  <2>1. /\ IsFiniteSet(Aside') /\ Cardinality(Aside) \in Nat /\ Cardinality(Aside') \in Nat
        /\ Cardinality(Aside') <= Cardinality(Aside) - 1
    BY <1>0, <1>1, Shrinks
  <2>2. /\ IsFiniteSet(Telling') /\ Cardinality(Telling) \in Nat /\ Cardinality(Telling') \in Nat
        /\ Cardinality(Telling') <= Cardinality(Telling)
    BY <1>0, <1>1, Stays
  <2> QED
    BY <2>1, <2>2, Cells DEF SideInv
<1>2. CASE c \in Telling /\ Telling' \subseteq Telling \ {c} /\ Aside' \subseteq Aside
  <2>1. /\ IsFiniteSet(Aside') /\ Cardinality(Aside) \in Nat /\ Cardinality(Aside') \in Nat
        /\ Cardinality(Aside') <= Cardinality(Aside)
    BY <1>0, <1>2, Stays
  <2>2. /\ IsFiniteSet(Telling') /\ Cardinality(Telling) \in Nat /\ Cardinality(Telling') \in Nat
        /\ Cardinality(Telling') <= Cardinality(Telling) - 1
    BY <1>0, <1>2, Shrinks
  <2> QED
    BY <2>1, <2>2, Cells DEF SideInv
<1> QED
  BY <1>1, <1>2

\* Fewer or more cells, and as much less or more to do on the side.
LEMMA SideCharged ==
  ASSUME SideInv, LimitInv, LimitInv', SideShape', NEW a \in 0..1, NEW b \in 0..1, NEW c,
         extra' \in Int,
         IF a = 0 THEN Aside' \subseteq Aside ELSE Aside' \subseteq Aside \cup {c},
         IF b = 0 THEN Telling' \subseteq Telling ELSE Telling' \subseteq Telling \cup {c},
         (2 * left'["write"][Sub] + left'["read"][Sub]) + a + b
            <= (2 * left["write"][Sub] + left["read"][Sub]) + (extra' - extra)
  PROVE  SideInv'
<1>0. IsFiniteSet(Aside) /\ IsFiniteSet(Telling) /\ extra \in Int
  BY DEF SideInv
<1>1. /\ IsFiniteSet(Aside') /\ Cardinality(Aside) \in Nat /\ Cardinality(Aside') \in Nat
      /\ Cardinality(Aside') <= Cardinality(Aside) + a
  <2>1. CASE a = 0
    BY <1>0, <2>1, Stays
  <2>2. CASE a = 1
    BY <1>0, <2>2, Grows
  <2> QED
    BY <2>1, <2>2
<1>2. /\ IsFiniteSet(Telling') /\ Cardinality(Telling) \in Nat /\ Cardinality(Telling') \in Nat
      /\ Cardinality(Telling') <= Cardinality(Telling) + b
  <2>1. CASE b = 0
    BY <1>0, <2>1, Stays
  <2>2. CASE b = 1
    BY <1>0, <2>2, Grows
  <2> QED
    BY <2>1, <2>2
<1>3. /\ left["write"][Sub] \in Nat /\ left["read"][Sub] \in Nat
      /\ left'["write"][Sub] \in Nat /\ left'["read"][Sub] \in Nat
  BY DEF LimitInv, Category, Bucket
<1> QED
  BY <1>0, <1>1, <1>2, <1>3 DEF SideInv

LEMMA DropsSides ==
  ASSUME NEW s \in Seq(StepName), NEW n \in Nat, NEW r, Drops(r, s, n)
  PROVE  (Once(s) => Once(r)) /\ (Clean(s) => Clean(r))
<1>1. /\ Len(r) \in Nat /\ Len(s) \in Nat /\ Len(r) = Len(s) - n
      /\ \A i \in 1..Len(r) : r[i] = s[i + n]
  BY DEF Drops
<1>2. \A i \in 1..Len(r) : i + n \in 1..Len(s)
  BY <1>1
<1>3. \A i, j \in 1..Len(r) : i < j => i + n < j + n
  BY <1>1
<1> QED
  BY <1>1, <1>2, <1>3 DEF Once, Clean

LEMMA PastSides ==
  ASSUME NEW s \in Seq(StepName)
  PROVE  (Once(s) => Once(PastChecks(s))) /\ (Clean(s) => Clean(PastChecks(s)))
  BY PastDrops, DropsSides

LEMMA NoSides == Once(<<>>) /\ Clean(<<>>)
  BY DEF Once, Clean

\* What the rest of a body is like behind its first step.
LEMMA BehindSides ==
  ASSUME CallsInv, SideShape, NEW c \in Call, NEW S, Doing(c, S)
  PROVE  /\ at[c] = "run" /\ Head(steps[c]) \in S
         /\ Tail(steps[c]) \in Seq(StepName) /\ Once(Tail(steps[c]))
         /\ Clean(steps[c]) => Clean(Tail(steps[c]))
         /\ Head(steps[c]) \in Sides \cup {"each", "quiet"} => Clean(Tail(steps[c]))
         /\ Head(steps[c]) \in Sides => c \in Aside
<1> DEFINE s == steps[c]
<1>1. at[c] = "run" /\ s # <<>> /\ Head(s) \in S
  BY DEF Doing
<1>2. s \in Seq(StepName) /\ Once(s)
  BY DEF CallsInv, CallTypes, SideShape
<1> HIDE DEF s
<1>3. Drops(Tail(s), s, 1) /\ Head(s) = s[1] /\ 1 \in 1..Len(s)
  BY <1>1, <1>2, TailDrops
<1>4. Once(Tail(s)) /\ (Clean(s) => Clean(Tail(s))) /\ Tail(s) \in Seq(StepName)
  BY <1>2, <1>3, DropsSides DEF Drops
<1>5. ASSUME Head(s) \in Sides \cup {"each", "quiet"} PROVE Clean(Tail(s))
  <2>1. \A i \in 1..Len(Tail(s)) : i + 1 \in 1..Len(s) /\ 1 < i + 1 /\ Tail(s)[i] = s[i + 1]
    BY <1>2, <1>3 DEF Drops
  <2> QED
    BY <1>2, <1>3, <1>5, <2>1 DEF Once, Clean
<1>6. Head(s) \in Sides => ~Clean(s)
  BY <1>3 DEF Clean
<1> QED
  BY <1>1, <1>4, <1>5, <1>6 DEF Aside, s

\* Call c, which is running, has s left.
LEMMA LeftSides ==
  ASSUME CallsInv, SideShape, NEW c \in Call, at[c] = "run", NEW s, Once(s),
         steps' = [steps EXCEPT ![c] = s], UNCHANGED notice,
         \A u \in Call \ {c} : at'[u] = at[u], at'[c] = "notice" => notice[c]
  PROVE  /\ SideShape' /\ Telling' \subseteq Telling /\ Aside' \subseteq Aside \cup {c}
         /\ Clean(s) => Aside' \subseteq Aside \ {c}
<1>1. steps'[c] = s /\ \A u \in Call \ {c} : steps'[u] = steps[u]
  BY DEF CallsInv, CallTypes
<1> QED
  BY <1>1 DEF SideShape, Telling, Aside

LEMMA EndSides ==
  ASSUME CallsInv, SideShape, NEW c \in Call, at[c] = "run", NEW r, End(c, r)
  PROVE  SideShape' /\ Telling' \subseteq Telling /\ Aside' \subseteq Aside \ {c}
<1>1. /\ steps' = [steps EXCEPT ![c] = <<>>] /\ UNCHANGED notice
      /\ \A u \in Call \ {c} : at'[u] = at[u]
      /\ at'[c] = "notice" => notice[c]
  BY DEF End, CallsInv, CallTypes, Follows
<1> QED
  BY <1>1, NoSides, LeftSides

LEMMA GoOnSides ==
  ASSUME CallsInv, SideShape, NEW c \in Call, at[c] = "run",
         NEW s \in Seq(StepName), Once(s), GoOn(c, s)
  PROVE  /\ SideShape' /\ Telling' \subseteq Telling /\ Aside' \subseteq Aside \cup {c}
         /\ Clean(s) => Aside' \subseteq Aside \ {c}
<1>1. CASE \E r \in {"invalid", "ok"} : End(c, r)
  BY <1>1, EndSides
<1>2. CASE /\ steps' = [steps EXCEPT ![c] = PastChecks(s)]
           /\ UNCHANGED <<at, notice, tok, handle, seen, res>>
  <2>1. Once(PastChecks(s)) /\ (Clean(s) => Clean(PastChecks(s)))
    BY PastSides
  <2> QED
    BY <1>2, <2>1, LeftSides
<1> QED
  BY <1>1, <1>2 DEF GoOn

\* Steps that write nothing on the side.
LEMMA PlainSides ==
  ASSUME FullInv, SideInv, NEW c \in Call,
         \/ GateCooldown(c) \/ GateBusy(c) \/ Fails(c) \/ WebRefused(c) \/ Unauthorized(c)
         \/ client_for_fails(c) \/ ReadOk(c) \/ Send(c) \/ SendLost(c)
         \/ (\E a \in BOOLEAN : WritePins(c, a)) \/ send_text_to_room(c)
  PROVE  SideInv'
<1>0. CallsInv /\ LimitInv /\ SideShape
  BY DEF FullInv, Inv, SideInv
<1>1. PICK S : Doing(c, S)
  BY DEF GateCooldown, GateBusy, Fails, WebRefused, Unauthorized, client_for_fails, ReadOk, Send,
     SendLost, WritePins, send_text_to_room
<1>2. /\ UNCHANGED <<left, extra>>
      /\ (\E r \in Result : End(c, r)) \/ GoOn(c, Tail(steps[c]))
  BY DEF GateCooldown, GateBusy, Fails, WebRefused, Unauthorized, client_for_fails, ReadOk, Send,
     SendLost, WritePins, send_text_to_room, Effect, Advance, limitVars, Result
<1> DEFINE s == Tail(steps[c])
<1>3. at[c] = "run" /\ s \in Seq(StepName) /\ Once(s) /\ (Clean(steps[c]) => Clean(s))
  BY <1>0, <1>1, BehindSides
<1> HIDE DEF s
<1>4. SideShape' /\ Telling' \subseteq Telling /\ Aside' \subseteq Aside
  <2>1. CASE \E r \in Result : End(c, r)
    BY <1>0, <1>3, <2>1, EndSides
  <2>2. CASE GoOn(c, s)
    BY <1>0, <1>3, <2>2, GoOnSides DEF Aside
  <2> QED
    BY <1>2, <2>1, <2>2 DEF s
<1> QED
  BY <1>0, <1>2, <1>4, SideKept

LEMMA ClientSides ==
  ASSUME FullInv, SideInv, NEW c \in Call, client_for(c) \/ (\E e \in Event : ReadPins(c, e))
  PROVE  SideInv'
<1> DEFINE s == Tail(steps[c])
<1>0. CallsInv /\ LimitInv /\ SideShape
  BY DEF FullInv, Inv, SideInv
<1>1. PICK S : Doing(c, S)
  BY DEF client_for, ReadPins
<1>2. at[c] = "run" /\ s \in Seq(StepName) /\ Once(s) /\ (Clean(steps[c]) => Clean(s))
  BY <1>0, <1>1, BehindSides
<1>3. Once(PastChecks(s)) /\ (Clean(s) => Clean(PastChecks(s)))
  BY <1>2, PastSides
<1>4. /\ UNCHANGED <<left, extra>>
      /\ \/ \E r \in Result : End(c, r)
         \/ /\ \E q \in {s, PastChecks(s)} : steps' = [steps EXCEPT ![c] = q]
            /\ UNCHANGED <<at, notice>>
  <2>1. CASE client_for(c)
    BY <2>1 DEF client_for, limitVars, Result
  <2>2. CASE \E e \in Event : ReadPins(c, e)
    <3>1. steps' = [steps EXCEPT ![c] = Tail(steps[c])] /\ UNCHANGED <<at, notice>>
          /\ UNCHANGED <<left, extra>>
      BY <1>0, <2>2 DEF ReadPins, limitVars, CallsInv, CallTypes
    <3> QED
      BY <3>1
  <2> QED
    BY <2>1, <2>2
<1> HIDE DEF s
<1>5. CASE \E r \in Result : End(c, r)
  <2>1. SideShape' /\ Telling' \subseteq Telling /\ Aside' \subseteq Aside
    BY <1>0, <1>2, <1>5, EndSides
  <2> QED
    BY <1>0, <1>4, <2>1, SideKept
<1>6. ASSUME NEW q \in {s, PastChecks(s)}, steps' = [steps EXCEPT ![c] = q], UNCHANGED <<at, notice>>
      PROVE  SideInv'
  <2>1. Once(q) /\ (Clean(steps[c]) => Clean(q))
    BY <1>2, <1>3
  <2>2. /\ SideShape' /\ Telling' \subseteq Telling /\ Aside' \subseteq Aside \cup {c}
        /\ Clean(q) => Aside' \subseteq Aside \ {c}
    BY <1>0, <1>2, <1>6, <2>1, LeftSides
  <2>3. Aside' \subseteq Aside
    BY <2>1, <2>2 DEF Aside
  <2> QED
    BY <1>0, <1>4, <2>2, <2>3, SideKept
<1> QED
  BY <1>4, <1>5, <1>6

\* A fan-out and its rooms: no step on the side among them.
LEMMA RoomSides ==
  ASSUME FullInv, SideInv, NEW c \in Call, (\E n \in 0..MaxFan : FanOut(c, n)) \/ Each(c)
  PROVE  SideInv'
<1>0. CallsInv /\ LimitInv /\ SideShape /\ extra \in Int
  BY DEF FullInv, Inv, SideInv
<1>1. CASE \E n \in 0..MaxFan : FanOut(c, n)
  <2>1. PICK n \in 0..MaxFan : FanOut(c, n)
    BY <1>1
  <2> DEFINE s == [i \in 1..n |-> "each"]
  <2>2. s \in Seq(StepName) /\ Len(s) = n /\ n \in Nat
    BY DEF StepName
  <2>3. Once(s) /\ Clean(s)
    BY <2>2 DEF Once, Clean, Sides
  <2>4. at[c] = "run" /\ GoOn(c, s) /\ UNCHANGED <<left, extra>>
    BY <2>1 DEF FanOut, Doing, limitVars
  <2> HIDE DEF s
  <2>5. SideShape' /\ Telling' \subseteq Telling /\ Aside' \subseteq Aside
    BY <1>0, <2>2, <2>3, <2>4, GoOnSides
  <2> QED
    BY <1>0, <2>4, <2>5, SideKept
<1>2. CASE Each(c)
  <2> DEFINE s == Tail(steps[c])
             q == <<"quiet">> \o s
  <2>1. at[c] = "run" /\ s \in Seq(StepName) /\ Once(s) /\ Clean(s)
    BY <1>0, <1>2, BehindSides DEF Each
  <2>2. /\ GoOn(c, q) \/ GoOn(c, s)
        /\ check("write", tok[c]) /\ UNCHANGED <<credit, extra>>
    BY <1>2 DEF Each
  <2>3. tok[c] \in Token
    BY <1>0, <2>1 DEF CallsInv, CallOK, Legal
  <2> HIDE DEF s
  <2>4. q \in Seq(StepName) /\ Once(q) /\ Clean(q)
    <3>1. <<"quiet">> \in Seq(StepName) /\ Len(<<"quiet">>) = 1 /\ <<"quiet">>[1] = "quiet"
      BY DEF StepName
    <3>2. /\ q \in Seq(StepName) /\ Len(q) = 1 + Len(s) /\ Len(s) \in Nat
          /\ \A i \in 1..(1 + Len(s)) : q[i] = IF i <= 1 THEN <<"quiet">>[i] ELSE s[i - 1]
      BY <2>1, <3>1, ConcatProperties
    <3> HIDE DEF q
    <3>3. \A i \in 1..Len(q) : q[i] = "quiet" \/ (i - 1 \in 1..Len(s) /\ q[i] = s[i - 1])
      BY <3>1, <3>2
    <3>4. Clean(q)
      BY <2>1, <3>3 DEF Clean, Sides
    <3>5. Once(q)
      BY <3>4 DEF Once, Clean
    <3> QED
      BY <3>2, <3>4, <3>5
  <2> HIDE DEF q
  <2>5. SideShape' /\ Telling' \subseteq Telling /\ Aside' \subseteq Aside
    BY <1>0, <2>1, <2>2, <2>4, GoOnSides
  <2>6. /\ LimitInv'
        /\ \A h \in Category : left'[h][Sub] \in Nat /\ left'[h][Sub] <= left[h][Sub]
    <3>1. "write" \in Category
      BY DEF Category
    <3> QED
      BY <1>0, <2>2, <2>3, <3>1, CheckCharges
  <2>7. (2 * left'["write"][Sub] + left'["read"][Sub]) + 0 + 0
            <= (2 * left["write"][Sub] + left["read"][Sub]) + (extra' - extra)
    <3>1. /\ left'["write"][Sub] \in Nat /\ left'["write"][Sub] <= left["write"][Sub]
          /\ left'["read"][Sub] \in Nat /\ left'["read"][Sub] <= left["read"][Sub]
      BY <2>6 DEF Category
    <3>2. left["write"][Sub] \in Nat /\ left["read"][Sub] \in Nat /\ extra' = extra
      BY <1>0, <2>2, Cells
    <3> QED
      BY <1>0, <3>1, <3>2
  <2> QED
    BY <1>0, <2>2, <2>5, <2>6, <2>7, SideCharged
<1> QED
  BY <1>1, <1>2

\* The uploads and the enabling of recovery.
LEMMA UploadSides ==
  ASSUME FullInv, SideInv, NEW c \in Call, (\E a \in BOOLEAN : Upload(c, a)) \/ EnableRecovery(c)
  PROVE  SideInv'
<1> DEFINE s == Tail(steps[c])
<1>0. CallsInv /\ LimitInv /\ SideShape
  BY DEF FullInv, Inv, SideInv
<1>1. PICK S \in {{"upload"}, {"enable"}} : Doing(c, S)
  BY DEF Upload, EnableRecovery
<1>2. at[c] = "run" /\ s \in Seq(StepName) /\ Once(s) /\ Clean(s) /\ c \in Aside
  <2>1. Head(steps[c]) \in Sides
    BY <1>0, <1>1, BehindSides DEF Sides
  <2> QED
    BY <1>0, <1>1, <2>1, BehindSides
<1> HIDE DEF s
<1>3. /\ GoOn(c, s) \/ End(c, "internal")
      /\ UNCHANGED left /\ extra' \in {extra, extra - 1}
  BY DEF Upload, EnableRecovery, Advance, limitVars, s
<1>4. SideShape' /\ Telling' \subseteq Telling /\ Aside' \subseteq Aside \ {c}
  BY <1>0, <1>2, <1>3, GoOnSides, EndSides
<1>5. CASE extra' = extra
  BY <1>0, <1>3, <1>4, <1>5, SideKept
<1>6. CASE extra' = extra - 1
  BY <1>0, <1>2, <1>3, <1>4, <1>6, SideSpent
<1> QED
  BY <1>3, <1>5, <1>6

\* The end of a call, with the notice or without.
LEMMA ReturnSides ==
  ASSUME FullInv, SideInv, NEW c \in Call, Notice(c) \/ NoNotice(c) \/ React(c)
  PROVE  SideInv'
<1>0. CallsInv /\ LimitInv /\ SideShape
  BY DEF FullInv, Inv, SideInv
<1>1. /\ UNCHANGED <<steps, left>> /\ notice' \in {notice, [notice EXCEPT ![c] = FALSE]}
      /\ \E a \in {"idle", Follows("auth_expired", notice[c])} : at' = [at EXCEPT ![c] = a]
  BY DEF Notice, NoNotice, React, Return, limitVars
<1>2. Follows("auth_expired", notice[c]) = "done"
  BY DEF Follows
<1>3. /\ at'[c] \notin {"run", "notice"} /\ \A u \in Call \ {c} : at'[u] = at[u]
      /\ \A u \in Call \ {c} : notice'[u] = notice[u]
  BY <1>0, <1>1, <1>2 DEF CallsInv, CallTypes
<1>4. SideShape' /\ Aside' = Aside /\ Telling' \subseteq Telling \ {c}
  BY <1>0, <1>1, <1>3 DEF SideShape, Aside, Telling
<1>5. CASE NoNotice(c) \/ React(c)
  <2>1. UNCHANGED extra
    BY <1>5 DEF NoNotice, React
  <2> QED
    BY <1>0, <1>1, <1>4, <2>1, SideKept
<1>6. CASE Notice(c)
  <2>1. extra' = extra - 1 /\ at[c] = "notice"
    BY <1>6 DEF Notice
  <2>2. notice[c]
    BY <1>0, <2>1 DEF SideShape
  <2>3. c \in Telling
    BY <2>1, <2>2 DEF Telling
  <2> QED
    BY <1>0, <1>1, <1>4, <2>1, <2>3, SideSpent
<1> QED
  BY <1>5, <1>6

LEMMA CallToolSides ==
  ASSUME FullInv, FullInv', SideInv, NEW c \in Call, NEW t \in Token, NEW p \in Offered,
         CallTool(c, t, p)
  PROVE  SideInv'
<1>0. CallsInv /\ LimitInv /\ LimitInv' /\ SideShape /\ extra \in Int /\ PathOK(p)
  BY PathsOK DEF FullInv, Inv, SideInv
<1>1. /\ p.cat \in Category /\ p.steps \in Seq(StepName) /\ Once(p.steps)
      /\ p.cat = "read" => Clean(p.steps)
  BY <1>0 DEF PathOK, Quiet
<1>2. PICK r \in Outcome(p, Allows(p.cat, t)) :
         /\ at' = [at EXCEPT ![c] = IF r = "none" THEN "run" ELSE Follows(r, p.notice)]
         /\ steps' = [steps EXCEPT ![c] = IF r = "none" THEN PastChecks(p.steps) ELSE <<>>]
  BY DEF CallTool
<1>3. /\ check(p.cat, t) /\ notice' = [notice EXCEPT ![c] = p.notice]
      /\ UNCHANGED <<credit, extra>>
  BY DEF CallTool
<1>4. Allows(p.cat, t) \/ r = "rate_limited"
  BY <1>2 DEF Outcome
<1> DEFINE s == IF r = "none" THEN PastChecks(p.steps) ELSE <<>>
           a == IF r = "none" THEN "run" ELSE Follows(r, p.notice)
<1>5. Once(s) /\ (p.cat = "read" \/ r # "none" => Clean(s))
  BY <1>1, PastSides, NoSides
<1>6. (a = "notice" => p.notice) /\ (r = "rate_limited" => a = "done")
  BY DEF Follows
<1>7. at' = [at EXCEPT ![c] = a] /\ steps' = [steps EXCEPT ![c] = s]
  BY <1>2
<1> HIDE DEF s, a
<1>8. /\ at'[c] = a /\ steps'[c] = s /\ notice'[c] = p.notice
      /\ \A u \in Call \ {c} : at'[u] = at[u] /\ steps'[u] = steps[u] /\ notice'[u] = notice[u]
  BY <1>0, <1>3, <1>7 DEF CallsInv, CallTypes
<1>9. SideShape'
  BY <1>0, <1>5, <1>6, <1>8 DEF SideShape
<1>10. /\ Aside' \subseteq Aside \cup {c} /\ (Clean(s) => Aside' \subseteq Aside)
       /\ Telling' \subseteq Telling \cup {c} /\ (a = "done" => Telling' \subseteq Telling)
  BY <1>8 DEF Aside, Telling
<1>11. /\ \A h \in Category : left'[h][Sub] \in Nat /\ left'[h][Sub] <= left[h][Sub]
       /\ Allows(p.cat, t) => left'[p.cat][Sub] = left[p.cat][Sub] - 1
  BY <1>0, <1>1, <1>3, CheckCharges
<1>12. /\ left'["write"][Sub] \in Nat /\ left'["write"][Sub] <= left["write"][Sub]
       /\ left'["read"][Sub] \in Nat /\ left'["read"][Sub] <= left["read"][Sub]
       /\ left["write"][Sub] \in Nat /\ left["read"][Sub] \in Nat
  BY <1>0, <1>11, Cells DEF Category
<1>13. CASE r = "rate_limited"
  <2>1. Aside' \subseteq Aside /\ Telling' \subseteq Telling
    BY <1>5, <1>6, <1>10, <1>13
  <2>2. (2 * left'["write"][Sub] + left'["read"][Sub]) + 0 + 0
            <= (2 * left["write"][Sub] + left["read"][Sub]) + (extra' - extra)
    BY <1>0, <1>3, <1>12
  <2> QED
    BY <1>0, <1>3, <1>9, <2>1, <2>2, SideCharged
<1>14. CASE p.cat = "write" /\ Allows(p.cat, t)
  <2>1. left'["write"][Sub] = left["write"][Sub] - 1
    BY <1>11, <1>14
  <2>2. (2 * left'["write"][Sub] + left'["read"][Sub]) + 1 + 1
            <= (2 * left["write"][Sub] + left["read"][Sub]) + (extra' - extra)
    BY <1>0, <1>3, <1>12, <2>1
  <2> QED
    BY <1>0, <1>3, <1>9, <1>10, <2>2, SideCharged
<1>15. CASE p.cat = "read" /\ Allows(p.cat, t)
  <2>1. left'["read"][Sub] = left["read"][Sub] - 1
    BY <1>11, <1>15
  <2>2. Aside' \subseteq Aside
    BY <1>5, <1>10, <1>15
  <2>3. (2 * left'["write"][Sub] + left'["read"][Sub]) + 0 + 1
            <= (2 * left["write"][Sub] + left["read"][Sub]) + (extra' - extra)
    BY <1>0, <1>3, <1>12, <2>1
  <2> QED
    BY <1>0, <1>3, <1>9, <1>10, <2>2, <2>3, SideCharged
<1> QED
  BY <1>1, <1>4, <1>13, <1>14, <1>15 DEF Category

\* A cell that comes back is two things more on the side, or one.
LEMMA RefillSides ==
  ASSUME FullInv, FullInv', SideInv, NEW g \in Category, Refill(g)
  PROVE  SideInv'
<1>0. LimitInv /\ LimitInv' /\ SideShape /\ extra \in Int /\ Sub \in Bucket
  BY DEF FullInv, Inv, SideInv, Bucket
<1>1. /\ UNCHANGED callVars /\ extra' = IF g = "write" THEN extra + 2 ELSE extra + 1
      /\ left' = [left EXCEPT ![g] = [b \in Bucket |-> IF left[g][b] < Quota[g] THEN left[g][b] + 1
                                                       ELSE left[g][b]]]
  BY DEF Refill
<1>2. \A h \in Category : left[h][Sub] \in Nat /\ left'[h][Sub] \in Nat
  BY <1>0 DEF LimitInv
<1>3. \A h \in Category : /\ h = g => left'[h][Sub] <= left[h][Sub] + 1
                          /\ h # g => left'[h][Sub] = left[h][Sub]
  BY <1>0, <1>1, <1>2 DEF LimitInv
<1>4. SideShape' /\ Aside' \subseteq Aside /\ Telling' \subseteq Telling
  BY <1>0, <1>1 DEF SideShape, Aside, Telling, callVars
<1>5. (2 * left'["write"][Sub] + left'["read"][Sub]) + 0 + 0
            <= (2 * left["write"][Sub] + left["read"][Sub]) + (extra' - extra)
  <2>1. /\ left["write"][Sub] \in Nat /\ left'["write"][Sub] \in Nat
        /\ left["read"][Sub] \in Nat /\ left'["read"][Sub] \in Nat
    BY <1>2 DEF Category
  <2>2. CASE g = "write"
    <3>1. left'["write"][Sub] <= left["write"][Sub] + 1 /\ left'["read"][Sub] = left["read"][Sub]
      BY <1>3, <2>2 DEF Category
    <3> QED
      BY <1>0, <1>1, <2>1, <2>2, <3>1
  <2>3. CASE g = "read"
    <3>1. left'["read"][Sub] <= left["read"][Sub] + 1 /\ left'["write"][Sub] = left["write"][Sub]
      BY <1>3, <2>3 DEF Category
    <3> QED
      BY <1>0, <1>1, <2>1, <2>3, <3>1
  <2> QED
    BY <2>2, <2>3 DEF Category
<1> QED
  BY <1>0, <1>1, <1>4, <1>5, SideCharged

LEMMA NextSides == FullInv /\ FullInv' /\ SideInv /\ [Next]_vars => SideInv'
<1> SUFFICES ASSUME FullInv, FullInv', SideInv, [Next]_vars PROVE SideInv'
  OBVIOUS
<1>1. ASSUME NEW c \in Call, Body(c) PROVE SideInv'
  BY <1>1, PlainSides, ClientSides, RoomSides, UploadSides, ReturnSides DEF Body
<1>2. ASSUME (\E t \in Token : Revoke(t)) \/ Sync \/ UNCHANGED vars PROVE SideInv'
  <2>1. UNCHANGED <<limitVars, ledger, callVars>>
    BY <1>2 DEF Revoke, Sync, vars
  <2>2. UNCHANGED <<left, extra>> /\ SideShape' /\ Aside' \subseteq Aside /\ Telling' \subseteq Telling
    BY <2>1 DEF SideInv, SideShape, Aside, Telling, limitVars, callVars
  <2> QED
    BY <2>2, SideKept DEF FullInv, Inv
<1> QED
  BY <1>1, <1>2, CallToolSides, RefillSides DEF Next

LEMMA InitSides == Init => SideInv
<1> SUFFICES ASSUME Init PROVE SideInv
  OBVIOUS
<1>1. SideShape /\ Aside = {} /\ Telling = {}
  BY NoSides DEF Init, SideShape, Aside, Telling
<1>2. /\ left["write"][Sub] = Quota["write"] /\ left["read"][Sub] = Quota["read"]
      /\ Quota["write"] \in Nat /\ Quota["read"] \in Nat
      /\ extra = 2 * Quota["write"] + Quota["read"]
  BY DEF Init, Category, Bucket
<1> QED
  BY <1>1, <1>2, FS_EmptySet DEF SideInv

LEMMA AlwaysSides == Spec => []SideInv
  BY AlwaysInv, InitSides, NextSides, PTL DEF Spec

-----------------------------------------------------------------------------
(* The theorems *)

\* Concurrent calls keep the state well typed: no bucket goes below zero or over
\* its quota, and no call holds a cached client that is not there.
THEOREM ToolTypes == Spec => []TypeOK
<1>1. FullInv /\ SideInv => TypeOK
  <2> SUFFICES ASSUME FullInv, SideInv PROVE TypeOK
    OBVIOUS
  <2>1. \A g \in Category, b \in Bucket : left[g][b] \in 0..Quota[g]
    BY DEF FullInv, Inv, LimitInv
  <2> QED
    BY <2>1 DEF FullInv, Inv, SideInv, WorldInv, LimitInv, CallsInv, CallTypes, SharedInv,
       TypeOK, Where
<1> QED
  BY <1>1, AlwaysInv, AlwaysSides, PTL

\* Limiter::check and the charge per room in send_bulk and send_broadcast: the
\* tools of the account make no more writes than its quota and the refills allow, and
\* on the side at most one upload (or enabling of recovery) and one notice per write
\* cell and one notice per read cell, with any number of concurrent calls and tokens
\* and whatever tools they call.
THEOREM QuotaHolds == Spec => []WritesWithinQuota
<1>1. FullInv /\ SideInv => WritesWithinQuota
  <2> SUFFICES ASSUME FullInv, SideInv PROVE WritesWithinQuota
    OBVIOUS
  <2>1. Cardinality(Owing) \in Nat
    BY FS_CardinalityType DEF FullInv, QuotaInv
  <2>2. credit >= 0
    BY <2>1, WriteLeft DEF FullInv, Inv, QuotaInv
  <2>3. Cardinality(Aside) \in Nat /\ Cardinality(Telling) \in Nat
    BY FS_CardinalityType DEF SideInv
  <2>4. extra >= 0
    BY <2>3, Cells DEF FullInv, Inv, SideInv
  <2> QED
    BY <2>2, <2>4 DEF WritesWithinQuota
<1> QED
  BY <1>1, AlwaysInv, AlwaysSides, PTL

\* A tool call that tells its caller to slow down, to fix its arguments or to
\* reconnect has not made its write, nor a part of it, for every path of every tool
\* (it may have uploaded a file, which nothing refers to).
THEOREM RefusalsWriteNothing == Spec => []RetrySafe
<1>1. FullInv => RetrySafe
  BY DEF FullInv, Inv, CallsInv, CallOK, Legal, Refusals, RetrySafe
<1> QED
  BY <1>1, AlwaysInv, PTL

\* react_to_auth_expiry and emit_write_notice: the token that a step installs is
\* the token of a call that has not met the homeserver's 401.
THEOREM EvictionsLast == Spec => EvictionNotUndone
<1> DEFINE A == entry' \notin {entry, None} =>
                  \E c \in Call : tok[c] = entry' /\ res[c] \notin {"unknown_token", "auth_expired"}
<1>1. FullInv /\ [Next]_vars => [A]_vars
  <2> SUFFICES ASSUME FullInv, Next, entry' \notin {entry, None}
               PROVE  \E c \in Call : tok[c] = entry' /\ res[c] \notin {"unknown_token", "auth_expired"}
    OBVIOUS
  <2>1. ASSUME NEW c \in Call, Notice(c) PROVE A
    <3>1. tok[c] = entry' /\ at[c] = "notice"
      BY <2>1 DEF Notice, Install
    <3>2. Legal(at[c], steps[c], tok[c], res[c], did[c])
      BY DEF FullInv, Inv, CallsInv, CallOK
    <3> QED
      BY <3>1, <3>2 DEF Legal
  <2>2. ASSUME NEW c \in Call, client_for(c) \/ client_for_fails(c) PROVE A
    <3>1. tok[c] = entry' /\ Doing(c, {"client"})
      BY <2>2 DEF client_for, client_for_fails, Install
    <3>2. res[c] = "none"
      BY <3>1, DoingFacts DEF FullInv, Inv
    <3> QED
      BY <3>1, <3>2
  <2>3. ASSUME NEW c \in Call, Body(c) PROVE A
    <3>1. \/ Notice(c) \/ client_for(c) \/ client_for_fails(c) \/ entry' \in {entry, None}
      BY <2>3 DEF Body, React, NoNotice, GateCooldown, GateBusy, ReadOk, Fails, WebRefused,
         Unauthorized, Send, SendLost, Upload, EnableRecovery, ReadPins, WritePins, FanOut, Each, send_text_to_room
    <3> QED
      BY <2>1, <2>2, <3>1
  <2>4. (\E c \in Call : Body(c)) \/ UNCHANGED entry
    BY DEF Next, CallTool, Refill, Revoke, Sync
  <2> QED
    BY <2>3, <2>4
<1> QED
  BY <1>1, AlwaysInv, PTL DEF Spec, EvictionNotUndone

==============================================================================
