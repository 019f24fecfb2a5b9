----------------------------- MODULE SetupProofs -----------------------------
(***************************************************************************)
(* Proofs about Setup and KeyBackupGate, for any number of browser         *)
(* requests, state tokens, sessions, clients, rooms and download jobs, and *)
(* any caps.                                                               *)
(***************************************************************************)
EXTENDS Setup, TLAPS, FiniteSetTheorems

USE GateAssumption, SetupAssumption

-----------------------------------------------------------------------------
(* The key backup gate *)

JobRecord == [pc : {"off", "next", "ask", "take", "pull"},
              room : KeyRoom \cup {None}, todo : SUBSET KeyRoom]

\* The jobs that hold a permit.
Pulling == {j \in Job : job[j].pc = "pull"}

GateInv ==
    /\ GateTypeOK
    /\ \A j \in Job : job[j].pc \in {"ask", "take", "pull"} => job[j].room \in KeyRoom
    /\ IsFiniteSet(Pulling)
    /\ PermitsConserved

LEMMA InitGate == GateInit => GateInv
<1> SUFFICES ASSUME GateInit PROVE GateInv
  OBVIOUS
<1>1. NoJob \in JobRecord /\ NoJob.pc = "off"
  BY DEF NoJob, JobRecord
<1>2. Pulling = {}
  BY <1>1 DEF GateInit, Pulling
<1>3. IsFiniteSet(Pulling) /\ Cardinality(Pulling) = 0
  BY <1>2, FS_EmptySet
<1>4. PermitsConserved
  BY <1>3 DEF PermitsConserved, Pulling, GateInit
<1>5. GateTypeOK
  BY <1>1 DEF GateTypeOK, GateInit, JobRecord
<1> QED
  BY <1>1, <1>3, <1>4, <1>5 DEF GateInv, GateInit

\* A step that neither takes nor returns a permit.
LEMMA GateKeeps ==
  ASSUME GateInv, NEW j \in Job, NEW n \in JobRecord, job' = [job EXCEPT ![j] = n],
         n.pc \in {"ask", "take", "pull"} => n.room \in KeyRoom,
         n.pc # "pull", job[j].pc # "pull", UNCHANGED <<permits, cooling>>
  PROVE  GateInv'
<1>1. Pulling' = Pulling
  BY DEF GateInv, GateTypeOK, Pulling
<1>2. GateTypeOK'
  BY DEF GateInv, GateTypeOK, JobRecord
<1> QED
  BY <1>1, <1>2 DEF GateInv, GateTypeOK, PermitsConserved, Pulling

\* A permit is taken.
LEMMA GateTakes ==
  ASSUME GateInv, NEW j \in Job, job[j].pc = "take", permits # 0,
         job' = [job EXCEPT ![j].pc = "pull"], permits' = permits - 1, UNCHANGED cooling
  PROVE  GateInv'
<1>1. j \notin Pulling /\ Pulling' = Pulling \cup {j}
  BY DEF GateInv, GateTypeOK, Pulling
<1>2. IsFiniteSet(Pulling) /\ Cardinality(Pulling) \in Nat
  BY FS_CardinalityType DEF GateInv
<1>3. IsFiniteSet(Pulling') /\ Cardinality(Pulling') = Cardinality(Pulling) + 1
  <2>1. /\ IsFiniteSet(Pulling \cup {j})
        /\ Cardinality(Pulling \cup {j}) = IF j \in Pulling THEN Cardinality(Pulling)
                                           ELSE Cardinality(Pulling) + 1
    BY <1>2, FS_AddElement, Zenon
  <2> QED
    BY <1>1, <2>1
<1>4. GateTypeOK'
  <2>1. [job[j] EXCEPT !.pc = "pull"] \in JobRecord
    BY DEF GateInv, GateTypeOK, JobRecord
  <2>2. job' \in [Job -> JobRecord]
    BY <2>1 DEF GateInv, GateTypeOK, JobRecord
  <2>3. permits \in 0..MaxConcurrent /\ cooling' \subseteq KeyRoom
    BY DEF GateInv, GateTypeOK
  <2>4. permits' \in 0..MaxConcurrent
    BY <2>3
  <2> QED
    BY <2>2, <2>3, <2>4, Zenon DEF GateTypeOK, JobRecord
<1>5. PermitsConserved'
  BY <1>2, <1>3 DEF GateInv, GateTypeOK, PermitsConserved, Pulling
<1> QED
  BY <1>3, <1>4, <1>5 DEF GateInv, GateTypeOK

\* A permit comes back.
LEMMA GateReturns ==
  ASSUME GateInv, NEW j \in Job, job[j].pc = "pull", GoOn(j), permits' = permits + 1,
         cooling' = cooling \/ cooling' = cooling \cup {job[j].room}
  PROVE  GateInv'
<1>1. j \in Pulling /\ Pulling' = Pulling \ {j}
  BY DEF GateInv, GateTypeOK, Pulling, GoOn
<1>2. IsFiniteSet(Pulling) /\ Cardinality(Pulling) \in Nat
  BY FS_CardinalityType DEF GateInv
<1>3. IsFiniteSet(Pulling') /\ Cardinality(Pulling') = Cardinality(Pulling) - 1
  BY <1>1, <1>2, FS_RemoveElement
<1>4. Cardinality(Pulling') \in Nat
  BY <1>3, FS_CardinalityType
<1>5. PermitsConserved' /\ permits' \in 0..MaxConcurrent
  BY <1>2, <1>3, <1>4 DEF GateInv, GateTypeOK, PermitsConserved, Pulling
<1>6. GateTypeOK'
  BY <1>5 DEF GateInv, GateTypeOK, GoOn
<1> QED
  BY <1>3, <1>5, <1>6 DEF GateInv, GateTypeOK, GoOn

LEMMA GateSteps ==
  ASSUME GateInv, NEW j \in Job, Spawn(j) \/ (\E x \in KeyRoom : PullRoom(j, x)) \/ JobStep(j)
  PROVE  GateInv'
<1> USE DEF JobRecord
<1>1. job \in [Job -> JobRecord]
  BY DEF GateInv, GateTypeOK
<1>2. ASSUME NEW R \in SUBSET KeyRoom, Free(j), job' = Spawned(j, R), UNCHANGED <<permits, cooling>>
      PROVE  GateInv'
  <2> DEFINE n == [NoJob EXCEPT !.pc = "next", !.todo = R]
  <2>1. n \in JobRecord /\ n.pc = "next" /\ job' = [job EXCEPT ![j] = n]
    BY <1>2 DEF Spawned, NoJob
  <2> QED
    BY <1>2, <2>1, GateKeeps DEF Free
<1>3. CASE NextRoom(j)
  <2>1. CASE job[j].todo = {}
    BY <1>1, <1>3, <2>1, GateKeeps DEF NextRoom, NoJob
  <2>2. CASE job[j].todo # {}
    <3>1. PICK x \in job[j].todo :
             job' = [job EXCEPT ![j] = [pc |-> "ask", room |-> x, todo |-> @.todo \ {x}]]
      BY <1>3, <2>2 DEF NextRoom
    <3> DEFINE n == [pc |-> "ask", room |-> x, todo |-> job[j].todo \ {x}]
    <3>2. n \in JobRecord /\ x \in KeyRoom /\ job' = [job EXCEPT ![j] = n]
      BY <1>1, <3>1
    <3> QED
      BY <1>3, <3>2, GateKeeps DEF NextRoom
  <2> QED
    BY <2>1, <2>2
<1>4. CASE GoOn(j) /\ job[j].pc \in {"ask", "take"} /\ UNCHANGED <<permits, cooling>>
  <2> DEFINE n == [job[j] EXCEPT !.pc = "next", !.room = None]
  <2>1. n \in JobRecord /\ n.pc = "next" /\ job' = [job EXCEPT ![j] = n]
    BY <1>1, <1>4 DEF GoOn
  <2> QED
    BY <1>4, <2>1, GateKeeps
<1>5. CASE InCooldown(j)
  <2>1. CASE job[j].room \in cooling
    BY <1>4, <1>5, <2>1 DEF InCooldown
  <2>2. CASE job[j].room \notin cooling
    <3> DEFINE n == [job[j] EXCEPT !.pc = "take"]
    <3>1. n \in JobRecord /\ n.pc = "take" /\ n.room \in KeyRoom /\ job' = [job EXCEPT ![j] = n]
      BY <1>1, <1>5, <2>2 DEF InCooldown, GateInv
    <3> QED
      BY <1>5, <3>1, GateKeeps DEF InCooldown
  <2> QED
    BY <2>1, <2>2
<1>6. CASE TryAcquire(j)
  <2>1. CASE permits = 0
    BY <1>4, <1>6, <2>1 DEF TryAcquire
  <2>2. CASE permits # 0
    BY <1>6, <2>2, GateTakes DEF TryAcquire
  <2> QED
    BY <2>1, <2>2
<1>7. CASE PullOk(j) \/ PullFails(j)
  BY <1>7, GateReturns DEF PullOk, PullFails
<1>8. CASE Spawn(j)
  BY <1>2, <1>8 DEF Spawn
<1>9. CASE \E x \in KeyRoom : PullRoom(j, x)
  BY <1>2, <1>9 DEF PullRoom
<1> QED
  BY <1>3, <1>5, <1>6, <1>7, <1>8, <1>9 DEF JobStep

LEMMA CoolingEnds ==
  ASSUME GateInv, NEW x \in KeyRoom, CooldownEnds(x)
  PROVE  GateInv'
  BY DEF GateInv, GateTypeOK, PermitsConserved, Pulling, CooldownEnds

-----------------------------------------------------------------------------
(* Requests *)

ReqPhase == {"idle", "exchange", "form", "form_whoami", "shown", "recover", "get",
             "whoami", "import", "invalidate"}

ReqRecord == [pc : ReqPhase, tok : Token \cup {None}, sid : Sid \cup {None},
              client : Client \cup {None}, late : BOOLEAN, revoked : SUBSET Client]

\* What a request at its step has, and that past whoami its client has not been
\* dead ever since it came in.
ReqOK(x) ==
    /\ x.pc = "exchange" => x.tok # None
    /\ x.pc \in {"form", "recover", "get", "whoami", "form_whoami", "import", "invalidate"}
          => x.sid # None
    /\ x.pc \in {"whoami", "form_whoami", "import", "invalidate"} => x.client \in built
    /\ x.pc \in {"shown", "import"} => x.client \notin x.revoked
    /\ x.revoked \subseteq dead

Types ==
    /\ pkce \in [Token -> Entry] /\ sess \in [Sid -> Entry]
    /\ madeBy \in [Sid -> Token \cup {None}] /\ spent \subseteq Sid
    /\ built \subseteq Client /\ cached \in built \cup {None} /\ dead \subseteq built
    /\ req \in [Req -> ReqRecord]
    /\ \A q \in Req : ReqOK(req[q])

LEMMA NoReqOK ==
  ASSUME Types
  PROVE  NoReq \in ReqRecord /\ ReqOK(NoReq) /\ NoReq.pc = "idle" /\ ~NoReq.late
  BY DEF Types, NoReq, ReqRecord, ReqPhase, ReqOK

\* Pruning and inserting keep a map a map; what is gone stays gone, and only the
\* new key may come to life.
LEMMA PrunedMap ==
  ASSUME NEW K, NEW m \in [K -> Entry]
  PROVE  /\ Pruned(m) \in [K -> Entry]
         /\ \A k \in K : Pruned(m)[k] = m[k] \/ (m[k] = "stale" /\ Pruned(m)[k] = "gone")
         /\ InMap(Pruned(m)) \subseteq InMap(m)
  BY DEF Pruned, Entry, InMap

LEMMA InsertedMap ==
  ASSUME NEW K, NEW m \in [K -> Entry], NEW k \in K, NEW max
  PROVE  /\ Inserted(m, k, max) \in [K -> Entry]
         /\ \A j \in K : m[j] = "gone" /\ j # k => Inserted(m, k, max)[j] = "gone"
  BY PrunedMap DEF Inserted, Entry

\* insert_pending_pkce, insert_pending_session: the cap holds after them.
LEMMA InsertedBounded ==
  ASSUME NEW K, NEW m \in [K -> Entry], NEW k \in K, NEW max \in Nat,
         IsFiniteSet(InMap(m)), Cardinality(InMap(m)) <= max
  PROVE  /\ IsFiniteSet(InMap(Inserted(m, k, max)))
         /\ Cardinality(InMap(Inserted(m, k, max))) <= max
<1> DEFINE room == IF Cardinality(InMap(m)) >= max THEN Pruned(m) ELSE m
<1>1. room \in [K -> Entry] /\ InMap(room) \subseteq InMap(m)
  BY PrunedMap
<1>2. /\ IsFiniteSet(InMap(room)) /\ Cardinality(InMap(room)) <= Cardinality(InMap(m))
      /\ Cardinality(InMap(m)) \in Nat /\ Cardinality(InMap(room)) \in Nat
  BY <1>1, FS_Subset, FS_CardinalityType
<1>3. CASE Cardinality(InMap(room)) >= max
  <2>1. Inserted(m, k, max) = room
    BY <1>3 DEF Inserted
  <2> QED
    BY <1>2, <2>1
<1>4. CASE Cardinality(InMap(room)) < max
  <2> HIDE DEF room
  <2> DEFINE new == [room EXCEPT ![k] = "live"]
  <2>1. InMap(new) = InMap(room) \cup {k}
    BY <1>1 DEF InMap, Entry
  <2>2. /\ IsFiniteSet(InMap(room) \cup {k})
        /\ Cardinality(InMap(room) \cup {k})
             = IF k \in InMap(room) THEN Cardinality(InMap(room))
               ELSE Cardinality(InMap(room)) + 1
    BY <1>2, FS_AddElement, Zenon
  <2>3. Inserted(m, k, max) = new
    <3>1. ~(Cardinality(InMap(room)) >= max)
      BY <1>2, <1>4
    <3> QED
      BY <3>1 DEF Inserted, room
  <2> HIDE DEF new
  <2>4. Cardinality(InMap(room) \cup {k}) <= max
    BY <1>2, <1>4, <2>2
  <2> QED
    BY <2>1, <2>2, <2>3, <2>4
<1> QED
  BY <1>2, <1>3, <1>4

\* The step of a request makes its record n.
LEMMA ReqStep ==
  ASSUME Types, NEW q \in Req, NEW n \in ReqRecord, ReqOK(n), req' = [req EXCEPT ![q] = n],
         UNCHANGED cacheVars,
         pkce' \in [Token -> Entry], sess' \in [Sid -> Entry],
         madeBy' \in [Sid -> Token \cup {None}], spent' \subseteq Sid
  PROVE  Types'
  BY DEF Types, ReqOK, cacheVars

LEMMA HandleTypes ==
  ASSUME Types, NEW q \in Req, Handle(q)
  PROVE  Types'
<1> USE DEF webVars, At, Answer, Goto
<1>0. /\ req[q] \in ReqRecord /\ ReqOK(req[q]) /\ NoReq \in ReqRecord /\ ReqOK(NoReq)
      /\ UNCHANGED cacheVars
  BY NoReqOK DEF Types, Handle, Callback, ExchangeOk, ExchangeFails, Form, Recover,
       CurrentSession, FormCached, Refuse, Contains, GetIfCached, WhoAmI, Shown, ImportOk,
       ImportFails, Invalidate
<1>1. ASSUME NEW t \in Token, Callback(q, t) PROVE Types'
  <2> DEFINE n == [req[q] EXCEPT !.pc = "exchange", !.tok = t]
  <2>1. n \in ReqRecord /\ ReqOK(n)
    BY <1>0, <1>1 DEF Callback, ReqRecord, ReqOK, ReqPhase
  <2>2. pkce' \in [Token -> Entry]
    BY <1>1, PrunedMap DEF Callback, Types, Entry
  <2>3. req' = req \/ req' = [req EXCEPT ![q] = n]
    BY <1>1 DEF Callback, Types
  <2>4. req' = [req EXCEPT ![q] = req[q]] \/ req' = [req EXCEPT ![q] = n]
    BY <2>3 DEF Types
  <2> QED
    BY <1>0, <1>1, <2>1, <2>2, <2>4, ReqStep DEF Callback, Types
<1>2. CASE ExchangeOk(q)
  <2>1. PICK s \in Sid : /\ sess' = Inserted(sess, s, MaxSessions)
                         /\ madeBy' = IF sess'[s] = "live" THEN [madeBy EXCEPT ![s] = req[q].tok]
                                      ELSE madeBy
    BY <1>2 DEF ExchangeOk
  <2>2. sess' \in [Sid -> Entry] /\ madeBy' \in [Sid -> Token \cup {None}]
    BY <1>0, <2>1, InsertedMap DEF Types, ReqRecord
  <2> QED
    BY <1>0, <1>2, <2>2, ReqStep DEF ExchangeOk, Types
<1>3. CASE ExchangeFails(q) \/ Refuse(q) \/ Shown(q) \/ ImportFails(q)
  BY <1>0, <1>3, ReqStep DEF ExchangeFails, Refuse, Shown, ImportFails, Types
<1>4. ASSUME NEW s \in Sid, NEW l \in {"form", "recover"}, CurrentSession(q, s, l) PROVE Types'
  <2> DEFINE b == s \in spent
             n == [NoReq EXCEPT !.pc = l, !.sid = s, !.late = b, !.revoked = dead]
  <2>1. n \in ReqRecord /\ ReqOK(n)
    <3>1. b \in BOOLEAN
      OBVIOUS
    <3> HIDE DEF b
    <3> QED
      BY <3>1 DEF NoReq, ReqRecord, ReqOK, ReqPhase, Types
  <2>2. sess' \in [Sid -> Entry]
    BY <1>4, PrunedMap DEF CurrentSession, Types
  <2>3. req' = [req EXCEPT ![q] = req[q]] \/ req' = [req EXCEPT ![q] = n]
    BY <1>4 DEF CurrentSession, Types
  <2> QED
    BY <1>0, <1>4, <2>1, <2>2, <2>3, ReqStep DEF CurrentSession, Types
<1>5. CASE FormCached(q)
  <2> DEFINE n == [req[q] EXCEPT !.client = cached,
                                 !.pc = IF cached = None THEN "shown" ELSE "form_whoami"]
  <2>1. n \in ReqRecord /\ ReqOK(n) /\ req' = [req EXCEPT ![q] = n]
    BY <1>0, <1>5 DEF FormCached, ReqRecord, ReqOK, ReqPhase, Types
  <2> QED
    BY <1>0, <1>5, <2>1, ReqStep DEF FormCached, Types
<1>6. CASE Contains(q) \/ GetIfCached(q)
  <2> DEFINE n == [req[q] EXCEPT !.pc = "get"]
             w == [req[q] EXCEPT !.pc = "whoami", !.client = cached]
  <2>1. CASE Contains(q) /\ cached # None
    <3>1. n \in ReqRecord /\ ReqOK(n) /\ req' = [req EXCEPT ![q] = n]
      BY <1>0, <2>1 DEF Contains, ReqRecord, ReqOK, ReqPhase, Types
    <3> QED
      BY <1>0, <2>1, <3>1, ReqStep DEF Contains, Types
  <2>2. CASE GetIfCached(q) /\ cached # None
    <3>1. w \in ReqRecord /\ ReqOK(w) /\ req' = [req EXCEPT ![q] = w]
      BY <1>0, <2>2 DEF GetIfCached, ReqRecord, ReqOK, ReqPhase, Types
    <3> QED
      BY <1>0, <2>2, <3>1, ReqStep DEF GetIfCached, Types
  <2>3. CASE cached = None
    BY <1>0, <1>6, <2>3, ReqStep DEF Contains, GetIfCached, Types
  <2> QED
    BY <1>6, <2>1, <2>2, <2>3
<1>7. CASE WhoAmI(q)
  <2>1. ASSUME NEW l \in {"import", "shown"}, req[q].pc \in {"whoami", "form_whoami"},
               Live(req[q].client), req' = [req EXCEPT ![q].pc = l]
        PROVE  Types'
    <3> DEFINE n == [req[q] EXCEPT !.pc = l]
    <3>1. n \in ReqRecord /\ ReqOK(n) /\ req' = [req EXCEPT ![q] = n]
      BY <1>0, <2>1 DEF ReqRecord, ReqOK, ReqPhase, Types, Live
    <3> QED
      BY <1>0, <1>7, <3>1, ReqStep DEF WhoAmI, Types
  <2>2. CASE req' = [req EXCEPT ![q] = NoReq]
    BY <1>0, <1>7, <2>2, ReqStep DEF WhoAmI, Types
  <2> QED
    BY <1>7, <2>1, <2>2 DEF WhoAmI
<1>8. CASE ImportOk(q)
  <2> DEFINE n == [req[q] EXCEPT !.pc = "invalidate"]
  <2>1. n \in ReqRecord /\ ReqOK(n) /\ req' = [req EXCEPT ![q] = n]
    BY <1>0, <1>8 DEF ImportOk, ReqRecord, ReqOK, ReqPhase, Types
  <2> QED
    BY <1>0, <1>8, <2>1, ReqStep DEF ImportOk, Types
<1>9. CASE Invalidate(q)
  <2>1. req[q].sid \in Sid
    BY <1>0, <1>9 DEF Invalidate, ReqRecord, ReqOK
  <2> QED
    BY <1>0, <1>9, <2>1, ReqStep DEF Invalidate, Types, Entry
<1> QED
  BY <1>1, <1>2, <1>3, <1>4, <1>5, <1>6, <1>7, <1>8, <1>9 DEF Handle, Form, Recover

\* What is left of Next: steps in which no request moves.
Elsewhere ==
    \/ Login \/ Ages \/ (\E c \in Client : Build(c) \/ Revoke(c)) \/ Evict \/ ToolPull \/ Download
    \/ UNCHANGED vars

LEMMA ElsewhereTypes ==
  ASSUME Types, Elsewhere
  PROVE  Types' /\ req' = req
<1> USE DEF webVars, cacheVars
<1>1. CASE Login
  BY <1>1, InsertedMap DEF Login, Types, ReqOK
<1>2. CASE Ages
  BY <1>2 DEF Ages, Types, ReqOK, Entry
<1>3. ASSUME NEW c \in Client, Build(c) PROVE Types' /\ req' = req
  BY <1>3 DEF Build, Types, ReqOK
<1>4. CASE Evict
  BY <1>4 DEF Evict, Types, ReqOK
<1>5. ASSUME NEW c \in Client, Revoke(c) PROVE Types' /\ req' = req
  BY <1>5 DEF Revoke, Types, ReqOK
<1>6. CASE ToolPull \/ Download
  BY <1>6 DEF ToolPull, Download, Types, ReqOK
<1>7. CASE UNCHANGED vars
  BY <1>7 DEF vars, Types, ReqOK
<1> QED
  BY <1>1, <1>2, <1>3, <1>4, <1>5, <1>6, <1>7 DEF Elsewhere

\* A tool call gives a dead client a new token: a client that has not been dead all
\* the time is one less, for every request.
LEMMA RefreshTypes ==
  ASSUME Types, NEW c \in Client, Refresh(c)
  PROVE  /\ Types' /\ UNCHANGED <<webVars, gateVars>>
         /\ \A q \in Req : /\ req'[q].pc = req[q].pc /\ req'[q].tok = req[q].tok
                           /\ req'[q].late = req[q].late
<1>1. /\ dead' = dead \ {c} /\ UNCHANGED <<cached, built, webVars, gateVars>>
      /\ req' = [q \in Req |-> [req[q] EXCEPT !.revoked = @ \ {c}]]
  BY DEF Refresh
<1>2. ASSUME NEW q \in Req
      PROVE  /\ req'[q] \in ReqRecord /\ ReqOK(req[q])'
             /\ req'[q].pc = req[q].pc /\ req'[q].tok = req[q].tok /\ req'[q].late = req[q].late
  <2>1. req[q] \in ReqRecord /\ ReqOK(req[q])
    BY DEF Types
  <2>2. req'[q] = [req[q] EXCEPT !.revoked = @ \ {c}]
    BY <1>1
  <2>3. /\ req'[q] \in ReqRecord /\ req'[q].revoked = req[q].revoked \ {c}
        /\ req'[q].pc = req[q].pc /\ req'[q].tok = req[q].tok /\ req'[q].late = req[q].late
        /\ req'[q].sid = req[q].sid /\ req'[q].client = req[q].client
    BY <2>1, <2>2 DEF ReqRecord
  <2>4. /\ req'[q].pc = "exchange" => req'[q].tok # None
        /\ req'[q].pc \in {"form", "recover", "get", "whoami", "form_whoami", "import", "invalidate"}
              => req'[q].sid # None
    BY <2>1, <2>3 DEF ReqOK
  <2>5. req'[q].pc \in {"whoami", "form_whoami", "import", "invalidate"} => req'[q].client \in built'
    BY <1>1, <2>1, <2>3 DEF ReqOK
  <2>6. req'[q].pc \in {"shown", "import"} => req'[q].client \notin req'[q].revoked
    BY <2>1, <2>3 DEF ReqOK
  <2>7. req'[q].revoked \subseteq dead'
    BY <1>1, <2>1, <2>3 DEF ReqOK
  <2>8. ReqOK(req[q])'
    BY <2>4, <2>5, <2>6, <2>7 DEF ReqOK
  <2> QED
    BY <2>3, <2>8
<1>3. req' \in [Req -> ReqRecord]
  BY <1>1, <1>2
<1> QED
  BY <1>1, <1>2, <1>3 DEF Types, webVars

LEMMA NextSplit ==
  [Next]_vars => (\E q \in Req : Handle(q)) \/ (\E c \in Client : Refresh(c)) \/ Elsewhere
  BY DEF Next, Elsewhere

LEMMA InitTypes == Init => Types
<1> SUFFICES ASSUME Init PROVE Types
  OBVIOUS
<1>1. NoReq \in ReqRecord /\ ReqOK(NoReq)
  BY DEF Init, NoReq, ReqRecord, ReqPhase, ReqOK
<1> QED
  BY <1>1 DEF Init, Types, Entry

LEMMA NextTypes == Types /\ [Next]_vars => Types'
  BY HandleTypes, RefreshTypes, ElsewhereTypes, NextSplit

\* The gate is used by the back-fill of an import and by tool calls only.
LEMMA NextGate == GateInv /\ [Next]_vars => GateInv'
<1> SUFFICES ASSUME GateInv, [Next]_vars PROVE GateInv'
  OBVIOUS
<1>1. ASSUME UNCHANGED gateVars PROVE GateInv'
  BY <1>1 DEF gateVars, GateInv, GateTypeOK, PermitsConserved, Pulling
<1>2. ASSUME NEW q \in Req, Handle(q) PROVE GateInv'
  <2>1. CASE ImportOk(q)
    BY <2>1, GateSteps DEF ImportOk
  <2>2. CASE UNCHANGED gateVars
    BY <1>1, <2>2
  <2> QED
    BY <1>2, <2>1, <2>2 DEF Handle, Callback, ExchangeOk, ExchangeFails, Form, Recover,
         CurrentSession, FormCached, Refuse, Contains, GetIfCached, WhoAmI, Shown,
         ImportFails, Invalidate
<1>3. CASE Login \/ Ages \/ (\E c \in Client : Build(c) \/ Revoke(c)) \/ Evict \/ UNCHANGED vars
  BY <1>1, <1>3 DEF Login, Ages, Build, Evict, Revoke, vars
<1>4. CASE ToolPull
  BY <1>4, GateSteps DEF ToolPull
<1>5. CASE Download
  BY <1>5, GateSteps, CoolingEnds DEF Download
<1>6. CASE \E c \in Client : Refresh(c)
  BY <1>1, <1>6 DEF Refresh
<1> QED
  BY <1>2, <1>3, <1>4, <1>5, <1>6, NextSplit DEF Elsewhere

\* The types of the setup flow and of the gate; a request has the session, the
\* token and the client its step works with.
THEOREM SetupTypes == Spec => []TypeOK
<1>1. Types /\ GateInv => TypeOK
  BY DEF Types, GateInv, TypeOK, ReqRecord, ReqOK, At
<1>2. Init => GateInv
  BY InitGate DEF Init
<1> QED
  BY <1>1, <1>2, InitTypes, NextTypes, NextGate, PTL DEF Spec

\* key_backup_gate.rs: however the downloads of back-fills and tool calls end
\* and overlap, permits and downloads in flight add up to MAX_CONCURRENT.
THEOREM PermitsAddUp == Spec => []PermitsConserved
<1>1. GateInv => PermitsConserved
  BY DEF GateInv
<1>2. Init => GateInv
  BY InitGate DEF Init
<1> QED
  BY <1>1, <1>2, NextGate, PTL DEF Spec

\* setup_gate: a client that was dead when the request came in and that no tool call
\* has refreshed since gets neither the key form nor an import.
THEOREM DeadClientsGetNoKey == Spec => []GateBeforeKey
<1>1. Types => GateBeforeKey
  BY DEF Types, ReqOK, GateBeforeKey, At
<1> QED
  BY <1>1, InitTypes, NextTypes, PTL DEF Spec

-----------------------------------------------------------------------------
(* Imported once *)

\* A session that was spent is gone, so nobody comes in with it any more.
SpentInv ==
    /\ \A s \in spent : sess[s] = "gone"
    /\ \A q \in Req : ~req[q].late

LEMMA NextSpent == Types /\ SpentInv /\ [Next]_vars => SpentInv'
<1> SUFFICES ASSUME Types, SpentInv, [Next]_vars PROVE SpentInv'
  OBVIOUS
<1> USE DEF webVars, cacheVars, At, Answer, Goto, SpentInv
<1>1. ASSUME UNCHANGED <<req, spent>>, \A s \in Sid : sess[s] = "gone" => sess'[s] = "gone"
      PROVE  SpentInv'
  BY <1>1 DEF Types
<1>2. CASE Elsewhere
  <2>1. req' = req /\ spent' = spent
    BY <1>2, ElsewhereTypes DEF Elsewhere, Login, Ages, Build, Evict, Revoke, ToolPull, Download, vars
  <2>2. \A s \in Sid : sess[s] = "gone" => sess'[s] = "gone"
    BY <1>2 DEF Types, Elsewhere, Login, Ages, Build, Evict, Revoke, ToolPull, Download, vars
  <2> QED
    BY <1>1, <2>1, <2>2
<1>3. ASSUME NEW q \in Req, Handle(q) PROVE SpentInv'
  <2>0. req \in [Req -> ReqRecord] /\ ~NoReq.late
    BY DEF Types, NoReq
  <2>1. \A p \in Req : ~req'[p].late
    <3>1. ASSUME NEW s \in Sid, NEW l, CurrentSession(q, s, l) PROVE \A p \in Req : ~req'[p].late
      <4>1. CASE sess[s] = "live"
        <5>1. s \notin spent
          BY <4>1
        <5> QED
          BY <2>0, <3>1, <4>1, <5>1 DEF CurrentSession, NoReq
      <4>2. CASE sess[s] # "live"
        BY <3>1, <4>2 DEF CurrentSession
      <4> QED
        BY <4>1, <4>2
    <3>2. CASE \/ \E t \in Token : Callback(q, t)
               \/ FormCached(q) \/ Contains(q) \/ GetIfCached(q) \/ WhoAmI(q) \/ ImportOk(q)
      BY <2>0, <3>2 DEF Callback, FormCached, Contains, GetIfCached, WhoAmI, ImportOk, ReqRecord
    <3>3. CASE ExchangeOk(q) \/ ExchangeFails(q) \/ Refuse(q) \/ Shown(q) \/ ImportFails(q) \/ Invalidate(q)
      BY <2>0, <3>3 DEF ExchangeOk, ExchangeFails, Refuse, Shown, ImportFails, Invalidate
    <3> QED
      BY <1>3, <3>1, <3>2, <3>3 DEF Handle, Form, Recover
  <2>2. \A s \in Sid : sess[s] = "gone" => sess'[s] = "gone"
    <3>1. CASE ExchangeOk(q)
      BY <3>1, InsertedMap DEF ExchangeOk, Types
    <3>2. CASE \E s \in Sid : Form(q, s) \/ Recover(q, s)
      BY <3>2, PrunedMap DEF Form, Recover, CurrentSession, Types
    <3>3. CASE Invalidate(q)
      BY <3>3 DEF Invalidate, Types
    <3>4. CASE sess' = sess
      BY <3>4
    <3> QED
      BY <1>3, <3>1, <3>2, <3>3, <3>4 DEF Handle, Callback, ExchangeFails, FormCached, Refuse,
           Contains, GetIfCached, WhoAmI, Shown, ImportOk, ImportFails
  <2>3. CASE Invalidate(q)
    <3>1. /\ req[q].sid \in Sid /\ spent' = spent \cup {req[q].sid}
          /\ sess'[req[q].sid] = "gone"
      BY <2>3 DEF Invalidate, Types, ReqRecord, ReqOK
    <3> QED
      BY <2>1, <2>2, <3>1 DEF Types
  <2>4. CASE spent' = spent
    BY <2>1, <2>2, <2>4 DEF Types
  <2> QED
    BY <1>3, <2>3, <2>4 DEF Handle, Callback, ExchangeOk, ExchangeFails, Form, Recover,
         CurrentSession, FormCached, Refuse, Contains, GetIfCached, WhoAmI, Shown, ImportOk,
         ImportFails
<1>4. ASSUME NEW c \in Client, Refresh(c) PROVE SpentInv'
  BY <1>4, RefreshTypes
<1> QED
  BY <1>2, <1>3, <1>4, NextSplit

\* /setup/recover: no reload repeats an import that was answered with success.
THEOREM ImportsAreNotRepeated == Spec => []SpentNotReused
<1>1. Init => SpentInv
  BY DEF Init, SpentInv, NoReq
<1>2. SpentInv => SpentNotReused
  BY DEF SpentInv, SpentNotReused
<1> QED
  BY <1>1, <1>2, InitTypes, NextTypes, NextSpent, PTL DEF Spec

-----------------------------------------------------------------------------
(* The caps *)

Bounded(m, max) == IsFiniteSet(InMap(m)) /\ Cardinality(InMap(m)) <= max

BoundInv == Bounded(pkce, MaxPkce) /\ Bounded(sess, MaxSessions)

\* A map that nothing comes to life in stays bounded.
LEMMA BoundedShrinks ==
  ASSUME NEW K, NEW m \in [K -> Entry], NEW n \in [K -> Entry], NEW max \in Nat,
         Bounded(m, max), \A k \in K : n[k] \in {"live", "stale"} => m[k] \in {"live", "stale"}
  PROVE  Bounded(n, max)
<1>1. InMap(n) \subseteq InMap(m)
  BY DEF InMap
<1>2. IsFiniteSet(InMap(n)) /\ Cardinality(InMap(n)) <= Cardinality(InMap(m))
  BY <1>1, FS_Subset DEF Bounded
<1>3. Cardinality(InMap(n)) \in Nat /\ Cardinality(InMap(m)) \in Nat
  BY <1>2, FS_CardinalityType DEF Bounded
<1> QED
  BY <1>2, <1>3 DEF Bounded

LEMMA NextBounded == Types /\ BoundInv /\ [Next]_vars => BoundInv'
<1> SUFFICES ASSUME Types, BoundInv, [Next]_vars PROVE BoundInv'
  OBVIOUS
<1> USE DEF webVars
<1>0. /\ pkce \in [Token -> Entry] /\ sess \in [Sid -> Entry]
      /\ pkce' \in [Token -> Entry] /\ sess' \in [Sid -> Entry]
  BY NextTypes DEF Types
<1>1. ASSUME \A t \in Token : pkce'[t] \in {"live", "stale"} => pkce[t] \in {"live", "stale"}
      PROVE  Bounded(pkce', MaxPkce)
  BY <1>0, <1>1, BoundedShrinks DEF BoundInv
<1>2. ASSUME \A s \in Sid : sess'[s] \in {"live", "stale"} => sess[s] \in {"live", "stale"}
      PROVE  Bounded(sess', MaxSessions)
  BY <1>0, <1>2, BoundedShrinks DEF BoundInv
<1>3. CASE Login
  <2>1. Bounded(pkce', MaxPkce)
    BY <1>0, <1>3, InsertedBounded DEF Login, Bounded, BoundInv
  <2> QED
    BY <1>2, <1>3, <2>1 DEF Login, BoundInv, Bounded
<1>4. CASE Ages
  BY <1>0, <1>1, <1>2, <1>4 DEF Ages, BoundInv, Bounded
<1>5. CASE \/ (\E c \in Client : Build(c) \/ Revoke(c)) \/ Evict \/ ToolPull \/ Download
           \/ UNCHANGED vars
  BY <1>1, <1>2, <1>5 DEF Build, Evict, Revoke, ToolPull, Download, vars, BoundInv, Bounded
<1>6. ASSUME NEW q \in Req, Handle(q) PROVE BoundInv'
  <2>1. CASE ExchangeOk(q)
    <3>1. Bounded(sess', MaxSessions)
      BY <1>0, <2>1, InsertedBounded DEF ExchangeOk, Bounded, BoundInv
    <3> QED
      BY <1>1, <2>1, <3>1 DEF ExchangeOk, BoundInv, Bounded
  <2>2. ASSUME NEW t \in Token, Callback(q, t) PROVE BoundInv'
    <3>1. \A u \in Token : pkce'[u] \in {"live", "stale"} => pkce[u] \in {"live", "stale"}
      BY <1>0, <2>2, PrunedMap DEF Callback
    <3> QED
      BY <1>1, <1>2, <2>2, <3>1 DEF Callback, BoundInv, Bounded
  <2>3. ASSUME NEW s \in Sid, NEW l, CurrentSession(q, s, l) PROVE BoundInv'
    <3>1. \A u \in Sid : sess'[u] \in {"live", "stale"} => sess[u] \in {"live", "stale"}
      BY <1>0, <2>3, PrunedMap DEF CurrentSession
    <3> QED
      BY <1>1, <1>2, <2>3, <3>1 DEF CurrentSession, BoundInv, Bounded
  <2>4. CASE Invalidate(q)
    BY <1>0, <1>1, <1>2, <2>4 DEF Invalidate, BoundInv, Bounded
  <2>5. CASE pkce' = pkce /\ sess' = sess
    BY <1>1, <1>2, <2>5 DEF BoundInv, Bounded
  <2> QED
    BY <1>6, <2>1, <2>2, <2>3, <2>4, <2>5 DEF Handle, ExchangeFails, Form, Recover, FormCached,
         Refuse, Contains, GetIfCached, WhoAmI, Shown, ImportOk, ImportFails
<1>7. ASSUME NEW c \in Client, Refresh(c) PROVE BoundInv'
  BY <1>1, <1>2, <1>7 DEF Refresh, BoundInv, Bounded
<1> QED
  BY <1>3, <1>4, <1>5, <1>6, <1>7, NextSplit DEF Elsewhere

\* insert_pending_pkce, insert_pending_session: neither map of the public
\* endpoint ever holds more than its cap.
THEOREM CapsHold == Spec => []MapsBounded
<1>1. Init => BoundInv
  <2> SUFFICES ASSUME Init PROVE BoundInv
    OBVIOUS
  <2>1. InMap(pkce) = {} /\ InMap(sess) = {}
    BY DEF Init, InMap
  <2> QED
    BY <2>1, FS_EmptySet DEF BoundInv, Bounded
<1>2. BoundInv => MapsBounded
  BY DEF BoundInv, Bounded, MapsBounded
<1> QED
  BY <1>1, <1>2, InitTypes, NextTypes, NextBounded, PTL DEF Spec

-----------------------------------------------------------------------------
(* One session per sign-in *)

\* A state token is gone from its map once a callback has taken it; from then on
\* it belongs to one request, and then to one session.
LoginInv ==
    /\ OneSessionPerLogin
    /\ \A s \in Sid : madeBy[s] # None => pkce[madeBy[s]] = "gone"
    /\ \A q \in Req : At(q, "exchange") =>
         /\ pkce[req[q].tok] = "gone"
         /\ \A s \in Sid : madeBy[s] # req[q].tok
    /\ \A p, q \in Req :
         At(p, "exchange") /\ At(q, "exchange") /\ req[p].tok = req[q].tok => p = q

\* A step that takes up no state token and makes no session.
LEMMA LoginStays ==
  ASSUME Types, LoginInv, UNCHANGED madeBy,
         \A t \in Token : pkce[t] = "gone" => pkce'[t] = "gone",
         \A q \in Req : req'[q].pc = "exchange" =>
            req[q].pc = "exchange" /\ req'[q].tok = req[q].tok
  PROVE  LoginInv'
<1>1. \A q \in Req : At(q, "exchange") => req[q].tok \in Token
  BY DEF Types, ReqOK, ReqRecord, At
<1> QED
  BY <1>1 DEF LoginInv, OneSessionPerLogin, At, Types

LEMMA NextLogin == Types /\ LoginInv /\ [Next]_vars => LoginInv'
<1> SUFFICES ASSUME Types, LoginInv, [Next]_vars PROVE LoginInv'
  OBVIOUS
<1> USE DEF webVars, Answer, Goto
<1>0. /\ pkce \in [Token -> Entry] /\ req \in [Req -> ReqRecord] /\ NoReq.pc = "idle"
      /\ \A q \in Req : At(q, "exchange") => req[q].tok \in Token
  BY DEF Types, ReqOK, ReqRecord, At, NoReq
<1>1. CASE Elsewhere
  <2>1. \A t \in Token : pkce[t] = "gone" => pkce'[t] = "gone"
    <3>1. CASE Login
      BY <1>0, <3>1, InsertedMap DEF Login
    <3>2. CASE ~Login
      BY <1>0, <1>1, <3>2 DEF Elsewhere, Ages, Build, Evict, Revoke, ToolPull, Download, vars
    <3> QED
      BY <3>1, <3>2
  <2>2. UNCHANGED <<req, madeBy>>
    BY <1>1 DEF Elsewhere, Login, Ages, Build, Evict, Revoke, ToolPull, Download, vars
  <2> QED
    BY <2>1, <2>2, LoginStays
<1>2. ASSUME NEW q \in Req, NEW t \in Token, Callback(q, t) PROVE LoginInv'
  <2>1. \A u \in Token : pkce[u] = "gone" => pkce'[u] = "gone"
    BY <1>0, <1>2, PrunedMap DEF Callback
  <2>2. CASE Pruned(pkce)[t] = "live"
    <3>1. pkce[t] # "gone" /\ pkce'[t] = "gone"
      BY <1>0, <1>2, <2>2, PrunedMap DEF Callback
    <3>2. /\ req'[q].pc = "exchange" /\ req'[q].tok = t
          /\ \A p \in Req \ {q} : req'[p] = req[p]
          /\ madeBy' = madeBy
      BY <1>0, <1>2, <2>2 DEF Callback, ReqRecord
    <3>3. /\ \A s \in Sid : madeBy[s] # t
          /\ \A p \in Req : At(p, "exchange") => req[p].tok # t
      BY <3>1 DEF LoginInv, Types
    <3> QED
      BY <1>0, <2>1, <3>1, <3>2, <3>3 DEF LoginInv, OneSessionPerLogin, At, Types
  <2>3. CASE Pruned(pkce)[t] # "live"
    BY <1>2, <2>1, <2>3, LoginStays DEF Callback
  <2> QED
    BY <2>2, <2>3
<1>3. ASSUME NEW q \in Req, ExchangeOk(q) PROVE LoginInv'
  <2>1. PICK s \in Sid : madeBy' = IF sess'[s] = "live" THEN [madeBy EXCEPT ![s] = req[q].tok]
                                   ELSE madeBy
    BY <1>3 DEF ExchangeOk
  <2>2. /\ At(q, "exchange") /\ pkce' = pkce
        /\ \A p \in Req : req'[p].pc = "exchange" => req'[p] = req[p] /\ p # q
    BY <1>0, <1>3 DEF ExchangeOk, At
  <2>3. CASE sess'[s] = "live"
    <3>1. madeBy' = [madeBy EXCEPT ![s] = req[q].tok] /\ req[q].tok \in Token
      BY <1>0, <2>1, <2>2, <2>3
    <3> QED
      BY <1>0, <2>2, <3>1 DEF LoginInv, OneSessionPerLogin, At, Types
  <2>4. CASE sess'[s] # "live"
    BY <2>1, <2>2, <2>4, LoginStays
  <2> QED
    BY <2>3, <2>4
<1>4. ASSUME NEW q \in Req, Handle(q), ~ExchangeOk(q), \A t \in Token : ~Callback(q, t)
      PROVE  LoginInv'
  <2>1. UNCHANGED <<pkce, madeBy>>
    BY <1>4 DEF Handle, ExchangeFails, Form, Recover, CurrentSession, FormCached, Refuse,
         Contains, GetIfCached, WhoAmI, Shown, ImportOk, ImportFails, Invalidate
  <2>2. \A p \in Req : req'[p].pc = "exchange" => req'[p] = req[p]
    <3>1. ASSUME NEW s \in Sid, NEW l \in {"form", "recover"}, CurrentSession(q, s, l)
          PROVE  \A p \in Req : req'[p].pc = "exchange" => req'[p] = req[p]
      <4> DEFINE x == [NoReq EXCEPT !.pc = l, !.sid = s,
                                    !.late = s \in spent, !.revoked = dead]
      <4>1. x.pc # "exchange"
        BY <3>1 DEF NoReq
      <4>2. req' = req \/ req' = [req EXCEPT ![q] = x]
        BY <3>1 DEF CurrentSession
      <4> HIDE DEF x
      <4> QED
        BY <1>0, <4>1, <4>2
    <3>2. CASE FormCached(q) \/ Contains(q) \/ GetIfCached(q) \/ WhoAmI(q) \/ ImportOk(q)
      <4>1. CASE FormCached(q)
        BY <1>0, <4>1 DEF FormCached, ReqRecord
      <4>2. CASE Contains(q)
        BY <1>0, <4>2 DEF Contains, ReqRecord
      <4>3. CASE GetIfCached(q)
        BY <1>0, <4>3 DEF GetIfCached, ReqRecord
      <4>4. CASE WhoAmI(q)
        BY <1>0, <4>4 DEF WhoAmI, ReqRecord
      <4>5. CASE ImportOk(q)
        BY <1>0, <4>5 DEF ImportOk, ReqRecord
      <4> QED
        BY <3>2, <4>1, <4>2, <4>3, <4>4, <4>5
    <3>3. CASE ExchangeFails(q) \/ Refuse(q) \/ Shown(q) \/ ImportFails(q) \/ Invalidate(q)
      BY <1>0, <3>3 DEF ExchangeFails, Refuse, Shown, ImportFails, Invalidate
    <3> QED
      BY <1>4, <3>1, <3>2, <3>3 DEF Handle, Form, Recover
  <2> QED
    BY <2>1, <2>2, LoginStays
<1>5. ASSUME NEW c \in Client, Refresh(c) PROVE LoginInv'
  BY <1>5, RefreshTypes, LoginStays
<1> QED
  BY <1>1, <1>2, <1>3, <1>4, <1>5, NextSplit

\* GET /setup/callback: a sign-in makes one session, however often and however
\* concurrently its callback is repeated.
THEOREM LoginsMakeOneSession == Spec => []OneSessionPerLogin
<1>1. Init => LoginInv
  BY DEF Init, LoginInv, OneSessionPerLogin, At, NoReq
<1>2. LoginInv => OneSessionPerLogin
  BY DEF LoginInv
<1> QED
  BY <1>1, <1>2, InitTypes, NextTypes, NextLogin, PTL DEF Spec

==============================================================================
