------------------------ MODULE PermissionRelayProofs ------------------------
(***************************************************************************)
(* Proofs about PermissionRelay, for any number of accounts, sessions,     *)
(* handshakes, tasks, rooms, senders and prompts, and any configs, TTLs    *)
(* and cap.                                                                *)
(***************************************************************************)
EXTENDS PermissionRelay, TLAPS, FiniteSetTheorems

USE PeerAssumption, RelayAssumption

-----------------------------------------------------------------------------
(* The peers *)

\* A peer is under the key and the account of its handshake.
MapInv ==
    /\ peers \in [Mxid -> [Key -> Peer \cup {None}]]
    /\ attached \subseteq Peer
    /\ \A m \in Mxid, k \in Key :
         peers[m][k] # None => KeyOf[peers[m][k]] = k /\ OwnerOf[k] = m

LEMMA LoseMap ==
  ASSUME MapInv, NEW m \in Mxid, Lose(m)
  PROVE  MapInv'
<1>1. PICK K \in SUBSET Key : peers' = [peers EXCEPT ![m] = Without(m, K)]
  BY DEF Lose
<1>2. /\ Without(m, K) \in [Key -> Peer \cup {None}]
      /\ \A k \in Key : Without(m, K)[k] # None => Without(m, K)[k] = peers[m][k]
  BY DEF MapInv, Without
<1> QED
  BY <1>1, <1>2 DEF MapInv, Lose

LEMMA AttachMap ==
  ASSUME MapInv, NEW p \in Peer, Attach(p)
  PROVE  MapInv'
<1> DEFINE m == MxidOf(p)
<1>0. m \in Mxid /\ KeyOf[p] \in Key /\ p # None /\ OwnerOf[KeyOf[p]] = m
  BY DEF MxidOf
<1>1. PICK K \in SUBSET Key :
        peers' = [peers EXCEPT ![m] = [Without(m, K) EXCEPT ![KeyOf[p]] = p]]
  BY DEF Attach
<1> HIDE DEF m
<1>2. /\ Without(m, K) \in [Key -> Peer \cup {None}]
      /\ \A k \in Key : Without(m, K)[k] # None => Without(m, K)[k] = peers[m][k]
  BY <1>0 DEF MapInv, Without
<1>3. peers' \in [Mxid -> [Key -> Peer \cup {None}]]
  BY <1>0, <1>1, <1>2 DEF MapInv
<1>4. \A n \in Mxid, k \in Key :
        peers'[n][k] # None => KeyOf[peers'[n][k]] = k /\ OwnerOf[k] = n
  BY <1>0, <1>1, <1>2 DEF MapInv
<1> QED
  BY <1>3, <1>4 DEF MapInv, Attach

-----------------------------------------------------------------------------
(* What the account data is known to have said *)

\* A config of account m that its account data has had, or the empty default.
ConfOK(c, m) == c \in Config /\ c.allowed \subseteq trusted[m] /\ c.room \in named[m] \cup {None}

\* A message that the gate has let through.
Cleared(j) == j.sender \in trusted[j.mxid] \ {j.mxid}

\* Where a prompt may go.
Addressed(j) == j.room \in named[j.mxid] \/ Cleared(j)

MatrixInv ==
    /\ account \in [Mxid -> Config]
    /\ joined \in [Mxid -> SUBSET Room]
    /\ edits \in 0..MaxEdits
    /\ named \in [Mxid -> SUBSET Room]
    /\ trusted \in [Mxid -> SUBSET Sender]
    /\ \A m \in Mxid : ConfOK(account[m], m)

CacheInv ==
    /\ cached \in [Mxid -> Config \cup {None}]
    /\ age \in [Mxid -> 0..AllowlistTtl]
    /\ \A m \in Mxid : cached[m] # None => ConfOK(cached[m], m)

RoomInv ==
    /\ lastRoom \in [Mxid -> Room \cup {None}]
    /\ lastBy \in [Mxid -> Sender \cup {None}]
    /\ \A m \in Mxid : lastRoom[m] # None => lastBy[m] \in trusted[m] \ {m}

PromptTypes ==
    /\ DOMAIN pending \subseteq Mxid \X RequestId
    /\ \A k \in DOMAIN pending : pending[k] \in Prompt
    /\ serial \in 0..MaxPrompts
    /\ open \subseteq [key : Mxid \X RequestId, serial : 1..serial]

TaskTypes ==
    /\ pc \in [Task -> Phase]
    /\ job \in [Task -> Job]
    /\ quiet \in [Task -> BOOLEAN]
    /\ conf \in [Task -> Config]
    /\ found \in [Task -> 0..serial]
    /\ peer \in [Task -> Peer \cup {None}]

\* What a task at step p has (its job j, config c and peer e), and what the steps
\* before have made sure of. A job with a session key is a session's request.
Fits(p, j, c, e) ==
    /\ p # "idle" => j.mxid \in Mxid
    /\ p \in {"config", "fetch", "store"} =>
         IF j.key # None THEN j.id \in RequestId ELSE j.id \in Text /\ j.sender # j.mxid
    /\ p = "outstanding" => j.key = None /\ j.id \in Text
    /\ p = "store" => ConfOK(c, j.mxid)
    /\ p \in {"lastroom", "record"} => j.key # None /\ j.id \in RequestId
    /\ p \in {"record", "prompt"} => Addressed(j)
    /\ p \in {"lookup", "peer", "send", "retire"} => j.id \in RequestId
    /\ p \in {"peer", "send", "retire"} => j.key # None
    /\ p \in {"lookup", "peer", "send", "retire", "remember", "notify"} => Cleared(j)
    /\ p = "send" => KeyOf[e] = j.key /\ MxidOf(e) = j.mxid

TaskOK(t) == Fits(pc[t], job[t], conf[t], peer[t])

Inv ==
    /\ MapInv /\ MatrixInv /\ CacheInv /\ RoomInv /\ PromptTypes /\ TaskTypes
    /\ \A t \in Task : TaskOK(t)

LEMMA Constants ==
  /\ NoConfig \in Config /\ NoJob \in Job /\ NoJob.key = None
  /\ \A m \in Mxid : MatrixInv => ConfOK(NoConfig, m)
  /\ \A j \in Job : j.key # None => j.key \in Key
  BY DEF NoConfig, Config, NoJob, Job, MatrixInv, ConfOK

LEMMA InitInv == Init => Inv
<1> SUFFICES ASSUME Init PROVE Inv
  OBVIOUS
<1>1. MapInv
  BY DEF Init, MapInit, MapInv
<1>2. MatrixInv
  <2>1. account \in [Mxid -> Config]
    BY DEF Init
  <2> QED
    BY <2>1 DEF Init, MatrixInv, ConfOK, Config
<1>3. CacheInv /\ RoomInv
  BY DEF Init, CacheInv, RoomInv
<1>4. PromptTypes
  BY DEF Init, PromptTypes
<1>5. TaskTypes /\ \A t \in Task : TaskOK(t)
  BY Constants DEF Init, TaskTypes, TaskOK, Fits, Phase
<1> QED
  BY <1>1, <1>2, <1>3, <1>4, <1>5 DEF Inv

-----------------------------------------------------------------------------
(* The steps of a task *)

TasksOK == TaskTypes /\ \A t \in Task : TaskOK(t)

\* A task moves to step p with new locals; the others stay where they are.
LEMMA TaskStep ==
  ASSUME Inv, NEW t \in Task, NEW p \in Phase, NEW j \in Job, NEW b \in BOOLEAN,
         NEW c \in Config, NEW f \in 0..serial', NEW e \in Peer \cup {None},
         pc' = [pc EXCEPT ![t] = p], job' = [job EXCEPT ![t] = j],
         quiet' = [quiet EXCEPT ![t] = b], conf' = [conf EXCEPT ![t] = c],
         found' = [found EXCEPT ![t] = f], peer' = [peer EXCEPT ![t] = e],
         UNCHANGED <<named, trusted>>, serial' \in Nat, serial <= serial',
         Fits(p, j, c, e)
  PROVE  TasksOK'
<1>1. TaskTypes'
  BY DEF Inv, TaskTypes, PromptTypes
<1>2. ASSUME NEW u \in Task PROVE TaskOK(u)'
  <2>1. Fits(pc'[u], job'[u], conf'[u], peer'[u])
    BY DEF Inv, TaskTypes, TaskOK
  <2> QED
    BY <2>1 DEF TaskOK, Fits, ConfOK, Addressed, Cleared
<1> QED
  BY <1>1, <1>2 DEF TasksOK

\* The same, from the locals after the step.
LEMMA TaskMoves ==
  ASSUME Inv, NEW t \in Task, TaskTypes', UNCHANGED <<named, trusted>>,
         \A u \in Task \ {t} : /\ pc'[u] = pc[u] /\ job'[u] = job[u]
                               /\ conf'[u] = conf[u] /\ peer'[u] = peer[u],
         Fits(pc'[t], job'[t], conf'[t], peer'[t])
  PROVE  TasksOK'
<1>1. ASSUME NEW u \in Task PROVE TaskOK(u)'
  <2>1. Fits(pc'[u], job'[u], conf'[u], peer'[u])
    BY DEF Inv, TaskOK
  <2> QED
    BY <2>1 DEF TaskOK, Fits, ConfOK, Addressed, Cleared
<1> QED
  BY <1>1 DEF TasksOK

\* The locals of a task, and what leaving them alone is.
LEMMA Locals ==
  ASSUME Inv, NEW t \in Task
  PROVE  /\ pc[t] \in Phase /\ job[t] \in Job /\ quiet[t] \in BOOLEAN /\ conf[t] \in Config
         /\ found[t] \in 0..serial /\ peer[t] \in Peer \cup {None} /\ serial \in Nat
         /\ Fits(pc[t], job[t], conf[t], peer[t])
         /\ job = [job EXCEPT ![t] = job[t]] /\ quiet = [quiet EXCEPT ![t] = quiet[t]]
         /\ conf = [conf EXCEPT ![t] = conf[t]] /\ found = [found EXCEPT ![t] = found[t]]
         /\ peer = [peer EXCEPT ![t] = peer[t]]
         /\ pc[t] # "idle" => job[t].mxid \in Mxid
<1>1. /\ pc[t] \in Phase /\ job[t] \in Job /\ quiet[t] \in BOOLEAN /\ conf[t] \in Config
      /\ found[t] \in 0..serial /\ peer[t] \in Peer \cup {None} /\ serial \in Nat
  BY DEF Inv, TaskTypes, PromptTypes
<1>2. /\ job = [job EXCEPT ![t] = job[t]] /\ quiet = [quiet EXCEPT ![t] = quiet[t]]
      /\ conf = [conf EXCEPT ![t] = conf[t]] /\ found = [found EXCEPT ![t] = found[t]]
      /\ peer = [peer EXCEPT ![t] = peer[t]]
  BY DEF Inv, TaskTypes
<1>3. Fits(pc[t], job[t], conf[t], peer[t])
  BY DEF Inv, TaskOK
<1>4. pc[t] # "idle" => job[t].mxid \in Mxid
  BY <1>3 DEF Fits
<1> QED
  BY <1>1, <1>2, <1>3, <1>4

LEMMA ReturnStep ==
  ASSUME Inv, NEW t \in Task, Return(t), UNCHANGED <<named, trusted, serial>>
  PROVE  TasksOK'
<1>1. Fits("idle", NoJob, NoConfig, None) /\ "idle" \in Phase
  BY DEF Fits, Phase
<1>2. serial' \in Nat /\ serial <= serial' /\ 0 \in 0..serial'
  BY Locals
<1>3. FALSE \in BOOLEAN /\ None \in Peer \cup {None} /\ NoJob \in Job /\ NoConfig \in Config
  BY Constants
<1>4. /\ pc' = [pc EXCEPT ![t] = "idle"] /\ job' = [job EXCEPT ![t] = NoJob]
      /\ quiet' = [quiet EXCEPT ![t] = FALSE] /\ conf' = [conf EXCEPT ![t] = NoConfig]
      /\ found' = [found EXCEPT ![t] = 0] /\ peer' = [peer EXCEPT ![t] = None]
  BY DEF Return, Goto
<1> QED
  BY <1>1, <1>2, <1>3, <1>4, TaskStep

LEMMA StayStep ==
  ASSUME Inv, NEW t \in Task, NEW p \in Phase, Stay(t, p), UNCHANGED <<named, trusted, serial>>,
         Fits(p, job[t], conf[t], peer[t])
  PROVE  TasksOK'
<1>1. /\ job' = [job EXCEPT ![t] = job[t]] /\ quiet' = [quiet EXCEPT ![t] = quiet[t]]
      /\ conf' = [conf EXCEPT ![t] = conf[t]] /\ found' = [found EXCEPT ![t] = found[t]]
      /\ peer' = [peer EXCEPT ![t] = peer[t]] /\ pc' = [pc EXCEPT ![t] = p]
      /\ serial' \in Nat /\ serial <= serial' /\ found[t] \in 0..serial'
  BY Locals DEF Stay, Goto
<1> QED
  BY <1>1, TaskStep, Locals

\* config: with a config that the account data has had, or the default one, a
\* handler goes on only where it may.
LEMMA ProceedStep ==
  ASSUME Inv, NEW t \in Task, pc[t] \in {"config", "store"}, NEW c, ConfOK(c, job[t].mxid),
         Proceed(t, c), UNCHANGED <<named, trusted, serial>>
  PROVE  TasksOK'
<1>1. CASE Stops(t, c)
  BY <1>1, ReturnStep DEF Proceed
<1>2. CASE ~Stops(t, c)
  <2>0. Continue(t, c)
    BY <1>2 DEF Proceed
  <2>1. /\ conf' = [conf EXCEPT ![t] = NoConfig] /\ quiet' = [quiet EXCEPT ![t] = FALSE]
        /\ found' = [found EXCEPT ![t] = found[t]] /\ peer' = [peer EXCEPT ![t] = peer[t]]
        /\ serial' \in Nat /\ serial <= serial' /\ found[t] \in 0..serial'
    BY <2>0, Locals DEF Continue
  <2>2. Fits(pc[t], job[t], conf[t], peer[t]) /\ job[t] \in Job
    BY Locals
  <2>3. CASE IsAsk(t)
    <3> DEFINE j == [job[t] EXCEPT !.room = c.room]
               p == IF c.room = None THEN "lastroom" ELSE "record"
    <3>1. /\ j \in Job /\ j.mxid = job[t].mxid /\ j.id = job[t].id /\ j.key = job[t].key
          /\ j.room = c.room
      BY <2>2 DEF Job, ConfOK, Config
    <3>2. job' = [job EXCEPT ![t] = j] /\ pc' = [pc EXCEPT ![t] = p] /\ p \in Phase
      BY <2>0, <2>3 DEF Continue, Goto, Phase, Inv, TaskTypes
    <3> HIDE DEF j
    <3>3. Fits(p, j, NoConfig, peer[t])
      BY <2>2, <2>3, <3>1 DEF Fits, IsAsk, Addressed, ConfOK
    <3> QED
      BY <2>1, <3>1, <3>2, <3>3, TaskStep, Constants, Locals
  <2>4. CASE ~IsAsk(t)
    <3> DEFINE p == CASE job[t].id \in RequestId  -> "lookup"
                      [] job[t].id = "reaction"  -> "notify"
                      [] OTHER                   -> "remember"
    <3>1. job' = [job EXCEPT ![t] = job[t]] /\ pc' = [pc EXCEPT ![t] = p]
      BY <2>0, <2>4, Locals DEF Continue, Goto
    <3>2. \/ job[t].id \in RequestId /\ p = "lookup"
          \/ job[t].id \notin RequestId /\ p \in {"notify", "remember"}
      BY DEF Text
    <3>3. Cleared(job[t])
      BY <1>2, <2>2, <2>4 DEF Stops, Fits, IsAsk, Cleared, ConfOK
    <3> HIDE DEF p
    <3>4. Fits(p, job[t], NoConfig, peer[t]) /\ p \in Phase
      BY <2>2, <3>2, <3>3 DEF Fits, Phase
    <3> QED
      BY <2>1, <2>2, <3>1, <3>4, TaskStep, Constants, Locals
  <2> QED
    BY <2>3, <2>4
<1> QED
  BY <1>1, <1>2

-----------------------------------------------------------------------------
(* The actions *)

\* What a step leaves alone stays as it should be.
LEMMA Kept ==
  ASSUME Inv
  PROVE  /\ UNCHANGED mapVars => MapInv'
         /\ UNCHANGED matrixVars => MatrixInv'
         /\ UNCHANGED <<named, trusted, cacheVars>> => CacheInv'
         /\ UNCHANGED <<named, trusted, roomVars>> => RoomInv'
         /\ UNCHANGED promptVars => PromptTypes'
<1>1. UNCHANGED mapVars => MapInv'
  BY DEF Inv, MapInv, mapVars
<1>2. UNCHANGED matrixVars => MatrixInv'
  BY DEF Inv, MatrixInv, ConfOK, matrixVars
<1>3. UNCHANGED <<named, trusted, cacheVars>> => CacheInv'
  BY DEF Inv, CacheInv, ConfOK, cacheVars
<1>4. UNCHANGED <<named, trusted, roomVars>> => RoomInv'
  BY DEF Inv, RoomInv, roomVars
<1>5. UNCHANGED promptVars => PromptTypes'
  BY DEF Inv, PromptTypes, Prompt, promptVars
<1> QED
  BY <1>1, <1>2, <1>3, <1>4, <1>5

\* A step of a task that changes its locals only.
LEMMA LocalStep ==
  ASSUME Inv, TasksOK', UNCHANGED <<mapVars, matrixVars, cacheVars, roomVars, promptVars>>
  PROVE  Inv'
<1>1. MapInv' /\ MatrixInv' /\ CacheInv' /\ RoomInv' /\ PromptTypes'
  BY Kept DEF matrixVars
<1> QED
  BY <1>1 DEF Inv, TasksOK

LEMMA ConfigSteps ==
  ASSUME Inv, NEW t \in Task,
         ConfigCached(t) \/ ConfigMiss(t) \/ FetchOk(t) \/ FetchFails(t)
  PROVE  Inv'
<1>0. UNCHANGED <<mapVars, matrixVars, cacheVars, roomVars, promptVars>>
  BY DEF ConfigCached, ConfigMiss, FetchOk, FetchFails
<1>1. UNCHANGED <<named, trusted, serial>>
  BY <1>0 DEF matrixVars, promptVars
<1> DEFINE m == job[t].mxid
<1>2. m \in Mxid /\ Fits(pc[t], job[t], conf[t], peer[t])
  BY Locals DEF ConfigCached, ConfigMiss, FetchOk, FetchFails
<1>3. CASE ConfigCached(t)
  <2>1. ConfOK(cached[m], m) /\ pc[t] = "config" /\ Proceed(t, cached[m])
    BY <1>2, <1>3 DEF ConfigCached, Inv, CacheInv
  <2> QED
    BY <1>0, <1>1, <2>1, ProceedStep, LocalStep
<1>4. CASE ConfigMiss(t)
  <2>1. Fits("fetch", job[t], conf[t], peer[t]) /\ "fetch" \in Phase /\ Stay(t, "fetch")
    BY <1>2, <1>4 DEF ConfigMiss, Fits, Phase
  <2> QED
    BY <1>0, <1>1, <2>1, StayStep, LocalStep
<1>5. ASSUME NEW c \in Config, ConfOK(c, m), pc[t] = "fetch", Goto(t, "store"),
             conf' = [conf EXCEPT ![t] = c], UNCHANGED <<job, quiet, found, peer>>
      PROVE  Inv'
  <2>1. Fits("store", job[t], c, peer[t]) /\ "store" \in Phase
    BY <1>2, <1>5 DEF Fits, Phase
  <2>2. /\ TaskTypes' /\ pc'[t] = "store" /\ job'[t] = job[t] /\ conf'[t] = c
        /\ peer'[t] = peer[t]
        /\ \A u \in Task \ {t} : /\ pc'[u] = pc[u] /\ job'[u] = job[u]
                               /\ conf'[u] = conf[u] /\ peer'[u] = peer[u]
    BY <1>1, <1>5, <2>1 DEF Inv, TaskTypes, Goto
  <2>3. TasksOK'
    BY <1>1, <2>1, <2>2, TaskMoves
  <2> QED
    BY <1>0, <2>3, LocalStep
<1>6. CASE FetchOk(t)
  <2>1. account[m] \in Config /\ ConfOK(account[m], m)
    BY <1>2 DEF Inv, MatrixInv
  <2> QED
    BY <1>5, <1>6, <2>1 DEF FetchOk
<1>7. CASE FetchFails(t)
  <2>1. NoConfig \in Config /\ ConfOK(NoConfig, m)
    BY <1>2, Constants DEF Inv
  <2> QED
    BY <1>5, <1>7, <2>1 DEF FetchFails
<1> QED
  BY <1>3, <1>4, <1>6, <1>7

LEMMA StoreConfigStep ==
  ASSUME Inv, NEW t \in Task, StoreConfig(t)
  PROVE  Inv'
<1> DEFINE m == job[t].mxid
<1>1. m \in Mxid /\ ConfOK(conf[t], m) /\ pc[t] = "store" /\ conf[t] \in Config
  BY Locals DEF StoreConfig, Fits
<1>2. UNCHANGED <<named, trusted, serial>>
  BY DEF StoreConfig, matrixVars, promptVars
<1>3. TasksOK'
  BY <1>1, <1>2, ProceedStep DEF StoreConfig
<1>4. MapInv' /\ MatrixInv' /\ RoomInv' /\ PromptTypes'
  BY <1>2, Kept DEF StoreConfig
<1>5. CacheInv'
  <2>1. cached' = [cached EXCEPT ![m] = conf[t]] /\ age' = [age EXCEPT ![m] = 0]
    BY DEF StoreConfig
  <2>2. cached' \in [Mxid -> Config \cup {None}] /\ age' \in [Mxid -> 0..AllowlistTtl]
    BY <1>1, <2>1 DEF Inv, CacheInv
  <2>3. ASSUME NEW n \in Mxid, cached'[n] # None PROVE ConfOK(cached'[n], n)
    BY <1>1, <2>1, <2>3 DEF Inv, CacheInv
  <2> QED
    BY <1>2, <2>2, <2>3 DEF CacheInv, ConfOK
<1> QED
  BY <1>3, <1>4, <1>5 DEF Inv, TasksOK

LEMMA LastRoomStep ==
  ASSUME Inv, NEW t \in Task, LastRoom(t)
  PROVE  Inv'
<1> DEFINE m == job[t].mxid
<1>0. /\ UNCHANGED <<mapVars, matrixVars, cacheVars, roomVars, promptVars>>
      /\ UNCHANGED <<named, trusted, serial>>
  BY DEF LastRoom, matrixVars, promptVars
<1>1. m \in Mxid /\ Fits("lastroom", job[t], conf[t], peer[t]) /\ job[t] \in Job
  BY Locals DEF LastRoom
<1>2. CASE lastRoom[m] = None \/ lastRoom[m] \notin joined[m]
  BY <1>0, <1>2, ReturnStep, LocalStep DEF LastRoom
<1>3. CASE lastRoom[m] # None /\ lastRoom[m] \in joined[m]
  <2> DEFINE j == [job[t] EXCEPT !.room = lastRoom[m], !.sender = lastBy[m]]
  <2>1. /\ lastRoom[m] \in Room \cup {None} /\ lastBy[m] \in Sender \cup {None}
        /\ lastBy[m] \in trusted[m] \ {m}
    BY <1>1, <1>3 DEF Inv, RoomInv
  <2>2. /\ j \in Job /\ j.mxid = m /\ j.key = job[t].key /\ j.id = job[t].id
        /\ j.sender = lastBy[m]
    BY <1>1, <2>1 DEF Job
  <2>3. job' = [job EXCEPT ![t] = j] /\ Goto(t, "record") /\ UNCHANGED <<quiet, conf, found, peer>>
    <3>1. /\ job' = [job EXCEPT ![t].room = lastRoom[m], ![t].sender = lastBy[m]]
          /\ Goto(t, "record") /\ UNCHANGED <<quiet, conf, found, peer>>
      BY <1>3 DEF LastRoom
    <3>2. job \in [Task -> Job]
      BY DEF Inv, TaskTypes
    <3> QED
      BY <3>1, <3>2
  <2> HIDE DEF j
  <2>4. Fits("record", j, conf[t], peer[t]) /\ "record" \in Phase
    BY <1>1, <2>1, <2>2 DEF Fits, Phase, Addressed, Cleared
  <2>5. /\ TaskTypes' /\ pc'[t] = "record" /\ job'[t] = j /\ conf'[t] = conf[t]
        /\ peer'[t] = peer[t]
        /\ \A u \in Task \ {t} : /\ pc'[u] = pc[u] /\ job'[u] = job[u]
                               /\ conf'[u] = conf[u] /\ peer'[u] = peer[u]
    BY <1>0, <2>2, <2>3, <2>4 DEF Inv, TaskTypes, Goto
  <2>6. TasksOK'
    BY <1>0, <2>4, <2>5, TaskMoves
  <2> QED
    BY <1>0, <2>6, LocalStep
<1> QED
  BY <1>2, <1>3

LEMMA RecordStep ==
  ASSUME Inv, NEW t \in Task, record_request(t)
  PROVE  Inv'
<1> DEFINE k == PromptKey(t)
           j == [job[t] EXCEPT !.id = None, !.key = None]
<1>1. PICK gone \in SUBSET Live : Record(t, gone)
  BY DEF record_request
<1>2. /\ UNCHANGED <<mapVars, matrixVars, cacheVars, roomVars>> /\ UNCHANGED <<named, trusted>>
      /\ serial < MaxPrompts
  BY DEF record_request, matrixVars
<1>3. /\ job[t].mxid \in Mxid /\ job[t].id \in RequestId /\ job[t].key \in Key
      /\ Addressed(job[t]) /\ job[t] \in Job
  BY Locals, Constants DEF record_request, Fits
<1>4. serial \in Nat /\ serial' = serial + 1 /\ serial' \in 0..MaxPrompts
  BY <1>1, <1>2 DEF Record, Inv, PromptTypes
<1>5. /\ j \in Job /\ j.mxid = job[t].mxid /\ j.room = job[t].room
      /\ j.sender = job[t].sender
  BY <1>3 DEF Job
<1>6. /\ job' = [job EXCEPT ![t] = j] /\ pc' = [pc EXCEPT ![t] = "prompt"]
      /\ UNCHANGED <<quiet, conf, found, peer>>
  <2>1. job' = [job EXCEPT ![t].id = None, ![t].key = None]
    BY <1>1 DEF Record
  <2>2. job \in [Task -> Job]
    BY DEF Inv, TaskTypes
  <2>3. job' = [job EXCEPT ![t] = j]
    BY <2>1, <2>2
  <2> QED
    BY <1>1, <2>3 DEF Record, Goto
<1>7. k \in Mxid \X RequestId
  BY <1>3 DEF PromptKey
<1> HIDE DEF j, k
<1>8. Fits("prompt", j, conf[t], peer[t]) /\ "prompt" \in Phase
  BY <1>3, <1>5 DEF Fits, Phase, Addressed, Cleared
<1>9. /\ TaskTypes' /\ pc'[t] = "prompt" /\ job'[t] = j /\ conf'[t] = conf[t]
      /\ peer'[t] = peer[t]
      /\ \A u \in Task \ {t} : /\ pc'[u] = pc[u] /\ job'[u] = job[u]
                               /\ conf'[u] = conf[u] /\ peer'[u] = peer[u]
  <2>1. \A n \in 0..serial : n \in 0..serial'
    BY <1>4
  <2> QED
    BY <1>4, <1>5, <1>6, <1>8, <2>1 DEF Inv, TaskTypes
<1>10. TasksOK'
  BY <1>2, <1>8, <1>9, TaskMoves
<1>11. PromptTypes'
  <2>1. \A n \in 1..serial : n \in 1..serial'
    BY <1>4
  <2>2. serial' \in 1..serial' /\ 0 \in 0..PendingTtl
    BY <1>4
  <2>3. pending' = [q \in (Live \ gone) \cup {k} |->
                     IF q = k THEN [age |-> 0, session |-> job[t].key, serial |-> serial']
                     ELSE pending[q]]
    BY <1>1 DEF Record, k
  <2>4. DOMAIN pending' \subseteq Mxid \X RequestId
    BY <1>7, <2>3 DEF Live, Inv, PromptTypes
  <2>5. ASSUME NEW q \in DOMAIN pending' PROVE pending'[q] \in Prompt'
    <3>1. CASE q = k
      BY <1>3, <2>2, <2>3, <3>1 DEF Prompt
    <3>2. CASE q # k
      <4>1. pending'[q] = pending[q] /\ pending[q] \in Prompt
        BY <2>3, <3>2 DEF Live, Inv, PromptTypes
      <4> QED
        BY <2>1, <4>1 DEF Prompt
    <3> QED
      BY <3>1, <3>2
  <2>6. ASSUME NEW o \in open' PROVE o \in [key : Mxid \X RequestId, serial : 1..serial']
    <3>1. o \in open \/ o = [key |-> k, serial |-> serial']
      BY <1>1 DEF Record, k
    <3>2. o \in open => o \in [key : Mxid \X RequestId, serial : 1..serial]
      BY DEF Inv, PromptTypes
    <3> QED
      BY <1>7, <2>1, <2>2, <3>1, <3>2
  <2> QED
    BY <1>4, <2>4, <2>5, <2>6 DEF PromptTypes
<1>12. MapInv' /\ MatrixInv' /\ CacheInv' /\ RoomInv'
  BY <1>2, Kept
<1> QED
  BY <1>10, <1>11, <1>12 DEF Inv, TasksOK

\* The pending map loses prompts; serial and open stay.
LEMMA Forget ==
  ASSUME Inv, NEW K, K \subseteq DOMAIN pending, pending' = Only(K),
         open' \subseteq open, UNCHANGED serial
  PROVE  PromptTypes'
  BY DEF Inv, PromptTypes, Only, Prompt

LEMMA VerdictSteps ==
  ASSUME Inv, NEW t \in Task, Lookup(t) \/ FindPeer(t) \/ SendVerdict(t) \/ Retire(t)
  PROVE  Inv'
<1>0. /\ UNCHANGED <<mapVars, matrixVars, cacheVars, roomVars>>
      /\ UNCHANGED <<named, trusted, serial>>
  BY DEF Lookup, FindPeer, SendVerdict, Retire, matrixVars, promptVars
<1>1. MapInv' /\ MatrixInv' /\ CacheInv' /\ RoomInv'
  BY <1>0, Kept
<1>2. /\ job[t].mxid \in Mxid /\ job[t].id \in RequestId /\ job[t] \in Job /\ Cleared(job[t])
      /\ pc[t] # "lookup" => job[t].key \in Key
      /\ Fits(pc[t], job[t], conf[t], peer[t])
  BY Locals, Constants DEF Lookup, FindPeer, SendVerdict, Retire, Fits
<1>3. ASSUME PromptTypes', TasksOK' PROVE Inv'
  BY <1>1, <1>3 DEF Inv, TasksOK
<1>4. CASE Lookup(t)
  <2> DEFINE k == PromptKey(t)
  <2>1. PromptTypes'
    BY <1>0, <1>4, Forget DEF Lookup, Live
  <2>2. CASE k \notin Live
    BY <1>0, <1>3, <1>4, <2>1, <2>2, ReturnStep DEF Lookup
  <2>3. CASE k \in Live
    <3>0. pending[k] \in Prompt
      BY <2>3 DEF Live, Inv, PromptTypes
    <3>1. pending[k].session \in Key /\ pending[k].serial \in 0..serial
      BY <3>0, Locals DEF Prompt
    <3> DEFINE j == [job[t] EXCEPT !.key = pending[k].session]
    <3>2. /\ j \in Job /\ j.mxid = job[t].mxid /\ j.sender = job[t].sender
          /\ j.id = job[t].id /\ j.key \in Key
      BY <1>2, <3>1 DEF Job
    <3>3. /\ job' = [job EXCEPT ![t] = j] /\ pc' = [pc EXCEPT ![t] = "peer"]
          /\ found' = [found EXCEPT ![t] = pending[k].serial]
          /\ UNCHANGED <<quiet, conf, peer>>
      <4>1. job' = [job EXCEPT ![t].key = pending[k].session]
        BY <1>4, <2>3 DEF Lookup
      <4>2. job \in [Task -> Job]
        BY DEF Inv, TaskTypes
      <4>3. job' = [job EXCEPT ![t] = j]
        BY <4>1, <4>2
      <4> QED
        BY <1>4, <2>3, <4>3 DEF Lookup, Goto
    <3> HIDE DEF j, k
    <3>4. Fits("peer", j, conf[t], peer[t]) /\ "peer" \in Phase
      BY <1>2, <3>2 DEF Fits, Phase, Cleared
    <3>5. /\ TaskTypes' /\ pc'[t] = "peer" /\ job'[t] = j /\ conf'[t] = conf[t]
          /\ peer'[t] = peer[t]
          /\ \A u \in Task \ {t} : /\ pc'[u] = pc[u] /\ job'[u] = job[u]
                                   /\ conf'[u] = conf[u] /\ peer'[u] = peer[u]
      BY <1>0, <3>1, <3>2, <3>3, <3>4 DEF Inv, TaskTypes
    <3>6. TasksOK'
      BY <1>0, <3>4, <3>5, TaskMoves
    <3> QED
      BY <1>3, <2>1, <3>6
  <2> QED
    BY <2>2, <2>3
<1>5. ASSUME NEW p \in {"send", "retire"}, NEW e \in Peer \cup {None}, Goto(t, p),
             peer' = [peer EXCEPT ![t] = e], UNCHANGED <<job, quiet, conf, found>>,
             PromptTypes', Fits(p, job[t], conf[t], e)
      PROVE  Inv'
  <2>1. /\ TaskTypes' /\ pc'[t] = p /\ job'[t] = job[t] /\ conf'[t] = conf[t]
        /\ peer'[t] = e
        /\ \A u \in Task \ {t} : /\ pc'[u] = pc[u] /\ job'[u] = job[u]
                                 /\ conf'[u] = conf[u] /\ peer'[u] = peer[u]
    BY <1>0, <1>5 DEF Inv, TaskTypes, Goto, Phase
  <2>2. TasksOK'
    BY <1>0, <1>5, <2>1, TaskMoves
  <2> QED
    BY <1>3, <1>5, <2>2
<1>6. CASE FindPeer(t)
  <2> DEFINE p == peers[job[t].mxid][job[t].key]
  <2>0. PromptTypes'
    BY <1>6, Kept DEF FindPeer
  <2>1. CASE p = None
    BY <1>0, <1>3, <1>6, <2>0, <2>1, ReturnStep DEF FindPeer
  <2>2. CASE p # None
    <3>1. p \in Peer /\ KeyOf[p] = job[t].key /\ MxidOf(p) = job[t].mxid
      <4>1. job[t].mxid \in Mxid /\ job[t].key \in Key
        BY <1>2, <1>6 DEF FindPeer
      <4>2. p \in Peer \cup {None}
        BY <4>1 DEF Inv, MapInv
      <4>3. KeyOf[p] = job[t].key /\ OwnerOf[job[t].key] = job[t].mxid
        BY <4>1, <2>2 DEF Inv, MapInv
      <4> QED
        BY <2>2, <4>2, <4>3 DEF MxidOf
    <3>2. /\ Goto(t, "send") /\ peer' = [peer EXCEPT ![t] = p]
          /\ UNCHANGED <<job, quiet, conf, found>>
      BY <1>6, <2>2 DEF FindPeer
    <3> HIDE DEF p
    <3>3. Fits("send", job[t], conf[t], p)
      BY <1>2, <1>6, <3>1 DEF Fits, FindPeer
    <3> QED
      BY <1>5, <2>0, <3>1, <3>2, <3>3
  <2> QED
    BY <2>1, <2>2
<1>7. CASE SendVerdict(t)
  <2>1. PromptTypes'
    <3>1. pending' = pending /\ open' \subseteq open
      BY <1>7 DEF SendVerdict
    <3> QED
      BY <1>0, <3>1 DEF Inv, PromptTypes, Prompt
  <2>2. Fits("retire", job[t], conf[t], None)
    BY <1>2, <1>7 DEF Fits, SendVerdict
  <2> QED
    BY <1>5, <1>7, <2>1, <2>2 DEF SendVerdict
<1>8. CASE Retire(t)
  BY <1>0, <1>3, <1>8, Forget, ReturnStep DEF Retire
<1> QED
  BY <1>4, <1>6, <1>7, <1>8

LEMMA ReturningSteps ==
  ASSUME Inv, NEW t \in Task, SendPrompt(t) \/ SendVerdictFails(t) \/ HasPending(t)
  PROVE  Inv'
<1>0. /\ UNCHANGED <<mapVars, matrixVars, cacheVars, roomVars, promptVars>>
      /\ UNCHANGED <<named, trusted, serial>>
  BY DEF SendPrompt, SendVerdictFails, HasPending, matrixVars, promptVars
<1>1. CASE Return(t)
  BY <1>0, <1>1, ReturnStep, LocalStep
<1>2. CASE ~Return(t)
  <2>1. Stay(t, "config") /\ pc[t] = "outstanding" /\ Passes(job[t])
    BY <1>2 DEF SendPrompt, SendVerdictFails, HasPending
  <2>2. Fits("config", job[t], conf[t], peer[t]) /\ "config" \in Phase
    BY <2>1, Locals DEF Fits, Phase, Passes
  <2> QED
    BY <1>0, <2>1, <2>2, StayStep, LocalStep
<1> QED
  BY <1>1, <1>2

LEMMA RememberStep ==
  ASSUME Inv, NEW t \in Task, Remember(t)
  PROVE  Inv'
<1> DEFINE m == job[t].mxid
<1>0. UNCHANGED <<mapVars, matrixVars, cacheVars, promptVars>> /\ UNCHANGED <<named, trusted, serial>>
  BY DEF Remember, matrixVars, promptVars
<1>1. /\ m \in Mxid /\ Cleared(job[t]) /\ job[t] \in Job
      /\ Fits("remember", job[t], conf[t], peer[t])
  BY Locals DEF Remember, Fits
<1>2. TasksOK'
  <2>1. Fits("notify", job[t], conf[t], peer[t]) /\ "notify" \in Phase
    BY <1>1 DEF Fits, Phase
  <2> QED
    BY <1>0, <2>1, StayStep, ReturnStep DEF Remember
<1>3. RoomInv'
  <2>1. /\ lastRoom' = [lastRoom EXCEPT ![m] = job[t].room]
        /\ lastBy' = [lastBy EXCEPT ![m] = job[t].sender]
    BY DEF Remember
  <2>2. job[t].room \in Room \cup {None} /\ job[t].sender \in trusted[m] \ {m}
    BY <1>1 DEF Job, Cleared
  <2>3. job[t].sender \in Sender \cup {None}
    BY <1>1 DEF Job
  <2> QED
    BY <1>0, <1>1, <2>1, <2>2, <2>3 DEF Inv, RoomInv
<1>4. MapInv' /\ MatrixInv' /\ CacheInv' /\ PromptTypes'
  BY <1>0, Kept
<1> QED
  BY <1>2, <1>3, <1>4 DEF Inv, TasksOK

LEMMA DeliverStep ==
  ASSUME Inv, NEW t \in Task, Deliver(t)
  PROVE  Inv'
<1>0. UNCHANGED <<matrixVars, cacheVars, roomVars, promptVars>> /\ UNCHANGED <<named, trusted, serial>>
  BY DEF Deliver, matrixVars, promptVars
<1>1. job[t].mxid \in Mxid
  BY Locals DEF Deliver
<1>2. MapInv'
  BY <1>1, LoseMap DEF Deliver, Inv
<1>3. TasksOK'
  BY <1>0, ReturnStep DEF Deliver
<1>4. MatrixInv' /\ CacheInv' /\ RoomInv' /\ PromptTypes'
  BY <1>0, Kept
<1> QED
  BY <1>2, <1>3, <1>4 DEF Inv, TasksOK

\* A task takes up a request or a message.
LEMMA StartStep ==
  ASSUME Inv, NEW t \in Task, Start(t)
  PROVE  Inv'
<1>1. ASSUME NEW p \in Phase, NEW j \in Job, Goto(t, p), job' = [job EXCEPT ![t] = j],
             quiet' \in [Task -> BOOLEAN], UNCHANGED <<conf, found, peer>>,
             UNCHANGED <<mapVars, matrixVars, cacheVars, roomVars, promptVars>>,
             Fits(p, j, conf[t], peer[t])
      PROVE  Inv'
  <2>0. UNCHANGED <<named, trusted, serial>>
    BY <1>1 DEF matrixVars, promptVars
  <2>1. /\ TaskTypes' /\ pc'[t] = p /\ job'[t] = j /\ conf'[t] = conf[t]
        /\ peer'[t] = peer[t]
        /\ \A u \in Task \ {t} : /\ pc'[u] = pc[u] /\ job'[u] = job[u]
                                 /\ conf'[u] = conf[u] /\ peer'[u] = peer[u]
    BY <1>1, <2>0 DEF Inv, TaskTypes, Goto
  <2>2. TasksOK'
    BY <1>1, <2>0, <2>1, TaskMoves
  <2> QED
    BY <1>1, <2>2, LocalStep
<1>2. quiet \in [Task -> BOOLEAN]
  BY DEF Inv, TaskTypes
<1>3. ASSUME NEW k \in Key, NEW i \in RequestId, on_custom_notification(t, k, i) PROVE Inv'
  <2> DEFINE j == [NoJob EXCEPT !.mxid = OwnerOf[k], !.key = k, !.id = i]
  <2>1. j \in Job /\ j.mxid \in Mxid /\ j.key # None /\ j.id \in RequestId
    BY <1>3 DEF NoJob, Job, Text
  <2>2. /\ Goto(t, "config") /\ job' = [job EXCEPT ![t] = j] /\ UNCHANGED quiet
        /\ UNCHANGED <<conf, found, peer>>
        /\ UNCHANGED <<mapVars, matrixVars, cacheVars, roomVars, promptVars>>
    BY <1>3 DEF on_custom_notification
  <2> HIDE DEF j
  <2>3. Fits("config", j, conf[t], peer[t]) /\ "config" \in Phase
    BY <2>1 DEF Fits, Phase
  <2> QED
    BY <1>1, <1>2, <2>1, <2>2, <2>3
<1>5. ASSUME NEW m \in Mxid, NEW r \in Room, NEW w \in Sender, NEW x \in Text,
             NEW none \in BOOLEAN, push_message(t, m, r, w, x, none)
      PROVE  Inv'
  <2> DEFINE j == [NoJob EXCEPT !.mxid = m, !.room = r, !.sender = w, !.id = x]
             p == IF none THEN "outstanding" ELSE "config"
  <2>1. j \in Job /\ j.mxid = m /\ j.key = None /\ j.id = x /\ j.sender = w
    BY DEF NoJob, Job
  <2>2. /\ Goto(t, p) /\ job' = [job EXCEPT ![t] = j] /\ quiet' = [quiet EXCEPT ![t] = none]
        /\ UNCHANGED <<conf, found, peer>>
        /\ UNCHANGED <<mapVars, matrixVars, cacheVars, roomVars, promptVars>>
    BY <1>5 DEF push_message
  <2>3. none \/ j.sender # j.mxid
    BY <1>5 DEF push_message, Passes
  <2>4. quiet' \in [Task -> BOOLEAN]
    BY <1>2, <2>2
  <2> HIDE DEF j
  <2>5. Fits(p, j, conf[t], peer[t]) /\ p \in Phase
    BY <2>1, <2>3 DEF Fits, Phase
  <2> HIDE DEF p
  <2> QED
    BY <1>1, <2>1, <2>2, <2>4, <2>5
<1>6. ASSUME NEW m \in Mxid, NEW r \in Room, NEW w \in Sender, push_reaction(t, m, r, w)
      PROVE  Inv'
  <2> DEFINE j == [NoJob EXCEPT !.mxid = m, !.room = r, !.sender = w, !.id = "reaction"]
  <2>0. "reaction" \in Text
    BY DEF Text
  <2>1. j \in Job /\ j.mxid = m /\ j.key = None /\ j.id \in Text /\ j.sender = w
    BY <2>0 DEF NoJob, Job
  <2>2. /\ Goto(t, "config") /\ job' = [job EXCEPT ![t] = j] /\ UNCHANGED quiet
        /\ UNCHANGED <<conf, found, peer>>
        /\ UNCHANGED <<mapVars, matrixVars, cacheVars, roomVars, promptVars>>
    BY <1>6 DEF push_reaction
  <2>3. j.sender # j.mxid
    BY <1>6 DEF push_reaction, Passes
  <2> HIDE DEF j
  <2>4. Fits("config", j, conf[t], peer[t]) /\ "config" \in Phase
    BY <2>1, <2>3 DEF Fits, Phase
  <2> QED
    BY <1>1, <1>2, <2>1, <2>2, <2>4
<1> QED
  BY <1>3, <1>5, <1>6 DEF Start

-----------------------------------------------------------------------------
(* The environment *)

LEMMA TickStep == Inv /\ Tick => Inv'
<1> SUFFICES ASSUME Inv, Tick PROVE Inv'
  OBVIOUS
<1>0. UNCHANGED <<mapVars, matrixVars, roomVars, taskVars>> /\ UNCHANGED <<named, trusted, serial, cached>>
  BY DEF Tick, matrixVars
<1>1. MapInv' /\ MatrixInv' /\ RoomInv'
  BY <1>0, Kept
<1>2. \A n, ttl \in Nat : n \in 0..ttl => Older(n, ttl) \in 0..ttl
  BY DEF Older
<1>3. CacheInv'
  <2>1. ASSUME NEW m \in Mxid PROVE Older(age[m], AllowlistTtl) \in 0..AllowlistTtl
    BY <1>2 DEF Inv, CacheInv
  <2>2. age' \in [Mxid -> 0..AllowlistTtl]
    BY <2>1 DEF Tick
  <2> QED
    BY <1>0, <2>2 DEF Inv, CacheInv, ConfOK
<1>4. PromptTypes'
  <2>1. DOMAIN pending' = DOMAIN pending /\ open' \subseteq open
    BY DEF Tick
  <2>2. ASSUME NEW k \in DOMAIN pending PROVE pending'[k] \in Prompt'
    <3>1. pending[k] \in Prompt
      BY DEF Inv, PromptTypes
    <3>2. Older(pending[k].age, PendingTtl) \in 0..PendingTtl
      BY <1>2, <3>1 DEF Prompt
    <3>3. pending'[k] = [pending[k] EXCEPT !.age = Older(@, PendingTtl)]
      BY DEF Tick
    <3> QED
      BY <1>0, <3>1, <3>2, <3>3 DEF Prompt
  <2> QED
    BY <1>0, <2>1, <2>2 DEF Inv, PromptTypes
<1>5. TaskTypes' /\ \A t \in Task : TaskOK(t)'
  BY <1>0 DEF Inv, TaskTypes, TaskOK, Fits, ConfOK, Addressed, Cleared, taskVars
<1> QED
  BY <1>1, <1>3, <1>4, <1>5 DEF Inv

\* What was once said in the account data remains known.
LEMMA EditConfigStep ==
  ASSUME Inv, NEW m \in Mxid, EditConfig(m)
  PROVE  Inv'
<1>1. PICK c \in Configs : /\ account' = [account EXCEPT ![m] = c]
                           /\ named' = [named EXCEPT ![m] = @ \cup ({c.room} \ {None})]
                           /\ trusted' = [trusted EXCEPT ![m] = @ \cup c.allowed]
  BY DEF EditConfig
<1>2. c \in Config /\ c.allowed \subseteq Sender /\ c.room \in Room \cup {None}
  BY DEF Config
<1>3. /\ UNCHANGED <<mapVars, joined, cacheVars, roomVars, promptVars, taskVars>>
      /\ edits < MaxEdits /\ edits' = edits + 1
  BY DEF EditConfig
<1>4. /\ named \in [Mxid -> SUBSET Room] /\ trusted \in [Mxid -> SUBSET Sender]
      /\ account \in [Mxid -> Config]
  BY DEF Inv, MatrixInv
<1>5. /\ named' \in [Mxid -> SUBSET Room] /\ trusted' \in [Mxid -> SUBSET Sender]
      /\ account' \in [Mxid -> Config]
  BY <1>1, <1>2, <1>4
<1>6. \A n \in Mxid : named[n] \subseteq named'[n] /\ trusted[n] \subseteq trusted'[n]
  BY <1>1, <1>4
<1>7. ASSUME NEW d, NEW n \in Mxid, ConfOK(d, n) PROVE ConfOK(d, n)'
  BY <1>6, <1>7 DEF ConfOK
<1>8. MatrixInv'
  <2>1. ConfOK(c, m)'
    BY <1>1, <1>2, <1>4 DEF ConfOK
  <2>2. ASSUME NEW n \in Mxid PROVE ConfOK(account[n], n)'
    <3>1. account'[n] = IF n = m THEN c ELSE account[n]
      BY <1>1, <1>4
    <3>2. ConfOK(account[n], n)
      BY DEF Inv, MatrixInv
    <3>3. CASE n = m
      BY <2>1, <3>1, <3>3 DEF ConfOK
    <3>4. CASE n # m
      BY <1>6, <3>1, <3>2, <3>4 DEF ConfOK
    <3> QED
      BY <3>3, <3>4
  <2>3. joined' \in [Mxid -> SUBSET Room] /\ edits' \in 0..MaxEdits
    BY <1>3 DEF Inv, MatrixInv
  <2> QED
    BY <1>5, <2>2, <2>3 DEF MatrixInv
<1>9. CacheInv'
  <2>1. cached' = cached /\ age' = age
    BY <1>3 DEF cacheVars
  <2>2. ASSUME NEW n \in Mxid, cached[n] # None PROVE ConfOK(cached[n], n)'
    <3>1. ConfOK(cached[n], n)
      BY <2>2 DEF Inv, CacheInv
    <3> QED
      BY <1>6, <2>1, <3>1 DEF ConfOK
  <2> QED
    BY <2>1, <2>2 DEF Inv, CacheInv
<1>10. RoomInv'
  BY <1>3, <1>6 DEF Inv, RoomInv, roomVars
<1>11. MapInv' /\ PromptTypes'
  BY <1>3, Kept
<1>12. ASSUME NEW t \in Task PROVE TaskOK(t)'
  <2>1. /\ pc'[t] = pc[t] /\ job'[t] = job[t] /\ conf'[t] = conf[t] /\ peer'[t] = peer[t]
    BY <1>3 DEF taskVars
  <2>2. Fits(pc[t], job[t], conf[t], peer[t]) /\ (pc[t] # "idle" => job[t].mxid \in Mxid)
    BY Locals
  <2>3. CASE pc[t] = "idle"
    BY <2>1, <2>3 DEF TaskOK, Fits
  <2>4. CASE pc[t] # "idle"
    BY <1>6, <2>1, <2>2, <2>4 DEF TaskOK, Fits, ConfOK, Addressed, Cleared
  <2> QED
    BY <2>3, <2>4
<1>13. TaskTypes'
  BY <1>3 DEF Inv, TaskTypes, taskVars, promptVars
<1> QED
  BY <1>8, <1>9, <1>10, <1>11, <1>12, <1>13 DEF Inv

LEMMA EditMembershipStep ==
  ASSUME Inv, NEW m \in Mxid, NEW r \in Room, EditMembership(m, r)
  PROVE  Inv'
<1>1. /\ UNCHANGED <<mapVars, cacheVars, roomVars, promptVars, taskVars>>
      /\ UNCHANGED <<account, named, trusted>>
      /\ edits < MaxEdits /\ edits' = edits + 1
      /\ joined' = [joined EXCEPT ![m] = IF r \in @ THEN @ \ {r} ELSE @ \cup {r}]
  BY DEF EditMembership
<1>2. MatrixInv'
  <2>1. joined' \in [Mxid -> SUBSET Room]
    BY <1>1 DEF Inv, MatrixInv
  <2>2. edits' \in 0..MaxEdits
    BY <1>1 DEF Inv, MatrixInv
  <2> QED
    BY <1>1, <2>1, <2>2 DEF Inv, MatrixInv, ConfOK
<1>3. MapInv' /\ CacheInv' /\ RoomInv' /\ PromptTypes'
  BY <1>1, Kept
<1>4. TaskTypes' /\ \A t \in Task : TaskOK(t)'
  BY <1>1 DEF Inv, TaskTypes, TaskOK, Fits, ConfOK, Addressed, Cleared, taskVars, promptVars
<1> QED
  BY <1>2, <1>3, <1>4 DEF Inv

\* Sessions come and go, or nothing changes.
LEMMA OtherSteps == Inv /\ (MapNext \/ UNCHANGED mapVars) /\ UNCHANGED relayVars => Inv'
<1> SUFFICES ASSUME Inv, MapNext \/ UNCHANGED mapVars, UNCHANGED relayVars PROVE Inv'
  OBVIOUS
<1>1. /\ UNCHANGED <<matrixVars, cacheVars, roomVars, promptVars, taskVars>>
      /\ UNCHANGED <<named, trusted>>
  BY DEF relayVars, matrixVars
<1>2. MapInv'
  BY LoseMap, AttachMap, Kept DEF MapNext, Inv
<1>3. MatrixInv' /\ CacheInv' /\ RoomInv' /\ PromptTypes'
  BY <1>1, Kept
<1>4. TaskTypes' /\ \A t \in Task : TaskOK(t)'
  BY <1>1 DEF Inv, TaskTypes, TaskOK, Fits, ConfOK, Addressed, Cleared, taskVars, promptVars
<1> QED
  BY <1>2, <1>3, <1>4 DEF Inv

LEMMA NextInv == Inv /\ [Next]_vars => Inv'
<1> SUFFICES ASSUME Inv, [Next]_vars PROVE Inv'
  OBVIOUS
<1>1. ASSUME NEW t \in Task, Step(t) PROVE Inv'
  BY <1>1, ConfigSteps, StoreConfigStep, LastRoomStep, RecordStep, VerdictSteps,
     ReturningSteps, RememberStep, DeliverStep DEF Step
<1>2. ASSUME NEW t \in Task, Start(t) PROVE Inv'
  BY <1>2, StartStep
<1>3. ASSUME (MapNext /\ UNCHANGED relayVars) \/ UNCHANGED vars PROVE Inv'
  BY <1>3, OtherSteps DEF vars
<1>4. ASSUME NEW m \in Mxid, EditConfig(m) \/ \E r \in Room : EditMembership(m, r) PROVE Inv'
  BY <1>4, EditConfigStep, EditMembershipStep
<1> QED
  BY <1>1, <1>2, <1>3, <1>4, TickStep DEF Next

LEMMA AlwaysInv == Spec => []Inv
  BY InitInv, NextInv, PTL DEF Spec

-----------------------------------------------------------------------------
(* Who is reached *)

\* The state of the relay keeps its types whatever the sessions, Matrix and the
\* clock do.
THEOREM RelayTypes == Spec => []TypeOK
<1>1. Inv => TypeOK
  BY DEF Inv, MapInv, MatrixInv, CacheInv, RoomInv, PromptTypes, TaskTypes, TypeOK
<1> QED
  BY <1>1, AlwaysInv, PTL

\* deliver_verdict sends a verdict to a handshake of the session that asked,
\* and of no other account, although the peers change under it.
THEOREM VerdictsGoHome == Spec => []VerdictReachesAsker
<1>1. Inv => VerdictReachesAsker
  BY DEF Inv, TaskOK, Fits, VerdictReachesAsker
<1> QED
  BY <1>1, AlwaysInv, PTL

\* push_message and push_reaction let nothing of a stranger's through to a
\* session, with the config fetched, cached and edited meanwhile.
THEOREM StrangersAreKeptOut == Spec => []OnlyAllowlistedReach
<1>1. Inv => OnlyAllowlistedReach
  BY DEF Inv, TaskOK, Fits, Cleared, OnlyAllowlistedReach
<1> QED
  BY <1>1, AlwaysInv, PTL

\* permission_room takes a prompt to a room the account data has named, or to
\* one an allowed sender has written in.
THEOREM PromptsStayInTrustedRooms == Spec => []PromptOnlyWhereTrusted
<1>1. Inv => PromptOnlyWhereTrusted
  BY DEF Inv, TaskOK, Fits, Addressed, Cleared, PromptOnlyWhereTrusted
<1> QED
  BY <1>1, AlwaysInv, PTL

-----------------------------------------------------------------------------
(* The pending map at its cap *)

CapInv == IsFiniteSet(DOMAIN pending) /\ PendingBounded

LEMMA CapRecord ==
  ASSUME CapInv, NEW t \in Task, record_request(t)
  PROVE  CapInv'
<1>1. PICK gone \in SUBSET Live : Cardinality(gone) = Excess /\ Record(t, gone)
  BY DEF record_request
<1> DEFINE k == PromptKey(t)
           rest == Live \ gone
<1>2. IsFiniteSet(Live) /\ Cardinality(Live) \in Nat /\ IsFiniteSet(gone)
  <2>1. IsFiniteSet(Live)
    BY FS_Subset DEF Live, CapInv
  <2> QED
    BY <2>1, FS_Subset, FS_CardinalityType
<1>3. /\ IsFiniteSet(rest)
      /\ Cardinality(rest) = Cardinality(Live) - Cardinality(Live \cap gone)
  BY <1>2, FS_Difference
<1>4. Live \cap gone = gone
  OBVIOUS
<1>5. Cardinality(rest) \in Nat /\ Cardinality(rest) + 1 <= PendingMax
  <2>1. Cardinality(rest) \in Nat
    BY <1>3, FS_CardinalityType
  <2>2. Cardinality(gone) = IF Cardinality(Live) >= PendingMax
                            THEN Cardinality(Live) - PendingMax + 1 ELSE 0
    BY <1>1 DEF Excess
  <2>3. Cardinality(rest) = Cardinality(Live) - Cardinality(gone)
    BY <1>3, <1>4
  <2> HIDE DEF rest
  <2> QED
    BY <1>2, <2>1, <2>2, <2>3
<1> HIDE DEF k, rest
<1>6. /\ IsFiniteSet(rest \cup {k})
      /\ Cardinality(rest \cup {k}) = IF k \in rest THEN Cardinality(rest)
                                                   ELSE Cardinality(rest) + 1
  BY <1>3, FS_AddElement, Zenon
<1>7. DOMAIN pending' = rest \cup {k}
  BY <1>1 DEF Record, k, rest
<1> QED
  BY <1>5, <1>6, <1>7 DEF CapInv, PendingBounded

LEMMA CapShrinks ==
  ASSUME CapInv, DOMAIN pending' \subseteq DOMAIN pending
  PROVE  CapInv'
<1>1. /\ IsFiniteSet(DOMAIN pending')
      /\ Cardinality(DOMAIN pending') <= Cardinality(DOMAIN pending)
  BY FS_Subset DEF CapInv
<1>2. Cardinality(DOMAIN pending') \in Nat /\ Cardinality(DOMAIN pending) \in Nat
  BY <1>1, FS_CardinalityType DEF CapInv
<1> QED
  BY <1>1, <1>2 DEF CapInv, PendingBounded

\* Where a task works on the prompt that it has looked up.
Bound == {"peer", "send", "retire"}

\* The steps that leave the prompts alone, bind no task to one and end no retirement.
Aside ==
    /\ UNCHANGED promptVars
    /\ \A u \in Task : pc'[u] \in Bound =>
          pc[u] \in Bound /\ found'[u] = found[u] /\ job'[u] = job[u]
    /\ \A u \in Task : pc'[u] = "retire" <=> pc[u] = "retire"

LEMMA PromptSteps ==
  ASSUME Inv, [Next]_vars
  PROVE  \/ Aside
         \/ Tick
         \/ \E t \in Task : record_request(t) \/ Lookup(t) \/ SendVerdict(t) \/ Retire(t)
<1>0. /\ pc \in [Task -> Phase] /\ found \in [Task -> 0..serial]
      /\ job \in [Task -> Job]
  BY DEF Inv, TaskTypes
<1>1. ASSUME NEW t \in Task, NEW p, p \notin Bound, pc[t] # "retire", Goto(t, p),
             UNCHANGED promptVars,
             \A u \in Task \ {t} : found'[u] = found[u] /\ job'[u] = job[u]
      PROVE  Aside
  <2>1. pc'[t] = p /\ \A u \in Task \ {t} : pc'[u] = pc[u]
    BY <1>0, <1>1 DEF Goto
  <2> QED
    BY <1>1, <2>1 DEF Aside, Bound
<1>2. ASSUME NEW t \in Task, Return(t), pc[t] # "retire", UNCHANGED promptVars PROVE Aside
  <2>1. /\ Goto(t, "idle") /\ "idle" \notin Bound
        /\ \A u \in Task \ {t} : found'[u] = found[u] /\ job'[u] = job[u]
    BY <1>0, <1>2 DEF Return, Bound
  <2> QED
    BY <1>1, <1>2, <2>1
<1>3. ASSUME NEW t \in Task, NEW c, Proceed(t, c), pc[t] # "retire", UNCHANGED promptVars
      PROVE  Aside
  <2>1. CASE Return(t)
    BY <1>2, <1>3, <2>1
  <2>2. CASE Continue(t, c)
    <3>0. \A u \in Task \ {t} : found'[u] = found[u] /\ job'[u] = job[u]
      <4>1. UNCHANGED found /\ (UNCHANGED job \/ job' = [job EXCEPT ![t].room = c.room])
        BY <2>2 DEF Continue
      <4> QED
        BY <1>0, <4>1
    <3>1. CASE IsAsk(t)
      <4>1. Goto(t, IF c.room = None THEN "lastroom" ELSE "record")
        BY <2>2, <3>1 DEF Continue
      <4>2. "lastroom" \notin Bound /\ "record" \notin Bound
        BY DEF Bound
      <4> QED
        BY <1>1, <1>3, <3>0, <4>1, <4>2
    <3>2. CASE ~IsAsk(t)
      <4> DEFINE p == CASE job[t].id \in RequestId  -> "lookup"
                        [] job[t].id = "reaction"  -> "notify"
                        [] OTHER                   -> "remember"
      <4>1. Goto(t, p)
        BY <2>2, <3>2 DEF Continue
      <4>2. p \notin Bound
        BY DEF Bound
      <4> HIDE DEF p
      <4> QED
        BY <1>1, <1>3, <3>0, <4>1, <4>2
    <3> QED
      BY <3>1, <3>2
  <2> QED
    BY <1>3, <2>1, <2>2 DEF Proceed
<1>4. ASSUME NEW t \in Task,
             \/ ConfigCached(t) \/ ConfigMiss(t) \/ FetchOk(t) \/ FetchFails(t)
             \/ StoreConfig(t)
      PROVE  Aside
  <2>1. CASE ConfigCached(t) \/ StoreConfig(t)
    BY <1>3, <2>1 DEF ConfigCached, StoreConfig
  <2>2. CASE ConfigMiss(t) \/ FetchOk(t) \/ FetchFails(t)
    <3>1. /\ UNCHANGED <<promptVars, found, job>> /\ pc[t] # "retire"
          /\ Goto(t, "fetch") \/ Goto(t, "store")
      BY <2>2 DEF ConfigMiss, FetchOk, FetchFails, Stay
    <3>2. "fetch" \notin Bound /\ "store" \notin Bound
      BY DEF Bound
    <3> QED
      BY <1>1, <3>1, <3>2
  <2> QED
    BY <1>4, <2>1, <2>2
<1>5. ASSUME NEW t \in Task,
             \/ LastRoom(t) \/ SendPrompt(t) \/ HasPending(t)
             \/ SendVerdictFails(t) \/ Remember(t) \/ Deliver(t)
      PROVE  Aside
  <2>1. /\ UNCHANGED promptVars /\ pc[t] # "retire"
        /\ \/ Return(t)
           \/ Stay(t, "config")
           \/ Stay(t, "notify")
           \/ Goto(t, "record") /\ UNCHANGED found
              /\ \E j : job' = [job EXCEPT ![t] = j]
    <3>1. CASE SendPrompt(t) \/ SendVerdictFails(t) \/ Deliver(t)
      BY <3>1 DEF SendPrompt, SendVerdictFails, Deliver
    <3>2. CASE LastRoom(t)
      BY <3>2 DEF LastRoom
    <3>3. CASE HasPending(t)
      BY <3>3 DEF HasPending
    <3>4. CASE Remember(t)
      BY <3>4 DEF Remember
    <3> QED
      BY <1>5, <3>1, <3>2, <3>3, <3>4
  <2>2. {"config", "notify", "record"} \cap Bound = {}
    BY DEF Bound
  <2>3. CASE Return(t)
    BY <1>2, <2>1, <2>3
  <2>4. CASE ~Return(t)
    <3>1. /\ Goto(t, "config") \/ Goto(t, "notify") \/ Goto(t, "record")
          /\ \A u \in Task \ {t} : found'[u] = found[u] /\ job'[u] = job[u]
      BY <1>0, <2>1, <2>4 DEF Stay
    <3> QED
      BY <1>1, <2>1, <2>2, <3>1
  <2> QED
    BY <2>3, <2>4
<1>6. ASSUME NEW t \in Task, FindPeer(t) PROVE Aside
  <2>1. CASE Return(t)
    BY <1>2, <1>6, <2>1 DEF FindPeer
  <2>2. CASE ~Return(t)
    <3>1. /\ pc[t] = "peer" /\ pc' = [pc EXCEPT ![t] = "send"]
          /\ UNCHANGED <<promptVars, found, job>>
      BY <1>6, <2>2 DEF FindPeer, Goto
    <3> QED
      BY <1>0, <3>1 DEF Aside, Bound
  <2> QED
    BY <2>1, <2>2
<1>7. ASSUME NEW t \in Task, Start(t) PROVE Aside
  <2>1. /\ UNCHANGED promptVars /\ UNCHANGED found /\ pc[t] # "retire"
        /\ Goto(t, "config") \/ Goto(t, "outstanding")
        /\ \E j : job' = [job EXCEPT ![t] = j]
    BY <1>7 DEF Start, on_custom_notification, push_message, push_reaction
  <2>2. "config" \notin Bound /\ "outstanding" \notin Bound
    BY DEF Bound
  <2>3. \A u \in Task \ {t} : found'[u] = found[u] /\ job'[u] = job[u]
    BY <1>0, <2>1
  <2> QED
    BY <1>1, <2>1, <2>2, <2>3
<1>8. ASSUME UNCHANGED promptVars, UNCHANGED <<pc, found, job>> PROVE Aside
  BY <1>8 DEF Aside
<1>9. ASSUME (MapNext /\ UNCHANGED relayVars) \/ UNCHANGED vars PROVE Aside
  BY <1>8, <1>9 DEF vars, relayVars, taskVars
<1>10. ASSUME NEW m \in Mxid, EditConfig(m) \/ \E r \in Room : EditMembership(m, r) PROVE Aside
  BY <1>8, <1>10 DEF EditConfig, EditMembership, taskVars
<1> QED
  BY <1>4, <1>5, <1>6, <1>7, <1>9, <1>10 DEF Next, Step

\* record_request keeps the pending map within PENDING_MAX: it makes room before
\* it inserts, so that no number of sessions asking at once takes it over.
THEOREM PendingStaysBounded == Spec => []PendingBounded
<1>1. Init => CapInv
  <2>1. Init => DOMAIN pending = {}
    BY DEF Init
  <2> QED
    BY <2>1, FS_EmptySet DEF CapInv, PendingBounded
<1>2. Inv /\ CapInv /\ [Next]_vars => CapInv'
  <2> SUFFICES ASSUME Inv, CapInv, [Next]_vars PROVE CapInv'
    OBVIOUS
  <2>1. CASE Aside
    BY <2>1, CapShrinks DEF Aside, promptVars
  <2>2. CASE Tick
    BY <2>2, CapShrinks DEF Tick
  <2>3. ASSUME NEW t \in Task, Lookup(t) \/ SendVerdict(t) \/ Retire(t) PROVE CapInv'
    <3>1. DOMAIN pending' \subseteq DOMAIN pending
      BY <2>3 DEF Lookup, SendVerdict, Retire, Only, Live
    <3> QED
      BY <3>1, CapShrinks
  <2> QED
    BY <2>1, <2>2, <2>3, CapRecord, PromptSteps
<1>3. CapInv => PendingBounded
  BY DEF CapInv
<1> QED
  BY <1>1, <1>2, <1>3, AlwaysInv, PTL DEF Spec

-----------------------------------------------------------------------------
(* Prompts stay answerable *)

\* A task that retires a prompt has delivered its verdict: what is still open has
\* another serial, so that retire_if_current cannot remove it.
AnswerInv ==
    /\ StaysAnswerable
    /\ \A u \in Task : pc[u] = "retire" => \A o \in open : o.serial # found[u]

LEMMA AnswerAside == AnswerInv /\ Aside => AnswerInv'
  BY DEF AnswerInv, Aside, Bound, StaysAnswerable, Live, promptVars

LEMMA AnswerTick == Inv /\ AnswerInv /\ Tick => AnswerInv'
<1> SUFFICES ASSUME Inv, AnswerInv, Tick PROVE AnswerInv'
  OBVIOUS
<1>1. ASSUME NEW o \in open' PROVE o.key \in Live' /\ pending'[o.key].serial = o.serial
  <2> DEFINE k == o.key
  <2>1. /\ o \in open /\ k \in DOMAIN pending /\ pending[k].serial = o.serial
        /\ pending[k].age + 1 < PendingTtl
    BY DEF Tick, AnswerInv, StaysAnswerable, Live
  <2>2. pending[k] \in Prompt
    BY <2>1 DEF Inv, PromptTypes
  <2>3. pending[k].age \in Nat
    BY <2>2 DEF Prompt
  <2>4. Older(pending[k].age, PendingTtl) < PendingTtl
    BY <2>1, <2>3 DEF Older
  <2>5. DOMAIN pending' = DOMAIN pending
    BY DEF Tick
  <2>6. pending'[k] = [pending[k] EXCEPT !.age = Older(@, PendingTtl)]
    BY <2>1 DEF Tick
  <2>7. pending'[k].age < PendingTtl /\ pending'[k].serial = o.serial
    BY <2>1, <2>2, <2>4, <2>6 DEF Prompt
  <2> QED
    BY <2>1, <2>5, <2>7 DEF Live
<1>2. open' \subseteq open /\ UNCHANGED <<pc, found>>
  BY DEF Tick, taskVars
<1> QED
  BY <1>1, <1>2 DEF AnswerInv, StaysAnswerable

LEMMA AnswerRecord ==
  ASSUME Inv, AnswerInv, NEW t \in Task, record_request(t)
  PROVE  AnswerInv'
<1> DEFINE k == PromptKey(t)
           new == [age |-> 0, session |-> job[t].key, serial |-> serial']
<1>1. PICK gone \in SUBSET Live : Record(t, gone)
  BY DEF record_request
<1>2. /\ serial' = serial + 1 /\ serial \in Nat
      /\ pending' = [j \in (Live \ gone) \cup {k} |-> IF j = k THEN new ELSE pending[j]]
      /\ open' = {o \in open : o.key \notin gone \cup {k}} \cup {[key |-> k, serial |-> serial']}
      /\ pc' = [pc EXCEPT ![t] = "prompt"] /\ found' = found
  BY <1>1, Locals DEF Record, Goto
<1>3. new.age = 0 /\ new.serial = serial'
  OBVIOUS
<1> HIDE DEF k, new
<1>4. ASSUME NEW o \in open' PROVE o.key \in Live' /\ pending'[o.key].serial = o.serial
  <2>1. CASE o = [key |-> k, serial |-> serial']
    <3>1. o.key = k /\ o.serial = serial'
      BY <2>1
    <3>2. pending'[k] = new /\ k \in DOMAIN pending'
      BY <1>2
    <3> QED
      BY <1>3, <3>1, <3>2 DEF Live
  <2>2. CASE o \in open /\ o.key \notin gone \cup {k}
    <3>1. o.key \in Live /\ pending[o.key].serial = o.serial
      BY <2>2 DEF AnswerInv, StaysAnswerable
    <3>2. o.key \in DOMAIN pending' /\ pending'[o.key] = pending[o.key]
      BY <1>2, <2>2, <3>1
    <3> QED
      BY <3>1, <3>2 DEF Live
  <2> QED
    BY <1>2, <2>1, <2>2
<1>5. ASSUME NEW u \in Task, pc'[u] = "retire", NEW o \in open' PROVE o.serial # found'[u]
  <2>1. pc[u] = "retire" /\ found'[u] = found[u] /\ found[u] \in 0..serial
    BY <1>2, <1>5 DEF Inv, TaskTypes
  <2>2. o \in open \/ o = [key |-> k, serial |-> serial']
    BY <1>2
  <2>3. CASE o \in open
    BY <2>1, <2>3 DEF AnswerInv
  <2>4. CASE o = [key |-> k, serial |-> serial']
    <3>1. o.serial = serial + 1
      BY <1>2, <2>4
    <3> QED
      BY <1>2, <2>1, <3>1
  <2> QED
    BY <2>2, <2>3, <2>4
<1> QED
  BY <1>4, <1>5 DEF AnswerInv, StaysAnswerable

LEMMA AnswerVerdict ==
  ASSUME Inv, AnswerInv, NEW t \in Task, Lookup(t) \/ SendVerdict(t) \/ Retire(t)
  PROVE  AnswerInv'
<1>0. pc \in [Task -> Phase] /\ found \in [Task -> 0..serial]
  BY DEF Inv, TaskTypes
<1>1. ASSUME NEW K, K \subseteq DOMAIN pending, pending' = Only(K), open' = open,
             \A o \in open : o.key \in K
      PROVE  StaysAnswerable'
  BY <1>1 DEF AnswerInv, StaysAnswerable, Live, Only
<1>2. CASE Lookup(t)
  <2>1. StaysAnswerable'
    <3>1. /\ Live \subseteq DOMAIN pending /\ pending' = Only(Live) /\ open' = open
          /\ \A o \in open : o.key \in Live
      BY <1>2 DEF Lookup, Live, AnswerInv, StaysAnswerable
    <3> QED
      BY <1>1, <3>1
  <2>2. ASSUME NEW u \in Task, pc'[u] = "retire" PROVE pc[u] = "retire" /\ found'[u] = found[u]
    BY <1>0, <1>2, <2>2 DEF Lookup, Goto, Return
  <2> QED
    BY <1>2, <2>1, <2>2 DEF Lookup, AnswerInv
<1>3. CASE SendVerdict(t)
  <2>1. /\ open' = {o \in open : o.serial # found[t]} /\ pending' = pending
        /\ pc' = [pc EXCEPT ![t] = "retire"] /\ found' = found
    BY <1>3 DEF SendVerdict, Goto
  <2> QED
    BY <1>0, <2>1 DEF AnswerInv, StaysAnswerable, Live
<1>4. CASE Retire(t)
  <2> DEFINE K == {k \in DOMAIN pending : k = PromptKey(t) => pending[k].serial # found[t]}
  <2>1. K \subseteq DOMAIN pending /\ pending' = Only(K) /\ open' = open
    BY <1>4 DEF Retire
  <2>2. ASSUME NEW o \in open PROVE o.key \in K
    BY <1>4 DEF Retire, AnswerInv, StaysAnswerable, Live
  <2>3. StaysAnswerable'
    BY <1>1, <2>1, <2>2
  <2>4. ASSUME NEW u \in Task, pc'[u] = "retire" PROVE pc[u] = "retire" /\ found'[u] = found[u]
    BY <1>0, <1>4, <2>4 DEF Retire, Goto, Return
  <2> QED
    BY <2>1, <2>3, <2>4 DEF AnswerInv
<1> QED
  BY <1>2, <1>3, <1>4

\* A prompt that nobody answered, that has not expired and that no later prompt
\* displaced is in the pending map under its own serial: a verdict that fails, or
\* that ends after its id was issued again, takes no answer away.
THEOREM PromptsStayAnswerable == Spec => []StaysAnswerable
<1>1. Init => AnswerInv
  BY DEF Init, AnswerInv, StaysAnswerable
<1>2. Inv /\ AnswerInv /\ [Next]_vars => AnswerInv'
  BY PromptSteps, AnswerAside, AnswerTick, AnswerRecord, AnswerVerdict
<1>3. AnswerInv => StaysAnswerable
  BY DEF AnswerInv
<1> QED
  BY <1>1, <1>2, <1>3, AlwaysInv, PTL DEF Spec

-----------------------------------------------------------------------------
(* Answered prompts do not stay *)

\* The prompt with serial n at key k is open, or task u is about to retire it.
IsOpen(k, n) == \E o \in open : o.key = k /\ o.serial = n
Retiring(u, k, n) == pc[u] = "retire" /\ PromptKey(u) = k /\ found[u] = n

\* A serial stands for one prompt: no two entries have the same, and a task that
\* has looked a prompt up finds its serial only under the key it looked at.
RetireInv ==
    /\ \A k \in Live : \/ IsOpen(k, pending[k].serial)
                       \/ \E u \in Task : Retiring(u, k, pending[k].serial)
    /\ \A k, j \in DOMAIN pending : pending[k].serial = pending[j].serial => k = j
    /\ \A u \in Task : pc[u] \in Bound =>
          \A k \in DOMAIN pending : pending[k].serial = found[u] => k = PromptKey(u)

LEMMA RetireAside == RetireInv /\ Aside => RetireInv'
<1> SUFFICES ASSUME RetireInv, Aside PROVE RetireInv'
  OBVIOUS
<1>1. pending' = pending /\ open' = open /\ Live' = Live
  BY DEF Aside, promptVars, Live
<1>2. \A u \in Task : pc'[u] \in Bound =>
          pc[u] \in Bound /\ found'[u] = found[u] /\ PromptKey(u)' = PromptKey(u)
  BY DEF Aside, PromptKey
<1>3. ASSUME NEW u \in Task, NEW k, NEW n, Retiring(u, k, n) PROVE Retiring(u, k, n)'
  <2>1. pc'[u] = "retire" /\ pc'[u] \in Bound
    BY <1>3 DEF Retiring, Aside, Bound
  <2> QED
    BY <1>2, <1>3, <2>1 DEF Retiring
<1>4. \A k \in Live' : \/ IsOpen(k, pending[k].serial)'
                       \/ \E u \in Task : Retiring(u, k, pending[k].serial)'
  <2> TAKE k \in Live'
  <2>1. k \in Live /\ pending'[k] = pending[k]
    BY <1>1
  <2>2. CASE IsOpen(k, pending[k].serial)
    BY <1>1, <2>1, <2>2 DEF IsOpen
  <2>3. CASE \E u \in Task : Retiring(u, k, pending[k].serial)
    <3>1. PICK u \in Task : Retiring(u, k, pending[k].serial)
      BY <2>3
    <3>2. Retiring(u, k, pending[k].serial)'
      BY <1>1, <1>3, <3>1 DEF Retiring
    <3> QED
      BY <3>2
  <2> QED
    BY <2>1, <2>2, <2>3 DEF RetireInv
<1> QED
  BY <1>1, <1>2, <1>4 DEF RetireInv

LEMMA RetireTick == Inv /\ RetireInv /\ Tick => RetireInv'
<1> SUFFICES ASSUME Inv, RetireInv, Tick PROVE RetireInv'
  OBVIOUS
<1>1. /\ DOMAIN pending' = DOMAIN pending /\ UNCHANGED <<pc, found, job>>
      /\ \A k \in DOMAIN pending :
            pending'[k] = [pending[k] EXCEPT !.age = Older(@, PendingTtl)]
  BY DEF Tick, taskVars
<1>2. ASSUME NEW k \in DOMAIN pending
      PROVE  /\ pending'[k].serial = pending[k].serial
             /\ k \in Live' => k \in Live /\ pending[k].age + 1 < PendingTtl
  <2>1. pending[k] \in Prompt /\ PendingTtl \in Nat
    BY RelayAssumption DEF Inv, PromptTypes
  <2>2. pending'[k].serial = pending[k].serial
    BY <1>1, <2>1 DEF Prompt
  <2>3. pending[k].age \in Nat /\ pending'[k].age = Older(pending[k].age, PendingTtl)
    BY <1>1, <2>1 DEF Prompt
  <2>4. k \in Live' => pending'[k].age < PendingTtl
    BY DEF Live
  <2>5. k \in Live' => pending[k].age < PendingTtl /\ pending[k].age + 1 < PendingTtl
    BY <2>1, <2>3, <2>4 DEF Older
  <2> QED
    BY <2>2, <2>5 DEF Live
<1>3. \A k \in Live' : k \in DOMAIN pending
  BY <1>1 DEF Live
<1>4. \A k \in Live' : \/ IsOpen(k, pending[k].serial)'
                       \/ \E u \in Task : Retiring(u, k, pending[k].serial)'
  <2> TAKE k \in Live'
  <2>1. /\ k \in DOMAIN pending /\ k \in Live /\ pending[k].age + 1 < PendingTtl
        /\ pending'[k].serial = pending[k].serial
    BY <1>2, <1>3
  <2>2. CASE IsOpen(k, pending[k].serial)
    <3>1. PICK o \in open : o.key = k /\ o.serial = pending[k].serial
      BY <2>2 DEF IsOpen
    <3>2. \A j \in DOMAIN pending : pending[j].serial = o.serial => j = k
      BY <2>1, <3>1 DEF RetireInv
    <3>3. o \in open'
      BY <2>1, <3>1, <3>2 DEF Tick
    <3> QED
      BY <2>1, <3>1, <3>3 DEF IsOpen
  <2>3. CASE \E u \in Task : Retiring(u, k, pending[k].serial)
    BY <1>1, <2>1, <2>3 DEF Retiring, PromptKey
  <2> QED
    BY <2>1, <2>2, <2>3 DEF RetireInv
<1> QED
  BY <1>1, <1>2, <1>4 DEF RetireInv, PromptKey

LEMMA RetireRecord ==
  ASSUME Inv, RetireInv, NEW t \in Task, record_request(t)
  PROVE  RetireInv'
<1> DEFINE k == PromptKey(t)
           new == [age |-> 0, session |-> job[t].key, serial |-> serial']
<1>1. PICK gone \in SUBSET Live : Record(t, gone)
  BY DEF record_request
<1>2. /\ serial' = serial + 1 /\ serial \in Nat
      /\ pending' = [j \in (Live \ gone) \cup {k} |-> IF j = k THEN new ELSE pending[j]]
      /\ open' = {o \in open : o.key \notin gone \cup {k}} \cup {[key |-> k, serial |-> serial']}
      /\ pc' = [pc EXCEPT ![t] = "prompt"] /\ found' = found
  BY <1>1, Locals DEF Record, Goto
<1>3. new.serial = serial + 1
  BY <1>2
<1>4. /\ pc[t] = "record" /\ pc'[t] = "prompt"
      /\ \A u \in Task \ {t} : /\ pc'[u] = pc[u] /\ found'[u] = found[u]
                                /\ PromptKey(u)' = PromptKey(u)
  <2>1. job' = [job EXCEPT ![t].id = None, ![t].key = None]
    BY <1>1 DEF Record
  <2>2. pc \in [Task -> Phase] /\ job \in [Task -> Job]
    BY DEF Inv, TaskTypes
  <2> QED
    BY <1>2, <2>1, <2>2 DEF record_request, PromptKey
<1> HIDE DEF k, new
<1>5. /\ DOMAIN pending' = (Live \ gone) \cup {k} /\ pending'[k] = new
      /\ \A j \in DOMAIN pending' \ {k} :
            j \in Live \ gone /\ j \in DOMAIN pending /\ pending'[j] = pending[j]
  BY <1>2 DEF Live
<1>6. \A j \in DOMAIN pending : pending[j].serial \in 1..serial
  BY DEF Inv, PromptTypes, Prompt
<1>7. \A i, j \in DOMAIN pending' : pending'[i].serial = pending'[j].serial => i = j
  <2>1. \A j \in DOMAIN pending' \ {k} : pending'[j].serial # new.serial
    <3> TAKE j \in DOMAIN pending' \ {k}
    <3>1. pending'[j] = pending[j] /\ pending[j].serial \in 1..serial
      BY <1>5, <1>6
    <3> QED
      BY <1>2, <1>3, <3>1
  <2> QED
    BY <1>5, <2>1 DEF RetireInv
<1>8. ASSUME NEW u \in Task, pc'[u] \in Bound, NEW j \in DOMAIN pending',
             pending'[j].serial = found'[u]
      PROVE  j = PromptKey(u)'
  <2>1. u # t /\ pc[u] \in Bound /\ found'[u] = found[u] /\ PromptKey(u)' = PromptKey(u)
    BY <1>4, <1>8 DEF Bound
  <2>2. found[u] \in 0..serial
    BY DEF Inv, TaskTypes
  <2>3. j # k
    BY <1>2, <1>3, <1>5, <1>8, <2>1, <2>2
  <2> QED
    BY <1>5, <1>8, <2>1, <2>3 DEF RetireInv
<1>9. ASSUME NEW j \in Live'
      PROVE  \/ IsOpen(j, pending[j].serial)'
             \/ \E u \in Task : Retiring(u, j, pending[j].serial)'
  <2>0. j \in DOMAIN pending'
    BY DEF Live
  <2>1. CASE j = k
    <3>1. pending'[j].serial = serial'
      BY <1>2, <1>3, <1>5, <2>1
    <3>2. [key |-> k, serial |-> serial'] \in open'
      BY <1>2
    <3> QED
      BY <2>1, <3>1, <3>2 DEF IsOpen
  <2>2. CASE j # k
    <3>1. j \in Live \ gone /\ pending'[j] = pending[j]
      BY <1>5, <2>0, <2>2
    <3>2. CASE IsOpen(j, pending[j].serial)
      <4>1. PICK o \in open : o.key = j /\ o.serial = pending[j].serial
        BY <3>2 DEF IsOpen
      <4>2. o \in open'
        BY <1>2, <2>2, <3>1, <4>1
      <4> QED
        BY <3>1, <4>1, <4>2 DEF IsOpen
    <3>3. CASE \E u \in Task : Retiring(u, j, pending[j].serial)
      <4>1. PICK u \in Task : Retiring(u, j, pending[j].serial)
        BY <3>3
      <4>2. u # t
        BY <1>4, <4>1 DEF Retiring
      <4>3. Retiring(u, j, pending[j].serial)'
        BY <1>4, <3>1, <4>1, <4>2 DEF Retiring
      <4> QED
        BY <4>3
    <3> QED
      BY <3>1, <3>2, <3>3 DEF RetireInv
  <2> QED
    BY <2>1, <2>2
<1> QED
  BY <1>7, <1>8, <1>9 DEF RetireInv

\* Forgetting entries keeps the invariant, if nobody who is about to retire one
\* of those that stay gives up.
LEMMA RetireForget ==
  ASSUME RetireInv, NEW K \in SUBSET DOMAIN pending, pending' = Only(K), open' = open,
         \A u \in Task : pc'[u] \in Bound =>
            \A k \in K : pending[k].serial = found'[u] => k = PromptKey(u)',
         \A u \in Task, k \in K :
            Retiring(u, k, pending[k].serial) => Retiring(u, k, pending[k].serial)'
  PROVE  RetireInv'
<1>1. DOMAIN pending' = K /\ \A k \in K : pending'[k] = pending[k]
  BY DEF Only
<1>2. ASSUME NEW k \in Live'
      PROVE  \/ IsOpen(k, pending[k].serial)'
             \/ \E u \in Task : Retiring(u, k, pending[k].serial)'
  <2>1. k \in K /\ k \in Live /\ pending'[k] = pending[k]
    BY <1>1 DEF Live
  <2>2. CASE IsOpen(k, pending[k].serial)
    BY <2>1, <2>2 DEF IsOpen
  <2>3. CASE \E u \in Task : Retiring(u, k, pending[k].serial)
    <3>1. PICK u \in Task : Retiring(u, k, pending[k].serial)
      BY <2>3
    <3>2. Retiring(u, k, pending[k].serial)'
      BY <2>1, <3>1
    <3> QED
      BY <3>2
  <2> QED
    BY <2>1, <2>2, <2>3 DEF RetireInv
<1>3. \A i, j \in DOMAIN pending' : pending'[i].serial = pending'[j].serial => i = j
  BY <1>1 DEF RetireInv
<1>4. \A u \in Task : pc'[u] \in Bound =>
          \A k \in DOMAIN pending' : pending'[k].serial = found'[u] => k = PromptKey(u)'
  BY <1>1
<1> QED
  BY <1>2, <1>3, <1>4 DEF RetireInv

LEMMA RetireVerdict ==
  ASSUME Inv, RetireInv, NEW t \in Task, Lookup(t) \/ SendVerdict(t) \/ Retire(t)
  PROVE  RetireInv'
<1>0. /\ pc \in [Task -> Phase] /\ found \in [Task -> 0..serial]
      /\ job \in [Task -> Job] /\ job[t] \in Job
  BY DEF Inv, TaskTypes
<1>1. CASE Lookup(t)
  <2>1. /\ Live \in SUBSET DOMAIN pending /\ pending' = Only(Live) /\ open' = open
        /\ pc[t] = "lookup"
    BY <1>1 DEF Lookup, Live
  <2>2. ASSUME NEW u \in Task \ {t}
        PROVE  pc'[u] = pc[u] /\ found'[u] = found[u] /\ job'[u] = job[u]
    BY <1>0, <1>1 DEF Lookup, Goto, Return
  <2>3. ASSUME pc'[t] \in Bound
        PROVE  /\ PromptKey(t) \in Live /\ found'[t] = pending[PromptKey(t)].serial
               /\ PromptKey(t)' = PromptKey(t)
    <3>1. PromptKey(t) \in Live
      BY <1>0, <1>1, <2>3 DEF Lookup, Goto, Return, Bound
    <3>2. /\ job' = [job EXCEPT ![t].key = pending[PromptKey(t)].session]
          /\ found' = [found EXCEPT ![t] = pending[PromptKey(t)].serial]
      BY <1>1, <3>1 DEF Lookup
    <3>3. job'[t].mxid = job[t].mxid /\ job'[t].id = job[t].id
      BY <1>0, <3>2 DEF Job
    <3> QED
      BY <1>0, <3>1, <3>2, <3>3 DEF PromptKey
  <2>4. ASSUME NEW u \in Task, pc'[u] \in Bound, NEW k \in Live,
               pending[k].serial = found'[u]
        PROVE  k = PromptKey(u)'
    <3>1. CASE u = t
      BY <2>1, <2>3, <2>4, <3>1 DEF RetireInv
    <3>2. CASE u # t
      BY <2>1, <2>2, <2>4, <3>2 DEF RetireInv, PromptKey
    <3> QED
      BY <3>1, <3>2
  <2>5. ASSUME NEW u \in Task, NEW k \in Live, Retiring(u, k, pending[k].serial)
        PROVE  Retiring(u, k, pending[k].serial)'
    <3>1. u # t
      BY <2>1, <2>5 DEF Retiring
    <3>2. pending'[k] = pending[k]
      BY <2>1 DEF Only
    <3> QED
      BY <2>2, <2>5, <3>1, <3>2 DEF Retiring, PromptKey
  <2> QED
    BY <2>1, <2>4, <2>5, RetireForget
<1>2. CASE SendVerdict(t)
  <2>1. /\ open' = {o \in open : o.serial # found[t]} /\ pending' = pending
        /\ pc[t] = "send" /\ pc' = [pc EXCEPT ![t] = "retire"]
        /\ found' = found /\ job' = job
    BY <1>2 DEF SendVerdict, Goto
  <2>2. /\ pc'[t] = "retire" /\ \A u \in Task \ {t} : pc'[u] = pc[u]
        /\ \A u \in Task : pc'[u] \in Bound => pc[u] \in Bound
    BY <1>0, <2>1 DEF Bound
  <2>3. ASSUME NEW k \in Live'
        PROVE  \/ IsOpen(k, pending[k].serial)'
               \/ \E u \in Task : Retiring(u, k, pending[k].serial)'
    <3>1. k \in Live /\ k \in DOMAIN pending
      BY <2>1 DEF Live
    <3>2. CASE pending[k].serial = found[t]
      <4>1. k = PromptKey(t)
        BY <2>1, <3>1, <3>2 DEF RetireInv, Bound
      <4>2. Retiring(t, k, pending[k].serial)'
        BY <2>1, <2>2, <3>2, <4>1 DEF Retiring, PromptKey
      <4> QED
        BY <4>2
    <3>3. CASE pending[k].serial # found[t] /\ IsOpen(k, pending[k].serial)
      BY <2>1, <3>3 DEF IsOpen
    <3>4. CASE \E u \in Task : Retiring(u, k, pending[k].serial)
      <4>1. PICK u \in Task : Retiring(u, k, pending[k].serial)
        BY <3>4
      <4>2. Retiring(u, k, pending[k].serial)'
        BY <2>1, <2>2, <4>1 DEF Retiring, PromptKey
      <4> QED
        BY <4>2
    <3> QED
      BY <3>1, <3>2, <3>3, <3>4 DEF RetireInv
  <2> QED
    BY <2>1, <2>2, <2>3 DEF RetireInv, PromptKey
<1>3. CASE Retire(t)
  <2> DEFINE K == {k \in DOMAIN pending : k = PromptKey(t) => pending[k].serial # found[t]}
  <2>1. /\ K \in SUBSET DOMAIN pending /\ pending' = Only(K) /\ open' = open
        /\ \A k \in K : k = PromptKey(t) => pending[k].serial # found[t]
    BY <1>3 DEF Retire
  <2>2. /\ pc'[t] = "idle"
        /\ \A u \in Task \ {t} : pc'[u] = pc[u] /\ found'[u] = found[u] /\ job'[u] = job[u]
    BY <1>0, <1>3 DEF Retire, Goto, Return
  <2> HIDE DEF K
  <2>3. ASSUME NEW u \in Task, pc'[u] \in Bound, NEW k \in K, pending[k].serial = found'[u]
        PROVE  k = PromptKey(u)'
    <3>1. u # t
      BY <2>2, <2>3 DEF Bound
    <3> QED
      BY <2>1, <2>2, <2>3, <3>1 DEF RetireInv, PromptKey
  <2>4. ASSUME NEW u \in Task, NEW k \in K, Retiring(u, k, pending[k].serial)
        PROVE  Retiring(u, k, pending[k].serial)'
    <3>1. u # t
      BY <2>1, <2>4 DEF Retiring
    <3>2. pending'[k] = pending[k]
      BY <2>1 DEF Only
    <3> QED
      BY <2>2, <2>4, <3>1, <3>2 DEF Retiring, PromptKey
  <2> QED
    BY <2>1, <2>3, <2>4, RetireForget
<1> QED
  BY <1>1, <1>2, <1>3

\* A prompt whose verdict was delivered does not stay answerable: whatever other
\* prompts, verdicts, evictions and expiries come in between, what a verdict still
\* finds is open, or the task that delivered its verdict is about to retire it.
THEOREM AnsweredPromptsGo == Spec => []AnsweredIsRetired
<1>1. Init => RetireInv
  BY DEF Init, RetireInv, Live, Bound
<1>2. Inv /\ RetireInv /\ [Next]_vars => RetireInv'
  BY PromptSteps, RetireAside, RetireTick, RetireRecord, RetireVerdict
<1>3. RetireInv => AnsweredIsRetired
  BY DEF RetireInv, IsOpen, Retiring, AnsweredIsRetired
<1> QED
  BY <1>1, <1>2, <1>3, AlwaysInv, PTL DEF Spec

==============================================================================
