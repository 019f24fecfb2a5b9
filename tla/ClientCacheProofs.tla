-------------------------- MODULE ClientCacheProofs --------------------------
(***************************************************************************)
(* Proofs about ClientCache, for every set of accounts, requests, tokens   *)
(* and cells.                                                              *)
(***************************************************************************)
EXTENDS ClientCache, TLAPS

USE RequestAssumption, CellAssumption, RestartAssumption

\* A step that only drops references reaches no cell it did not reach before.
LEMMA HeldShrinks ==
    ASSUME \A u \in User : map'[u] = map[u] \/ map'[u] = None,
           \A r \in Req : cur'[r] = cur[r] \/ cur'[r] = None,
           \A r \in Req : outer'[r] = outer[r] \/ outer'[r] = cur[r] \/ outer'[r] = None
    PROVE  Held' \subseteq Held
  BY DEF Held, InMap

\* The updates of a cell's fields keep the cells well formed.
LEMMA CellUpdates ==
    ASSUME NEW f \in [Cell -> CellRecord], NEW c \in Cell
    PROVE  /\ [f EXCEPT ![c].st = "building"] \in [Cell -> CellRecord]
           /\ \A g \in Nat : [f EXCEPT ![c].gen = g] \in [Cell -> CellRecord]
           /\ \A b \in Bearer : [f EXCEPT ![c].token = b] \in [Cell -> CellRecord]
           /\ [f EXCEPT ![c].verified = TRUE] \in [Cell -> CellRecord]
           /\ [f EXCEPT ![c].sync = "finished"] \in [Cell -> CellRecord]
           /\ \A b \in Bearer :
                [f EXCEPT ![c].st = "ready", ![c].sync = "running", ![c].token = b]
                  \in [Cell -> CellRecord]
<1>1. f[c] \in CellRecord
  OBVIOUS
<1>2. /\ [f[c] EXCEPT !.st = "building"] \in CellRecord
      /\ \A g \in Nat : [f[c] EXCEPT !.gen = g] \in CellRecord
      /\ \A b \in Bearer : [f[c] EXCEPT !.token = b] \in CellRecord
      /\ [f[c] EXCEPT !.verified = TRUE] \in CellRecord
      /\ [f[c] EXCEPT !.sync = "finished"] \in CellRecord
      /\ \A b \in Bearer :
            [f[c] EXCEPT !.st = "ready", !.sync = "running", !.token = b] \in CellRecord
  BY <1>1 DEF CellRecord
<1> QED
  BY <1>2

\* Initially every variable has its type and nothing is reachable.
LEMMA InitType == Init => TypeOK
<1> SUFFICES ASSUME Init PROVE TypeOK
  OBVIOUS
<1>1. FreeCell \in CellRecord
  BY DEF FreeCell, CellRecord
<1>2. Held = {}
  BY DEF Init, Held, InMap
<1> QED
  BY <1>1, <1>2 DEF Init, TypeOK, Phase, Working, FreeCell

\* A returning pass only drops references.
LEMMA ReturnShrinks ==
    ASSUME TypeOK, NEW r \in Req, ReturnOk(r) \/ ReturnErr(r), map' = map
    PROVE  Held' \subseteq Held
  BY HeldShrinks DEF ReturnOk, ReturnErr, TypeOK

\* A newly inserted cell is held, and no other cell is let go for it.
LEMMA InsertHolds ==
    ASSUME TypeOK, NEW r \in Req, InsertCell(r)
    PROVE  Held' = Held \cup {FreshCell}
<1>1. FreshCell \in Cell /\ UserOf[r] \in User
  BY DEF InsertCell, FreshCell
<1>2. /\ map' = [map EXCEPT ![UserOf[r]] = FreshCell] /\ map[UserOf[r]] = None
      /\ cur' = [cur EXCEPT ![r] = FreshCell] /\ cur[r] = None /\ outer' = outer
      /\ map \in [User -> Cell \cup {None}] /\ cur \in [Req -> Cell \cup {None}]
  BY DEF InsertCell, TypeOK, Working
<1> HIDE DEF FreshCell
<1>3. \A u \in User : map'[u] = IF u = UserOf[r] THEN FreshCell ELSE map[u]
  BY <1>2
<1>4. \A q \in Req : cur'[q] = IF q = r THEN FreshCell ELSE cur[q]
  BY <1>2
<1>5. FreshCell \in Held'
  BY <1>1, <1>4 DEF Held
<1>6. ASSUME NEW c \in Cell, c # FreshCell PROVE c \in Held' <=> c \in Held
  <2>1. InMap(c)' <=> InMap(c)
    BY <1>1, <1>2, <1>3, <1>6 DEF InMap
  <2>2. \A q \in Req : cur'[q] = c <=> cur[q] = c
    BY <1>2, <1>4, <1>6
  <2> QED
    BY <1>2, <2>1, <2>2 DEF Held
<1> QED
  BY <1>1, <1>5, <1>6 DEF Held

\* The steps of a request preserve the types and the ownership of cells.
LEMMA StepType ==
    ASSUME TypeOK, NEW r \in Req, Step(r)
    PROVE  TypeOK'
<1>0. /\ UserOf[r] \in User /\ BearerOf[r] \in Bearer
      /\ FreeCell \in CellRecord /\ EmptyCell \in CellRecord
      /\ FreeCell.st = "free" /\ EmptyCell.st = "empty"
  BY DEF FreeCell, EmptyCell, CellRecord
<1>1. CASE FastPathHit(r)
  <2>1. Held' = Held
    BY <1>0, <1>1 DEF FastPathHit, Held, InMap, TypeOK, cacheVars, contains, Working
  <2> QED
    BY <1>0, <1>1, <2>1 DEF FastPathHit, TypeOK, Goto, cacheVars, envVars, Phase, Working, contains
<1>2. CASE FastPathMiss(r)
  <2>1. Held' = Held
    BY <1>2 DEF FastPathMiss, Held, InMap, cacheVars
  <2> QED
    BY <1>2, <2>1 DEF FastPathMiss, TypeOK, Goto, cacheVars, envVars, Phase, Working
<1>3. CASE EvictStale(r)
  <2>1. Held' \subseteq Held
    BY <1>0, <1>3, HeldShrinks DEF EvictStale, TypeOK
  <2> QED
    BY <1>0, <1>3, <2>1 DEF EvictStale, TypeOK, Goto, Cells, envVars, Phase, Working
<1>4. CASE GetCell(r)
  <2>1. Held' = Held
    BY <1>0, <1>4 DEF GetCell, Held, InMap, TypeOK, cacheVars, Working
  <2> QED
    BY <1>0, <1>4, <2>1 DEF GetCell, TypeOK, Goto, cacheVars, envVars, Phase, Working
<1>5. CASE InsertCell(r)
  <2>1. FreshCell \in Cell /\ FreshCell \notin Held
    BY <1>5 DEF InsertCell, FreshCell
  <2>2. Held' = Held \cup {FreshCell}
    BY <1>5, InsertHolds
  <2> QED
    BY <1>0, <1>5, <2>1, <2>2 DEF InsertCell, TypeOK, Goto, envVars, Phase, Working
<1>6. CASE InitReady(r)
  <2>1. Held' = Held
    BY <1>6 DEF InitReady, Held, InMap, cacheVars
  <2> QED
    BY <1>0, <1>6, <2>1 DEF InitReady, TypeOK, Goto, cacheVars, envVars, Phase, Working, CellRecord
<1>7. CASE InitBuild(r)
  <2>1. Held' = Held
    BY <1>7 DEF InitBuild, Held, InMap
  <2>2. cur[r] \in Cell /\ cur[r] \in Held
    BY <1>7 DEF InitBuild, TypeOK, Working, Held
  <2>3. cell' \in [Cell -> CellRecord]
    <3>1. cell \in [Cell -> CellRecord] 
      BY <1>0 DEF TypeOK
    <3> QED
      BY <1>0, <1>7, <2>2, <3>1, CellUpdates DEF InitBuild
  <2>4. \A c \in Cell : (cell'[c].st = "free") <=> (cell[c].st = "free")
    BY <1>7, <2>2 DEF InitBuild, TypeOK, CellRecord
  <2> QED
    BY <1>7, <2>1, <2>3, <2>4 DEF InitBuild, TypeOK, Goto, envVars, Phase, Working
<1>8. CASE BuildOpen(r)
  <2>1. Held' = Held
    BY <1>8 DEF BuildOpen, Held, InMap
  <2>2. cur[r] \in Cell /\ cur[r] \in Held
    BY <1>8 DEF BuildOpen, TypeOK, Working, Held
  <2>3. cell' \in [Cell -> CellRecord]
    <3>1. cell \in [Cell -> CellRecord] /\ storeGen[UserOf[r]] \in Nat
      BY <1>0 DEF TypeOK
    <3> QED
      BY <1>0, <1>8, <2>2, <3>1, CellUpdates DEF BuildOpen
  <2>4. \A c \in Cell : (cell'[c].st = "free") <=> (cell[c].st = "free")
    BY <1>8, <2>2 DEF BuildOpen, TypeOK, CellRecord
  <2> QED
    BY <1>8, <2>1, <2>3, <2>4 DEF BuildOpen, TypeOK, Goto, envVars, Phase, Working
<1>9. CASE BuildDone(r)
  <2>1. Held' = Held
    BY <1>9 DEF BuildDone, Held, InMap
  <2>2. cur[r] \in Cell /\ cur[r] \in Held
    BY <1>9 DEF BuildDone, TypeOK, Working, Held
  <2>3. cell' \in [Cell -> CellRecord]
    <3>1. cell \in [Cell -> CellRecord] 
      BY <1>0 DEF TypeOK
    <3> QED
      BY <1>0, <1>9, <2>2, <3>1, CellUpdates DEF BuildDone
  <2>4. \A c \in Cell : (cell'[c].st = "free") <=> (cell[c].st = "free")
    BY <1>9, <2>2 DEF BuildDone, TypeOK, CellRecord
  <2> QED
    BY <1>9, <2>1, <2>3, <2>4 DEF BuildDone, TypeOK, Goto, envVars, Phase, Working
<1>10. CASE BuildFail(r)
  <2>1. Held' \subseteq Held
    BY <1>10, ReturnShrinks DEF BuildFail
  <2> QED
    BY <1>0, <1>10, <2>1
    DEF BuildFail, TypeOK, ReturnOk, ReturnErr, Goto, Cells, envVars, Phase, Working, CellRecord
<1>11. CASE RefreshToken(r)
  <2>1. Held' = Held
    BY <1>11 DEF RefreshToken, Held, InMap
  <2>2. cur[r] \in Cell /\ cur[r] \in Held
    BY <1>11 DEF RefreshToken, TypeOK, Working, Held
  <2>3. cell' \in [Cell -> CellRecord]
    <3>1. cell \in [Cell -> CellRecord] 
      BY <1>0 DEF TypeOK
    <3> QED
      BY <1>0, <1>11, <2>2, <3>1, CellUpdates DEF RefreshToken
  <2>4. \A c \in Cell : (cell'[c].st = "free") <=> (cell[c].st = "free")
    BY <1>11, <2>2 DEF RefreshToken, TypeOK, CellRecord
  <2> QED
    BY <1>11, <2>1, <2>3, <2>4 DEF RefreshToken, TypeOK, Goto, envVars, Phase, Working
<1>12. CASE RefreshFail(r)
  <2>1. Held' \subseteq Held
    BY <1>12, ReturnShrinks DEF RefreshFail
  <2> QED
    BY <1>0, <1>12, <2>1
    DEF RefreshFail, TypeOK, ReturnOk, ReturnErr, Goto, Cells, envVars, Phase, Working, CellRecord
<1>13. CASE VerifyLatched(r)
  <2>1. Held' \subseteq Held
    BY <1>13, ReturnShrinks DEF VerifyLatched
  <2> QED
    BY <1>0, <1>13, <2>1
    DEF VerifyLatched, TypeOK, ReturnOk, ReturnErr, Goto, Cells, envVars, Phase, Working, CellRecord
<1>14. CASE VerifyAsk(r)
  <2>1. Held' = Held
    BY <1>14 DEF VerifyAsk, Held, InMap, cacheVars
  <2> QED
    BY <1>0, <1>14, <2>1 DEF VerifyAsk, TypeOK, Goto, cacheVars, envVars, Phase, Working, CellRecord
<1>15. CASE QueryTrue(r)
  <2> DEFINE s == [cell EXCEPT ![cur[r]].verified = TRUE]
  <2>1. Held' \subseteq Held
    BY <1>15, ReturnShrinks DEF QueryTrue
  <2>2. s \in [Cell -> CellRecord]
    <3>1. cur[r] \in Cell /\ cell \in [Cell -> CellRecord]
      BY <1>15 DEF QueryTrue, TypeOK, Working
    <3> QED
      BY <3>1, CellUpdates
  <2>3. \A c \in Cell : s[c].st = cell[c].st
    BY <1>15 DEF QueryTrue, TypeOK, CellRecord
  <2>4. Cells(s)
    BY <1>15 DEF QueryTrue
  <2> HIDE DEF s
  <2>5. /\ cell' \in [Cell -> CellRecord] /\ dead' \in [Req -> SUBSET Cell]
        /\ \A c \in Cell : (cell'[c].st = "free") <=> (c \notin Held')
    BY <1>0, <2>1, <2>2, <2>3, <2>4 DEF TypeOK, Cells
  <2> QED
    BY <1>15, <2>5 DEF QueryTrue, TypeOK, ReturnOk, Goto, envVars, Phase, Working
<1>16. CASE QueryFalse(r)
  <2>1. Held' \subseteq Held
    BY <1>16, ReturnShrinks, HeldShrinks DEF QueryFalse
  <2>2. CASE retry[r]
    <3>1. /\ cell' \in [Cell -> CellRecord] /\ dead' \in [Req -> SUBSET Cell]
          /\ \A c \in Cell : (cell'[c].st = "free") <=> (c \notin Held')
      BY <1>0, <1>16, <2>1 DEF QueryFalse, TypeOK, Cells
    <3>2. /\ pc' = [pc EXCEPT ![r] = "await"] /\ cur' = [cur EXCEPT ![r] = None]
          /\ slow' = [slow EXCEPT ![r] = FALSE] /\ outer' = outer
          /\ map' = map /\ retry' = retry /\ healed' = healed
          /\ UNCHANGED <<envVars, wipes, restarts>>
      BY <1>16, <2>2 DEF QueryFalse, ReturnOk, Goto
    <3> QED
      BY <3>1, <3>2 DEF TypeOK, envVars, Phase, Working
  <2>3. CASE ~retry[r]
    BY <1>0, <1>16, <2>1, <2>3 DEF QueryFalse, TypeOK, Goto, Cells, envVars, Phase, Working
  <2> QED
    BY <2>2, <2>3
<1>17. CASE QueryError(r)
  <2>1. Held' \subseteq Held
    BY <1>17, ReturnShrinks DEF QueryError
  <2> QED
    BY <1>0, <1>17, <2>1
    DEF QueryError, TypeOK, ReturnOk, ReturnErr, Goto, Cells, envVars, Phase, Working, CellRecord
<1>18. CASE Claim(r)
  <2>1. Held' = Held
    BY <1>18 DEF Claim, Held, InMap, cacheVars
  <2> QED
    BY <1>0, <1>18, <2>1 DEF Claim, TypeOK, Goto, cacheVars, envVars, Phase, Working, CellRecord
<1>19. CASE ClaimRefused(r)
  <2>1. Held' \subseteq Held
    BY <1>19, ReturnShrinks DEF ClaimRefused
  <2> QED
    BY <1>0, <1>19, <2>1
    DEF ClaimRefused, TypeOK, ReturnOk, ReturnErr, Goto, Cells, envVars, Phase, Working, CellRecord
<1>20. CASE BackupYes(r)
  <2>1. Held' \subseteq Held
    BY <1>20, HeldShrinks DEF BackupYes, TypeOK
  <2> QED
    BY <1>0, <1>20, <2>1 DEF BackupYes, TypeOK, Goto, Cells, envVars, Phase, Working
<1>21. CASE BackupNo(r)
  <2>1. Held' \subseteq Held
    BY <1>21, ReturnShrinks DEF BackupNo
  <2> QED
    BY <1>0, <1>21, <2>1
    DEF BackupNo, TypeOK, ReturnOk, ReturnErr, Goto, Cells, envVars, Phase, Working, CellRecord
<1>22. CASE HealEvict(r)
  <2>1. Held' \subseteq Held
    BY <1>0, <1>22, HeldShrinks DEF HealEvict, Evict, TypeOK
  <2> QED
    BY <1>0, <1>22, <2>1 DEF HealEvict, Evict, TypeOK, Goto, Cells, envVars, Phase, Working
<1>23. CASE AwaitPublication(r)
  <2>1. Held' \subseteq Held
    BY <1>0, <1>23, HeldShrinks DEF AwaitPublication, Evict, TypeOK
  <2> QED
    BY <1>0, <1>23, <2>1 DEF AwaitPublication, Evict, TypeOK, Goto, Cells, envVars, Phase, Working
<1>24. CASE HealWipe(r)
  <2>1. Held' = Held
    BY <1>24 DEF HealWipe, Held, InMap, cacheVars
  <2> QED
    BY <1>0, <1>24, <2>1 DEF HealWipe, TypeOK, Goto, cacheVars, envVars, Phase, Working, CellRecord
<1>25. CASE HealWipeFail(r)
  <2>1. Held' \subseteq Held
    BY <1>25, ReturnShrinks DEF HealWipeFail
  <2> QED
    BY <1>0, <1>25, <2>1
    DEF HealWipeFail, TypeOK, ReturnOk, ReturnErr, Goto, Cells, envVars, Phase, Working, CellRecord
<1> QED
  BY <1>1, <1>2, <1>3, <1>4, <1>5, <1>6, <1>7, <1>8, <1>9, <1>10, <1>11, <1>12, <1>13, <1>14, <1>15, <1>16, <1>17, <1>18, <1>19, <1>20, <1>21, <1>22, <1>23, <1>24, <1>25 DEF Step

\* So do the calls and the ends of tool calls, ...
LEMMA CallerType ==
    ASSUME TypeOK, NEW r \in Req, Caller(r)
    PROVE  TypeOK'
<1>0. UserOf[r] \in User /\ FreeCell \in CellRecord /\ FreeCell.st = "free"
  BY DEF FreeCell, CellRecord
<1>1. CASE for_user(r)
  <2>1. Held' = Held /\ Dead \subseteq Cell
    BY <1>1 DEF for_user, Held, Dead, InMap, cacheVars
  <2> QED
    BY <1>1, <2>1 DEF for_user, TypeOK, Goto, cacheVars, envVars, Phase, Working
<1>2. CASE Finish(r)
  <2>1. Held' = Held
    BY <1>2 DEF Finish, Held, InMap, cacheVars
  <2> QED
    BY <1>2, <2>1 DEF Finish, TypeOK, Goto, cacheVars, envVars, Phase, Working
<1>3. CASE AuthExpiry(r)
  <2>1. Held' \subseteq Held
    BY <1>0, <1>3, HeldShrinks DEF AuthExpiry, Evict, TypeOK
  <2> QED
    BY <1>0, <1>3, <2>1 DEF AuthExpiry, Evict, TypeOK, Goto, envVars, Phase, Working
<1> QED
  BY <1>1, <1>2, <1>3 DEF Caller

\* ... the homeserver, the sync tasks and a restart.
LEMMA EnvironmentType ==
    ASSUME TypeOK, Environment
    PROVE  TypeOK'
<1>1. ASSUME NEW c \in Cell, SyncEnds(c) PROVE TypeOK'
  <2>1. Held' = Held
    BY <1>1 DEF SyncEnds, Held, InMap, reqVars
  <2>2. cell' \in [Cell -> CellRecord]
    BY <1>1, CellUpdates DEF SyncEnds, TypeOK
  <2>3. \A d \in Cell : cell'[d].st = cell[d].st
    BY <1>1 DEF SyncEnds, TypeOK, CellRecord
  <2> QED
    BY <1>1, <2>1, <2>2, <2>3 DEF SyncEnds, TypeOK, reqVars, envVars
<1>2. ASSUME NEW u \in User, NEW c \in Cell, KeysUpload(u, c) \/ KeysUploadRejected(u, c)
      PROVE  TypeOK'
  <2>1. Held' = Held
    BY <1>2 DEF KeysUpload, KeysUploadRejected, Held, InMap, reqVars, cacheVars
  <2>2. cell[c].gen \in Nat
    BY DEF TypeOK, CellRecord
  <2> QED
    BY <1>2, <2>1, <2>2 DEF KeysUpload, KeysUploadRejected, TypeOK, reqVars, cacheVars
<1>3. ASSUME NEW u \in User, BackupCreated(u) \/ BackupDeleted(u) PROVE TypeOK'
  <2>1. Held' = Held
    BY <1>3 DEF BackupCreated, BackupDeleted, Held, InMap, reqVars, cacheVars
  <2> QED
    BY <1>3, <2>1 DEF BackupCreated, BackupDeleted, TypeOK, reqVars, cacheVars
<1>4. CASE Restart
  <2>1. Held' = {}
    BY <1>4 DEF Restart, Held, InMap
  <2>2. FreeCell \in CellRecord /\ FreeCell.st = "free"
    BY DEF FreeCell, CellRecord
  <2> QED
    BY <1>4, <2>1, <2>2 DEF Restart, TypeOK, envVars, Phase, Working
<1> QED
  BY <1>1, <1>2, <1>3, <1>4 DEF Environment

\* TypeOK is an invariant: every frame has a cell exactly while it works on
\* one, and a cell is freed exactly when its last Arc is dropped.
THEOREM TypeCorrect == Spec => []TypeOK
<1>1. TypeOK /\ [Next]_vars => TypeOK'
  <2> SUFFICES ASSUME TypeOK, [Next]_vars PROVE TypeOK'
    OBVIOUS
  <2>1. CASE Next
    BY <2>1, StepType, CallerType, EnvironmentType DEF Next
  <2>2. CASE UNCHANGED vars
    BY <2>2 DEF TypeOK, vars, reqVars, cacheVars, envVars, Held, InMap
  <2> QED
    BY <2>1, <2>2
<1> QED
  BY <1>1, InitType, PTL DEF Spec

-----------------------------------------------------------------------------
(* One heal per account and process, and only with a key backup *)

\* Between the claim and the wipe a request holds the account's only heal: the
\* claim is taken, nothing has been wiped, no other request of the account is
\* there, and past the backup question there is a backup or it was deleted since.
HealInv ==
    /\ \A r \in Req : pc[r] \in Healing => UserOf[r] \in healed /\ wipes[UserOf[r]] = 0
    /\ \A r, q \in Req :
          pc[r] \in Healing /\ pc[q] \in Healing /\ UserOf[r] = UserOf[q] => r = q
    /\ \A u \in User : wipes[u] <= 1 /\ (wipes[u] # 0 => u \in healed)
    /\ \A r \in Req : pc[r] \in {"evict", "wipe"} => backup[UserOf[r]] \/ r \in late

\* The steps that neither claim nor heal: no request enters the healing phases.
QuietStep ==
    /\ healed' = healed /\ wipes' = wipes
    /\ \A q \in Req : pc'[q] \in {"evict", "wipe"} /\ (backup[UserOf[q]] \/ q \in late)
          => backup'[UserOf[q]] \/ q \in late'
    /\ \A q \in Req : pc'[q] \in Healing => pc'[q] = pc[q]

\* Every step but the four of the heal and a restart is quiet.
LEMMA QuietSteps ==
    ASSUME TypeOK, Next
    PROVE  \/ QuietStep
           \/ Restart
           \/ \E r \in Req : Claim(r) \/ BackupYes(r) \/ HealEvict(r) \/ HealWipe(r)
<1>1. ASSUME NEW r \in Req, Caller(r) PROVE QuietStep
  BY <1>1 DEF Caller, for_user, Finish, AuthExpiry, QuietStep, Goto, cacheVars, envVars,
              TypeOK, Healing
<1>2. ASSUME Environment, ~Restart PROVE QuietStep
  BY <1>2 DEF Environment, SyncEnds, KeysUpload, KeysUploadRejected, BackupCreated, BackupDeleted, QuietStep,
              reqVars, cacheVars, envVars, TypeOK
<1>3. ASSUME NEW r \in Req, Step(r),
             ~(Claim(r) \/ BackupYes(r) \/ HealEvict(r) \/ HealWipe(r))
      PROVE  QuietStep
  <2>1. CASE FastPathHit(r) \/ FastPathMiss(r) \/ EvictStale(r) \/ GetCell(r) \/ InsertCell(r)
    BY <2>1 DEF FastPathHit, FastPathMiss, EvictStale, GetCell, InsertCell, QuietStep, Goto,
                cacheVars, envVars, TypeOK, Healing
  <2>2. CASE InitReady(r) \/ InitBuild(r) \/ BuildOpen(r) \/ BuildDone(r) \/ RefreshToken(r)
             \/ VerifyAsk(r) \/ AwaitPublication(r)
    BY <2>2 DEF InitReady, InitBuild, BuildOpen, BuildDone, RefreshToken, VerifyAsk,
                AwaitPublication, QuietStep, Goto, cacheVars, envVars, TypeOK, Healing
  <2>3. CASE BuildFail(r) \/ RefreshFail(r) \/ VerifyLatched(r) \/ QueryTrue(r) \/ QueryError(r)
             \/ ClaimRefused(r) \/ BackupNo(r) \/ HealWipeFail(r)
    BY <2>3 DEF BuildFail, RefreshFail, VerifyLatched, QueryTrue, QueryError, ClaimRefused,
                BackupNo, HealWipeFail, ReturnOk, ReturnErr, QuietStep, Goto, envVars, TypeOK,
                Healing
  <2>4. CASE QueryFalse(r)
    BY <2>4 DEF QueryFalse, ReturnOk, QuietStep, Goto, envVars, TypeOK, Healing
  <2> QED
    BY <1>3, <2>1, <2>2, <2>3, <2>4 DEF Step
<1> QED
  BY <1>1, <1>2, <1>3 DEF Next

\* The heal invariant holds initially, ...
LEMMA InitHeal == Init => HealInv
  BY DEF Init, HealInv, Healing

\* ... and every step preserves it.
LEMMA NextHeal == TypeOK /\ HealInv /\ [Next]_vars => HealInv'
<1> SUFFICES ASSUME TypeOK, HealInv, [Next]_vars PROVE HealInv'
  OBVIOUS
<1>1. CASE QuietStep
  BY <1>1 DEF QuietStep, HealInv, TypeOK, Healing
<1>2. CASE Restart
  BY <1>2 DEF Restart, HealInv, Healing
<1>3. ASSUME NEW r \in Req, Claim(r) PROVE HealInv'
  BY <1>3 DEF Claim, HealInv, TypeOK, Goto, Healing, envVars
<1>4. ASSUME NEW r \in Req, BackupYes(r) PROVE HealInv'
  BY <1>4 DEF BackupYes, HealInv, TypeOK, Goto, Healing, envVars
<1>5. ASSUME NEW r \in Req, HealEvict(r) PROVE HealInv'
  BY <1>5 DEF HealEvict, HealInv, TypeOK, Goto, Healing, envVars
<1>6. ASSUME NEW r \in Req, HealWipe(r) PROVE HealInv'
  BY <1>6 DEF HealWipe, HealInv, TypeOK, Goto, Healing, cacheVars
<1>7. CASE UNCHANGED vars
  BY <1>7 DEF HealInv, vars, reqVars, cacheVars, envVars
<1> QED
  BY <1>1, <1>2, <1>3, <1>4, <1>5, <1>6, <1>7, QuietSteps

\* HealInv is an invariant.
LEMMA HealInvariant == Spec => []HealInv
  BY TypeCorrect, InitHeal, NextHeal, PTL DEF Spec

\* One process wipes the store of one account at most once, however many
\* requests of the account find the device unannounced.
THEOREM OneWipePerProcess == Spec => []AtMostOneWipe
<1>1. HealInv => AtMostOneWipe
  BY DEF HealInv, AtMostOneWipe
<1> QED
  BY <1>1, HealInvariant, PTL

\* The store is removed only while the account has a key backup.
THEOREM WipesAreRecoverable == Spec => WipeOnlyRecoverable
<1>1. TypeOK /\ HealInv /\ [Next]_vars
        => [\A u \in User : storeGen'[u] # storeGen[u]
              => backup[u] \/ \E r \in late : UserOf[r] = u /\ pc[r] = "wipe"]_vars
  <2> SUFFICES ASSUME TypeOK, HealInv, Next, NEW u \in User, storeGen'[u] # storeGen[u]
               PROVE  backup[u] \/ \E r \in late : UserOf[r] = u /\ pc[r] = "wipe"
    OBVIOUS
  <2>1. PICK r \in Req : HealWipe(r)
    <3>1. ASSUME NEW r \in Req, Caller(r) PROVE storeGen' = storeGen
      BY <3>1 DEF Caller, for_user, Finish, AuthExpiry, envVars
    <3>2. ASSUME Environment PROVE storeGen' = storeGen
      BY <3>2 DEF Environment, SyncEnds, KeysUpload, KeysUploadRejected, BackupCreated, BackupDeleted,
                  Restart, envVars
    <3>3. ASSUME NEW r \in Req, Step(r), ~HealWipe(r) PROVE storeGen' = storeGen
      BY <3>3 DEF Step, FastPathHit, FastPathMiss, EvictStale, GetCell, InsertCell, InitReady,
                  InitBuild, BuildOpen, BuildDone, BuildFail, RefreshToken, RefreshFail,
                  VerifyLatched, VerifyAsk, QueryTrue, QueryFalse, QueryError, Claim,
                  ClaimRefused, BackupYes, BackupNo, HealEvict, HealWipeFail,
                  AwaitPublication, envVars
    <3> QED
      BY <3>1, <3>2, <3>3 DEF Next
  <2> QED
    BY <2>1 DEF HealWipe, HealInv, TypeOK
<1> QED
  BY <1>1, TypeCorrect, HealInvariant, PTL DEF Spec, WipeOnlyRecoverable

-----------------------------------------------------------------------------
(* One build per cell *)

Building == {"build", "restore"}

\* The permit of a OnceCell: a building request works on a cell marked so, two
\* of them on two cells, and every cell marked so has its request.
BuildInv ==
    /\ \A r \in Req : pc[r] \in Building => cell[cur[r]].st = "building"
    /\ \A r, q \in Req :
          pc[r] \in Building /\ pc[q] \in Building /\ cur[r] = cur[q] => r = q
    /\ \A c \in Cell : cell[c].st = "building"
          => \E r \in Req : cur[r] = c /\ pc[r] \in Building

\* The steps that neither take nor hand on a permit.
PermitsKept ==
    /\ \A q \in Req : pc'[q] \in Building <=> pc[q] \in Building
    /\ \A q \in Req : pc[q] \in Building => cur'[q] = cur[q]
    /\ \A c \in Cell : (cell'[c].st = "building") <=> (cell[c].st = "building")

\* A step that drops references drops none to a cell under construction.
LEMMA BuildersHold ==
    ASSUME TypeOK, BuildInv,
           \A q \in Req : pc[q] \in Building => cur'[q] = cur[q],
           NEW c \in Cell, cell[c].st = "building"
    PROVE  c \in Held'
  BY DEF BuildInv, Held

\* Every step but taking the permit, using it and handing it on keeps permits.
LEMMA PermitSteps ==
    ASSUME TypeOK, BuildInv, Next
    PROVE  \/ PermitsKept
           \/ Restart
           \/ \E r \in Req : InitBuild(r) \/ BuildDone(r) \/ BuildFail(r)
<1>0. FreeCell.st = "free" /\ EmptyCell.st = "empty"
  BY DEF FreeCell, EmptyCell
<1>1. ASSUME NEW r \in Req, Caller(r) PROVE PermitsKept
  <2>1. \A q \in Req : /\ pc'[q] \in Building <=> pc[q] \in Building
                       /\ cur'[q] = cur[q]
    BY <1>1 DEF Caller, for_user, Finish, AuthExpiry, Goto, TypeOK, Building
  <2> QED
    BY <1>0, <1>1, <2>1, BuildersHold
    DEF Caller, for_user, Finish, AuthExpiry, cacheVars, PermitsKept, TypeOK
<1>2. ASSUME Environment, ~Restart PROVE PermitsKept
  <2>1. ASSUME NEW c \in Cell, SyncEnds(c) PROVE PermitsKept
    <3>1. \A d \in Cell : cell'[d].st = cell[d].st
      BY <2>1 DEF SyncEnds, TypeOK, CellRecord
    <3> QED
      BY <2>1, <3>1 DEF SyncEnds, PermitsKept, reqVars
  <2>2. CASE UNCHANGED <<reqVars, cacheVars>>
    BY <2>2 DEF PermitsKept, reqVars, cacheVars
  <2> QED
    BY <1>2, <2>1, <2>2 DEF Environment, KeysUpload, KeysUploadRejected, BackupCreated,
      BackupDeleted
<1>3. ASSUME NEW r \in Req, Step(r), ~(InitBuild(r) \/ BuildDone(r) \/ BuildFail(r))
      PROVE  PermitsKept
  <2>1. CASE FastPathHit(r) \/ FastPathMiss(r) \/ GetCell(r) \/ InitReady(r) \/ VerifyAsk(r)
             \/ Claim(r) \/ HealWipe(r)
    BY <2>1 DEF FastPathHit, FastPathMiss, GetCell, InitReady, VerifyAsk, Claim, HealWipe,
                PermitsKept, Goto, cacheVars, TypeOK, Building
  <2>2. CASE InsertCell(r)
    <3>1. FreshCell \in Cell /\ cell[FreshCell].st = "free"
      BY <2>2 DEF InsertCell, FreshCell, TypeOK
    <3> QED
      BY <1>0, <2>2, <3>1 DEF InsertCell, PermitsKept, Goto, TypeOK, Building
  <2>3. CASE BuildOpen(r) \/ RefreshToken(r)
    <3>1. CASE BuildOpen(r)
      <4>1. \A c \in Cell : cell'[c].st = cell[c].st
        BY <3>1 DEF BuildOpen, TypeOK, CellRecord
      <4> QED
        BY <3>1, <4>1 DEF BuildOpen, PermitsKept, Goto, TypeOK, Building
    <3>2. CASE RefreshToken(r)
      <4>1. \A c \in Cell : cell'[c].st = cell[c].st
        BY <3>2 DEF RefreshToken, TypeOK, CellRecord
      <4> QED
        BY <3>2, <4>1 DEF RefreshToken, PermitsKept, Goto, TypeOK, Building
    <3> QED
      BY <2>3, <3>1, <3>2
  <2>4. CASE EvictStale(r) \/ HealEvict(r) \/ AwaitPublication(r) \/ BackupYes(r)
    <3>1. \A q \in Req : /\ pc'[q] \in Building <=> pc[q] \in Building
                         /\ pc[q] \in Building => cur'[q] = cur[q]
      BY <2>4 DEF EvictStale, HealEvict, AwaitPublication, BackupYes, Goto, TypeOK, Building
    <3> QED
      BY <1>0, <2>4, <3>1, BuildersHold
      DEF EvictStale, HealEvict, AwaitPublication, BackupYes, Cells, PermitsKept, TypeOK
  <2>5. CASE RefreshFail(r) \/ VerifyLatched(r) \/ QueryError(r) \/ ClaimRefused(r)
             \/ BackupNo(r) \/ HealWipeFail(r)
    <3>1. \A q \in Req : /\ pc'[q] \in Building <=> pc[q] \in Building
                         /\ pc[q] \in Building => cur'[q] = cur[q]
      BY <2>5 DEF RefreshFail, VerifyLatched, QueryError, ClaimRefused, BackupNo, HealWipeFail,
                  ReturnOk, ReturnErr, Goto, TypeOK, Building
    <3> QED
      BY <1>0, <2>5, <3>1, BuildersHold
      DEF RefreshFail, VerifyLatched, QueryError, ClaimRefused, BackupNo, HealWipeFail, Cells,
          PermitsKept, TypeOK
  <2>6. CASE QueryTrue(r)
    <3>1. \A q \in Req : /\ pc'[q] \in Building <=> pc[q] \in Building
                         /\ pc[q] \in Building => cur'[q] = cur[q]
      BY <2>6 DEF QueryTrue, ReturnOk, Goto, TypeOK, Building
    <3>2. \A c \in Cell : [cell EXCEPT ![cur[r]].verified = TRUE][c].st = cell[c].st
      BY DEF TypeOK, CellRecord
    <3> QED
      BY <1>0, <2>6, <3>1, <3>2, BuildersHold DEF QueryTrue, Cells, PermitsKept, TypeOK
  <2>7. CASE QueryFalse(r)
    <3>1. \A q \in Req : /\ pc'[q] \in Building <=> pc[q] \in Building
                         /\ pc[q] \in Building => cur'[q] = cur[q]
      BY <2>7 DEF QueryFalse, ReturnOk, Goto, TypeOK, Building
    <3> QED
      BY <1>0, <2>7, <3>1, BuildersHold DEF QueryFalse, Cells, PermitsKept, TypeOK
  <2> QED
    BY <1>3, <2>1, <2>2, <2>3, <2>4, <2>5, <2>6, <2>7 DEF Step
<1> QED
  BY <1>1, <1>2, <1>3 DEF Next

\* The permit invariant is preserved by every step.
LEMMA NextBuild == TypeOK /\ BuildInv /\ [Next]_vars => BuildInv'
<1> SUFFICES ASSUME TypeOK, BuildInv, [Next]_vars PROVE BuildInv'
  OBVIOUS
<1>0. FreeCell.st = "free" /\ EmptyCell.st = "empty"
  BY DEF FreeCell, EmptyCell
<1>1. CASE PermitsKept
  <2>1. \A q \in Req : pc[q] \in Building => cur[q] \in Cell
    BY DEF TypeOK, Building, Working
  <2> QED
    BY <1>1, <2>1 DEF PermitsKept, BuildInv
<1>2. CASE Restart
  BY <1>0, <1>2 DEF Restart, BuildInv, Building
<1>3. ASSUME NEW r \in Req, InitBuild(r) PROVE BuildInv'
  BY <1>3 DEF InitBuild, BuildInv, TypeOK, Goto, Building, Working, CellRecord
<1>4. ASSUME NEW r \in Req, BuildDone(r) PROVE BuildInv'
  BY <1>4 DEF BuildDone, BuildInv, TypeOK, Goto, Building, Working, CellRecord
<1>5. ASSUME NEW r \in Req, BuildFail(r) PROVE BuildInv'
  <2>1. \A q \in Req : /\ pc'[q] \in Building <=> (pc[q] \in Building /\ q # r)
                       /\ q # r => cur'[q] = cur[q]
    BY <1>5 DEF BuildFail, ReturnErr, Goto, TypeOK, Building
  <2>2. \A q \in Req : pc'[q] \in Building => cur[q] \in Cell /\ cur[q] \in Held' /\ cur[q] # cur[r]
    BY <1>5, <2>1 DEF BuildFail, BuildInv, TypeOK, Building, Working, Held
  <2>3. \A c \in Cell : /\ c \in Held' /\ c # cur[r] => cell'[c] = cell[c]
                        /\ (c \notin Held' \/ c = cur[r]) => cell'[c].st # "building"
    BY <1>0, <1>5 DEF BuildFail, Cells, TypeOK, Building, Working
  <2> QED
    BY <2>1, <2>2, <2>3 DEF BuildInv
<1>6. CASE UNCHANGED vars
  BY <1>6 DEF BuildInv, vars, reqVars, cacheVars
<1> QED
  BY <1>1, <1>2, <1>3, <1>4, <1>5, <1>6, PermitSteps

\* BuildInv is an invariant.
LEMMA BuildInvariant == Spec => []BuildInv
<1>1. Init => BuildInv
  BY DEF Init, BuildInv, Building, FreeCell
<1> QED
  BY <1>1, TypeCorrect, NextBuild, PTL DEF Spec

\* Two requests never build into one cell, and no cell is left marked as being
\* built without a request that builds it.
THEOREM BuildersAreUnique == Spec => []OneBuilderPerCell
<1>1. BuildInv => OneBuilderPerCell
  BY DEF BuildInv, OneBuilderPerCell, Building
<1> QED
  BY <1>1, BuildInvariant, PTL

-----------------------------------------------------------------------------
(* No dead client is served *)

\* A cell that was dead when a request started is still held by somebody, is
\* not what the request works on, and is in the map only with a finished sync;
\* past the stale check it is not the account's entry any more.
DeadInv ==
    /\ \A r \in Req : dead[r] \subseteq Held /\ cur[r] \notin dead[r]
    /\ \A r \in Req : \A c \in dead[r] : InMap(c) => cell[c].sync = "finished"
    /\ \A r \in Req : pc[r] = "insert" => map[UserOf[r]] \notin dead[r]
    /\ \A c \in Cell : cell[c].sync # "none" => cell[c].st = "ready"

\* The steps that add no reference, revive no sync task and reach no insertion.
OnlyDrops ==
    /\ \A u \in User : map'[u] = map[u] \/ map'[u] = None
    /\ \A q \in Req : cur'[q] = cur[q] \/ cur'[q] = None
    /\ \A q \in Req : dead'[q] \subseteq dead[q] /\ dead'[q] \subseteq Held'
    /\ \A q \in Req : pc'[q] = "insert" => pc[q] = "insert"
    /\ \A c \in Cell : c \in Held' /\ cell[c].sync = "finished" => cell'[c].sync = "finished"
    /\ \A c \in Cell : cell'[c].sync # "none" => cell'[c].st = "ready"

\* Such steps preserve the invariant.
LEMMA DropsKeepDead ==
    ASSUME TypeOK, DeadInv, OnlyDrops
    PROVE  DeadInv'
<1>1. \A r \in Req : dead[r] \subseteq Cell
  BY DEF TypeOK
<1>2. \A c \in Cell : InMap(c)' => InMap(c)
  BY DEF OnlyDrops, InMap
<1>3. \A r \in Req : cur'[r] \notin dead'[r]
  BY <1>1 DEF OnlyDrops, DeadInv
<1>4. \A r \in Req : \A c \in dead'[r] : InMap(c)' => cell'[c].sync = "finished"
  BY <1>1, <1>2 DEF OnlyDrops, DeadInv
<1>5. \A r \in Req : pc'[r] = "insert" => map'[UserOf[r]] \notin dead'[r]
  BY <1>1 DEF OnlyDrops, DeadInv
<1> QED
  BY <1>3, <1>4, <1>5 DEF OnlyDrops, DeadInv

\* Every step but a call, a lookup that finds something and the three steps
\* under the write lock only drops.
LEMMA DropSteps ==
    ASSUME TypeOK, BuildInv, DeadInv, Next
    PROVE  \/ OnlyDrops
           \/ \E r \in Req : for_user(r) \/ FastPathHit(r) \/ EvictStale(r) \/ GetCell(r) \/ InsertCell(r)
<1>0. /\ FreeCell.sync = "none" /\ EmptyCell.sync = "none"
      /\ \A q \in Req : dead[q] \subseteq Cell
  BY DEF FreeCell, EmptyCell, TypeOK
<1>1. ASSUME Restart PROVE OnlyDrops
  <2>1. \A c \in Cell : c \notin Held' /\ cell'[c] = FreeCell
    BY <1>1 DEF Restart, Held, InMap
  <2> QED
    BY <1>0, <1>1, <2>1 DEF Restart, OnlyDrops
<1>2. ASSUME NEW c \in Cell, SyncEnds(c) PROVE OnlyDrops
  <2>1. Held' = Held
    BY <1>2 DEF SyncEnds, Held, InMap, reqVars
  <2>2. /\ \A d \in Cell : cell'[d].st = cell[d].st
        /\ \A d \in Cell : d # c => cell'[d] = cell[d]
        /\ cell'[c].sync = "finished"
    BY <1>2 DEF SyncEnds, TypeOK, CellRecord
  <2> QED
    BY <1>2, <2>1, <2>2 DEF SyncEnds, OnlyDrops, DeadInv, reqVars
<1>3. ASSUME UNCHANGED <<map, cell, cur, outer>>,
             \A q \in Req : dead'[q] \subseteq dead[q],
             \A q \in Req : pc'[q] = "insert" => pc[q] = "insert"
      PROVE  OnlyDrops
  <2>1. Held' = Held
    BY <1>3 DEF Held, InMap
  <2> QED
    BY <1>3, <2>1 DEF OnlyDrops, DeadInv
<1>4. ASSUME NEW r \in Req, AuthExpiry(r) PROVE OnlyDrops
  <2>1. \A q \in Req : dead'[q] \subseteq dead[q] /\ dead'[q] \subseteq Held'
    BY <1>4 DEF AuthExpiry
  <2>2. \A c \in Cell : cell'[c] = IF c \in Held' THEN cell[c] ELSE FreeCell
    BY <1>4 DEF AuthExpiry
  <2>3. \A u \in User : map'[u] = map[u] \/ map'[u] = None
    BY <1>4 DEF AuthExpiry, Evict, TypeOK
  <2> QED
    BY <1>0, <1>4, <2>1, <2>2, <2>3 DEF AuthExpiry, Goto, OnlyDrops, DeadInv, TypeOK
<1>5. ASSUME NEW r \in Req, InitBuild(r) \/ BuildOpen(r) \/ BuildDone(r) \/ RefreshToken(r)
      PROVE  OnlyDrops
  <2>1. Held' = Held /\ cur[r] \in Cell
    BY <1>5 DEF InitBuild, BuildOpen, BuildDone, RefreshToken, Held, InMap, TypeOK, Working
  <2>2. \A c \in Cell : c # cur[r] => cell'[c] = cell[c]
    BY <1>5 DEF InitBuild, BuildOpen, BuildDone, RefreshToken, TypeOK
  <2>3. /\ cell[cur[r]].sync = "finished" => cell'[cur[r]].sync = "finished"
        /\ cell'[cur[r]].sync # "none" => cell'[cur[r]].st = "ready"
    <3>1. CASE InitBuild(r)
      BY <2>1, <3>1 DEF InitBuild, DeadInv, TypeOK, CellRecord
    <3>2. CASE BuildOpen(r)
      BY <2>1, <3>2 DEF BuildOpen, DeadInv, TypeOK, CellRecord
    <3>3. CASE BuildDone(r)
      BY <2>1, <3>3 DEF BuildDone, DeadInv, BuildInv, Building, TypeOK, CellRecord
    <3>4. CASE RefreshToken(r)
      BY <2>1, <3>4 DEF RefreshToken, DeadInv, TypeOK, CellRecord
    <3> QED
      BY <1>5, <3>1, <3>2, <3>3, <3>4
  <2>4. UNCHANGED <<map, cur, dead>> /\ \A q \in Req : pc'[q] = "insert" => pc[q] = "insert"
    BY <1>5 DEF InitBuild, BuildOpen, BuildDone, RefreshToken, Goto, TypeOK
  <2> QED
    BY <2>1, <2>2, <2>3, <2>4 DEF OnlyDrops, DeadInv
<1>6. ASSUME Cells(cell),
             \A u \in User : map'[u] = map[u] \/ map'[u] = None,
             \A q \in Req : cur'[q] = cur[q] \/ cur'[q] = None,
             \A q \in Req : pc'[q] = "insert" => pc[q] = "insert"
      PROVE  OnlyDrops
  BY <1>0, <1>6 DEF Cells, OnlyDrops, DeadInv
<1>7. ASSUME NEW r \in Req, BuildFail(r) PROVE OnlyDrops
  <2>1. cur[r] \in Cell /\ cell[cur[r]].sync = "none"
    BY <1>7 DEF BuildFail, TypeOK, Working, BuildInv, Building, DeadInv
  <2>2. \A c \in Cell : cell'[c] = IF c \notin Held' THEN FreeCell
                                   ELSE IF c = cur[r] THEN EmptyCell ELSE cell[c]
    BY <1>7, <2>1 DEF BuildFail, Cells, TypeOK
  <2> QED
    BY <1>0, <1>7, <2>1, <2>2
    DEF BuildFail, Cells, ReturnErr, Goto, OnlyDrops, DeadInv, TypeOK
<1>8. ASSUME NEW r \in Req, QueryTrue(r) PROVE OnlyDrops
  <2> DEFINE s == [cell EXCEPT ![cur[r]].verified = TRUE]
  <2>1. \A c \in Cell : s[c].st = cell[c].st /\ s[c].sync = cell[c].sync
    BY DEF TypeOK, CellRecord
  <2>2. Cells(s)
    BY <1>8 DEF QueryTrue
  <2> HIDE DEF s
  <2> QED
    BY <1>0, <1>8, <2>1, <2>2 DEF QueryTrue, Cells, ReturnOk, Goto, OnlyDrops, DeadInv, TypeOK
<1>9. ASSUME NEW r \in Req,
             HealEvict(r) \/ AwaitPublication(r) \/ BackupYes(r) \/ RefreshFail(r)
             \/ VerifyLatched(r) \/ QueryError(r) \/ ClaimRefused(r) \/ BackupNo(r)
             \/ HealWipeFail(r)
      PROVE  OnlyDrops
  BY <1>6, <1>9
  DEF HealEvict, Evict, AwaitPublication, BackupYes, RefreshFail, VerifyLatched, QueryError,
      ClaimRefused, BackupNo, HealWipeFail, ReturnOk, ReturnErr, Goto, TypeOK
<1>10. ASSUME NEW r \in Req, QueryFalse(r) PROVE OnlyDrops
  BY <1>6, <1>10 DEF QueryFalse, ReturnOk, Goto, TypeOK
<1>11. ASSUME NEW r \in Req,
              FastPathMiss(r) \/ InitReady(r) \/ VerifyAsk(r) \/ Claim(r) \/ HealWipe(r) \/ Finish(r)
       PROVE  OnlyDrops
  BY <1>3, <1>11
  DEF FastPathMiss, InitReady, VerifyAsk, Claim, HealWipe, Finish, Goto, cacheVars, TypeOK
<1>12. ASSUME NEW u \in User, NEW c \in Cell,
              KeysUpload(u, c) \/ KeysUploadRejected(u, c)
       PROVE  OnlyDrops
  BY <1>3, <1>12 DEF KeysUpload, KeysUploadRejected, reqVars, cacheVars
<1>13. ASSUME NEW u \in User, BackupCreated(u) \/ BackupDeleted(u) PROVE OnlyDrops
  BY <1>3, <1>13 DEF BackupCreated, BackupDeleted, reqVars, cacheVars
<1> QED
  BY <1>1, <1>2, <1>4, <1>5, <1>7, <1>8, <1>9, <1>10, <1>11, <1>12, <1>13
  DEF Next, Step, Caller, Environment

\* The invariant is preserved by every step.
LEMMA NextDead == TypeOK /\ BuildInv /\ DeadInv /\ [Next]_vars => DeadInv'
<1> SUFFICES ASSUME TypeOK, BuildInv, DeadInv, [Next]_vars PROVE DeadInv'
  OBVIOUS
<1>0. /\ FreeCell.sync = "none" /\ EmptyCell.sync = "none" /\ None \notin Cell
      /\ \A q \in Req : dead[q] \subseteq Cell /\ UserOf[q] \in User
  BY DEF FreeCell, EmptyCell, TypeOK
<1>1. ASSUME NEW r \in Req, for_user(r) PROVE DeadInv'
  <2>1. Held' = Held /\ (\A c \in Cell : InMap(c)' <=> InMap(c))
    BY <1>1 DEF for_user, Held, InMap, cacheVars
  <2>2. cur[r] = None /\ pc'[r] = "lookup"
    BY <1>1 DEF for_user, Goto, TypeOK, Working
  <2>3. /\ Dead \subseteq Held /\ Dead \subseteq Cell
        /\ \A c \in Dead : InMap(c) => cell[c].sync = "finished"
    BY DEF Dead, Held
  <2>4. \A q \in Req : dead'[q] = IF q = r THEN Dead ELSE dead[q]
    BY <1>1 DEF for_user, TypeOK
  <2>5. \A q \in Req : q # r => pc'[q] = pc[q]
    BY <1>1 DEF for_user, Goto, TypeOK
  <2>6. UNCHANGED <<map, cell, cur>>
    BY <1>1 DEF for_user, cacheVars
  <2> QED
    BY <1>0, <2>1, <2>2, <2>3, <2>4, <2>5, <2>6 DEF DeadInv
<1>2. ASSUME NEW r \in Req, FastPathHit(r) PROVE DeadInv'
  <2>1. UNCHANGED <<map, cell, outer, dead>>
    BY <1>2 DEF FastPathHit, cacheVars
  <2>2. \A c \in Cell : InMap(c)' <=> InMap(c)
    BY <2>1 DEF InMap
  <2>3. cur[r] = None
    BY <1>0, <1>2 DEF FastPathHit, TypeOK, Working
  <2>4. \A q \in Req : cur'[q] = IF q = r THEN map[UserOf[r]] ELSE cur[q]
    BY <1>0, <1>2 DEF FastPathHit, TypeOK
  <2>5. Held \subseteq Held'
    BY <2>1, <2>2, <2>3, <2>4, CellAssumption DEF Held
  <2>6. map[UserOf[r]] \notin dead[r]
    BY <1>0, <1>2 DEF FastPathHit, DeadInv, InMap
  <2>7. \A q \in Req : pc'[q] = "insert" => pc[q] = "insert"
    BY <1>0, <1>2 DEF FastPathHit, Goto, TypeOK
  <2> QED
    BY <1>0, <2>1, <2>2, <2>4, <2>5, <2>6, <2>7 DEF DeadInv
<1>3. ASSUME NEW r \in Req, EvictStale(r) PROVE DeadInv'
  <2>1. \A q \in Req : dead'[q] \subseteq dead[q] /\ dead'[q] \subseteq Held'
    BY <1>3 DEF EvictStale, Cells
  <2>2. \A u \in User : map'[u] = map[u] \/ map'[u] = None
    BY <1>3 DEF EvictStale, TypeOK
  <2>3. map'[UserOf[r]] \notin dead[r]
    <3>1. CASE map[UserOf[r]] \in dead[r]
      <4>1. contains(UserOf[r]) /\ cell[map[UserOf[r]]].sync = "finished"
        BY <1>0, <3>1 DEF DeadInv, InMap, contains
      <4> QED
        BY <1>0, <1>3, <4>1 DEF EvictStale, TypeOK
    <3>2. CASE map[UserOf[r]] \notin dead[r]
      BY <1>0, <2>2, <3>2
    <3> QED
      BY <3>1, <3>2
  <2>4. \A c \in Cell : cell'[c] = IF c \in Held' THEN cell[c] ELSE FreeCell
    BY <1>3 DEF EvictStale, Cells
  <2>5. \A c \in Cell : InMap(c)' => InMap(c)
    BY <2>2 DEF InMap
  <2>6. \A q \in Req : q # r => pc'[q] = pc[q]
    BY <1>3 DEF EvictStale, Goto, TypeOK
  <2>7. cur' = cur
    BY <1>3 DEF EvictStale
  <2>8. \A q \in Req : pc'[q] = "insert" => map'[UserOf[q]] \notin dead'[q]
    BY <1>0, <2>1, <2>2, <2>3, <2>6 DEF DeadInv
  <2> QED
    BY <1>0, <2>1, <2>4, <2>5, <2>7, <2>8 DEF DeadInv
<1>4. ASSUME NEW r \in Req, GetCell(r) PROVE DeadInv'
  <2>1. UNCHANGED <<map, cell, outer, dead>>
    BY <1>4 DEF GetCell, cacheVars
  <2>2. \A c \in Cell : InMap(c)' <=> InMap(c)
    BY <2>1 DEF InMap
  <2>3. cur[r] = None
    BY <1>0, <1>4 DEF GetCell, TypeOK, Working
  <2>4. \A q \in Req : cur'[q] = IF q = r THEN map[UserOf[r]] ELSE cur[q]
    BY <1>0, <1>4 DEF GetCell, TypeOK
  <2>5. Held \subseteq Held'
    BY <2>1, <2>2, <2>3, <2>4, CellAssumption DEF Held
  <2>6. map[UserOf[r]] \notin dead[r]
    BY <1>0, <1>4 DEF GetCell, DeadInv
  <2>7. \A q \in Req : pc'[q] = "insert" => pc[q] = "insert"
    BY <1>0, <1>4 DEF GetCell, Goto, TypeOK
  <2> QED
    BY <1>0, <2>1, <2>2, <2>4, <2>5, <2>6, <2>7 DEF DeadInv
<1>5. ASSUME NEW r \in Req, InsertCell(r) PROVE DeadInv'
  <2>1. FreshCell \in Cell /\ FreshCell \notin Held
    BY <1>5 DEF InsertCell, FreshCell
  <2>2. \A q \in Req : FreshCell \notin dead[q]
    BY <2>1 DEF DeadInv
  <2>3. Held \subseteq Held'
    BY <1>0, <1>5, InsertHolds
  <2>4. \A c \in Cell : c # FreshCell /\ InMap(c)' => InMap(c)
    BY <1>5 DEF InsertCell, InMap, TypeOK
  <2>5. \A c \in Cell : cell'[c] = IF c = FreshCell THEN EmptyCell ELSE cell[c]
    BY <1>5 DEF InsertCell, TypeOK
  <2>6. \A q \in Req : cur'[q] = IF q = r THEN FreshCell ELSE cur[q]
    BY <1>5 DEF InsertCell, TypeOK
  <2>7. \A u \in User : map'[u] = map[u] \/ map'[u] = FreshCell
    BY <1>5 DEF InsertCell, TypeOK
  <2>8. dead' = dead /\ \A q \in Req : pc'[q] = "insert" => pc[q] = "insert"
    BY <1>5 DEF InsertCell, Goto, TypeOK
  <2> QED
    BY <1>0, <2>1, <2>2, <2>3, <2>4, <2>5, <2>6, <2>7, <2>8 DEF DeadInv
<1>6. CASE UNCHANGED vars
  <2>1. UNCHANGED <<map, cur, outer>>
    BY <1>6 DEF vars, reqVars, cacheVars
  <2>2. Held' = Held /\ (\A c \in Cell : InMap(c)' <=> InMap(c))
    BY <2>1 DEF Held, InMap
  <2> QED
    BY <1>6, <2>2, <1>0 DEF DeadInv, vars, reqVars, cacheVars
<1> QED
  BY <1>1, <1>2, <1>3, <1>4, <1>5, <1>6, DropSteps, DropsKeepDead

\* No request ever works on a client that was evicted, or whose sync task had
\* ended, before the request started.
THEOREM DeadClientsStayDead == Spec => []NoDeadClientServed
<1>1. Init => DeadInv
  BY DEF Init, DeadInv, FreeCell
<1>2. DeadInv => NoDeadClientServed
  BY DEF DeadInv, NoDeadClientServed
<1> QED
  BY <1>1, <1>2, TypeCorrect, BuildInvariant, NextDead, PTL DEF Spec

-----------------------------------------------------------------------------
(* A call's way to its return *)

\* The phases that only a first pass reaches.
FirstOnly == {"claim", "backup", "evict", "wipe"}

\* A retry pass does not heal.
PassInv == \A r \in Req : pc[r] \in FirstOnly => ~retry[r]

\* Request r goes on to phase q, which is nearer to its return.
Forward(r, q) ==
    /\ pc' = [pc EXCEPT ![r] = q] /\ retry' = retry
    /\ Ahead(q) < Ahead(pc[r])
    /\ q \in FirstOnly => pc[r] \in FirstOnly \/ ~retry[r]

\* Every phase of a call but the two it ends in has a step before it.
LEMMA AheadOfReturn ==
  ASSUME NEW p \in Phase
  PROVE  /\ Ahead(p) \in 0..14
         /\ p \notin {"idle", "ok", "failed"} => Ahead(p) > 0
         /\ p \notin {"idle", "ok", "failed", "await"} => Ahead(p) > 1
<1>1. /\ Ahead("lookup") = 14 /\ Ahead("stale") = 13 /\ Ahead("insert") = 12
      /\ Ahead("init") = 11 /\ Ahead("build") = 10 /\ Ahead("restore") = 9
      /\ Ahead("refresh") = 8 /\ Ahead("verify") = 7 /\ Ahead("query") = 6
      /\ Ahead("claim") = 5 /\ Ahead("backup") = 4 /\ Ahead("evict") = 3
      /\ Ahead("wipe") = 2 /\ Ahead("await") = 1
      /\ Ahead("idle") = 0 /\ Ahead("ok") = 0 /\ Ahead("failed") = 0
  BY DEF Ahead
<1> HIDE DEF Ahead
<1> QED
  BY <1>1 DEF Phase

\* A pass that returns is at the end of its way, or waits for the publication.
LEMMA ReturnForward ==
  ASSUME TypeOK, NEW r \in Req, ReturnOk(r) \/ ReturnErr(r), retry' = retry,
         pc[r] \notin {"idle", "ok", "failed", "await"}
  PROVE  \E q \in Phase : Forward(r, q)
<1>1. pc[r] \in Phase /\ Ahead(pc[r]) > 1
  BY AheadOfReturn DEF TypeOK
<1>2. /\ "ok" \in Phase /\ "await" \in Phase /\ "failed" \in Phase
      /\ Ahead("ok") = 0 /\ Ahead("failed") = 0 /\ Ahead("await") = 1
      /\ {"ok", "await", "failed"} \cap FirstOnly = {}
      /\ Ahead(pc[r]) \in 0..14
  BY <1>1, AheadOfReturn DEF Phase, Ahead, FirstOnly
<1>3. PICK q \in {"ok", "await", "failed"} : pc' = [pc EXCEPT ![r] = q]
  BY DEF ReturnOk, ReturnErr, Goto
<1>4. q \in Phase /\ q \notin FirstOnly /\ Ahead(q) < Ahead(pc[r])
  BY <1>1, <1>2
<1> QED
  BY <1>3, <1>4 DEF Forward

\* Every step of a call but the recursion is a step forward.
LEMMA StepForward ==
  ASSUME TypeOK, NEW r \in Req, Step(r), ~HealWipe(r)
  PROVE  \E q \in Phase : Forward(r, q)
<1>1. CASE FastPathHit(r)
  <2>1. Forward(r, "refresh")
    BY <1>1 DEF FastPathHit, Goto, Forward, Ahead, FirstOnly
  <2> QED
    BY <2>1 DEF Phase
<1>2. CASE FastPathMiss(r)
  <2>1. Forward(r, "stale")
    BY <1>2 DEF FastPathMiss, Goto, Forward, Ahead, FirstOnly
  <2> QED
    BY <2>1 DEF Phase
<1>3. CASE EvictStale(r)
  <2>1. Forward(r, "insert")
    BY <1>3 DEF EvictStale, Goto, Forward, Ahead, FirstOnly
  <2> QED
    BY <2>1 DEF Phase
<1>4. CASE GetCell(r) \/ InsertCell(r)
  <2>1. Forward(r, "init")
    BY <1>4 DEF GetCell, InsertCell, Goto, Forward, Ahead, FirstOnly
  <2> QED
    BY <2>1 DEF Phase
<1>5. CASE InitReady(r) \/ BuildDone(r)
  <2>1. Forward(r, "refresh")
    BY <1>5 DEF InitReady, BuildDone, Goto, Forward, Ahead, FirstOnly
  <2> QED
    BY <2>1 DEF Phase
<1>6. CASE InitBuild(r)
  <2>1. Forward(r, "build")
    BY <1>6 DEF InitBuild, Goto, Forward, Ahead, FirstOnly
  <2> QED
    BY <2>1 DEF Phase
<1>7. CASE BuildOpen(r)
  <2>1. Forward(r, "restore")
    BY <1>7 DEF BuildOpen, Goto, Forward, Ahead, FirstOnly
  <2> QED
    BY <2>1 DEF Phase
<1>8. CASE RefreshToken(r)
  <2>1. Forward(r, "verify")
    BY <1>8 DEF RefreshToken, Goto, Forward, Ahead, FirstOnly
  <2> QED
    BY <2>1 DEF Phase
<1>9. CASE VerifyAsk(r)
  <2>1. Forward(r, "query")
    BY <1>9 DEF VerifyAsk, Goto, Forward, Ahead, FirstOnly
  <2> QED
    BY <2>1 DEF Phase
<1>10. CASE QueryFalse(r) /\ ~retry[r]
  <2>1. Forward(r, "claim")
    BY <1>10 DEF QueryFalse, Goto, Forward, Ahead, FirstOnly
  <2> QED
    BY <2>1 DEF Phase
<1>11. CASE Claim(r)
  <2>1. Forward(r, "backup")
    BY <1>11 DEF Claim, Goto, Forward, Ahead, FirstOnly
  <2> QED
    BY <2>1 DEF Phase
<1>12. CASE BackupYes(r)
  <2>1. Forward(r, "evict")
    BY <1>12 DEF BackupYes, Goto, Forward, Ahead, FirstOnly
  <2> QED
    BY <2>1 DEF Phase
<1>13. CASE HealEvict(r)
  <2>1. Forward(r, "wipe")
    BY <1>13 DEF HealEvict, Goto, Forward, Ahead, FirstOnly
  <2> QED
    BY <2>1 DEF Phase
<1>14. CASE AwaitPublication(r)
  <2>1. Forward(r, "ok")
    BY <1>14 DEF AwaitPublication, Goto, Forward, Ahead, FirstOnly
  <2> QED
    BY <2>1 DEF Phase
<1>15. CASE \/ BuildFail(r) \/ RefreshFail(r) \/ VerifyLatched(r) \/ QueryTrue(r)
            \/ QueryFalse(r) /\ retry[r]
            \/ QueryError(r) \/ ClaimRefused(r) \/ BackupNo(r) \/ HealWipeFail(r)
  <2>1. pc[r] \notin {"idle", "ok", "failed", "await"}
    BY <1>15 DEF BuildFail, RefreshFail, VerifyLatched, QueryTrue, QueryFalse, QueryError,
         ClaimRefused, BackupNo, HealWipeFail
  <2>2. (ReturnOk(r) \/ ReturnErr(r)) /\ retry' = retry
    BY <1>15 DEF BuildFail, RefreshFail, VerifyLatched, QueryTrue, QueryFalse, QueryError,
         ClaimRefused, BackupNo, HealWipeFail
  <2> QED
    BY <2>1, <2>2, ReturnForward
<1> QED
  BY <1>1, <1>2, <1>3, <1>4, <1>5, <1>6, <1>7, <1>8, <1>9, <1>10, <1>11, <1>12, <1>13,
     <1>14, <1>15 DEF Step

\* Request r's way after one step of anybody.
Advances(r) ==
    pc'[r] # pc[r] \/ retry'[r] # retry[r] =>
        \/ pc[r] \in {"idle", "ok", "failed"} \/ pc'[r] = "idle"
        \/ StepsLeft(r)' < StepsLeft(r)

\* One step keeps retry passes from healing and brings every call forward.
LEMMA NextAdvances ==
  ASSUME TypeOK, PassInv, [Next]_vars
  PROVE  PassInv' /\ \A r \in Req : Advances(r)
<1>0. pc \in [Req -> Phase] /\ retry \in [Req -> BOOLEAN]
  BY DEF TypeOK
<1>1. ASSUME NEW r \in Req, Step(r), ~HealWipe(r)
      PROVE  PassInv' /\ \A q \in Req : Advances(q)
  <2>1. PICK p \in Phase : Forward(r, p)
    BY <1>1, StepForward
  <2>2. /\ pc'[r] = p /\ retry' = retry /\ Ahead(p) < Ahead(pc[r])
        /\ p \in FirstOnly => pc[r] \in FirstOnly \/ ~retry[r]
        /\ \A q \in Req \ {r} : pc'[q] = pc[q]
    BY <1>0, <2>1 DEF Forward
  <2>3. PassInv'
    BY <2>2 DEF PassInv
  <2>4. Advances(r)
    <3>1. Ahead(p) \in Nat /\ Ahead(pc[r]) \in Nat /\ Ahead("lookup") \in Nat
      BY <1>0, AheadOfReturn DEF Phase
    <3>2. StepsLeft(r)' < StepsLeft(r)
      BY <2>2, <3>1 DEF StepsLeft
    <3> QED
      BY <3>2 DEF Advances
  <2> QED
    BY <2>2, <2>3, <2>4 DEF Advances
<1>2. ASSUME NEW r \in Req, HealWipe(r) PROVE PassInv' /\ \A q \in Req : Advances(q)
  <2>1. /\ pc[r] = "wipe" /\ ~retry[r] /\ pc'[r] = "lookup" /\ retry'[r]
        /\ \A q \in Req \ {r} : pc'[q] = pc[q] /\ retry'[q] = retry[q]
    BY <1>0, <1>2 DEF HealWipe, Goto, PassInv, FirstOnly
  <2>2. PassInv'
    BY <2>1 DEF PassInv, FirstOnly
  <2>3. StepsLeft(r)' < StepsLeft(r)
    BY <2>1 DEF StepsLeft, Ahead
  <2> QED
    BY <2>1, <2>2, <2>3 DEF Advances
<1>3. ASSUME NEW r \in Req, Caller(r) PROVE PassInv' /\ \A q \in Req : Advances(q)
  <2>1. /\ pc[r] \in {"idle", "ok", "failed"} /\ pc'[r] \in {"idle", "lookup"}
        /\ \A q \in Req \ {r} : pc'[q] = pc[q] /\ retry'[q] = retry[q]
    BY <1>0, <1>3 DEF Caller, for_user, Finish, AuthExpiry, Goto
  <2> QED
    BY <2>1 DEF PassInv, FirstOnly, Advances
<1>4. CASE Environment \/ UNCHANGED vars
  <2>1. (pc' = pc /\ retry' = retry) \/ \A q \in Req : pc'[q] = "idle"
    BY <1>4 DEF Environment, SyncEnds, KeysUpload, KeysUploadRejected, BackupCreated,
         BackupDeleted, Restart, reqVars, vars
  <2> QED
    BY <2>1 DEF PassInv, FirstOnly, Advances
<1> QED
  BY <1>1, <1>2, <1>3, <1>4 DEF Next

\* Every step of a call of for_user brings it nearer to its return and nothing
\* else sets it back, although it recurses after a heal: the retry pass never
\* heals again. With the fairness of the tasks this is why calls return.
THEOREM CallsAdvance == Spec => CallAdvances
<1>1. Init => PassInv
  BY DEF Init, PassInv, FirstOnly
<1>2. TypeOK /\ PassInv /\ [Next]_vars => PassInv'
  BY NextAdvances
<1>3. TypeOK /\ PassInv /\ [Next]_vars =>
        [\A r \in Req : pc'[r] # pc[r] \/ retry'[r] # retry[r] =>
            \/ pc[r] \in {"idle", "ok", "failed"} \/ pc'[r] = "idle"
            \/ StepsLeft(r)' < StepsLeft(r)]_vars
  BY NextAdvances DEF Advances
<1> QED
  BY <1>1, <1>2, <1>3, TypeCorrect, PTL DEF Spec, CallAdvances

=============================================================================
