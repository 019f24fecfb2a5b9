---------------------------- MODULE KeyBackupGate ----------------------------
(***************************************************************************)
(* The limiter of key-backup downloads (key_backup_gate.rs) and the jobs   *)
(* that go through it: the back-fill that a recovery spawns (setup.rs),    *)
(* the pull that a read of undecryptable events spawns and the             *)
(* request_room_keys tool (mcp.rs). One caller, so a cooldown is per room. *)
(* in_cooldown and the semaphore are two steps, as no lock spans them.     *)
(***************************************************************************)
EXTENDS Integers, FiniteSets

CONSTANTS
    Job,             \* tasks that download keys
    KeyRoom,         \* encrypted rooms
    MaxConcurrent,   \* MAX_CONCURRENT
    MaxRooms,        \* KEY_BACKUP_MAX_ROOMS
    None

ASSUME GateAssumption ==
    /\ MaxConcurrent \in Nat \ {0} /\ MaxRooms \in Nat
    /\ None \notin KeyRoom

VARIABLES
    permits,   \* free permits of the semaphore
    cooling,   \* rooms whose last success is less than COOLDOWN ago
    job        \* the jobs: where each is, its room, the rooms it has still to do

gateVars == <<permits, cooling, job>>

NoJob == [pc |-> "off", room |-> None, todo |-> {}]

GateInit ==
    /\ permits = MaxConcurrent
    /\ cooling = {}
    /\ job = [j \in Job |-> NoJob]

Free(j) == job[j].pc = "off"

\* A task is spawned for some rooms.
Spawned(j, R) == [job EXCEPT ![j] = [NoJob EXCEPT !.pc = "next", !.todo = R]]

\* A back-fill does the first KEY_BACKUP_MAX_ROOMS of the encrypted rooms.
Spawn(j) ==
    /\ Free(j)
    /\ \E R \in SUBSET KeyRoom : Cardinality(R) <= MaxRooms /\ job' = Spawned(j, R)
    /\ UNCHANGED <<permits, cooling>>

\* request_room_keys, or a read that met undecryptable events.
PullRoom(j, x) ==
    /\ Free(j)
    /\ job' = Spawned(j, {x})
    /\ UNCHANGED <<permits, cooling>>

\* The loop: the next room, or the end of the task.
NextRoom(j) ==
    /\ job[j].pc = "next"
    /\ IF job[j].todo = {} THEN job' = [job EXCEPT ![j] = NoJob]
       ELSE \E x \in job[j].todo :
              job' = [job EXCEPT ![j] = [pc |-> "ask", room |-> x, todo |-> @.todo \ {x}]]
    /\ UNCHANGED <<permits, cooling>>

GoOn(j) == job' = [job EXCEPT ![j].pc = "next", ![j].room = None]

\* try_acquire, first half: a room in its cooldown is skipped.
InCooldown(j) ==
    /\ job[j].pc = "ask"
    /\ IF job[j].room \in cooling THEN GoOn(j)
       ELSE job' = [job EXCEPT ![j].pc = "take"]
    /\ UNCHANGED <<permits, cooling>>

\* try_acquire, second half: nobody waits for a permit, the room is skipped.
TryAcquire(j) ==
    /\ job[j].pc = "take"
    /\ IF permits = 0 THEN GoOn(j) /\ UNCHANGED permits
       ELSE job' = [job EXCEPT ![j].pc = "pull"] /\ permits' = permits - 1
    /\ UNCHANGED cooling

\* The download ends well: record_success, then the permit is dropped.
PullOk(j) ==
    /\ job[j].pc = "pull"
    /\ cooling' = cooling \cup {job[j].room}
    /\ permits' = permits + 1
    /\ GoOn(j)

\* Mutant of PullFails: only a success gives the permit back.
PullLeaks(j) ==
    /\ job[j].pc = "pull"
    /\ GoOn(j)
    /\ UNCHANGED <<permits, cooling>>

\* An error, or the timeout of the caller: no cooldown, the permit comes back.
PullFails(j) ==
    /\ job[j].pc = "pull"
    /\ permits' = permits + 1
    /\ GoOn(j)
    /\ UNCHANGED cooling

\* COOLDOWN passes.
CooldownEnds(x) ==
    /\ x \in cooling
    /\ cooling' = cooling \ {x}
    /\ UNCHANGED <<permits, job>>

JobStep(j) == NextRoom(j) \/ InCooldown(j) \/ TryAcquire(j) \/ PullOk(j) \/ PullFails(j)

-----------------------------------------------------------------------------
(* Properties *)

GateTypeOK ==
    /\ permits \in 0..MaxConcurrent
    /\ cooling \subseteq KeyRoom
    /\ job \in [Job -> [pc : {"off", "next", "ask", "take", "pull"},
                        room : KeyRoom \cup {None}, todo : SUBSET KeyRoom]]

\* However its downloads end (success, error, timeout), a job holds a permit
\* exactly while it downloads: no path keeps one, no path returns it twice, so
\* MAX_CONCURRENT downloads remain possible and are never exceeded.
PermitsConserved == permits + Cardinality({j \in Job : job[j].pc = "pull"}) = MaxConcurrent
=============================================================================
