------------------------------ MODULE SessionMap ------------------------------
(***************************************************************************)
(* What the durable session store (session_store.rs) promises: a session's *)
(* state appears in it whole, stays whatever else happens (a crash and a   *)
(* restart change nothing here), and goes only when the client closes the  *)
(* session, when the TTL has passed, or when another build wrote it.       *)
(***************************************************************************)
CONSTANT Session

VARIABLES
    saved,    \* what the store holds for each session
    old,      \* sessions whose state is older than the TTL
    closed    \* sessions their clients have closed

Content == {"none", "whole", "alien"}

Init ==
    /\ saved \in [Session -> {"none", "alien"}]
    /\ old = {}
    /\ closed = {}

Drop(S) == saved' = [s \in Session |-> IF s \in S THEN "none" ELSE saved[s]]

Put(s) ==
    /\ saved[s] = "none"
    /\ saved' = [saved EXCEPT ![s] = "whole"]
    /\ old' = old \ {s}
    /\ UNCHANGED closed

Close(s) ==
    /\ closed' = closed \cup {s}
    /\ saved' = [saved EXCEPT ![s] = "none"]
    /\ old' = old \ {s}

Expire(S) ==
    /\ S \subseteq old
    /\ Drop(S)
    /\ old' = old \ S
    /\ UNCHANGED closed

Discard(s) ==
    /\ saved[s] = "alien"
    /\ Drop({s})
    /\ old' = old \ {s}
    /\ UNCHANGED closed

Age(s) ==
    /\ saved[s] # "none"
    /\ old' = old \cup {s}
    /\ UNCHANGED <<saved, closed>>

Next ==
    \/ \E s \in Session : Put(s) \/ Close(s) \/ Discard(s) \/ Age(s)
    \/ \E S \in SUBSET Session : Expire(S)

Spec == Init /\ [][Next]_<<saved, old, closed>>

==============================================================================
