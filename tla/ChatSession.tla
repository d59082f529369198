---------------------------- MODULE ChatSession ----------------------------
(***************************************************************************)
(* MindDrill chat (routes_chat.go) and the state of its sessions           *)
(* (routes_memory.go).  A turn searches, asks the model, and then writes   *)
(* itself down: it reads the session's state, numbers itself with the next *)
(* turn number, upserts its points under ids made of the session and that  *)
(* number, and saves the state.  The state has two copies, in Redis with a *)
(* time to live and in the process; errors of Redis are ignored.           *)
(*                                                                         *)
(* Abstracted: the answer and the texts, the list of recent ids, which     *)
(* names points and is read by no code, and the session summary, whose     *)
(* point is replaced on purpose.                                           *)
(***************************************************************************)
EXTENDS Integers, FiniteSets

CONSTANTS
    Sessions,    \* session ids
    Safe,        \* session -> its sanitized id, which goes into point ids
    Requests,    \* requests that chat, at the same time
    MaxTurns,    \* bound: turns asked
    MaxFaults    \* bound: expiries, restarts, Redis errors and calls of the session routes

ASSUME ChatAssumption ==
    /\ MaxTurns \in Nat /\ MaxFaults \in Nat
    /\ DOMAIN Safe = Sessions

VARIABLES
    redis,       \* session -> turn count of the state in Redis, or NoState
    local,       \* session -> the same in the process
    points,      \* point id -> the session and the serial number of the turn it was written by
    turns,       \* request -> the turn it is at
    deleting,    \* sessions of which a deletion has dropped the state only
    asked,       \* turns asked so far
    faults,      \* faults so far
    completed,   \* turns answered: [session, ids, serial]
    calm,        \* sessions nothing has happened to that may cost a turn
    seen         \* sessions this process has had the state of

chatVars == <<redis, local, points, turns, deleting, asked, faults, completed, calm, seen>>

NoState == -1
NoTurn == [at |-> "idle"]

-----------------------------------------------------------------------------
Busy(s) == s \in deleting \/ \E t \in Requests : turns[t] # NoTurn /\ turns[t].session = s
Fault == faults < MaxFaults /\ faults' = faults + 1

\* getSessionState: Redis when it answers and has it, refreshing the process's
\* copy, and that copy otherwise.
Known(s, answers) == IF answers /\ redis[s] # NoState THEN redis[s] ELSE local[s]
\* Mutant: the process's copy is not refreshed.
LeaveLocal(s, answers) ==
    /\ local' = local
    /\ seen' = IF answers /\ redis[s] # NoState THEN seen \cup {s} ELSE seen
getSessionState(s, answers) ==
    /\ local' = [local EXCEPT ![s] = Known(s, answers)]
    /\ seen' = IF answers /\ redis[s] # NoState THEN seen \cup {s} ELSE seen

\* setSessionState: the process first, then Redis, whose error is dropped.
setSessionState(s, count, answers) ==
    /\ local' = [local EXCEPT ![s] = count]
    /\ redis' = IF answers THEN [redis EXCEPT ![s] = count] ELSE redis
    /\ seen' = seen \cup {s}

\* deleteSessionState, likewise.
deleteSessionState(s, answers) ==
    /\ local' = [local EXCEPT ![s] = NoState]
    /\ redis' = IF answers THEN [redis EXCEPT ![s] = NoState] ELSE redis

NextNumber(count) == IF count = NoState THEN 1 ELSE count + 1
\* The points of a turn: itself, and the signal of a message that has one.
TurnIDs(s, n, signal) ==
    {<<Safe[s], n, "turn">>} \cup (IF signal THEN {<<Safe[s], n, "signal">>} ELSE {})

ChatInit ==
    /\ redis = [s \in Sessions |-> NoState] /\ local = redis
    /\ points = [id \in {} |-> NoTurn]
    /\ turns = [t \in Requests |-> NoTurn]
    /\ deleting = {} /\ asked = 0 /\ faults = 0 /\ completed = {}
    /\ calm = Sessions /\ seen = {}

\* handleMemoryChat up to the answer: two searches and the model, no writes.
Ask(t, s, signal) ==
    /\ turns[t] = NoTurn /\ asked < MaxTurns
    /\ asked' = asked + 1
    /\ turns' = [turns EXCEPT ![t] =
                    [at |-> "answering", session |-> s, signal |-> signal, serial |-> asked']]
    /\ calm' = IF Busy(s) THEN calm \ {s} ELSE calm
    /\ UNCHANGED <<redis, local, points, deleting, faults, completed, seen>>

\* A search or the model fails: an error, and nothing is written.  So it ends
\* when the points cannot be stored, with the answer and a warning in the log.
GiveUp(t) ==
    /\ turns[t] # NoTurn /\ turns[t].at \in {"answering", "numbered"}
    /\ turns' = [turns EXCEPT ![t] = NoTurn]
    /\ UNCHANGED <<redis, local, points, deleting, asked, faults, completed, calm, seen>>

\* writeMindDrillChatMemory: the state is read once the answer is there.
ReadState(t, answers) ==
    LET s == turns[t].session IN
    /\ turns[t] # NoTurn /\ turns[t].at = "answering"
    /\ IF answers THEN UNCHANGED faults ELSE Fault
    /\ getSessionState(s, answers)
    /\ turns' = [turns EXCEPT ![t] = [at |-> "numbered", session |-> s, serial |-> @.serial,
                                      signal |-> @.signal,
                                      number |-> NextNumber(Known(s, answers))]]
    /\ calm' = IF ~answers /\ redis[s] # NoState /\ s \notin seen THEN calm \ {s} ELSE calm
    /\ UNCHANGED <<redis, points, deleting, asked, completed>>

\* An upsert replaces the points that have these ids.
UpsertTurn(t) ==
    LET ids == TurnIDs(turns[t].session, turns[t].number, turns[t].signal) IN
    /\ turns[t] # NoTurn /\ turns[t].at = "numbered"
    /\ points' = [id \in DOMAIN points \cup ids |->
                     IF id \in ids THEN [session |-> turns[t].session, serial |-> turns[t].serial]
                     ELSE points[id]]
    /\ turns' = [turns EXCEPT ![t].at = "stored"]
    /\ UNCHANGED <<redis, local, deleting, asked, faults, completed, calm, seen>>

SaveState(t, answers) ==
    LET s == turns[t].session IN
    /\ turns[t] # NoTurn /\ turns[t].at = "stored"
    /\ IF answers THEN UNCHANGED faults ELSE Fault
    /\ setSessionState(s, turns[t].number, answers)
    /\ completed' = completed \cup
          {[session |-> s, serial |-> turns[t].serial,
            ids |-> TurnIDs(s, turns[t].number, turns[t].signal)]}
    /\ turns' = [turns EXCEPT ![t] = NoTurn]
    /\ calm' = IF answers THEN calm ELSE calm \ {s}
    /\ UNCHANGED <<points, deleting, asked>>

\* POST /memory/session with load_only, and without: the caller's metadata
\* replace the ones that hold the turn count.
LoadSession(s) ==
    /\ redis[s] # NoState /\ local[s] # redis[s]
    /\ getSessionState(s, TRUE)
    /\ UNCHANGED <<redis, points, turns, deleting, asked, faults, completed, calm>>
SaveSession(s, answers) ==
    /\ Fault
    /\ setSessionState(s, 0, answers)
    /\ calm' = calm \ {s}
    /\ UNCHANGED <<points, turns, deleting, asked, completed>>

\* DELETE /memory/session drops the state and leaves the points.
DeleteSession(s, answers) ==
    /\ Fault
    /\ deleteSessionState(s, answers)
    /\ calm' = calm \ {s}
    /\ UNCHANGED <<points, turns, deleting, asked, completed, seen>>

\* deleteMindDrillChatSession: the state, then the points of the conversation,
\* which can fail and is answered with an error then.
DeleteChat(s, answers) ==
    /\ s \notin deleting /\ Fault
    /\ deleteSessionState(s, answers)
    /\ deleting' = deleting \cup {s}
    /\ seen' = seen \ {s}
    /\ calm' = IF Busy(s) \/ ~answers THEN calm \ {s} ELSE calm
    /\ UNCHANGED <<points, turns, asked, completed>>
DeletePoints(s) ==
    /\ s \in deleting
    /\ deleting' = deleting \ {s}
    /\ points' = [id \in {i \in DOMAIN points : points[i].session # s} |-> points[id]]
    /\ completed' = {c \in completed : c.session # s}
    /\ UNCHANGED <<redis, local, turns, asked, faults, calm, seen>>
DeletePointsFails(s) ==
    /\ s \in deleting
    /\ deleting' = deleting \ {s}
    /\ calm' = calm \ {s}
    /\ UNCHANGED <<redis, local, points, turns, asked, faults, completed, seen>>

\* The time to live of the state in Redis runs out.
Expire(s) ==
    /\ redis[s] # NoState /\ Fault
    /\ redis' = [redis EXCEPT ![s] = NoState]
    /\ calm' = IF s \in seen THEN calm ELSE calm \ {s}
    /\ UNCHANGED <<local, points, turns, deleting, asked, completed, seen>>

\* The server restarts: what it holds and the requests it serves are gone.
Restart ==
    /\ Fault
    /\ local' = [s \in Sessions |-> NoState]
    /\ turns' = [t \in Requests |-> NoTurn]
    /\ deleting' = {} /\ seen' = {}
    /\ calm' = (calm \ deleting) \cap {s \in Sessions : redis[s] # NoState \/ s \notin seen}
    /\ UNCHANGED <<redis, points, asked, completed>>

ChatNext ==
    \/ \E t \in Requests, s \in Sessions, signal \in BOOLEAN : Ask(t, s, signal)
    \/ \E t \in Requests : GiveUp(t) \/ UpsertTurn(t)
    \/ \E t \in Requests, answers \in BOOLEAN : ReadState(t, answers) \/ SaveState(t, answers)
    \/ \E s \in Sessions : LoadSession(s) \/ DeletePoints(s) \/ DeletePointsFails(s) \/ Expire(s)
    \/ \E s \in Sessions, answers \in BOOLEAN :
          SaveSession(s, answers) \/ DeleteSession(s, answers) \/ DeleteChat(s, answers)
    \/ Restart
ChatSpec == ChatInit /\ [][ChatNext]_chatVars

-----------------------------------------------------------------------------
Numbers == NoState..MaxTurns
ChatTypeOK ==
    /\ redis \in [Sessions -> Numbers] /\ local \in [Sessions -> Numbers]
    /\ \A id \in DOMAIN points : points[id].session \in Sessions
    /\ \A t \in Requests : turns[t].at \in {"idle", "answering", "numbered", "stored"}
    /\ deleting \subseteq Sessions /\ calm \subseteq Sessions /\ seen \subseteq Sessions

\* No other session has the same sanitized id ("A b" and "a_b" have).
Alone(s) == \A other \in Sessions \ {s} : Safe[other] # Safe[s]

(* A turn that was answered keeps its points: no later turn takes its number *)
(* again, though the session's state expires in Redis or the process         *)
(* restarts.  It takes two turns at once, a call of the session routes, a    *)
(* lost write to Redis, or both copies of the state going, to lose it.       *)
ChatMemoryKept ==
    \A c \in completed : c.session \in calm /\ Alone(c.session) =>
        \A id \in c.ids : id \in DOMAIN points /\ points[id].serial = c.serial
=============================================================================
