----------------------------- MODULE ReviewQueue -----------------------------
(***************************************************************************)
(* FileReviewQueue (internal/memoryloop/review_queue.go) and its callers:  *)
(* the API's canon routes (internal/api/routes_canon.go) and the commands  *)
(* of `frontpocket memory-loop` (cmd/frontpocket/memory_loop.go).          *)
(*                                                                         *)
(* Every operation locks the mutex of its own process, loads the whole     *)
(* file, computes the new queue, stores the point of an approved candidate *)
(* and rewrites the file with os.WriteFile, which truncates it first.  The *)
(* API and each command are processes of their own that share the file.    *)
(***************************************************************************)
EXTENDS CanonCandidates, Integers

CONSTANTS
    Workers,      \* requests in progress: API handlers, CLI commands
    Process,      \* Process[w]: the process worker w runs in
    Requests,     \* what the workers ask for
    MaxFaults     \* bound: kills of a process and failed writes of the file

NoWorker == "no worker"
NoRequest == [op |-> "none"]
Processes == {Process[w] : w \in Workers}

ASSUME RequestsAssumption == Requests \subseteq Request
ASSUME WorkersAssumption ==
    /\ NoWorker \notin Workers
    /\ DOMAIN Process = Workers
ASSUME FaultsAssumption == MaxFaults \in Nat

VARIABLES
    records,      \* what the queue file holds; absent and empty are NoRecords
    torn,         \* the file is not valid JSON
    canon,        \* canonical points in the collection
    mutex,        \* q.mu of each process
    pc, request,  \* each worker's place and request
    pending,      \* the queue each worker is going to save
    faults

file == <<records, torn>>
vars == <<file, canon, mutex, pc, request, pending, faults>>

Init ==
    /\ records = NoRecords
    /\ torn = FALSE
    /\ canon = NoRecords
    /\ mutex = [p \in Processes |-> NoWorker]
    /\ pc = [w \in Workers |-> "idle"]
    /\ request = [w \in Workers |-> NoRequest]
    /\ pending = [w \in Workers |-> NoRecords]
    /\ faults = 0

-----------------------------------------------------------------------------
\* A handler or command calls an operation of the queue.
Call(w, r) ==
    /\ pc[w] = "idle"
    /\ request' = [request EXCEPT ![w] = r]
    /\ pc' = [pc EXCEPT ![w] = "lock"]
    /\ UNCHANGED <<file, canon, mutex, pending, faults>>

\* Mutant: nobody looks whether the mutex is held.
LockHeld(w) ==
    /\ pc[w] = "lock"
    /\ mutex' = [mutex EXCEPT ![Process[w]] = w]
    /\ pc' = [pc EXCEPT ![w] = "load"]
    /\ UNCHANGED <<file, canon, request, pending, faults>>

Lock(w) ==
    /\ pc[w] = "lock"
    /\ mutex[Process[w]] = NoWorker
    /\ mutex' = [mutex EXCEPT ![Process[w]] = w]
    /\ pc' = [pc EXCEPT ![w] = "load"]
    /\ UNCHANGED <<file, canon, request, pending, faults>>

\* Mutant: the error returns leave the mutex locked.
KeepLock(w) ==
    /\ pc' = [pc EXCEPT ![w] = "idle"]
    /\ mutex' = IF pc[w] = "write" THEN [mutex EXCEPT ![Process[w]] = NoWorker]
                ELSE mutex
    /\ request' = [request EXCEPT ![w] = NoRequest]
    /\ pending' = [pending EXCEPT ![w] = NoRecords]

\* The deferred unlock runs on every return.
Return(w) ==
    /\ pc' = [pc EXCEPT ![w] = "idle"]
    /\ mutex' = [mutex EXCEPT ![Process[w]] = NoWorker]
    /\ request' = [request EXCEPT ![w] = NoRequest]
    /\ pending' = [pending EXCEPT ![w] = NoRecords]

\* load fails on a file that does not parse; a review fails on an unknown id.
Refuse(w) ==
    /\ pc[w] = "load"
    /\ torn \/ ~Found(records, request[w])
    /\ Return(w)
    /\ UNCHANGED <<file, canon, faults>>

Load(w) ==
    /\ pc[w] = "load"
    /\ ~torn /\ Found(records, request[w])
    /\ pending' = [pending EXCEPT ![w] = Apply(records, request[w])]
    /\ pc' = [pc EXCEPT ![w] = IF request[w].op = "approve" THEN "store" ELSE "save"]
    /\ UNCHANGED <<file, canon, mutex, request, faults>>

\* The point of the approved record, as it was computed from what was loaded.
Stored(w) ==
    [c \in DOMAIN canon \cup {request[w].id} |->
        IF c = request[w].id THEN pending[w][c] ELSE canon[c]]

StorePoint(w) ==
    /\ pc[w] = "store"
    /\ canon' = Stored(w)
    /\ pc' = [pc EXCEPT ![w] = "save"]
    /\ UNCHANGED <<file, mutex, request, pending, faults>>

\* Mutant: the error of the store is not looked at.
StoreErrorIgnored(w) ==
    /\ pc[w] = "store"
    /\ canon' \in {canon, Stored(w)}
    /\ pc' = [pc EXCEPT ![w] = "save"]
    /\ UNCHANGED <<file, mutex, request, pending, faults>>

\* The store reports an error; the point may be there all the same.
StoreError(w) ==
    /\ pc[w] = "store"
    /\ canon' \in {canon, Stored(w)}
    /\ Return(w)
    /\ UNCHANGED <<file, faults>>

\* os.WriteFile: open with O_TRUNC, then write.
Truncate(w) ==
    /\ pc[w] = "save"
    /\ records' = NoRecords
    /\ torn' = FALSE
    /\ pc' = [pc EXCEPT ![w] = "write"]
    /\ UNCHANGED <<canon, mutex, request, pending, faults>>

Write(w) ==
    /\ pc[w] = "write"
    /\ records' = pending[w]
    /\ torn' = FALSE
    /\ Return(w)
    /\ UNCHANGED <<canon, faults>>

\* Another process wrote the file since this one truncated it: the tail of a
\* longer text stays behind the shorter one, and the file no longer parses.
Overlay(w) ==
    /\ pc[w] = "write"
    /\ records # NoRecords \/ torn
    /\ records' = NoRecords
    /\ torn' = TRUE
    /\ Return(w)
    /\ UNCHANGED <<canon, faults>>

-----------------------------------------------------------------------------
\* The write stops half-way, or before its first byte.
FailWrite(w) ==
    /\ faults < MaxFaults
    /\ faults' = faults + 1
    /\ pc[w] = "write"
    /\ records' = NoRecords
    /\ torn' \in BOOLEAN
    /\ Return(w)
    /\ UNCHANGED canon

\* A process dies; a write it was at leaves the file empty or torn.
Kill(p) ==
    LET dead == {w \in Workers : Process[w] = p} IN
    /\ faults < MaxFaults
    /\ faults' = faults + 1
    /\ IF \E w \in dead : pc[w] = "write"
       THEN records' = NoRecords /\ torn' \in BOOLEAN
       ELSE UNCHANGED file
    /\ pc' = [w \in Workers |-> IF w \in dead THEN "idle" ELSE pc[w]]
    /\ mutex' = [mutex EXCEPT ![p] = NoWorker]
    /\ request' = [w \in Workers |-> IF w \in dead THEN NoRequest ELSE request[w]]
    /\ pending' = [w \in Workers |-> IF w \in dead THEN NoRecords ELSE pending[w]]
    /\ UNCHANGED canon

-----------------------------------------------------------------------------
Step(w) ==
    \/ Refuse(w)
    \/ Load(w)
    \/ StorePoint(w)
    \/ StoreError(w)
    \/ Truncate(w)
    \/ Write(w)
    \/ Overlay(w)

Next ==
    \/ \E w \in Workers :
          \/ \E r \in Requests : Call(w, r)
          \/ Lock(w)
          \/ Step(w)
          \/ FailWrite(w)
    \/ \E p \in Processes : Kill(p)

Spec == Init /\ [][Next]_vars

\* sync.Mutex hands itself to a waiter that has waited too long, so a waiting
\* worker is not passed over forever; a worker that holds it goes on.
FairSpec == Spec /\ \A w \in Workers : SF_vars(Lock(w)) /\ WF_vars(Step(w))
-----------------------------------------------------------------------------
(* Properties *)

Holding(w) == pc[w] \notin {"idle", "lock"}

\* The types, and that a worker inside an operation is the one that holds the
\* mutex of its process.
TypeOK ==
    /\ records \in Queues
    /\ torn \in BOOLEAN
    /\ canon \in Queues
    /\ mutex \in [Processes -> Workers \cup {NoWorker}]
    /\ pc \in [Workers -> {"idle", "lock", "load", "store", "save", "write"}]
    /\ request \in [Workers -> Requests \cup {NoRequest}]
    /\ pending \in [Workers -> Queues]
    /\ faults \in 0..MaxFaults
    /\ \A w \in Workers : Holding(w) <=> mutex[Process[w]] = w

\* What the queue is taken to be: from the truncation on, what is being saved.
Writers == {w \in Workers : pc[w] = "write"}
Queue == IF Writers = {} THEN records ELSE pending[CHOOSE w \in Writers : TRUE]

\* Whatever processes die, write at once or fail: a candidate the file calls
\* canonical has its canonical point.
ApprovedIsStored ==
    \A c \in DOMAIN Queue : Queue[c].canonical => c \in DOMAIN canon

\* Within one process the operations take effect one after the other.
Register == INSTANCE ReviewRegister WITH queue <- Queue
SerialQueue == Register!Spec

\* Every call returns: the error returns and a file that does not parse
\* leave no lock behind.
CallsReturn == \A w \in Workers : pc[w] # "idle" ~> pc[w] = "idle"

\* A candidate stays in the queue.
CandidatesKept == [][DOMAIN Queue \subseteq DOMAIN Queue']_vars

\* What a reviewer decided is not undone but by a reviewer.
ReviewsStick ==
    [][\A c \in DOMAIN Queue :
          Queue[c].reviewed => c \in DOMAIN Queue' /\ Queue'[c].reviewed]_vars
=============================================================================
