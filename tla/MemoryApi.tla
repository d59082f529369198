------------------------------ MODULE MemoryApi ------------------------------
(***************************************************************************)
(* The memory routes of the API (internal/api/routes_memory.go and         *)
(* routes_memory_mutations.go) over QdrantMemoryStore                      *)
(* (internal/store/qdrant.go), its in-memory fallback                      *)
(* (internal/memory/recall.go) and the search cache in Redis.              *)
(*                                                                         *)
(* A request is a sequence of calls to Qdrant and Redis, each of which may *)
(* fail; requests run concurrently and the process may restart.  A memory  *)
(* is what one point holds; every memory matches the one query that is     *)
(* searched, so ranking and limits are left out.                           *)
(***************************************************************************)
EXTENDS Integers

CONSTANTS
    Clients,       \* requests in progress
    Memories,      \* memory ids
    Calls,         \* what clients ask for
    MaxRetries,    \* len(qdrantWriteRetryDelays)
    MaxRestarts    \* bound on restarts of the API process

Call == [op : {"ingest"}, ids : SUBSET Memories]
            \cup [op : {"search"}]
            \cup [op : {"forget"}, id : Memories, hard : BOOLEAN]
NoCall == [op |-> "none"]
PointStatus == {"none", "deleted"}
Collections == UNION {[ids -> PointStatus] : ids \in SUBSET Memories}
NoPoints == [m \in {} |-> m]
Answer == [ok : BOOLEAN, degraded : BOOLEAN, cached : BOOLEAN, hits : SUBSET Memories]
NoAnswer == [ok |-> FALSE, degraded |-> FALSE, cached |-> FALSE, hits |-> {}]

ASSUME CallsAssumption == Calls \subseteq Call
ASSUME BoundsAssumption == MaxRetries \in Nat /\ MaxRestarts \in Nat

VARIABLES
    remote,       \* points of the Qdrant collection, by memory id
    local,        \* ids in the in-memory fallback of this process
    cache,        \* the answer Redis holds for the query, as sets of hits
    fallback,     \* FRONTPOCKET_ALLOW_MEMORY_FALLBACK of this process
    restarts,
    pc, call,     \* each client's place and call
    points,       \* what an ingest found missing and inserts
    todo, batch,  \* of these, not sent yet; in the request being retried
    retries,
    answer,       \* the latest answer, or the one being cached
    \* History
    promise,      \* ids an ingest may vouch for: nobody removed them meanwhile
    confirmed,    \* ids answered "persisted" and not removed since
    held,         \* ids this process answered to have inserted
    reached       \* ids that were ever in the collection

stores == <<remote, local, cache>>
process == <<fallback, restarts>>
work == <<points, todo, batch, retries>>
history == <<promise, confirmed, held, reached>>
vars == <<stores, process, pc, call, work, answer, history>>

Init ==
    /\ remote = NoPoints
    /\ local = {}
    /\ cache = {}
    /\ fallback \in BOOLEAN
    /\ restarts = 0
    /\ pc = [c \in Clients |-> "idle"]
    /\ call = [c \in Clients |-> NoCall]
    /\ points = [c \in Clients |-> {}]
    /\ todo = [c \in Clients |-> {}]
    /\ batch = [c \in Clients |-> {}]
    /\ retries = [c \in Clients |-> 0]
    /\ answer = [c \in Clients |-> NoAnswer]
    /\ promise = [c \in Clients |-> {}]
    /\ confirmed = {}
    /\ held = {}
    /\ reached = {}

\* Qdrant replaces a point that is there already, its status with it.
Put(ids) == [m \in DOMAIN remote \cup ids |-> IF m \in ids THEN "none" ELSE remote[m]]

-----------------------------------------------------------------------------
FirstPlace(r) == CASE r.op = "ingest" -> "check"
                   [] r.op = "search" -> "lookup"
                   [] r.op = "forget" -> "mutate"

Begin(c, r) ==
    /\ pc[c] = "idle"
    /\ call' = [call EXCEPT ![c] = r]
    /\ pc' = [pc EXCEPT ![c] = FirstPlace(r)]
    /\ answer' = [answer EXCEPT ![c] = NoAnswer]
    /\ promise' = [promise EXCEPT ![c] = IF r.op = "ingest" THEN r.ids ELSE {}]
    /\ UNCHANGED <<stores, process, work, confirmed, held, reached>>

\* The request is over.
Finish(c, a) ==
    /\ pc' = [pc EXCEPT ![c] = "idle"]
    /\ answer' = [answer EXCEPT ![c] = a]
    /\ points' = [points EXCEPT ![c] = {}]
    /\ todo' = [todo EXCEPT ![c] = {}]
    /\ batch' = [batch EXCEPT ![c] = {}]
    /\ retries' = [retries EXCEPT ![c] = 0]
    /\ UNCHANGED <<call, process>>

Error == NoAnswer
Ok(degraded) == [NoAnswer EXCEPT !.ok = TRUE, !.degraded = degraded]

Fail(c) ==
    /\ Finish(c, Error)
    /\ UNCHANGED <<stores, history>>

-----------------------------------------------------------------------------
(* POST /memory/ingest *)

Persisted(c) ==
    /\ confirmed' = confirmed \cup promise[c]
    /\ held' = held \cup points[c]

\* MemoryIDsExist: only what is missing is embedded and inserted.
Check(c) ==
    /\ pc[c] = "check"
    /\ LET missing == call[c].ids \ DOMAIN remote IN
       IF missing = {}
       THEN /\ Finish(c, Ok(FALSE))
            /\ Persisted(c)
       ELSE /\ points' = [points EXCEPT ![c] = missing]
            /\ todo' = [todo EXCEPT ![c] = missing]
            /\ pc' = [pc EXCEPT ![c] = "ensure"]
            /\ UNCHANGED <<process, call, batch, retries, answer, confirmed, held>>
    /\ UNCHANGED <<stores, promise, reached>>

\* The lookup or the embedding fails; the fallback is not asked.
CheckFails(c) == pc[c] = "check" /\ Fail(c)

\* The collection is there, with vectors of this size, or it is created.
Ensure(c) ==
    /\ pc[c] = "ensure"
    /\ pc' = [pc EXCEPT ![c] = "send"]
    /\ UNCHANGED <<stores, process, call, work, answer, history>>

\* A dimension mismatch is an error with or without the fallback.
Mismatch(c) == pc[c] \in {"ensure", "query"} /\ Fail(c)

\* Mutant: only what was not sent is given to the fallback.
FallBackRest(c) ==
    IF fallback
    THEN /\ local' = local \cup todo[c]
         /\ held' = held \cup points[c]
         /\ Finish(c, Ok(TRUE))
         /\ UNCHANGED confirmed
    ELSE Finish(c, Error) /\ UNCHANGED <<local, held, confirmed>>

\* Mutant: the answer does not say that the fallback took the points.
FallBackUnmarked(c) ==
    IF fallback
    THEN /\ local' = local \cup points[c]
         /\ Finish(c, Ok(FALSE))
         /\ Persisted(c)
    ELSE Finish(c, Error) /\ UNCHANGED <<local, held, confirmed>>

\* The write failed for good: all points go to the fallback, if there is one.
FallBack(c) ==
    IF fallback
    THEN /\ local' = local \cup points[c]
         /\ held' = held \cup points[c]
         /\ Finish(c, Ok(TRUE))
         /\ UNCHANGED confirmed
    ELSE Finish(c, Error) /\ UNCHANGED <<local, held, confirmed>>

EnsureFails(c) ==
    /\ pc[c] = "ensure"
    /\ FallBack(c)
    /\ UNCHANGED <<remote, cache, promise, reached>>

\* The next request of upsertQdrantPointsInBatches: at most 128 points and
\* 24 MiB; a retry repeats it.
Batches(c) == IF batch[c] = {} THEN SUBSET todo[c] \ {{}} ELSE {batch[c]}

\* The points of ids "done" arrive.
Arrive(done) ==
    /\ remote' = Put(done)
    /\ reached' = reached \cup done

Send(c) ==
    /\ pc[c] = "send"
    /\ \E b \in Batches(c) :
        /\ Arrive(b)
        /\ IF todo[c] = b
           THEN /\ Finish(c, Ok(FALSE))
                /\ Persisted(c)
                /\ local' = IF fallback THEN local \cup points[c] ELSE local
           ELSE /\ todo' = [todo EXCEPT ![c] = @ \ b]
                /\ batch' = [batch EXCEPT ![c] = {}]
                /\ retries' = [retries EXCEPT ![c] = 0]
                /\ UNCHANGED <<local, process, pc, call, points, answer, confirmed, held>>
    /\ UNCHANGED <<cache, promise>>

\* Mutant: attempts are not counted.
RetryForever(c, b) ==
    /\ batch' = [batch EXCEPT ![c] = b]
    /\ UNCHANGED <<local, process, pc, call, points, todo, retries, answer, confirmed, held>>

\* Mutant: one attempt too many.
RetryOnceMore(c, b) ==
    IF retries[c] <= MaxRetries
    THEN /\ retries' = [retries EXCEPT ![c] = @ + 1]
         /\ batch' = [batch EXCEPT ![c] = b]
         /\ UNCHANGED <<local, process, pc, call, points, todo, answer, confirmed, held>>
    ELSE FallBack(c)

\* Another attempt, or none is left.
Retry(c, b) ==
    IF retries[c] < MaxRetries
    THEN /\ retries' = [retries EXCEPT ![c] = @ + 1]
         /\ batch' = [batch EXCEPT ![c] = b]
         /\ UNCHANGED <<local, process, pc, call, points, todo, answer, confirmed, held>>
    ELSE FallBack(c)

\* A timeout or a broken connection: any part of the batch may have arrived.
SendLost(c) ==
    /\ pc[c] = "send"
    /\ \E b \in Batches(c) :
        /\ \E done \in SUBSET b : Arrive(done)
        /\ Retry(c, b)
    /\ UNCHANGED <<cache, promise>>

\* Qdrant answers with an error, or a point is too large to send.
SendRefused(c) ==
    /\ pc[c] = "send"
    /\ FallBack(c)
    /\ UNCHANGED <<remote, cache, promise, reached>>

-----------------------------------------------------------------------------
(* POST /memory/search *)

Hit(c) ==
    /\ pc[c] = "lookup"
    /\ \E hits \in cache :
          Finish(c, [ok |-> TRUE, degraded |-> FALSE, cached |-> TRUE, hits |-> hits])
    /\ UNCHANGED <<stores, history>>

\* Nothing is cached, or Redis cannot be reached.
Miss(c) ==
    /\ pc[c] = "lookup"
    /\ pc' = [pc EXCEPT ![c] = "query"]
    /\ UNCHANGED <<stores, process, call, work, answer, history>>

\* store.shouldExcludeByStatus
Excluded == {"rejected", "contradicted", "outdated"}
RemoteHits == {m \in DOMAIN remote : remote[m] \notin Excluded}

\* Mutant: nothing found in Qdrant is answered from the fallback, unmarked.
FoundUnmarked ==
    [ok |-> TRUE, degraded |-> FALSE, cached |-> FALSE,
     hits |-> IF RemoteHits = {} /\ fallback THEN local ELSE RemoteHits]

\* An empty result is asked of the fallback too, and marked.
Found ==
    LET useLocal == fallback /\ RemoteHits = {} IN
    [ok |-> TRUE, degraded |-> useLocal, cached |-> FALSE,
     hits |-> IF useLocal THEN local ELSE RemoteHits]

Query(c) ==
    /\ pc[c] = "query"
    /\ answer' = [answer EXCEPT ![c] = Found]
    /\ pc' = [pc EXCEPT ![c] = "keep"]
    /\ UNCHANGED <<stores, process, call, work, history>>

\* The embedder or Qdrant fails.
QueryFails(c) ==
    /\ pc[c] = "query"
    /\ IF fallback
       THEN /\ answer' = [answer EXCEPT ![c] =
                  [ok |-> TRUE, degraded |-> TRUE, cached |-> FALSE, hits |-> local]]
            /\ pc' = [pc EXCEPT ![c] = "keep"]
            /\ UNCHANGED <<process, call, work>>
       ELSE Finish(c, Error)
    /\ UNCHANGED <<stores, history>>

\* The hits are cached; an error of Redis is ignored.
Keep(c) ==
    /\ pc[c] = "keep"
    /\ cache' \in {cache, {answer[c].hits}}
    /\ Finish(c, answer[c])
    /\ UNCHANGED <<remote, local, history>>

Expire ==
    /\ cache # {}
    /\ cache' = {}
    /\ UNCHANGED <<remote, local, process, pc, call, work, answer, history>>

-----------------------------------------------------------------------------
(* DELETE /memory/forget *)

\* A hard forget deletes the point, a soft one sets its status.
Forgotten(r) ==
    IF r.hard THEN [m \in DOMAIN remote \ {r.id} |-> remote[m]]
    ELSE [m \in DOMAIN remote |-> IF m = r.id THEN "deleted" ELSE remote[m]]

\* What is removed is no longer vouched for.
Withdraw(r) ==
    LET gone == IF r.hard THEN {r.id} ELSE {} IN
    /\ confirmed' = confirmed \ gone
    /\ promise' = [d \in Clients |-> promise[d] \ gone]

Forget(c) ==
    /\ pc[c] = "mutate"
    /\ remote' = Forgotten(call[c])
    /\ Withdraw(call[c])
    /\ Finish(c, Ok(FALSE))
    /\ UNCHANGED <<local, cache, held, reached>>

\* The call fails, or only its answer is lost.
ForgetFails(c) ==
    /\ pc[c] = "mutate"
    /\ \/ UNCHANGED <<remote, confirmed, promise>>
       \/ remote' = Forgotten(call[c]) /\ Withdraw(call[c])
    /\ Finish(c, Error)
    /\ UNCHANGED <<local, cache, held, reached>>

-----------------------------------------------------------------------------
\* The process is started again, perhaps with another configuration.
Restart ==
    /\ restarts < MaxRestarts
    /\ restarts' = restarts + 1
    /\ fallback' \in BOOLEAN
    /\ local' = {}
    /\ held' = {}
    /\ pc' = [c \in Clients |-> "idle"]
    /\ call' = [c \in Clients |-> NoCall]
    /\ points' = [c \in Clients |-> {}]
    /\ todo' = [c \in Clients |-> {}]
    /\ batch' = [c \in Clients |-> {}]
    /\ retries' = [c \in Clients |-> 0]
    /\ answer' = [c \in Clients |-> NoAnswer]
    /\ promise' = [c \in Clients |-> {}]
    /\ UNCHANGED <<remote, cache, confirmed, reached>>

Step(c) ==
    \/ Check(c) \/ CheckFails(c)
    \/ Ensure(c) \/ EnsureFails(c) \/ Mismatch(c)
    \/ Send(c) \/ SendLost(c) \/ SendRefused(c)
    \/ Hit(c) \/ Miss(c)
    \/ Query(c) \/ QueryFails(c) \/ Keep(c)
    \/ Forget(c) \/ ForgetFails(c)

Next ==
    \/ \E c \in Clients : Step(c) \/ \E r \in Calls : Begin(c, r)
    \/ Expire
    \/ Restart

Spec == Init /\ [][Next]_vars

\* Every call of a handler returns: each request to Qdrant has a timeout.
FairSpec == Spec /\ \A c \in Clients : WF_vars(Step(c))
-----------------------------------------------------------------------------
(* Properties *)

\* The types, and that a write is tried at most 1 + MaxRetries times.
TypeOK ==
    /\ remote \in Collections
    /\ local \subseteq Memories
    /\ cache \subseteq SUBSET Memories
    /\ fallback \in BOOLEAN
    /\ restarts \in 0..MaxRestarts
    /\ pc \in [Clients -> {"idle", "check", "ensure", "send", "lookup", "query",
                           "keep", "mutate"}]
    /\ call \in [Clients -> Calls \cup {NoCall}]
    /\ points \in [Clients -> SUBSET Memories]
    /\ todo \in [Clients -> SUBSET Memories]
    /\ batch \in [Clients -> SUBSET Memories]
    /\ retries \in [Clients -> 0..MaxRetries]
    /\ answer \in [Clients -> Answer]
    /\ promise \in [Clients -> SUBSET Memories]
    /\ confirmed \subseteq Memories
    /\ held \subseteq Memories
    /\ reached \subseteq Memories

\* What an ingest answered "persisted" is in Qdrant, whatever requests of it
\* failed, were retried or went to the fallback, and whatever ran beside it,
\* until somebody removes it.
PersistedReachedQdrant == confirmed \subseteq DOMAIN remote

\* With the fallback on, whatever this process inserted, in Qdrant or only in
\* the fallback, can be recalled while Qdrant is away.
OutageRecall == fallback => held \subseteq local

\* An answer that is not marked degraded shows nothing that only ever was in
\* the memory of the process; so the code that computes an answer has it.
ComputedIsDurable ==
    \A c \in Clients :
        answer[c].ok /\ ~answer[c].degraded /\ ~answer[c].cached
            => answer[c].hits \subseteq reached

\* ... and so the documentation has it, of every answer.
UnmarkedIsDurable ==
    \A c \in Clients :
        answer[c].ok /\ ~answer[c].degraded => answer[c].hits \subseteq reached

\* No answer contains a memory that is marked deleted when it is computed or
\* taken from the cache.
ForgottenNotRecalled ==
    [][\A c \in Clients : pc[c] \in {"lookup", "query"} =>
          \A m \in answer'[c].hits \cap DOMAIN remote : remote[m] # "deleted"]_vars

\* Every request is answered, however often Qdrant fails.
RequestsAnswered == \A c \in Clients : pc[c] # "idle" ~> pc[c] = "idle"
=============================================================================
