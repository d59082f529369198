--------------------------- MODULE MemoryApiProofs ---------------------------
(***************************************************************************)
(* Proofs about MemoryApi, for any clients, memories and calls, and any    *)
(* number of retries and restarts.  Each property has a strengthening that *)
(* is inductive on top of the types (Typed).                               *)
(***************************************************************************)
EXTENDS MemoryApi, TLAPS

\* A client is where its call has a handler.
CallFits ==
    \A c \in Clients :
        /\ pc[c] = "check" => call[c] \in Calls /\ call[c].op = "ingest"
        /\ pc[c] = "mutate" => call[c] \in Calls /\ call[c].op = "forget"

Typed == TypeOK /\ CallFits

LEMMA RequestTypes ==
    ASSUME NEW r \in Calls
    PROVE  /\ r.op \in {"ingest", "search", "forget"}
           /\ r.op = "ingest" => r.ids \subseteq Memories
           /\ r.op = "forget" => r.id \in Memories /\ r.hard \in BOOLEAN
BY CallsAssumption DEF Call

LEMMA CollectionType ==
    ASSUME NEW f, NEW ids, ids \subseteq Memories, f \in [ids -> PointStatus]
    PROVE  f \in Collections
BY DEF Collections

LEMMA PutType ==
    ASSUME remote \in Collections, NEW ids, ids \subseteq Memories
    PROVE  /\ DOMAIN Put(ids) = DOMAIN remote \cup ids
           /\ Put(ids) \in Collections
<1>1. PICK s \in SUBSET Memories : remote \in [s -> PointStatus]
    BY DEF Collections
<1>2. Put(ids) \in [s \cup ids -> PointStatus]
    BY <1>1 DEF Put, PointStatus
<1>3. QED BY <1>1, <1>2, CollectionType

LEMMA ForgottenType ==
    ASSUME remote \in Collections, NEW r
    PROVE  /\ DOMAIN Forgotten(r) = IF r.hard THEN DOMAIN remote \ {r.id} ELSE DOMAIN remote
           /\ Forgotten(r) \in Collections
<1>1. PICK s \in SUBSET Memories : remote \in [s -> PointStatus]
    BY DEF Collections
<1>2. CASE r.hard
    <2>1. Forgotten(r) \in [s \ {r.id} -> PointStatus]
        BY <1>1, <1>2 DEF Forgotten
    <2>2. QED BY <1>1, <1>2, <2>1, CollectionType
<1>3. CASE ~r.hard
    <2>1. Forgotten(r) \in [s -> PointStatus]
        BY <1>1, <1>3 DEF Forgotten, PointStatus
    <2>2. QED BY <1>1, <1>3, <2>1, CollectionType
<1>4. QED BY <1>2, <1>3

LEMMA RemoteHitsType ==
    ASSUME remote \in Collections
    PROVE  RemoteHits \subseteq DOMAIN remote /\ DOMAIN remote \subseteq Memories
BY DEF RemoteHits, Collections

LEMMA OkType ==
    ASSUME NEW d \in BOOLEAN
    PROVE  Ok(d) \in Answer
BY DEF Ok, NoAnswer, Answer

\* The end of a request keeps the types of what it changes.
LEMMA FinishType ==
    ASSUME TypeOK, NEW c \in Clients, NEW a \in Answer, Finish(c, a)
    PROVE  /\ pc' \in [Clients -> {"idle", "check", "ensure", "send", "lookup", "query",
                                   "keep", "mutate"}]
           /\ pc' = [pc EXCEPT ![c] = "idle"]
           /\ call' = call
           /\ points' \in [Clients -> SUBSET Memories]
           /\ todo' \in [Clients -> SUBSET Memories]
           /\ batch' \in [Clients -> SUBSET Memories]
           /\ retries' \in [Clients -> 0..MaxRetries]
           /\ answer' \in [Clients -> Answer]
           /\ fallback' = fallback /\ restarts' = restarts
BY BoundsAssumption DEF Finish, TypeOK, process

-----------------------------------------------------------------------------
(* Types *)

LEMMA InitTyped == Init => Typed
<1>1. NoPoints \in Collections
    <2>1. NoPoints \in [{} -> PointStatus]
        BY DEF NoPoints
    <2>2. QED BY <2>1, CollectionType
<1>2. NoAnswer \in Answer
    BY DEF NoAnswer, Answer
<1>3. QED BY <1>1, <1>2, BoundsAssumption DEF Init, Typed, TypeOK, CallFits

LEMMA FallBackType ==
    ASSUME TypeOK, NEW c \in Clients, FallBack(c)
    PROVE  /\ local' \subseteq Memories /\ held' \subseteq Memories
           /\ confirmed' = confirmed
           /\ \E a \in Answer : Finish(c, a)
<1>1. Ok(TRUE) \in Answer /\ Error \in Answer
    BY OkType DEF Error, NoAnswer, Answer
<1>2. QED BY <1>1 DEF FallBack, TypeOK

LEMMA StepTyped == Typed /\ [Next]_vars => Typed'
<1> SUFFICES ASSUME Typed, [Next]_vars PROVE Typed'
    OBVIOUS
<1> USE DEF Typed
<1>e. Error \in Answer /\ Ok(TRUE) \in Answer /\ Ok(FALSE) \in Answer
    BY OkType DEF Error, NoAnswer, Answer
<1>1. ASSUME NEW c \in Clients, NEW r \in Calls, Begin(c, r) PROVE Typed'
    <2>1. FirstPlace(r) \in {"check", "lookup", "mutate"}
          /\ (FirstPlace(r) = "check" => r.op = "ingest")
          /\ (FirstPlace(r) = "mutate" => r.op = "forget")
        BY RequestTypes DEF FirstPlace
    <2>2. (IF r.op = "ingest" THEN r.ids ELSE {}) \subseteq Memories
        BY RequestTypes
    <2>3. TypeOK'
        BY <1>1, <1>e, <2>1, <2>2 DEF Begin, TypeOK, stores, process, work, Error
    <2>4. CallFits'
        BY <1>1, <2>1 DEF Begin, CallFits, TypeOK
    <2>5. QED BY <2>3, <2>4
<1>2. ASSUME NEW c \in Clients, Check(c) PROVE Typed'
    <2> DEFINE missing == call[c].ids \ DOMAIN remote
    <2>1. missing \subseteq Memories
        BY <1>2, RequestTypes DEF Check, CallFits
    <2>2. CASE missing = {}
        <3>1. Finish(c, Ok(FALSE)) /\ Persisted(c)
            BY <1>2, <2>2 DEF Check
        <3>2. TypeOK'
            BY <1>2, <1>e, <3>1, FinishType DEF Check, Persisted, TypeOK, stores
        <3>3. CallFits'
            BY <1>e, <3>1, FinishType DEF CallFits, TypeOK
        <3>4. QED BY <3>2, <3>3
    <2>3. CASE missing # {}
        <3>0. /\ points' = [points EXCEPT ![c] = missing]
              /\ todo' = [todo EXCEPT ![c] = missing]
              /\ pc' = [pc EXCEPT ![c] = "ensure"]
              /\ UNCHANGED <<fallback, restarts, call, batch, retries, answer,
                             confirmed, held, remote, local, cache, promise, reached>>
            BY <1>2, <2>3 DEF Check, stores, process
        <3>1. TypeOK'
            BY <2>1, <3>0 DEF TypeOK
        <3>2. CallFits'
            BY <1>2, <2>3 DEF Check, CallFits, TypeOK
        <3>3. QED BY <3>1, <3>2
    <2>4. QED BY <2>2, <2>3
<1>3. ASSUME NEW c \in Clients, Fail(c) PROVE Typed'
    <2>1. TypeOK'
        BY <1>3, <1>e, FinishType DEF Fail, TypeOK, stores, history
    <2>2. CallFits'
        BY <1>3, <1>e, FinishType DEF Fail, CallFits, TypeOK
    <2>3. QED BY <2>1, <2>2
<1>4. ASSUME NEW c \in Clients, Ensure(c) \/ Miss(c) PROVE Typed'
    <2>1. TypeOK'
        BY <1>4 DEF Ensure, Miss, TypeOK, stores, process, work, history
    <2>2. CallFits'
        BY <1>4 DEF Ensure, Miss, CallFits, TypeOK
    <2>3. QED BY <2>1, <2>2
<1>5. ASSUME NEW c \in Clients, EnsureFails(c) \/ SendRefused(c) PROVE Typed'
    <2>1. FallBack(c) /\ UNCHANGED <<remote, cache, promise, reached>>
        BY <1>5 DEF EnsureFails, SendRefused
    <2>2. TypeOK'
        BY <2>1, FallBackType, FinishType DEF TypeOK
    <2>3. CallFits'
        BY <2>1, FallBackType, FinishType DEF CallFits, TypeOK
    <2>4. QED BY <2>2, <2>3
<1>6. ASSUME NEW c \in Clients, Send(c) PROVE Typed'
    <2>1. PICK b \in Batches(c) :
            /\ Arrive(b)
            /\ IF todo[c] = b
               THEN /\ Finish(c, Ok(FALSE))
                    /\ Persisted(c)
                    /\ local' = IF fallback THEN local \cup points[c] ELSE local
               ELSE /\ todo' = [todo EXCEPT ![c] = @ \ b]
                    /\ batch' = [batch EXCEPT ![c] = {}]
                    /\ retries' = [retries EXCEPT ![c] = 0]
                    /\ UNCHANGED <<local, process, pc, call, points, answer,
                                   confirmed, held>>
        BY <1>6 DEF Send
    <2>2. b \subseteq Memories
        BY DEF Batches, TypeOK
    <2>3. remote' \in Collections /\ reached' \subseteq Memories
        BY <2>1, <2>2, PutType DEF Arrive, TypeOK
    <2>4. CASE todo[c] = b
        <3>1. TypeOK'
            BY <1>6, <1>e, <2>1, <2>3, <2>4, FinishType, ZenonT(60) DEF Send, Persisted, TypeOK
        <3>2. CallFits'
            BY <1>e, <2>1, <2>4, FinishType DEF CallFits, TypeOK
        <3>3. QED BY <3>1, <3>2
    <2>5. CASE todo[c] # b
        <3>1. TypeOK'
            BY <1>6, <2>1, <2>3, <2>5, BoundsAssumption DEF Send, TypeOK, process
        <3>2. CallFits'
            BY <2>1, <2>5 DEF CallFits
        <3>3. QED BY <3>1, <3>2
    <2>6. QED BY <2>4, <2>5
<1>7. ASSUME NEW c \in Clients, SendLost(c) PROVE Typed'
    <2>1. PICK b \in Batches(c) : (\E done \in SUBSET b : Arrive(done)) /\ Retry(c, b)
        BY <1>7 DEF SendLost
    <2>2. b \subseteq Memories
        BY DEF Batches, TypeOK
    <2>3. remote' \in Collections /\ reached' \subseteq Memories
        BY <2>1, <2>2, PutType DEF Arrive, TypeOK
    <2>4. CASE retries[c] < MaxRetries
        <3>1. TypeOK'
            BY <1>7, <2>1, <2>2, <2>3, <2>4, BoundsAssumption
            DEF SendLost, Retry, TypeOK, process
        <3>2. CallFits'
            BY <2>1, <2>4 DEF Retry, CallFits
        <3>3. QED BY <3>1, <3>2
    <2>5. CASE ~(retries[c] < MaxRetries)
        <3>1. FallBack(c)
            BY <2>1, <2>5 DEF Retry
        <3>2. TypeOK'
            BY <1>7, <2>3, <3>1, FallBackType, FinishType DEF SendLost, TypeOK
        <3>3. CallFits'
            BY <3>1, FallBackType, FinishType DEF CallFits, TypeOK
        <3>4. QED BY <3>2, <3>3
    <2>6. QED BY <2>4, <2>5
<1>8. ASSUME NEW c \in Clients, Hit(c) PROVE Typed'
    <2>1. PICK hits \in cache :
            Finish(c, [ok |-> TRUE, degraded |-> FALSE, cached |-> TRUE, hits |-> hits])
        BY <1>8 DEF Hit
    <2>2. [ok |-> TRUE, degraded |-> FALSE, cached |-> TRUE, hits |-> hits] \in Answer
        BY DEF Answer, TypeOK
    <2>3. TypeOK'
        BY <1>8, <2>1, <2>2, FinishType DEF Hit, TypeOK, stores, history
    <2>4. CallFits'
        BY <2>1, <2>2, FinishType DEF CallFits, TypeOK
    <2>5. QED BY <2>3, <2>4
<1>9. ASSUME NEW c \in Clients, Query(c) PROVE Typed'
    <2>1. RemoteHits \subseteq Memories
        BY RemoteHitsType DEF TypeOK
    <2>2. Found \in Answer
        BY <2>1 DEF Found, Answer, TypeOK
    <2>3. TypeOK'
        BY <1>9, <2>2 DEF Query, TypeOK, stores, process, work, history
    <2>4. CallFits'
        BY <1>9 DEF Query, CallFits, TypeOK
    <2>5. QED BY <2>3, <2>4
<1>10. ASSUME NEW c \in Clients, QueryFails(c) PROVE Typed'
    <2>1. CASE fallback
        <3>1. [ok |-> TRUE, degraded |-> TRUE, cached |-> FALSE, hits |-> local] \in Answer
            BY DEF Answer, TypeOK
        <3>2. TypeOK'
            BY <1>10, <2>1, <3>1, ZenonT(60) DEF QueryFails, TypeOK, stores, process, work, history
        <3>3. CallFits'
            BY <1>10, <2>1 DEF QueryFails, CallFits, TypeOK
        <3>4. QED BY <3>2, <3>3
    <2>2. CASE ~fallback
        BY <1>10, <2>2, <1>3 DEF QueryFails, Fail
    <2>3. QED BY <2>1, <2>2
<1>11. ASSUME NEW c \in Clients, Keep(c) PROVE Typed'
    <2>1. answer[c] \in Answer /\ answer[c].hits \subseteq Memories
        BY DEF Answer, TypeOK
    <2>2. TypeOK'
        BY <1>11, <2>1, FinishType DEF Keep, TypeOK, history
    <2>3. CallFits'
        BY <1>11, <2>1, FinishType DEF Keep, CallFits, TypeOK
    <2>4. QED BY <2>2, <2>3
<1>12. ASSUME NEW c \in Clients, Forget(c) \/ ForgetFails(c) PROVE Typed'
    <2>1. \E a \in Answer : Finish(c, a)
        BY <1>12, <1>e DEF Forget, ForgetFails
    <2>2. remote' \in Collections
        BY <1>12, ForgottenType DEF Forget, ForgetFails, TypeOK
    <2>3. confirmed' \subseteq Memories /\ promise' \in [Clients -> SUBSET Memories]
        BY <1>12, ZenonT(60) DEF Forget, ForgetFails, Withdraw, TypeOK
    <2>4. TypeOK'
        BY <1>12, <2>1, <2>2, <2>3, FinishType DEF Forget, ForgetFails, TypeOK
    <2>5. CallFits'
        BY <2>1, FinishType DEF CallFits, TypeOK
    <2>6. QED BY <2>4, <2>5
<1>13. CASE Expire
    BY <1>13 DEF Expire, TypeOK, CallFits, process, work, history
<1>14. CASE Restart
    <2>1. TypeOK'
        BY <1>14, <1>e, BoundsAssumption DEF Restart, TypeOK, Error
    <2>2. CallFits'
        BY <1>14 DEF Restart, CallFits
    <2>3. QED BY <2>1, <2>2
<1>15. CASE UNCHANGED vars
    BY <1>15 DEF vars, stores, process, work, history, TypeOK, CallFits
<1>16. QED
    BY <1>1, <1>2, <1>3, <1>4, <1>5, <1>6, <1>7, <1>8, <1>9, <1>10, <1>11, <1>12,
       <1>13, <1>14, <1>15
    DEF Next, Step, CheckFails, Mismatch

\* Every variable has its type; in particular no request to Qdrant is retried
\* more often than qdrantWriteRetryDelays allows.
THEOREM TypeCorrect == Spec => []TypeOK
<1>1. Typed => TypeOK
    BY DEF Typed
<1>2. QED BY <1>1, InitTyped, StepTyped, PTL DEF Spec

-----------------------------------------------------------------------------
(* Durability *)

\* The memories an ingest vouches for are those it was called with, and while
\* it writes, each of them is stored or still to be sent.
Vouched ==
    \A c \in Clients :
        /\ pc[c] = "check" => promise[c] \subseteq call[c].ids
        /\ pc[c] \in {"ensure", "send"} => promise[c] \ todo[c] \subseteq DOMAIN remote

Durable == PersistedReachedQdrant /\ DOMAIN remote \subseteq reached /\ Vouched

LEMMA InitDurable == Init => Durable
BY DEF Init, Durable, PersistedReachedQdrant, Vouched, NoPoints

\* What is confirmed, promised and placed as before, over points that grow.
LEMMA GrowingDurable ==
    ASSUME Typed, Durable, NEW c \in Clients,
           DOMAIN remote \subseteq DOMAIN remote', DOMAIN remote' \subseteq reached',
           confirmed' \subseteq DOMAIN remote', promise' = promise, call' = call,
           \A d \in Clients \ {c} : pc'[d] = pc[d] /\ todo'[d] = todo[d],
           pc'[c] \in {"ensure", "send"} => promise[c] \ todo'[c] \subseteq DOMAIN remote',
           pc'[c] = "check" => pc[c] = "check"
    PROVE  Durable'
BY DEF Durable, PersistedReachedQdrant, Vouched

LEMMA StepDurable == Typed /\ Durable /\ [Next]_vars => Durable'
<1> SUFFICES ASSUME Typed, Durable, [Next]_vars PROVE Durable'
    OBVIOUS
<1>t. TypeOK
    BY DEF Typed
<1>1. ASSUME NEW c \in Clients, NEW r \in Calls, Begin(c, r) PROVE Durable'
    <2>1. FirstPlace(r) \in {"check", "lookup", "mutate"}
          /\ (FirstPlace(r) = "check" => r.op = "ingest")
        BY RequestTypes DEF FirstPlace
    <2>2. QED
        BY <1>1, <1>t, <2>1
        DEF Begin, Durable, PersistedReachedQdrant, Vouched, TypeOK, stores, process, work
<1>2. ASSUME NEW c \in Clients, Check(c) PROVE Durable'
    <2>1. UNCHANGED <<remote, promise, reached>>
        BY <1>2 DEF Check, stores
    <2>2. promise[c] \subseteq call[c].ids
        BY <1>2 DEF Check, Durable, Vouched
    <2>3. CASE call[c].ids \ DOMAIN remote = {}
        <3>1. Finish(c, Ok(FALSE)) /\ confirmed' = confirmed \cup promise[c]
            BY <1>2, <2>3 DEF Check, Persisted
        <3>2. QED
            BY <1>t, <2>1, <2>2, <2>3, <3>1, GrowingDurable
            DEF Finish, TypeOK, Durable, PersistedReachedQdrant
    <2>4. CASE call[c].ids \ DOMAIN remote # {}
        <3>1. /\ todo' = [todo EXCEPT ![c] = call[c].ids \ DOMAIN remote]
              /\ pc' = [pc EXCEPT ![c] = "ensure"]
              /\ UNCHANGED <<call, confirmed>>
            BY <1>2, <2>4 DEF Check
        <3>2. promise[c] \ todo'[c] \subseteq DOMAIN remote
            BY <1>t, <2>2, <3>1 DEF TypeOK
        <3>3. QED
            BY <1>t, <2>1, <3>1, <3>2, GrowingDurable
            DEF TypeOK, Durable, PersistedReachedQdrant
    <2>5. QED BY <2>3, <2>4
<1>3. ASSUME NEW c \in Clients, Fail(c) \/ Hit(c) \/ Keep(c) PROVE Durable'
    <2>1. UNCHANGED <<remote, promise, confirmed, reached, call>>
          /\ \E a : Finish(c, a)
        BY <1>3 DEF Fail, Hit, Keep, Finish, stores, history
    <2>2. QED
        BY <1>t, <2>1, GrowingDurable DEF Finish, TypeOK, Durable, PersistedReachedQdrant
<1>4. ASSUME NEW c \in Clients, Ensure(c) \/ Miss(c) \/ Query(c) PROVE Durable'
    <2>1. UNCHANGED <<remote, promise, confirmed, reached, call, todo>>
        BY <1>4 DEF Ensure, Miss, Query, stores, history, work
    <2>2. QED
        BY <1>4, <1>t, <2>1 DEF Ensure, Miss, Query, TypeOK, Durable, Vouched,
                                PersistedReachedQdrant
<1>5. ASSUME NEW c \in Clients, EnsureFails(c) \/ SendRefused(c) PROVE Durable'
    <2>1. UNCHANGED <<remote, promise, confirmed, reached, call>>
          /\ \E a : Finish(c, a)
        BY <1>5 DEF EnsureFails, SendRefused, FallBack, Finish
    <2>2. QED
        BY <1>t, <2>1, GrowingDurable DEF Finish, TypeOK, Durable, PersistedReachedQdrant
<1>6. ASSUME NEW c \in Clients, Send(c) PROVE Durable'
    <2>1. PICK b \in Batches(c) :
            /\ Arrive(b)
            /\ IF todo[c] = b
               THEN Finish(c, Ok(FALSE)) /\ Persisted(c)
               ELSE /\ todo' = [todo EXCEPT ![c] = @ \ b]
                    /\ UNCHANGED <<pc, call, confirmed>>
        BY <1>6 DEF Send
    <2>2. b \subseteq Memories
        BY <1>t DEF Batches, TypeOK
    <2>3. /\ DOMAIN remote' = DOMAIN remote \cup b
          /\ DOMAIN remote' \subseteq reached'
          /\ promise' = promise
        BY <1>6, <1>t, <2>1, <2>2, PutType, ZenonT(60) DEF Send, Arrive, TypeOK, Durable
    <2>4. promise[c] \ todo[c] \subseteq DOMAIN remote
        BY <1>6 DEF Send, Durable, Vouched
    <2>5. CASE todo[c] = b
        <3>1. confirmed' \subseteq DOMAIN remote'
            BY <2>1, <2>3, <2>4, <2>5 DEF Persisted, Durable, PersistedReachedQdrant
        <3>2. QED
            BY <1>t, <2>1, <2>3, <2>5, <3>1, GrowingDurable DEF Finish, TypeOK
    <2>6. CASE todo[c] # b
        <3>1. promise[c] \ todo'[c] \subseteq DOMAIN remote'
            BY <1>t, <2>1, <2>3, <2>4, <2>6 DEF TypeOK
        <3>2. QED
            BY <1>t, <2>1, <2>3, <2>6, <3>1, GrowingDurable
            DEF TypeOK, Durable, PersistedReachedQdrant
    <2>7. QED BY <2>5, <2>6
<1>7. ASSUME NEW c \in Clients, SendLost(c) PROVE Durable'
    <2>1. PICK b \in Batches(c) : (\E done \in SUBSET b : Arrive(done)) /\ Retry(c, b)
        BY <1>7 DEF SendLost
    <2>2. PICK done \in SUBSET b : Arrive(done)
        BY <2>1
    <2>3. done \subseteq Memories
        BY <1>t DEF Batches, TypeOK
    <2>4. /\ DOMAIN remote' = DOMAIN remote \cup done
          /\ DOMAIN remote' \subseteq reached'
          /\ promise' = promise /\ confirmed' = confirmed /\ call' = call
        BY <1>7, <1>t, <2>1, <2>2, <2>3, PutType, ZenonT(60)
        DEF SendLost, Arrive, Retry, FallBack, Finish, TypeOK, Durable
    <2>5. (todo' = todo /\ pc' = pc) \/ \E a : Finish(c, a)
        BY <2>1 DEF Retry, FallBack
    <2>6. QED
        BY <1>t, <2>4, <2>5, GrowingDurable
        DEF Finish, TypeOK, Durable, PersistedReachedQdrant, Vouched
<1>8. ASSUME NEW c \in Clients, QueryFails(c) PROVE Durable'
    <2>1. CASE fallback
        BY <1>8, <1>t, <2>1 DEF QueryFails, TypeOK, Durable, Vouched, stores, history,
                                work, PersistedReachedQdrant
    <2>2. CASE ~fallback
        BY <1>8, <2>2, <1>3 DEF QueryFails, Fail
    <2>3. QED BY <2>1, <2>2
<1>9. ASSUME NEW c \in Clients, Forget(c) \/ ForgetFails(c) PROVE Durable'
    <2>1. /\ UNCHANGED reached
          /\ \/ UNCHANGED <<remote, confirmed, promise>>
             \/ remote' = Forgotten(call[c]) /\ Withdraw(call[c])
          /\ \E a : Finish(c, a)
        BY <1>9 DEF Forget, ForgetFails
    <2>2. CASE UNCHANGED <<remote, confirmed, promise>>
        BY <1>t, <2>1, <2>2, GrowingDurable
        DEF Finish, TypeOK, Durable, PersistedReachedQdrant
    <2>3. CASE remote' = Forgotten(call[c]) /\ Withdraw(call[c])
        <3> DEFINE gone == IF call[c].hard THEN {call[c].id} ELSE {}
        <3>1. /\ DOMAIN remote' = DOMAIN remote \ gone
              /\ confirmed' = confirmed \ gone
              /\ \A d \in Clients : promise'[d] = promise[d] \ gone
            BY <1>t, <2>3, ForgottenType DEF Withdraw, TypeOK
        <3>2. \A d \in Clients : /\ d # c => pc'[d] = pc[d] /\ todo'[d] = todo[d]
                                 /\ pc'[c] = "idle" /\ call' = call
            BY <1>t, <2>1 DEF Finish, TypeOK
        <3> HIDE DEF gone
        <3>3. QED
            BY <2>1, <3>1, <3>2 DEF Durable, PersistedReachedQdrant, Vouched
    <2>4. QED BY <2>1, <2>2, <2>3
<1>10. CASE Expire
    BY <1>10 DEF Expire, Durable, PersistedReachedQdrant, Vouched, work, history
<1>11. CASE Restart
    BY <1>11 DEF Restart, Durable, PersistedReachedQdrant, Vouched
<1>12. CASE UNCHANGED vars
    BY <1>12 DEF vars, stores, work, history, Durable, PersistedReachedQdrant, Vouched
<1>13. QED
    BY <1>1, <1>2, <1>3, <1>4, <1>5, <1>6, <1>7, <1>8, <1>9, <1>10, <1>11, <1>12
    DEF Next, Step, CheckFails, Mismatch

\* An ingest answered "persisted" is in Qdrant, whatever failed, was retried
\* or ran beside it, until somebody removes it.
THEOREM PersistedSafety == Spec => []PersistedReachedQdrant
<1>1. Durable => PersistedReachedQdrant
    BY DEF Durable
<1>2. QED BY <1>1, InitTyped, StepTyped, InitDurable, StepDurable, PTL DEF Spec

-----------------------------------------------------------------------------
(* The fallback, and what an answer shows *)

\* Points are held only while an ingest is writing.
Resting == \A c \in Clients : pc[c] \notin {"ensure", "send"} => points[c] = {}

Recallable == OutageRecall /\ Resting

LEMMA InitRecallable == Init => Recallable
BY DEF Init, Recallable, OutageRecall, Resting

\* The end of a request, or a step that touches no point.
LEMMA FinishResting ==
    ASSUME Typed, Resting, NEW c \in Clients,
           \/ \E a : Finish(c, a)
           \/ points' = points /\ pc' = pc
           \/ points' = points /\ pc[c] \notin {"ensure", "send"}
                /\ \E p \in {"query", "keep"} : pc' = [pc EXCEPT ![c] = p]
    PROVE  Resting'
BY DEF Finish, Resting, Typed, TypeOK

LEMMA StepRecallable == Typed /\ Recallable /\ [Next]_vars => Recallable'
<1> SUFFICES ASSUME Typed, Recallable, [Next]_vars PROVE Recallable'
    OBVIOUS
<1>t. TypeOK /\ OutageRecall /\ Resting
    BY DEF Typed, Recallable
<1>1. ASSUME NEW c \in Clients, NEW r \in Calls, Begin(c, r) PROVE Recallable'
    <2>1. FirstPlace(r) \in {"check", "lookup", "mutate"}
        BY RequestTypes DEF FirstPlace
    <2>2. QED
        BY <1>1, <1>t, <2>1
        DEF Begin, Recallable, OutageRecall, Resting, TypeOK, stores, process, work
<1>2. ASSUME NEW c \in Clients, Check(c) PROVE Recallable'
    <2>1. points[c] = {}
        BY <1>2, <1>t DEF Check, Resting
    <2>2. local' = local /\ fallback' = fallback /\ held' = held
        BY <1>2, <2>1 DEF Check, Finish, Persisted, stores, process
    <2>3. Resting'
        BY <1>2, <1>t DEF Check, Finish, Resting, TypeOK
    <2>4. QED BY <1>t, <2>2, <2>3 DEF Recallable, OutageRecall
<1>3. ASSUME NEW c \in Clients,
             Fail(c) \/ Hit(c) \/ Keep(c) \/ Miss(c) \/ Query(c) \/ QueryFails(c)
               \/ Forget(c) \/ ForgetFails(c)
      PROVE Recallable'
    <2>1. UNCHANGED <<local, fallback, held>>
        BY <1>3 DEF Fail, Hit, Keep, Miss, Query, QueryFails, Forget, ForgetFails, Finish,
                    stores, process, history
    <2>2. Resting'
        BY <1>3, <1>t, FinishResting
        DEF Fail, Hit, Keep, Miss, Query, QueryFails, Forget, ForgetFails, work
    <2>3. QED BY <1>t, <2>1, <2>2 DEF Recallable, OutageRecall
<1>4. ASSUME NEW c \in Clients, Ensure(c) PROVE Recallable'
    BY <1>4, <1>t DEF Ensure, Recallable, OutageRecall, Resting, TypeOK, stores, process,
                      work, history
<1>5. ASSUME NEW c \in Clients, FallBack(c) PROVE Recallable'
    <2>1. OutageRecall'
        BY <1>5, <1>t DEF FallBack, Finish, OutageRecall, process
    <2>2. Resting'
        BY <1>5, <1>t, FinishResting DEF FallBack
    <2>3. QED BY <2>1, <2>2 DEF Recallable
<1>6. ASSUME NEW c \in Clients, Send(c) PROVE Recallable'
    <2>1. \/ /\ Finish(c, Ok(FALSE))
             /\ Persisted(c)
             /\ local' = IF fallback THEN local \cup points[c] ELSE local
          \/ UNCHANGED <<local, process, pc, points, held>>
        BY <1>6 DEF Send
    <2>2. OutageRecall'
        BY <1>t, <2>1 DEF Finish, Persisted, OutageRecall, process
    <2>3. Resting'
        BY <1>t, <2>1, FinishResting
    <2>4. QED BY <2>2, <2>3 DEF Recallable
<1>7. ASSUME NEW c \in Clients, SendLost(c) PROVE Recallable'
    <2>1. FallBack(c) \/ UNCHANGED <<local, process, pc, points, held>>
        BY <1>7 DEF SendLost, Retry
    <2>2. CASE UNCHANGED <<local, process, pc, points, held>>
        BY <1>t, <2>2 DEF Recallable, OutageRecall, Resting, process
    <2>3. QED BY <1>5, <2>1, <2>2
<1>8. CASE Expire
    BY <1>8, <1>t DEF Expire, Recallable, OutageRecall, Resting, process, work, history
<1>9. CASE Restart
    BY <1>9 DEF Restart, Recallable, OutageRecall, Resting
<1>10. CASE UNCHANGED vars
    BY <1>10, <1>t DEF vars, stores, process, work, history, Recallable, OutageRecall,
                       Resting
<1>11. QED
    BY <1>1, <1>2, <1>3, <1>4, <1>5, <1>6, <1>7, <1>8, <1>9, <1>10
    DEF Next, Step, CheckFails, Mismatch, EnsureFails, SendRefused

\* With the fallback on, whatever this process inserted can be recalled while
\* Qdrant is away: a degraded write gives every point of the request to the
\* fallback, also those Qdrant already took.
THEOREM RecallSafety == Spec => []OutageRecall
<1>1. Recallable => OutageRecall
    BY DEF Recallable
<1>2. QED BY <1>1, InitTyped, StepTyped, InitRecallable, StepRecallable, PTL DEF Spec

LEMMA InitComputed == Init => ComputedIsDurable
BY DEF Init, ComputedIsDurable, NoAnswer

\* Answers of other clients stay, and what was once in Qdrant stays so.
LEMMA AnswerStep ==
    ASSUME Typed, ComputedIsDurable, reached \subseteq reached', NEW c \in Clients,
           NEW a, answer' = [answer EXCEPT ![c] = a],
           a.ok /\ ~a.degraded /\ ~a.cached => a.hits \subseteq reached'
    PROVE  ComputedIsDurable'
BY DEF Typed, TypeOK, ComputedIsDurable

LEMMA StepComputed ==
    Typed /\ Durable /\ ComputedIsDurable /\ [Next]_vars => ComputedIsDurable'
<1> SUFFICES ASSUME Typed, Durable, ComputedIsDurable, [Next]_vars
             PROVE  ComputedIsDurable'
    OBVIOUS
<1>t. TypeOK /\ DOMAIN remote \subseteq reached
    BY DEF Typed, Durable
<1>o. /\ \A d \in BOOLEAN : Ok(d).hits = {}
      /\ NoAnswer.hits = {} /\ Error.hits = {}
    BY DEF Ok, NoAnswer, Error
<1>1. ASSUME NEW c \in Clients, NEW r \in Calls, Begin(c, r) PROVE ComputedIsDurable'
    BY <1>1, <1>o, AnswerStep DEF Begin
<1>2. ASSUME NEW c \in Clients, NEW a, Finish(c, a), a.hits = {}, reached \subseteq reached'
      PROVE ComputedIsDurable'
    BY <1>2, AnswerStep DEF Finish
<1>3. ASSUME UNCHANGED answer, reached \subseteq reached' PROVE ComputedIsDurable'
    BY <1>3 DEF ComputedIsDurable
<1>4. ASSUME NEW c \in Clients, Check(c) PROVE ComputedIsDurable'
    BY <1>4, <1>2, <1>3, <1>o DEF Check
<1>5. ASSUME NEW c \in Clients, Fail(c) PROVE ComputedIsDurable'
    BY <1>5, <1>2, <1>o DEF Fail, history
<1>6. ASSUME NEW c \in Clients, FallBack(c), reached \subseteq reached'
      PROVE ComputedIsDurable'
    BY <1>6, <1>2, <1>o DEF FallBack
<1>7. ASSUME NEW c \in Clients, Send(c) \/ SendLost(c) PROVE ComputedIsDurable'
    <2>1. reached \subseteq reached'
        BY <1>7 DEF Send, SendLost, Arrive
    <2>2. Finish(c, Ok(FALSE)) \/ FallBack(c) \/ UNCHANGED answer
        BY <1>7 DEF Send, SendLost, Retry
    <2>3. QED BY <1>2, <1>3, <1>6, <1>o, <2>1, <2>2
<1>8. ASSUME NEW c \in Clients, Hit(c) PROVE ComputedIsDurable'
    <2>1. PICK hits \in cache :
            Finish(c, [ok |-> TRUE, degraded |-> FALSE, cached |-> TRUE, hits |-> hits])
        BY <1>8 DEF Hit
    <2>2. reached' = reached
        BY <1>8 DEF Hit, history
    <2>3. QED BY <2>1, <2>2, AnswerStep DEF Finish
<1>9. ASSUME NEW c \in Clients, Query(c) PROVE ComputedIsDurable'
    <2>1. RemoteHits \subseteq reached
        BY <1>t, RemoteHitsType DEF TypeOK
    <2>2. answer' = [answer EXCEPT ![c] = Found] /\ reached' = reached
        BY <1>9 DEF Query, history
    <2>3. Found.ok /\ ~Found.degraded => Found.hits \subseteq reached
        BY <2>1 DEF Found
    <2>4. QED BY <2>2, <2>3, AnswerStep
<1>10. ASSUME NEW c \in Clients, QueryFails(c) PROVE ComputedIsDurable'
    <2>1. CASE fallback
        <3>1. /\ answer' = [answer EXCEPT ![c] =
                   [ok |-> TRUE, degraded |-> TRUE, cached |-> FALSE, hits |-> local]]
              /\ reached' = reached
            BY <1>10, <2>1 DEF QueryFails, history
        <3>2. QED BY <3>1, AnswerStep
    <2>2. CASE ~fallback
        BY <1>10, <2>2, <1>5 DEF QueryFails, Fail
    <2>3. QED BY <2>1, <2>2
<1>11. ASSUME NEW c \in Clients, Keep(c) PROVE ComputedIsDurable'
    <2>1. answer' = [answer EXCEPT ![c] = answer[c]] /\ reached' = reached
        BY <1>11 DEF Keep, Finish, history
    <2>2. QED BY <2>1, AnswerStep DEF ComputedIsDurable
<1>12. ASSUME NEW c \in Clients, Forget(c) \/ ForgetFails(c) PROVE ComputedIsDurable'
    BY <1>12, <1>2, <1>o DEF Forget, ForgetFails
<1>13. CASE Restart
    BY <1>13, <1>o DEF Restart, ComputedIsDurable
<1>14. QED
    BY <1>1, <1>3, <1>4, <1>5, <1>6, <1>7, <1>8, <1>9, <1>10, <1>11, <1>12, <1>13
    DEF Next, Step, CheckFails, Mismatch, Ensure, EnsureFails, SendRefused, Miss, Expire,
        vars, history

\* A computed answer that is not marked degraded shows nothing that only ever
\* was in the memory of the process.
THEOREM ComputedSafety == Spec => []ComputedIsDurable
BY InitTyped, StepTyped, InitDurable, StepDurable, InitComputed, StepComputed, PTL DEF Spec
=============================================================================
