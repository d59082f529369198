------------------------- MODULE ReviewQueueProofs -------------------------
(***************************************************************************)
(* Proofs about ReviewQueue, for any candidates, workers and processes,    *)
(* and about MemoryLoop, that proposes them.                               *)
(***************************************************************************)
EXTENDS ReviewQueue, MemoryLoop, OrderLemmas

-----------------------------------------------------------------------------
(* What the operations make of a queue *)

LEMMA ReviewedType ==
    ASSUME NEW record \in Record, NEW r \in Request, r.op # "upsert"
    PROVE  Reviewed(record, r) \in Record
<1>1. CASE r.op = "approve"
  <2>1. r.edited \in BOOLEAN
    BY <1>1 DEF Request
  <2>2. Base(record, r.edited) \in Record
    BY <2>1 DEF Base, Edit, Record, Status
  <2> QED
    BY <1>1, <2>2 DEF Reviewed, Approved, Record, Status
<1>2. CASE r.op = "reject"
  BY <1>2 DEF Reviewed, Rejected, Record, Status
<1>3. CASE r.op = "merge"
  BY <1>3 DEF Reviewed, Merged, Record, Status
<1> QED
  BY <1>1, <1>2, <1>3 DEF Request

LEMMA RequestShape ==
    ASSUME NEW r \in Request
    PROVE  /\ r.op = "upsert" => r.ids \subseteq Candidates
           /\ r.op # "upsert" => r.id \in Candidates
BY DEF Request

LEMMA EmptyQueue == NoRecords \in Queues /\ DOMAIN NoRecords = {}
<1>1. NoRecords \in [{} -> Record] /\ {} \in SUBSET Candidates
  BY DEF NoRecords
<1> QED
  BY <1>1 DEF Queues, NoRecords

LEMMA QueueShape ==
    ASSUME NEW q
    PROVE  q \in Queues <=>
             /\ q = [c \in DOMAIN q |-> q[c]]
             /\ DOMAIN q \subseteq Candidates
             /\ \A c \in DOMAIN q : q[c] \in Record
BY DEF Queues

LEMMA ApplyType ==
    ASSUME NEW q \in Queues, NEW r \in Request, Found(q, r)
    PROVE  /\ Apply(q, r) \in Queues
           /\ DOMAIN q \subseteq DOMAIN Apply(q, r)
           /\ r.op # "upsert" => /\ DOMAIN Apply(q, r) = DOMAIN q
                                 /\ r.id \in DOMAIN q
                                 /\ Apply(q, r)[r.id] = Reviewed(q[r.id], r)
                                 /\ \A c \in DOMAIN q : c # r.id => Apply(q, r)[c] = q[c]
<1>1. DOMAIN q \subseteq Candidates /\ \A c \in DOMAIN q : q[c] \in Record
  BY QueueShape
<1>2. CASE r.op = "upsert"
  <2>1. \A c \in r.ids : Proposal(c) \in Record
    BY <1>2, RequestShape, FreshStatusAssumption DEF Proposal, Record
  <2> QED
    BY <1>1, <1>2, <2>1, RequestShape, QueueShape DEF Apply
<1>3. CASE r.op # "upsert"
  <2>1. r.id \in DOMAIN q
    BY <1>3 DEF Found
  <2>2. Reviewed(q[r.id], r) \in Record
    BY <1>1, <1>3, <2>1, ReviewedType
  <2> DEFINE a == Apply(q, r)
  <2>3. a = [q EXCEPT ![r.id] = Reviewed(q[r.id], r)]
    BY <1>3 DEF Apply
  <2> HIDE DEF a
  <2>4. /\ DOMAIN a = DOMAIN q
        /\ a[r.id] = Reviewed(q[r.id], r)
        /\ \A c \in DOMAIN q : c # r.id => a[c] = q[c]
        /\ a = [c \in DOMAIN a |-> a[c]]
    BY <2>1, <2>3
  <2>5. a \in Queues
    BY <1>1, <2>1, <2>2, <2>4, QueueShape
  <2> QED
    BY <1>3, <2>1, <2>4, <2>5 DEF a
<1> QED
  BY <1>2, <1>3

-----------------------------------------------------------------------------
(* Types and mutual exclusion *)

\* A worker inside an operation has a request, and one that is about to store
\* a point has found the candidate.
TypeInv ==
    /\ TypeOK
    /\ \A w \in Workers : pc[w] # "idle" => request[w] \in Requests
    /\ \A w \in Workers : pc[w] = "store" =>
          request[w].op = "approve" /\ request[w].id \in DOMAIN pending[w]

LEMMA ReturnType ==
    ASSUME TypeInv, NEW w \in Workers, Holding(w), Return(w),
           records' \in Queues, torn' \in BOOLEAN, canon' \in Queues,
           faults' \in 0..MaxFaults
    PROVE  TypeInv'
<1>1. /\ mutex \in [Processes -> Workers \cup {NoWorker}]
      /\ pc \in [Workers -> {"idle", "lock", "load", "store", "save", "write"}]
      /\ request \in [Workers -> Requests \cup {NoRequest}]
      /\ pending \in [Workers -> Queues]
      /\ \A v \in Workers : Holding(v) <=> mutex[Process[v]] = v
      /\ \A v \in Workers : Process[v] \in Processes
  BY DEF TypeInv, TypeOK, Processes
<1>2. /\ mutex' \in [Processes -> Workers \cup {NoWorker}]
      /\ pc' \in [Workers -> {"idle", "lock", "load", "store", "save", "write"}]
      /\ request' \in [Workers -> Requests \cup {NoRequest}]
      /\ pending' \in [Workers -> Queues]
  BY <1>1, EmptyQueue DEF Return
<1>3. ASSUME NEW v \in Workers PROVE Holding(v)' <=> mutex'[Process[v]] = v
  <2>1. CASE v = w
    BY <1>1, <2>1, WorkersAssumption DEF Return, Holding
  <2>2. CASE v # w
    BY <1>1, <2>2, WorkersAssumption DEF Return, Holding
  <2> QED
    BY <2>1, <2>2
<1>4. \A v \in Workers : v # w =>
        pc'[v] = pc[v] /\ request'[v] = request[v] /\ pending'[v] = pending[v]
  BY <1>1 DEF Return
<1>5. pc'[w] = "idle"
  BY <1>1 DEF Return
<1> QED
  BY <1>2, <1>3, <1>4, <1>5 DEF TypeInv, TypeOK

LEMMA InitType == Init => TypeInv
<1> SUFFICES ASSUME Init PROVE TypeInv
  OBVIOUS
<1>1. \A w \in Workers : pc[w] = "idle" /\ mutex[Process[w]] = NoWorker
  BY DEF Init, Processes
<1>2. \A w \in Workers : Holding(w) <=> mutex[Process[w]] = w
  BY <1>1, WorkersAssumption DEF Holding
<1>3. faults \in 0..MaxFaults
  BY FaultsAssumption DEF Init
<1>4. /\ mutex \in [Processes -> Workers \cup {NoWorker}]
      /\ pc \in [Workers -> {"idle", "lock", "load", "store", "save", "write"}]
      /\ request \in [Workers -> Requests \cup {NoRequest}]
      /\ pending \in [Workers -> Queues]
  BY EmptyQueue DEF Init
<1> QED
  BY <1>1, <1>2, <1>3, <1>4, EmptyQueue DEF Init, TypeInv, TypeOK

\* Storing a point keeps the type of the points.
LEMMA StoredType ==
    ASSUME TypeInv, NEW w \in Workers, pc[w] = "store"
    PROVE  Stored(w) \in Queues /\ DOMAIN Stored(w) = DOMAIN canon \cup {request[w].id}
<1>1. canon \in Queues /\ pending[w] \in Queues /\ request[w].id \in DOMAIN pending[w]
  BY DEF TypeInv, TypeOK
<1> QED
  BY <1>1, QueueShape DEF Stored

LEMMA NextType == TypeInv /\ [Next]_vars => TypeInv'
<1> SUFFICES ASSUME TypeInv, [Next]_vars PROVE TypeInv'
  OBVIOUS
<1>0. /\ records \in Queues /\ torn \in BOOLEAN /\ canon \in Queues
      /\ mutex \in [Processes -> Workers \cup {NoWorker}]
      /\ pc \in [Workers -> {"idle", "lock", "load", "store", "save", "write"}]
      /\ request \in [Workers -> Requests \cup {NoRequest}]
      /\ pending \in [Workers -> Queues]
      /\ faults \in 0..MaxFaults
      /\ \A w \in Workers : Holding(w) <=> mutex[Process[w]] = w
      /\ \A w \in Workers : Process[w] \in Processes
  BY DEF TypeInv, TypeOK, Processes
<1>1. ASSUME NEW w \in Workers, NEW r \in Requests, Call(w, r) PROVE TypeInv'
  <2>1. \A v \in Workers : Holding(v)' <=> Holding(v)
    BY <1>0, <1>1 DEF Call, Holding
  <2> QED
    BY <1>0, <1>1, <2>1 DEF Call, file, TypeInv, TypeOK
<1>2. ASSUME NEW w \in Workers, Lock(w) PROVE TypeInv'
  <2>1. ASSUME NEW v \in Workers PROVE Holding(v)' <=> mutex'[Process[v]] = v
    <3>1. CASE v = w
      BY <1>0, <1>2, <3>1 DEF Lock, Holding
    <3>2. CASE v # w /\ Process[v] = Process[w]
      BY <1>0, <1>2, <3>2, WorkersAssumption DEF Lock, Holding
    <3>3. CASE Process[v] # Process[w]
      BY <1>0, <1>2, <3>3 DEF Lock, Holding
    <3> QED
      BY <3>1, <3>2, <3>3
  <2> QED
    BY <1>0, <1>2, <2>1 DEF Lock, file, TypeInv, TypeOK
<1>3. ASSUME NEW w \in Workers, Refuse(w) PROVE TypeInv'
  BY <1>0, <1>3, ReturnType DEF Refuse, file, Holding
<1>4. ASSUME NEW w \in Workers, Load(w) PROVE TypeInv'
  <2>1. request[w] \in Requests /\ request[w] \in Request
    BY <1>4, RequestsAssumption DEF Load, TypeInv
  <2>2. Apply(records, request[w]) \in Queues
        /\ (request[w].op # "upsert" => request[w].id \in DOMAIN Apply(records, request[w]))
    BY <1>0, <1>4, <2>1, ApplyType DEF Load
  <2>3. \A v \in Workers : Holding(v)' <=> Holding(v)
    BY <1>0, <1>4 DEF Load, Holding
  <2>4. \A v \in Workers : v # w => pc'[v] = pc[v] /\ pending'[v] = pending[v]
    BY <1>0, <1>4 DEF Load
  <2>5. pc'[w] = "store" =>
          request[w].op = "approve" /\ request[w].id \in DOMAIN pending'[w]
    BY <1>0, <1>4, <2>2 DEF Load
  <2>6. pending' \in [Workers -> Queues]
        /\ pc' \in [Workers -> {"idle", "lock", "load", "store", "save", "write"}]
    BY <1>0, <1>4, <2>2 DEF Load
  <2>7. \A v \in Workers : pc'[v] # "idle" => request'[v] \in Requests
    BY <1>0, <1>4, <2>1, <2>4 DEF Load, TypeInv
  <2> QED
    BY <1>0, <1>4, <2>3, <2>4, <2>5, <2>6, <2>7 DEF Load, file, TypeInv, TypeOK
<1>5. ASSUME NEW w \in Workers, StorePoint(w) PROVE TypeInv'
  <2>1. canon' \in Queues
    BY <1>5, StoredType DEF StorePoint
  <2>2. \A v \in Workers : Holding(v)' <=> Holding(v)
    BY <1>0, <1>5 DEF StorePoint, Holding
  <2> QED
    BY <1>0, <1>5, <2>1, <2>2 DEF StorePoint, file, TypeInv, TypeOK
<1>6. ASSUME NEW w \in Workers, StoreError(w) PROVE TypeInv'
  <2>1. canon' \in Queues
    BY <1>0, <1>6, StoredType DEF StoreError
  <2> QED
    BY <1>0, <1>6, <2>1, ReturnType DEF StoreError, file, Holding
<1>7. ASSUME NEW w \in Workers, Truncate(w) PROVE TypeInv'
  <2>1. \A v \in Workers : Holding(v)' <=> Holding(v)
    BY <1>0, <1>7 DEF Truncate, Holding
  <2> QED
    BY <1>0, <1>7, <2>1, EmptyQueue DEF Truncate, TypeInv, TypeOK
<1>8. ASSUME NEW w \in Workers, Write(w) \/ Overlay(w) PROVE TypeInv'
  <2>1. CASE Write(w)
    BY <1>0, <2>1, ReturnType DEF Write, Holding
  <2>2. CASE Overlay(w)
    BY <1>0, <2>2, EmptyQueue, ReturnType DEF Overlay, Holding
  <2> QED
    BY <1>8, <2>1, <2>2
<1>9. ASSUME NEW w \in Workers, FailWrite(w) PROVE TypeInv'
  <2>1. faults' \in 0..MaxFaults
    BY <1>0, <1>9, FaultsAssumption DEF FailWrite
  <2> QED
    BY <1>0, <1>9, <2>1, EmptyQueue, ReturnType DEF FailWrite, Holding
<1>10. ASSUME NEW p \in Processes, Kill(p) PROVE TypeInv'
  <2>1. faults' \in 0..MaxFaults
    BY <1>0, <1>10, FaultsAssumption DEF Kill
  <2>2. records' \in Queues /\ torn' \in BOOLEAN
    BY <1>0, <1>10, EmptyQueue DEF Kill, file
  <2>3. ASSUME NEW v \in Workers PROVE Holding(v)' <=> mutex'[Process[v]] = v
    <3>1. CASE Process[v] = p
      BY <1>0, <1>10, <3>1, WorkersAssumption DEF Kill, Holding
    <3>2. CASE Process[v] # p
      BY <1>0, <1>10, <3>2 DEF Kill, Holding
    <3> QED
      BY <3>1, <3>2
  <2>4. \A v \in Workers :
          \/ pc'[v] = "idle"
          \/ pc'[v] = pc[v] /\ request'[v] = request[v] /\ pending'[v] = pending[v]
    BY <1>10 DEF Kill
  <2>5. /\ pc' \in [Workers -> {"idle", "lock", "load", "store", "save", "write"}]
        /\ request' \in [Workers -> Requests \cup {NoRequest}]
        /\ pending' \in [Workers -> Queues]
        /\ mutex' \in [Processes -> Workers \cup {NoWorker}]
    BY <1>0, <1>10, EmptyQueue DEF Kill
  <2> QED
    BY <1>0, <1>10, <2>1, <2>2, <2>3, <2>4, <2>5 DEF Kill, TypeInv, TypeOK
<1>11. CASE UNCHANGED vars
  BY <1>11 DEF vars, file, TypeInv, TypeOK, Holding
<1> QED
  BY <1>1, <1>2, <1>3, <1>4, <1>5, <1>6, <1>7, <1>8, <1>9, <1>10, <1>11
  DEF Next, Step

\* The variables keep their types, and a worker inside an operation is the one
\* that holds the mutex of its process.
THEOREM TypeCorrect == Spec => []TypeOK
<1>1. TypeInv => TypeOK
  BY DEF TypeInv
<1> QED
  BY <1>1, InitType, NextType, PTL DEF Spec

-----------------------------------------------------------------------------
(* A canonical record has its point *)

\* Of the canonical records of queue q only those in "but" may lack a point.
Covered(q, but) == \A c \in DOMAIN q : q[c].canonical => c \in DOMAIN canon \cup but

\* So of the queue worker w is going to save, until its point is stored.
Kept(w) ==
    /\ pc[w] \in {"save", "write"} => Covered(pending[w], {})
    /\ pc[w] = "store" => Covered(pending[w], {request[w].id})

\* ApprovedIsStored speaks of the file; to be inductive it has to follow the
\* queue that is going to be saved.
ApprovalInv ==
    /\ TypeInv
    /\ Covered(records, {})
    /\ \A w \in Workers : Kept(w)

LEMMA ApplyCovered ==
    ASSUME NEW q \in Queues, NEW r \in Request, Found(q, r), Covered(q, {})
    PROVE  /\ r.op = "approve" => Covered(Apply(q, r), {r.id})
           /\ r.op # "approve" => Covered(Apply(q, r), {})
<1>1. CASE r.op = "upsert"
  BY <1>1 DEF Covered, Apply, Proposal
<1>2. CASE r.op = "approve"
  BY <1>2, ApplyType DEF Covered
<1>3. CASE r.op \in {"reject", "merge"}
  <2>1. q[r.id] \in Record /\ r.id \in DOMAIN q
    BY <1>3, ApplyType, QueueShape
  <2>2. Reviewed(q[r.id], r).canonical = q[r.id].canonical
    BY <1>3, <2>1 DEF Reviewed, Rejected, Merged, Record
  <2> QED
    BY <1>3, <2>2, ApplyType DEF Covered
<1> QED
  BY <1>1, <1>2, <1>3 DEF Request

\* No step takes a canonical point away.
LEMMA CanonGrows ==
    ASSUME TypeInv, [Next]_vars
    PROVE  DOMAIN canon \subseteq DOMAIN canon'
<1>1. ASSUME NEW w \in Workers, StorePoint(w) \/ StoreError(w)
      PROVE  DOMAIN canon \subseteq DOMAIN canon'
  BY <1>1, StoredType DEF StorePoint, StoreError
<1>2. ASSUME NEW w \in Workers,
             \/ \E r \in Requests : Call(w, r)
             \/ Lock(w) \/ Refuse(w) \/ Load(w) \/ Truncate(w) \/ Write(w)
             \/ Overlay(w) \/ FailWrite(w)
      PROVE  canon' = canon
  BY <1>2 DEF Call, Lock, Refuse, Load, Truncate, Write, Overlay, FailWrite
<1>3. ASSUME NEW p \in Processes, Kill(p) PROVE canon' = canon
  BY <1>3 DEF Kill
<1>4. CASE UNCHANGED vars
  BY <1>4 DEF vars
<1> QED
  BY <1>1, <1>2, <1>3, <1>4 DEF Next, Step

LEMMA CoveredGrows ==
    ASSUME DOMAIN canon \subseteq DOMAIN canon', NEW CONSTANT q, NEW CONSTANT but,
           Covered(q, but)
    PROVE  Covered(q, but)'
BY DEF Covered

LEMMA NextApproval == ApprovalInv /\ [Next]_vars => ApprovalInv'
<1> SUFFICES ASSUME ApprovalInv, [Next]_vars PROVE ApprovalInv'
  OBVIOUS
<1>0. /\ TypeInv /\ TypeInv'
      /\ DOMAIN canon \subseteq DOMAIN canon'
      /\ records \in Queues /\ RequestsAssumption
      /\ pc \in [Workers -> {"idle", "lock", "load", "store", "save", "write"}]
      /\ request \in [Workers -> Requests \cup {NoRequest}]
      /\ pending \in [Workers -> Queues]
  BY NextType, CanonGrows, RequestsAssumption DEF ApprovalInv, TypeInv, TypeOK
<1>1. ASSUME NEW v \in Workers,
             \/ pc'[v] \in {"idle", "lock", "load"}
             \/ pc'[v] = pc[v] /\ pending'[v] = pending[v] /\ request'[v] = request[v]
      PROVE  Kept(v)'
  BY <1>0, <1>1 DEF ApprovalInv, Kept, Covered
<1>2. ASSUME records' \in {records, NoRecords}
      PROVE  Covered(records, {})'
  BY <1>0, <1>2, EmptyQueue DEF ApprovalInv, Covered
<1>3. ASSUME NEW w \in Workers, NEW r \in Requests, Call(w, r) PROVE ApprovalInv'
  <2>1. \A v \in Workers : Kept(v)'
    BY <1>0, <1>1, <1>3 DEF Call
  <2> QED
    BY <1>0, <1>2, <1>3, <2>1 DEF Call, file, ApprovalInv
<1>4. ASSUME NEW w \in Workers, Lock(w) PROVE ApprovalInv'
  <2>1. \A v \in Workers : Kept(v)'
    BY <1>0, <1>1, <1>4 DEF Lock
  <2> QED
    BY <1>0, <1>2, <1>4, <2>1 DEF Lock, file, ApprovalInv
<1>5. ASSUME NEW w \in Workers, Return(w), records' \in {records, NoRecords}
      PROVE  ApprovalInv'
  <2>1. \A v \in Workers : Kept(v)'
    BY <1>0, <1>1, <1>5 DEF Return
  <2> QED
    BY <1>0, <1>2, <1>5, <2>1 DEF ApprovalInv
<1>6. ASSUME NEW w \in Workers, Load(w) PROVE ApprovalInv'
  <2> DEFINE r == request[w]
             q == Apply(records, r)
  <2>1. r \in Request /\ Found(records, r) /\ Covered(records, {})
    BY <1>0, <1>6 DEF Load, RequestsAssumption, ApprovalInv, TypeInv
  <2>2. /\ r.op = "approve" => Covered(q, {r.id})
        /\ r.op # "approve" => Covered(q, {})
    BY <1>0, <2>1, ApplyCovered
  <2>3. /\ pending'[w] = q /\ request'[w] = r /\ canon' = canon
        /\ pc'[w] = IF r.op = "approve" THEN "store" ELSE "save"
    BY <1>0, <1>6 DEF Load
  <2>4. Kept(w)'
    BY <2>2, <2>3 DEF Kept, Covered
  <2>5. \A v \in Workers : v # w => Kept(v)'
    BY <1>0, <1>1, <1>6 DEF Load
  <2> QED
    BY <1>0, <1>2, <1>6, <2>4, <2>5 DEF Load, file, ApprovalInv
<1>7. ASSUME NEW w \in Workers, StorePoint(w) PROVE ApprovalInv'
  <2>1. pc[w] = "store" /\ Covered(pending[w], {request[w].id})
    BY <1>7 DEF StorePoint, ApprovalInv, Kept
  <2>2. DOMAIN canon' = DOMAIN canon \cup {request[w].id}
    BY <1>0, <1>7, StoredType DEF StorePoint
  <2>3. pc'[w] = "save" /\ pending' = pending
    BY <1>0, <1>7 DEF StorePoint
  <2>4. Kept(w)'
    BY <2>1, <2>2, <2>3 DEF Kept, Covered
  <2>5. \A v \in Workers : v # w => Kept(v)'
    BY <1>0, <1>1, <1>7 DEF StorePoint
  <2> QED
    BY <1>0, <1>2, <1>7, <2>4, <2>5 DEF StorePoint, file, ApprovalInv
<1>8. ASSUME NEW w \in Workers, Truncate(w) PROVE ApprovalInv'
  <2>1. pc[w] = "save" /\ pc'[w] = "write" /\ pending' = pending /\ canon' = canon
    BY <1>0, <1>8 DEF Truncate
  <2>2. Kept(w)'
    BY <2>1 DEF Kept, Covered, ApprovalInv
  <2>3. \A v \in Workers : v # w => Kept(v)'
    BY <1>0, <1>1, <1>8 DEF Truncate
  <2> QED
    BY <1>0, <1>2, <1>8, <2>2, <2>3 DEF Truncate, ApprovalInv
<1>9. ASSUME NEW w \in Workers, Write(w) PROVE ApprovalInv'
  <2>1. \A v \in Workers : Kept(v)'
    BY <1>0, <1>1, <1>9 DEF Write, Return
  <2>2. Covered(records, {})'
    BY <1>9 DEF Write, ApprovalInv, Kept, Covered
  <2> QED
    BY <1>0, <2>1, <2>2 DEF ApprovalInv
<1>10. ASSUME NEW p \in Processes, Kill(p) PROVE ApprovalInv'
  <2>1. \A v \in Workers : Kept(v)'
    BY <1>0, <1>1, <1>10 DEF Kill
  <2> QED
    BY <1>0, <1>2, <1>10, <2>1 DEF Kill, file, ApprovalInv
<1>11. CASE UNCHANGED vars
  <2>1. \A v \in Workers : Kept(v)'
    BY <1>1, <1>11 DEF vars
  <2> QED
    BY <1>0, <1>2, <1>11, <2>1 DEF vars, file, ApprovalInv
<1>12. ASSUME NEW w \in Workers,
              Refuse(w) \/ StoreError(w) \/ Overlay(w) \/ FailWrite(w)
       PROVE  ApprovalInv'
  BY <1>5, <1>12 DEF Refuse, StoreError, Overlay, FailWrite, file
<1> QED
  BY <1>3, <1>4, <1>6, <1>7, <1>8, <1>9, <1>10, <1>11, <1>12 DEF Next, Step

\* A record the queue calls canonical has its point in the collection, for any
\* processes, faults and interleavings.
THEOREM ApprovalSafety == Spec => []ApprovedIsStored
<1>1. Init => ApprovalInv
  <2> SUFFICES ASSUME Init PROVE ApprovalInv
    OBVIOUS
  <2> QED
    BY InitType, EmptyQueue DEF Init, ApprovalInv, Kept, Covered
<1>2. ApprovalInv => ApprovedIsStored
  BY DEF ApprovalInv, Kept, Covered, ApprovedIsStored, Queue, Writers
<1> QED
  BY <1>1, <1>2, NextApproval, PTL DEF Spec

-----------------------------------------------------------------------------
(* Within one process the queue is serial *)

\* The assumption: one process uses the file, and nothing kills it.
OneProcess == \A v, w \in Workers : Process[v] = Process[w]
NoFaults == MaxFaults = 0

\* What worker w loaded is still what the file holds, an approved candidate's
\* point is stored before the save begins, and nobody else fills the file it
\* has truncated.
Current(w) ==
    /\ pc[w] \in {"store", "save"} =>
          Found(records, request[w]) /\ pending[w] = Apply(records, request[w])
    /\ pc[w] = "save" /\ request[w].op = "approve" =>
          /\ request[w].id \in DOMAIN canon
          /\ canon[request[w].id] = pending[w][request[w].id]
    /\ pc[w] = "write" => records = NoRecords /\ ~torn

SerialInv == TypeInv /\ \A w \in Workers : Current(w)

LEMMA SoleHolder ==
    ASSUME OneProcess, TypeInv, NEW w \in Workers, Holding(w)
    PROVE  \A v \in Workers : v # w => ~Holding(v)
BY DEF OneProcess, TypeInv, TypeOK

\* A holder that does not write sees the file as the queue.
LEMMA QueueIsFile ==
    ASSUME Writers = {} PROVE Queue = records
BY DEF Queue

LEMMA QueueIsPending ==
    ASSUME NEW w, Writers = {w} PROVE Queue = pending[w]
BY DEF Queue

LEMMA NoWriters ==
    ASSUME OneProcess, TypeInv, NEW w \in Workers, Holding(w), pc[w] # "write"
    PROVE  Writers = {}
BY SoleHolder DEF Writers, Holding

LEMMA OneWriter ==
    ASSUME OneProcess, TypeInv, NEW w \in Workers, pc[w] = "write"
    PROVE  Writers = {w}
BY SoleHolder DEF Writers, Holding

\* A step of the worker inside an operation: the file and the points may
\* change, the other workers are outside.
LEMMA OthersOutside ==
    ASSUME OneProcess, TypeInv, NEW w \in Workers, Holding(w),
           \A v \in Workers : v # w => pc'[v] = pc[v]
    PROVE  \A v \in Workers : v # w => Current(v)'
BY SoleHolder DEF Holding, Current

LEMMA NextSerial ==
    ASSUME OneProcess, NoFaults, SerialInv, [Next]_vars
    PROVE  SerialInv'
<1>0. /\ TypeInv /\ TypeInv'
      /\ pc \in [Workers -> {"idle", "lock", "load", "store", "save", "write"}]
      /\ request \in [Workers -> Requests \cup {NoRequest}]
      /\ pending \in [Workers -> Queues]
      /\ mutex \in [Processes -> Workers \cup {NoWorker}]
  BY NextType DEF SerialInv, TypeInv, TypeOK
<1>1. ASSUME NEW w \in Workers, NEW r \in Requests, Call(w, r) PROVE SerialInv'
  <2>1. \A v \in Workers : Current(v)'
    BY <1>0, <1>1 DEF Call, file, SerialInv, Current
  <2> QED
    BY <1>0, <2>1 DEF SerialInv
<1>2. ASSUME NEW w \in Workers, Lock(w) PROVE SerialInv'
  <2>1. \A v \in Workers : Current(v)'
    BY <1>0, <1>2 DEF Lock, file, SerialInv, Current
  <2> QED
    BY <1>0, <2>1 DEF SerialInv
<1>3. ASSUME NEW w \in Workers, Return(w), Holding(w) PROVE SerialInv'
  <2>1. \A v \in Workers : v # w => Current(v)'
    BY <1>0, <1>3, OthersOutside DEF Return
  <2>2. Current(w)'
    BY <1>0, <1>3 DEF Return, Current
  <2> QED
    BY <1>0, <2>1, <2>2 DEF SerialInv
<1>4. ASSUME NEW w \in Workers, Load(w) PROVE SerialInv'
  <2>1. Holding(w) /\ \A v \in Workers : v # w => pc'[v] = pc[v]
    BY <1>0, <1>4 DEF Load, Holding
  <2>2. Current(w)'
    BY <1>0, <1>4 DEF Load, file, Current
  <2> QED
    BY <1>0, <2>1, <2>2, OthersOutside DEF SerialInv
<1>5. ASSUME NEW w \in Workers, StorePoint(w) PROVE SerialInv'
  <2>1. Holding(w) /\ \A v \in Workers : v # w => pc'[v] = pc[v]
    BY <1>0, <1>5 DEF StorePoint, Holding
  <2>2. canon' = Stored(w) /\ canon'[request[w].id] = pending[w][request[w].id]
        /\ request[w].id \in DOMAIN canon'
    BY <1>5 DEF StorePoint, Stored
  <2>3. Current(w)'
    BY <1>0, <1>5, <2>2 DEF StorePoint, file, SerialInv, Current
  <2> QED
    BY <1>0, <2>1, <2>3, OthersOutside DEF SerialInv
<1>6. ASSUME NEW w \in Workers, Truncate(w) PROVE SerialInv'
  <2>1. Holding(w) /\ \A v \in Workers : v # w => pc'[v] = pc[v]
    BY <1>0, <1>6 DEF Truncate, Holding
  <2>2. Current(w)'
    BY <1>0, <1>6 DEF Truncate, Current
  <2> QED
    BY <1>0, <2>1, <2>2, OthersOutside DEF SerialInv
<1>7. ASSUME NEW w \in Workers, Refuse(w) \/ StoreError(w) \/ Write(w) PROVE SerialInv'
  BY <1>3, <1>7 DEF Refuse, StoreError, Write, Holding
<1>8. ASSUME NEW w \in Workers, FailWrite(w) \/ Overlay(w) PROVE FALSE
  BY <1>8 DEF FailWrite, Overlay, Current, NoFaults, SerialInv, TypeInv, TypeOK
<1>9. ASSUME NEW p \in Processes, Kill(p) PROVE FALSE
  BY <1>9 DEF Kill, NoFaults, SerialInv, TypeInv, TypeOK
<1>10. CASE UNCHANGED vars
  <2>1. \A v \in Workers : Current(v)'
    BY <1>10 DEF vars, file, SerialInv, Current
  <2> QED
    BY <1>0, <2>1 DEF SerialInv
<1> QED
  BY <1>1, <1>2, <1>4, <1>5, <1>6, <1>7, <1>8, <1>9, <1>10 DEF Next, Step

\* The point that is stored is the one the register publishes.
LEMMA StoredIsPublished ==
    ASSUME SerialInv, NEW w \in Workers, pc[w] = "store"
    PROVE  /\ request[w].op = "approve" /\ request[w] \in Requests
           /\ Found(records, request[w])
           /\ Stored(w) = Publish(canon, records, request[w])
<1>1. /\ request[w].op = "approve" /\ request[w] \in Requests /\ request[w] \in Request
      /\ Found(records, request[w]) /\ pending[w] = Apply(records, request[w])
      /\ records \in Queues
  BY RequestsAssumption DEF SerialInv, Current, TypeInv, TypeOK
<1>2. pending[w][request[w].id] = Reviewed(records[request[w].id], request[w])
  BY <1>1, ApplyType
<1> QED
  BY <1>1, <1>2 DEF Stored, Publish

\* The register's operators on records are the ones of the queue.
LEMMA SameRegister ==
    ASSUME NEW q, NEW r
    PROVE  /\ Register!Found(q, r) <=> Found(q, r)
           /\ Register!Apply(q, r) = Apply(q, r)
<1>1. Register!Found(q, r) <=> Found(q, r)
  BY DEF Register!Found, Found
<1>2. \A c : Register!Proposal(c) = Proposal(c)
  BY DEF Register!Proposal, Proposal
<1>3. \A record : Register!Reviewed(record, r) = Reviewed(record, r)
  BY DEF Register!Reviewed, Reviewed, Register!Base, Base, Register!Edit, Edit,
         Register!Approved, Approved, Register!Rejected, Rejected,
         Register!Merged, Merged
<1> QED
  BY <1>1, <1>2, <1>3 DEF Register!Apply, Apply

LEMMA NextRefines ==
    ASSUME OneProcess, NoFaults, SerialInv, [Next]_vars
    PROVE  [Register!Next]_(Register!vars)
<1>0. /\ TypeInv /\ TypeInv'
      /\ pc \in [Workers -> {"idle", "lock", "load", "store", "save", "write"}]
      /\ pending \in [Workers -> Queues]
  BY NextType DEF SerialInv, TypeInv, TypeOK
<1>1. ASSUME NEW w \in Workers, Holding(w), pc[w] # "write", pc'[w] # "write",
             \A v \in Workers : v # w => pc'[v] = pc[v]
      PROVE  Queue = records /\ Queue' = records'
  <2>1. Writers = {}
    BY <1>0, <1>1, NoWriters
  <2>2. Writers' = {}
    BY <1>1, <2>1 DEF Writers
  <2> QED
    BY <2>1, <2>2 DEF Queue
<1>2. ASSUME Writers' = Writers, records' = records, pending' = pending
      PROVE  Queue' = Queue
  BY <1>2 DEF Queue
<1>3. ASSUME NEW w \in Workers, Lock(w) \/ \E r \in Requests : Call(w, r)
      PROVE  Queue' = Queue /\ canon' = canon
  <2>1. Writers' = Writers
    BY <1>0, <1>3 DEF Lock, Call, Writers
  <2> QED
    BY <1>2, <1>3, <2>1 DEF Lock, Call, file
<1>4. ASSUME NEW w \in Workers, Refuse(w) \/ Load(w)
      PROVE  Queue' = Queue /\ canon' = canon
  <2>1. /\ Holding(w) /\ pc[w] # "write" /\ pc'[w] # "write"
        /\ \A v \in Workers : v # w => pc'[v] = pc[v]
    BY <1>0, <1>4 DEF Refuse, Load, Return, Holding
  <2> QED
    BY <1>1, <1>4, <2>1 DEF Refuse, Load, file
<1>5. ASSUME NEW w \in Workers, StorePoint(w) \/ StoreError(w)
      PROVE  [Register!Next]_(Register!vars)
  <2>1. /\ Holding(w) /\ pc[w] = "store" /\ pc'[w] # "write"
        /\ \A v \in Workers : v # w => pc'[v] = pc[v]
    BY <1>0, <1>5 DEF StorePoint, StoreError, Return, Holding
  <2>2. Queue = records /\ Queue' = Queue
    BY <1>1, <1>5, <2>1 DEF StorePoint, StoreError, file
  <2>3. CASE canon' = Stored(w)
    <3>1. Register!Store(request[w])
      BY <2>1, <2>2, <2>3, StoredIsPublished, Zenon
      DEF Register!Store, Register!Found, Register!Publish, Found, Publish,
          Register!Reviewed, Reviewed, Register!Base, Base, Register!Edit, Edit,
          Register!Approved, Approved, Register!Rejected, Rejected, Register!Merged, Merged
    <3> QED
      BY <2>1, <3>1, StoredIsPublished, ZenonT(30) DEF Register!Next
  <2>4. CASE canon' = canon
    BY <2>2, <2>4 DEF Register!vars
  <2> QED
    BY <1>5, <2>3, <2>4 DEF StorePoint, StoreError
<1>6. ASSUME NEW w \in Workers, Truncate(w)
      PROVE  [Register!Next]_(Register!vars)
  <2> DEFINE r == request[w]
  <2>1. pc[w] = "save" /\ pc'[w] = "write" /\ pending' = pending /\ canon' = canon
        /\ \A v \in Workers : v # w => pc'[v] = pc[v]
    BY <1>0, <1>6 DEF Truncate
  <2>2. Writers = {} /\ Writers' = {w}
    <3>1. Writers = {}
      BY <1>0, <2>1, NoWriters DEF Holding
    <3> QED
      BY <2>1, <3>1 DEF Writers
  <2>3. Queue = records /\ Queue' = pending[w]
    BY <2>1, <2>2 DEF Queue
  <2>4. /\ r \in Requests /\ Found(records, r) /\ pending[w] = Apply(records, r)
        /\ r.op = "approve" => r.id \in DOMAIN canon /\ canon[r.id] = pending[w][r.id]
    BY <2>1 DEF SerialInv, Current, TypeInv
  <2>5. Register!Decide(r)
    BY <2>1, <2>3, <2>4, SameRegister DEF Register!Decide
  <2> QED
    BY <2>4, <2>5 DEF Register!Next
<1>7. ASSUME NEW w \in Workers, Write(w) PROVE Queue' = Queue /\ canon' = canon
  <2>1. pc[w] = "write" /\ records' = pending[w] /\ canon' = canon
    BY <1>7 DEF Write
  <2>2. Writers = {w} /\ Writers' = {}
    <3>1. Writers = {w}
      BY <1>0, <2>1, OneWriter
    <3> QED
      BY <1>0, <1>7, <3>1 DEF Write, Return, Writers
  <2> QED
    BY <2>1, <2>2 DEF Queue
<1>8. ASSUME NEW w \in Workers, FailWrite(w) \/ Overlay(w) PROVE FALSE
  BY <1>8 DEF FailWrite, Overlay, Current, NoFaults, SerialInv, TypeInv, TypeOK
<1>9. ASSUME NEW p \in Processes, Kill(p) PROVE FALSE
  BY <1>9 DEF Kill, NoFaults, SerialInv, TypeInv, TypeOK
<1>10. CASE UNCHANGED vars
  <2>1. Queue' = Queue /\ canon' = canon
    BY <1>2, <1>10 DEF vars, file, Writers
  <2> QED
    BY <2>1 DEF Register!vars
<1> QED
  BY <1>3, <1>4, <1>5, <1>6, <1>7, <1>8, <1>9, <1>10 DEF Next, Step, Register!vars

\* The requests of one process take effect one after the other, and a candidate
\* is approved only after its point was stored.
THEOREM Serial ==
    ASSUME OneProcess, NoFaults
    PROVE  Spec => SerialQueue
<1>1. Init => SerialInv /\ Register!Init
  <2> SUFFICES ASSUME Init PROVE SerialInv /\ Register!Init
    OBVIOUS
  <2>1. SerialInv
    BY InitType DEF Init, SerialInv, Current
  <2>2. Writers = {}
    BY DEF Init, Writers
  <2> QED
    BY <2>1, <2>2 DEF Init, Queue, Register!Init, Register!NoRecords, NoRecords
<1>2. SerialInv /\ [Next]_vars => SerialInv' /\ [Register!Next]_(Register!vars)
  BY NextSerial, NextRefines
<1> QED
  BY <1>1, <1>2, PTL DEF Spec, SerialQueue, Register!Spec

-----------------------------------------------------------------------------
(***************************************************************************)
(* MemoryLoop: what is proposed to the queue, for every harvest, size of a *)
(* part and order in which memories of one time are sorted.                *)
(***************************************************************************)
\* The memories of a harvest a candidate rests on, and what it takes from them.
SourcesIn(h, c) == {i \in DOMAIN h : h[i].id \in c.sources}
RestsOn(h, c) ==
    /\ SourcesIn(h, c) # {}
    /\ c.sources = {h[i].id : i \in SourcesIn(h, c)}
    /\ c.quotes = {h[i].quote : i \in SourcesIn(h, c)} \ {0}
    /\ c.summary.of = "cluster" =>
          \A n \in DOMAIN c.summary.lines :
             \E i \in SourcesIn(h, c) : h[i].line = c.summary.lines[n] /\ h[i].line # 0
    /\ c.status = "direct" => \A i \in SourcesIn(h, c) : h[i].speaker = User

HarvestedMemory ==
    [id : Nat, project : Nat, kind : Nat, speaker : Nat, quote : Nat, line : Nat, time : Int]
LoopCandidate ==
    [summary : [of : {"cluster", "first", "current"}, lines : Seq(Int)],
     kind : {"decision", "pattern", "timeline", "contradiction"},
     status : {"direct", "inferred", "review"}, confidence : {"high", "medium", "low"},
     sources : SUBSET Nat, quotes : SUBSET Nat, project : Nat, speaker : Nat]
PartOfGroup(h) ==
    [label : {clusterKey(h[i]) : i \in DOMAIN h}, points : SUBSET DOMAIN h]
\* The members of a part are of its group.
OfOneGroup(h, part) == part.points # {} /\ \A i \in part.points : clusterKey(h[i]) = part.label

\* A candidate that says something of a group, and another that says it for the same project.
Stated(c) == c.summary.of = "cluster" /\ c.summary.lines # << >>
Repeats(a, c) == a.summary = c.summary /\ a.project = c.project
\* The first n of some candidates are said by others.
SaidBy(n, some, others) ==
    \A i \in 1..n : Stated(some[i]) => \E k \in DOMAIN others : Repeats(others[k], some[i])

LoopTypes ==
    /\ harvest \in Harvests
    /\ loopStage \in {"harvested", "proposed", "checked", "curated"} /\ passed \in Nat
    /\ clusters \in Seq(PartOfGroup(harvest))
    /\ candidates \in Seq(LoopCandidate)
    /\ checked \in Seq(LoopCandidate)
    /\ curated \in Seq(LoopCandidate)
PartsInv ==
    /\ \A k \in DOMAIN clusters : OfOneGroup(harvest, clusters[k])
    /\ loopStage # "harvested" => Ungrouped = {}
CandidatesInv ==
    /\ loopStage = "harvested" => Len(candidates) <= Len(clusters) /\ checked = << >>
    /\ loopStage # "harvested" => Len(clusters) <= Len(candidates)
    /\ \A k \in 1..Len(clusters) :
          k <= Len(candidates) /\ (\E i \in clusters[k].points : harvest[i].line # 0)
             => Stated(candidates[k])
BackedInv ==
    /\ \A k \in 1..Len(candidates) : RestsOn(harvest, candidates[k])
    /\ \A k \in 1..Len(checked) : RestsOn(harvest, checked[k])
    /\ \A k \in 1..Len(curated) : RestsOn(harvest, curated[k])
PassedInv ==
    /\ loopStage = "harvested" => passed = 0
    /\ loopStage = "proposed" => passed <= Len(candidates) /\ SaidBy(passed, candidates, checked)
    /\ loopStage \in {"checked", "curated"} => SaidBy(Len(candidates), candidates, checked)
    /\ loopStage \in {"harvested", "proposed"} => curated = << >>
    /\ loopStage = "checked" => passed <= Len(checked) /\ SaidBy(passed, checked, curated)
    /\ loopStage = "curated" => SaidBy(Len(checked), checked, curated)
LoopInv == LoopTypes /\ PartsInv /\ CandidatesInv /\ BackedInv /\ PassedInv

-----------------------------------------------------------------------------
LEMMA HarvestShape ==
    ASSUME NEW h \in Harvests
    PROVE  /\ h \in Seq(HarvestedMemory) /\ DOMAIN h = 1..Len(h) /\ Len(h) \in Nat
           /\ \A i \in DOMAIN h : /\ h[i].id \in Nat /\ h[i].project \in Nat /\ h[i].speaker \in Nat
                                /\ h[i].quote \in Nat /\ h[i].line \in Nat /\ h[i].time \in Int
           /\ \A i, j \in DOMAIN h : h[i].id = h[j].id => i = j
           /\ \A i \in DOMAIN h : h[i].quote = 0 <=> h[i].line = 0
<1>1. h \in Seq(HarvestedMemory)
  BY LoopAssumption DEF HarvestedMemory
<1>2. /\ \A i, j \in DOMAIN h : h[i].id = h[j].id => i = j
      /\ \A i \in DOMAIN h : h[i].quote = 0 <=> h[i].line = 0
  BY LoopAssumption
<1>3. DOMAIN h = 1..Len(h) /\ Len(h) \in Nat /\ \A i \in DOMAIN h : h[i] \in HarvestedMemory
  <2> HIDE DEF HarvestedMemory
  <2> QED BY <1>1
<1>4. \A i \in DOMAIN h : /\ h[i].id \in Nat /\ h[i].project \in Nat /\ h[i].speaker \in Nat
                         /\ h[i].quote \in Nat /\ h[i].line \in Nat /\ h[i].time \in Int
  BY <1>3 DEF HarvestedMemory
<1> QED
  BY <1>1, <1>2, <1>3, <1>4, Zenon

(* Some memories of a harvest are what rests on just their ids.              *)
LEMMA SourcesOfIds ==
    ASSUME NEW h \in Harvests, NEW points \in SUBSET DOMAIN h, NEW c,
           c.sources = {h[i].id : i \in points}
    PROVE  SourcesIn(h, c) = points
<1>1. \A i \in points : h[i].id \in c.sources
  OBVIOUS
<1>2. \A i \in DOMAIN h : h[i].id \in c.sources => i \in points
  <2> SUFFICES ASSUME NEW i \in DOMAIN h, h[i].id \in c.sources PROVE i \in points
    OBVIOUS
  <2>1. PICK j \in points : h[i].id = h[j].id
    OBVIOUS
  <2> QED
    BY <2>1, HarvestShape, Zenon
<1> QED
  BY <1>1, <1>2 DEF SourcesIn

(* The first member of a part.                                               *)
LEMMA FirstOfPart ==
    ASSUME NEW h \in Harvests, NEW points \in SUBSET DOMAIN h, points # {}
    PROVE  (CHOOSE i \in points : \A j \in points : i <= j) \in points
<1>1. points \subseteq Nat
  BY HarvestShape
<1>2. \E i \in points : \A j \in points : i <= j
  BY <1>1, LeastNatural, Zenon
<1> QED
  BY <1>2, Zenon

(* A group has the user's memories only, or none of them.                    *)
LEMMA GroupOfOneSpeaker ==
    ASSUME NEW h \in Harvests, NEW i \in DOMAIN h, NEW j \in DOMAIN h,
           clusterKey(h[i]) = clusterKey(h[j]), h[i].speaker = User
    PROVE  h[j].speaker = User
<1>1. Or(h[i].speaker, Unknown) = Or(h[j].speaker, Unknown)
  BY DEF clusterKey
<1> QED
  BY <1>1, LoopAssumption DEF Or

(* The summaries of a part have lines of its members, and one at least if    *)
(* there is any.                                                             *)
LEMMA SummaryShape ==
    ASSUME harvest \in Harvests, NEW points \in SUBSET DOMAIN harvest,
           NEW summary \in clusterSummaries(points)
    PROVE  /\ summary \in [of : {"cluster", "first", "current"}, lines : Seq(Int)]
           /\ summary.of = "cluster"
           /\ \A n \in DOMAIN summary.lines :
                 \E i \in points : /\ harvest[i].line = summary.lines[n]
                                   /\ harvest[i].line # 0
           /\ (\E i \in points : harvest[i].line # 0) => summary.lines # << >>
<1> DEFINE said == {i \in points : harvest[i].line # 0}
<1>1. PICK s \in UNION {[1..n -> said] : n \in 0..3} :
         /\ Len(s) = 3 \/ {s[k] : k \in DOMAIN s} = said
         /\ summary = [of |-> "cluster", lines |-> [k \in DOMAIN s |-> harvest[s[k]].line]]
  BY DEF clusterSummaries
<1>0. PICK n \in 0..3 : s \in [1..n -> said]
  OBVIOUS
<1>2. DOMAIN s = 1..n /\ Len(s) = n /\ n \in Nat
  BY <1>0
<1>3. \A k \in 1..n : s[k] \in points /\ harvest[s[k]].line \in Int /\ harvest[s[k]].line # 0
  <2> SUFFICES ASSUME NEW k \in 1..n
               PROVE  s[k] \in points /\ harvest[s[k]].line \in Int /\ harvest[s[k]].line # 0
    OBVIOUS
  <2>1. s[k] \in points /\ harvest[s[k]].line # 0
    BY <1>0
  <2>2. harvest[s[k]].line \in Nat
    BY <2>1, HarvestShape, Zenon
  <2> QED
    BY <2>1, <2>2
<1> DEFINE lines == [k \in DOMAIN s |-> harvest[s[k]].line]
<1>4. lines \in [1..n -> Int]
  BY <1>2, <1>3
<1>5. lines \in Seq(Int) /\ DOMAIN lines = 1..n
  BY <1>2, <1>4
<1>6. \A k \in DOMAIN lines : \E i \in points : harvest[i].line = lines[k] /\ harvest[i].line # 0
  BY <1>2, <1>3
<1>7. ASSUME \E i \in points : harvest[i].line # 0 PROVE lines # << >>
  <2>1. PICK i \in said : TRUE
    BY <1>7
  <2>2. n # 0
    BY <1>1, <1>2, <2>1
  <2>3. 1 \in DOMAIN lines
    BY <1>2, <2>2
  <2> QED
    BY <2>3
<1>8. summary = [of |-> "cluster", lines |-> lines]
  BY <1>1
<1> QED
  <2> HIDE DEF lines
  <2> QED
    BY <1>5, <1>6, <1>7, <1>8

(* What is extracted of a part of one group rests on its members; it is the  *)
(* user's statement only if all of them are.                                 *)
LEMMA ExtractedRests ==
    ASSUME harvest \in Harvests, NEW part \in PartOfGroup(harvest), OfOneGroup(harvest, part),
           NEW summary \in clusterSummaries(part.points)
    PROVE  LET c == Extracted(part, summary)
           IN  /\ c \in LoopCandidate /\ RestsOn(harvest, c)
               /\ (\E i \in part.points : harvest[i].line # 0) => Stated(c)
<1> DEFINE points == part.points
           c == Extracted(part, summary)
           first == CHOOSE i \in points : \A j \in points : i <= j
<1>1. points \in SUBSET DOMAIN harvest /\ points # {}
  BY DEF PartOfGroup, OfOneGroup
<1>2. first \in DOMAIN harvest
  BY <1>1, FirstOfPart, Zenon
<1>3. /\ summary \in [of : {"cluster", "first", "current"}, lines : Seq(Int)]
      /\ summary.of = "cluster"
      /\ \A n \in DOMAIN summary.lines :
            \E i \in points : harvest[i].line = summary.lines[n] /\ harvest[i].line # 0
      /\ (\E i \in points : harvest[i].line # 0) => summary.lines # << >>
  BY <1>1, SummaryShape, Zenon
<1>4. c = [summary |-> summary, kind |-> classifyKind(part.label),
           status |-> inferStatus(points), confidence |-> inferConfidence(points),
           sources |-> Ids(points), quotes |-> Quotes(points),
           project |-> harvest[first].project, speaker |-> harvest[first].speaker]
  BY DEF Extracted
<1>5. c \in LoopCandidate
  <2>1. classifyKind(part.label) \in {"decision", "pattern"}
    BY DEF classifyKind
  <2>2. inferStatus(points) \in {"direct", "inferred"}
    BY DEF inferStatus
  <2>3. inferConfidence(points) \in {"high", "medium", "low"}
    BY DEF inferConfidence
  <2>4. Ids(points) \in SUBSET Nat /\ Quotes(points) \in SUBSET Nat
    <3>1. \A i \in points : harvest[i].id \in Nat /\ harvest[i].quote \in Nat
      BY <1>1, HarvestShape, Zenon
    <3> QED
      BY <3>1 DEF Ids, Quotes
  <2>5. harvest[first].project \in Nat /\ harvest[first].speaker \in Nat
    <3> HIDE DEF first
    <3> QED
      BY <1>2, HarvestShape
  <2> HIDE DEF first, c, points
  <2> QED
    BY <1>3, <1>4, <2>1, <2>2, <2>3, <2>4, <2>5 DEF LoopCandidate
<1>6. /\ c.sources = {harvest[i].id : i \in points}
      /\ c.quotes = {harvest[i].quote : i \in points} \ {0}
      /\ c.summary = summary /\ c.status = inferStatus(points)
  BY <1>4 DEF Ids, Quotes
<1>7. SourcesIn(harvest, c) = points
  <2> HIDE DEF c, points
  <2> QED
    BY <1>1, <1>6, SourcesOfIds
<1>8. c.status = "direct" => \A i \in points : harvest[i].speaker = User
  <2> SUFFICES ASSUME c.status = "direct", NEW i \in points PROVE harvest[i].speaker = User
    OBVIOUS
  <2>1. PICK j \in points : harvest[j].speaker = User
    BY <1>6 DEF inferStatus
  <2>2. clusterKey(harvest[j]) = clusterKey(harvest[i])
    BY DEF OfOneGroup
  <2> QED
    BY <1>1, <2>1, <2>2, GroupOfOneSpeaker, Zenon
<1>9. RestsOn(harvest, c)
  <2> HIDE DEF c, points
  <2> QED
    BY <1>1, <1>3, <1>6, <1>7, <1>8 DEF RestsOn
<1> QED
  <2> HIDE DEF c, points
  <2>1. (\E i \in points : harvest[i].line # 0) => Stated(c)
    BY <1>3, <1>6 DEF Stated
  <2> QED
    BY <1>5, <1>9, <2>1, Zenon DEF c, points

(* A candidate of the timeline rests on its memory.                          *)
LEMMA DatedRests ==
    ASSUME harvest \in Harvests, NEW i \in DOMAIN harvest,
           NEW name \in {"first", "current"}, NEW status \in {"inferred", "review"}
    PROVE  LET c == Dated(name, i, status)
           IN  c \in LoopCandidate /\ RestsOn(harvest, c)
<1> DEFINE c == Dated(name, i, status)
<1>1. /\ harvest[i].id \in Nat /\ harvest[i].project \in Nat /\ harvest[i].speaker \in Nat
      /\ harvest[i].quote \in Nat /\ harvest[i].time \in Int
  BY HarvestShape, Zenon
<1>2. <<harvest[i].time>> \in Seq(Int)
  BY <1>1
<1>3. {harvest[i].id} \in SUBSET Nat /\ {harvest[i].quote} \ {0} \in SUBSET Nat
      /\ harvest[i].project \in Nat /\ harvest[i].speaker \in Nat
  BY <1>1
<1>4. c = [summary |-> [of |-> name, lines |-> <<harvest[i].time>>], kind |-> "timeline",
           status |-> status, confidence |-> "medium", sources |-> {harvest[i].id},
           quotes |-> {harvest[i].quote} \ {0}, project |-> harvest[i].project,
           speaker |-> harvest[i].speaker]
  BY DEF Dated, Ids, Quotes
<1>5. c \in LoopCandidate
  <2> HIDE DEF c
  <2> QED
    BY <1>2, <1>3, <1>4 DEF LoopCandidate
<1>6. /\ c.sources = {harvest[j].id : j \in {i}} /\ c.quotes = {harvest[j].quote : j \in {i}} \ {0}
      /\ c.summary.of # "cluster" /\ c.status # "direct"
  <2> HIDE DEF c
  <2> QED
    BY <1>4
<1>7. SourcesIn(harvest, c) = {i}
  <2> HIDE DEF c
  <2> QED
    BY <1>6, SourcesOfIds
<1> QED
  <2> HIDE DEF c
  <2>1. RestsOn(harvest, c)
    BY <1>6, <1>7 DEF RestsOn
  <2> QED
    BY <1>5, <2>1, Zenon DEF c

(* A contradiction rests on the memories of both.                            *)
LEMMA ContradictingRests ==
    ASSUME NEW h \in Harvests, NEW a \in LoopCandidate, NEW b \in LoopCandidate,
           RestsOn(h, a), RestsOn(h, b)
    PROVE  LET c == Contradicting(a, b)
           IN  c \in LoopCandidate /\ RestsOn(h, c) /\ Repeats(c, a)
<1> DEFINE c == Contradicting(a, b)
<1>1. /\ c.summary = a.summary /\ c.project = a.project /\ c.status = "review"
      /\ c.sources = a.sources \cup b.sources /\ c.quotes = a.quotes \cup b.quotes
      /\ c \in LoopCandidate
  BY DEF Contradicting, LoopCandidate
<1> HIDE DEF c
<1>2. SourcesIn(h, c) = SourcesIn(h, a) \cup SourcesIn(h, b)
  BY <1>1 DEF SourcesIn
<1>3. SourcesIn(h, c) # {}
  BY <1>2 DEF RestsOn
<1>4. c.sources = {h[i].id : i \in SourcesIn(h, c)}
  BY <1>1, <1>2 DEF RestsOn
<1>5. c.quotes = {h[i].quote : i \in SourcesIn(h, c)} \ {0}
  BY <1>1, <1>2 DEF RestsOn
<1>6. c.summary.of = "cluster" =>
        \A n \in DOMAIN c.summary.lines :
           \E i \in SourcesIn(h, c) : h[i].line = c.summary.lines[n] /\ h[i].line # 0
  BY <1>1, <1>2 DEF RestsOn
<1>7. RestsOn(h, c)
  BY <1>1, <1>3, <1>4, <1>5, <1>6 DEF RestsOn
<1> QED
  BY <1>1, <1>7 DEF c, Repeats

(* The curator changes no more than who is said to have said it.             *)
LEMMA CuratedRests ==
    ASSUME NEW h \in Harvests, NEW a \in LoopCandidate, RestsOn(h, a)
    PROVE  Curated(a) \in LoopCandidate /\ RestsOn(h, Curated(a)) /\ Repeats(Curated(a), a)
<1>1. CASE a.status = "direct" /\ a.speaker # User
  <2> DEFINE c == [a EXCEPT !.status = "inferred"]
  <2>1. /\ c \in LoopCandidate /\ c.sources = a.sources /\ c.quotes = a.quotes
        /\ c.summary = a.summary /\ c.project = a.project /\ c.status = "inferred"
    BY DEF LoopCandidate
  <2>2. Curated(a) = c
    BY <1>1 DEF Curated
  <2> HIDE DEF c
  <2>3. SourcesIn(h, c) = SourcesIn(h, a)
    BY <2>1 DEF SourcesIn
  <2>4. RestsOn(h, c)
    BY <2>1, <2>3 DEF RestsOn
  <2> QED
    BY <2>1, <2>2, <2>4 DEF Repeats
<1>2. CASE ~(a.status = "direct" /\ a.speaker # User)
  BY <1>2 DEF Curated, Repeats
<1> QED
  BY <1>1, <1>2

(* What says something of a group has a quote.                               *)
LEMMA StatedHasQuote ==
    ASSUME NEW h \in Harvests, NEW c \in LoopCandidate, RestsOn(h, c), Stated(c)
    PROVE  c.quotes # {}
<1>1. c.summary.lines \in Seq(Int) /\ c.summary.lines # << >> /\ c.summary.of = "cluster"
  BY DEF LoopCandidate, Stated
<1>2. 1 \in DOMAIN c.summary.lines
  BY <1>1
<1>3. PICK i \in SourcesIn(h, c) : h[i].line # 0
  BY <1>1, <1>2 DEF RestsOn
<1>4. i \in DOMAIN h /\ h[i].quote # 0
  BY <1>3, HarvestShape DEF SourcesIn
<1> QED
  BY <1>3, <1>4 DEF RestsOn

(* What some say is still said when more is.                                 *)
LEMMA StillSaid ==
    ASSUME NEW n \in Nat, NEW some \in Seq(LoopCandidate), NEW others \in Seq(LoopCandidate),
           NEW c \in LoopCandidate, SaidBy(n, some, others)
    PROVE  SaidBy(n, some, Append(others, c))
<1>1. \A k \in DOMAIN others : k \in DOMAIN Append(others, c) /\ Append(others, c)[k] = others[k]
  <2> HIDE DEF LoopCandidate
  <2> QED
    OBVIOUS
<1> QED
  BY <1>1, Zenon DEF SaidBy

(* One more is said when another repeats it, or has said it before.          *)
LEMMA OneMoreSaid ==
    ASSUME NEW n \in Nat, NEW some, NEW others, SaidBy(n, some, others),
           Stated(some[n + 1]) => \E k \in DOMAIN others : Repeats(others[k], some[n + 1])
    PROVE  SaidBy(n + 1, some, others)
<1> SUFFICES ASSUME NEW i \in 1..n + 1, Stated(some[i])
             PROVE  \E k \in DOMAIN others : Repeats(others[k], some[i])
  BY DEF SaidBy
<1>1. CASE i = n + 1
  BY <1>1
<1>2. CASE i # n + 1
  <2>1. i \in 1..n
    BY <1>2
  <2> QED
    BY <2>1, Zenon DEF SaidBy
<1> QED
  BY <1>1, <1>2

LEMMA LastIsThere ==
    ASSUME NEW S, NEW s \in Seq(S), NEW c \in S
    PROVE  /\ Append(s, c) \in Seq(S) /\ Len(Append(s, c)) = Len(s) + 1
           /\ Len(s) \in Nat /\ Len(s) + 1 \in DOMAIN Append(s, c)
           /\ Append(s, c)[Len(s) + 1] = c
           /\ \A k \in 1..Len(s) : Append(s, c)[k] = s[k]
           /\ DOMAIN s = 1..Len(s) /\ DOMAIN Append(s, c) = 1..Len(s) + 1
OBVIOUS

(* All of a list have what the old and the new one have.                     *)
LEMMA AllRest ==
    ASSUME NEW h, NEW s \in Seq(LoopCandidate), NEW c \in LoopCandidate,
           \A k \in 1..Len(s) : RestsOn(h, s[k]), RestsOn(h, c)
    PROVE  \A k \in 1..Len(Append(s, c)) : RestsOn(h, Append(s, c)[k])
<1> SUFFICES ASSUME NEW k \in 1..Len(Append(s, c)) PROVE RestsOn(h, Append(s, c)[k])
  OBVIOUS
<1>1. Len(s) \in Nat /\ Len(Append(s, c)) = Len(s) + 1 /\ Append(s, c)[Len(s) + 1] = c
      /\ \A j \in 1..Len(s) : Append(s, c)[j] = s[j]
  BY LastIsThere
<1>2. k = Len(s) + 1 \/ k \in 1..Len(s)
  BY <1>1
<1> QED
  BY <1>1, <1>2, Zenon

-----------------------------------------------------------------------------
LEMMA LoopBegins == LoopInit => LoopInv
<1> SUFFICES ASSUME LoopInit PROVE LoopInv
  OBVIOUS
<1>1. /\ harvest \in Harvests /\ loopStage = "harvested" /\ passed = 0
      /\ clusters = << >> /\ candidates = << >> /\ checked = << >> /\ curated = << >>
  BY DEF LoopInit
<1>2. \A S : << >> \in Seq(S)
  OBVIOUS
<1>3. LoopTypes
  BY <1>1, <1>2 DEF LoopTypes
<1>4. PartsInv /\ CandidatesInv /\ BackedInv /\ PassedInv
  BY <1>1 DEF PartsInv, CandidatesInv, BackedInv, PassedInv
<1> QED
  BY <1>3, <1>4 DEF LoopInv

(* Grouping: a part is not empty and of one group.                           *)
LEMMA ClusterKeeps == LoopInv /\ Cluster => LoopInv'
<1> SUFFICES ASSUME LoopInv, Cluster PROVE LoopInv'
  OBVIOUS
<1> USE DEF LoopInv
<1>1. PICK i \in Ungrouped :
         clusters' = Append(clusters,
            [label |-> clusterKey(harvest[i]),
             points |-> {j \in dedupeBySnippet : SameGroup(i, j) /\ PartOf(i) = PartOf(j)}])
  BY DEF Cluster
<1> DEFINE part == [label |-> clusterKey(harvest[i]),
                    points |-> {j \in dedupeBySnippet : SameGroup(i, j) /\ PartOf(i) = PartOf(j)}]
<1>2. /\ loopStage = "harvested" /\ loopStage' = loopStage /\ harvest' = harvest /\ passed' = passed
      /\ candidates' = candidates /\ checked' = checked /\ curated' = curated
  BY DEF Cluster
<1>3. i \in dedupeBySnippet /\ i \in DOMAIN harvest
  BY DEF Ungrouped, dedupeBySnippet
<1>4. part \in PartOfGroup(harvest)
  BY <1>3 DEF PartOfGroup, dedupeBySnippet
<1>5. OfOneGroup(harvest, part)
  <2>1. i \in part.points
    BY <1>3 DEF SameGroup
  <2>2. \A j \in part.points : clusterKey(harvest[j]) = part.label
    BY DEF SameGroup
  <2> QED
    BY <2>1, <2>2 DEF OfOneGroup
<1> HIDE DEF part
<1>6. clusters' = Append(clusters, part)
  BY <1>1 DEF part
<1>7. clusters \in Seq(PartOfGroup(harvest)) /\ candidates \in Seq(LoopCandidate)
  BY DEF LoopTypes
<1>8. /\ clusters' \in Seq(PartOfGroup(harvest)) /\ Len(clusters') = Len(clusters) + 1
      /\ Len(clusters) \in Nat /\ clusters'[Len(clusters) + 1] = part
      /\ \A k \in 1..Len(clusters) : clusters'[k] = clusters[k]
      /\ DOMAIN clusters' = 1..Len(clusters) + 1 /\ DOMAIN clusters = 1..Len(clusters)
  BY <1>4, <1>6, <1>7, LastIsThere
<1>9. LoopTypes'
  BY <1>2, <1>8 DEF LoopTypes
<1>10. PartsInv'
  <2>1. \A k \in DOMAIN clusters' : OfOneGroup(harvest, clusters'[k])
    BY <1>5, <1>8 DEF PartsInv
  <2> QED
    BY <1>2, <2>1 DEF PartsInv
<1>11. CandidatesInv'
  <2>1. Len(candidates) \in Nat /\ Len(candidates) <= Len(clusters)
    BY <1>2, <1>7 DEF CandidatesInv
  <2>2. \A k \in 1..Len(clusters') :
           k <= Len(candidates) /\ (\E j \in clusters'[k].points : harvest[j].line # 0)
              => Stated(candidates[k])
    BY <1>8, <2>1 DEF CandidatesInv
  <2> QED
    BY <1>2, <1>8, <2>1, <2>2 DEF CandidatesInv
<1>12. BackedInv'
  BY <1>2 DEF BackedInv
<1>13. PassedInv'
  BY <1>2 DEF PassedInv
<1> QED
  BY <1>9, <1>10, <1>11, <1>12, <1>13

(* Extraction: a fact of each part, in their order.                          *)
LEMMA ExtractKeeps == LoopInv /\ Extract => LoopInv'
<1> SUFFICES ASSUME LoopInv, Extract PROVE LoopInv'
  OBVIOUS
<1> USE DEF LoopInv
<1> DEFINE n == Len(candidates) + 1
           part == clusters[n]
<1>1. PICK summary \in clusterSummaries(part.points) :
         candidates' = Append(candidates, Extracted(part, summary))
  BY DEF Extract
<1>2. /\ loopStage = "harvested" /\ loopStage' = loopStage /\ harvest' = harvest /\ passed' = passed
      /\ clusters' = clusters /\ checked' = checked /\ curated' = curated
      /\ Len(candidates) < Len(clusters)
  BY DEF Extract
<1>3. /\ clusters \in Seq(PartOfGroup(harvest)) /\ candidates \in Seq(LoopCandidate)
      /\ harvest \in Harvests /\ Len(candidates) \in Nat /\ Len(clusters) \in Nat
  BY DEF LoopTypes
<1>4. n \in DOMAIN clusters
  BY <1>2, <1>3
<1>5. part \in PartOfGroup(harvest) /\ OfOneGroup(harvest, part)
  BY <1>3, <1>4 DEF PartsInv
<1> DEFINE c == Extracted(part, summary)
<1>6. /\ c \in LoopCandidate /\ RestsOn(harvest, c)
      /\ (\E i \in part.points : harvest[i].line # 0) => Stated(c)
  <2> HIDE DEF part
  <2> QED
    BY <1>3, <1>5, ExtractedRests
<1> HIDE DEF c
<1>7. candidates' = Append(candidates, c)
  BY <1>1 DEF c
<1>8. /\ candidates' \in Seq(LoopCandidate) /\ Len(candidates') = n /\ candidates'[n] = c
      /\ \A k \in 1..Len(candidates) : candidates'[k] = candidates[k]
  BY <1>3, <1>6, <1>7, LastIsThere
<1>9. LoopTypes'
  BY <1>2, <1>8 DEF LoopTypes
<1>10. PartsInv'
  BY <1>2 DEF PartsInv
<1>11. CandidatesInv'
  <2>1. ASSUME NEW k \in 1..Len(clusters), k <= n, \E i \in clusters[k].points : harvest[i].line # 0
        PROVE  Stated(candidates'[k])
    <3>1. CASE k = n
      BY <1>6, <1>8, <2>1, <3>1
    <3>2. CASE k # n
      <4>1. k \in 1..Len(candidates) /\ k <= Len(candidates)
        BY <1>3, <2>1, <3>2
      <4>2. Stated(candidates[k])
        BY <2>1, <4>1, Zenon DEF CandidatesInv
      <4> QED
        BY <1>8, <4>1, <4>2, Zenon
    <3> QED
      BY <3>1, <3>2
  <2>2. Len(candidates') <= Len(clusters)
    BY <1>2, <1>3, <1>8
  <2> QED
    BY <1>2, <1>8, <2>1, <2>2 DEF CandidatesInv
<1>12. BackedInv'
  <2>1. \A k \in 1..Len(candidates') : RestsOn(harvest, candidates'[k])
    BY <1>3, <1>6, <1>7, AllRest, Zenon DEF BackedInv
  <2> QED
    BY <1>2, <2>1, Zenon DEF BackedInv
<1>13. PassedInv'
  BY <1>2 DEF PassedInv
<1> QED
  BY <1>9, <1>10, <1>11, <1>12, <1>13

(* The timeline adds its two.                                                *)
LEMMA BuildKeeps == LoopInv /\ Build => LoopInv'
<1> SUFFICES ASSUME LoopInv, Build PROVE LoopInv'
  OBVIOUS
<1> USE DEF LoopInv
<1>1. /\ loopStage = "harvested" /\ loopStage' = "proposed"
      /\ harvest' = harvest /\ passed' = passed
      /\ clusters' = clusters /\ checked' = checked /\ curated' = curated
      /\ Len(candidates) = Len(clusters) /\ Ungrouped = {}
  BY DEF Build
<1>2. /\ clusters \in Seq(PartOfGroup(harvest)) /\ candidates \in Seq(LoopCandidate)
      /\ harvest \in Harvests /\ Len(candidates) \in Nat /\ Len(clusters) \in Nat
      /\ checked = << >> /\ curated = << >> /\ passed = 0
  BY <1>1 DEF LoopTypes, CandidatesInv, PassedInv
<1>3. /\ candidates' \in Seq(LoopCandidate) /\ Len(candidates') \in Nat
      /\ Len(candidates) <= Len(candidates')
      /\ \A k \in 1..Len(candidates) : candidates'[k] = candidates[k]
      /\ \A k \in 1..Len(candidates') : RestsOn(harvest, candidates'[k])
  <2>1. CASE harvest = << >>
    <3>1. candidates' = candidates
      BY <2>1 DEF Build
    <3> QED
      BY <1>2, <3>1 DEF BackedInv
  <2>2. CASE harvest # << >>
    <3>1. PICK first \in DOMAIN harvest, last \in DOMAIN harvest :
             candidates' = candidates \o <<Dated("first", first, "inferred"),
                                           Dated("current", last, "review")>>
      BY <2>2 DEF Build
    <3> DEFINE a == Dated("first", first, "inferred")
               b == Dated("current", last, "review")
    <3>2. /\ a \in LoopCandidate /\ RestsOn(harvest, a)
          /\ b \in LoopCandidate /\ RestsOn(harvest, b)
      BY <1>2, DatedRests
    <3>3. candidates' = Append(Append(candidates, a), b)
      <4> HIDE DEF a, b
      <4>1. \A s \in Seq(LoopCandidate), x, y \in LoopCandidate :
               s \o <<x, y>> = Append(Append(s, x), y)
        <5> HIDE DEF LoopCandidate
        <5> QED
          OBVIOUS
      <4> QED
        BY <1>2, <3>1, <3>2, <4>1 DEF a, b
    <3> HIDE DEF a, b
    <3> DEFINE some == Append(candidates, a)
    <3>4. /\ some \in Seq(LoopCandidate) /\ Len(some) = Len(candidates) + 1
          /\ \A k \in 1..Len(candidates) : some[k] = candidates[k]
      BY <1>2, <3>2, LastIsThere
    <3>5. \A k \in 1..Len(some) : RestsOn(harvest, some[k])
      BY <1>2, <3>2, AllRest, Zenon DEF BackedInv
    <3> HIDE DEF some
    <3>6. /\ candidates' \in Seq(LoopCandidate) /\ Len(candidates') = Len(some) + 1
          /\ \A k \in 1..Len(some) : candidates'[k] = some[k]
      BY <3>2, <3>3, <3>4, LastIsThere DEF some
    <3>7. \A k \in 1..Len(candidates') : RestsOn(harvest, candidates'[k])
      BY <3>2, <3>3, <3>4, <3>5, AllRest, Zenon DEF some
    <3> QED
      BY <1>2, <3>4, <3>6, <3>7
  <2> QED
    BY <2>1, <2>2
<1>4. LoopTypes'
  BY <1>1, <1>3 DEF LoopTypes
<1>5. PartsInv'
  <2>1. Ungrouped' = {}
    BY <1>1 DEF Ungrouped, dedupeBySnippet, SameGroup
  <2> QED
    BY <1>1, <2>1 DEF PartsInv
<1>6. CandidatesInv'
  <2>1. \A k \in 1..Len(clusters) :
           (\E i \in clusters[k].points : harvest[i].line # 0) => Stated(candidates'[k])
    BY <1>1, <1>2, <1>3 DEF CandidatesInv
  <2> QED
    BY <1>1, <1>3, <2>1 DEF CandidatesInv
<1>7. BackedInv'
  BY <1>1, <1>3, Zenon DEF BackedInv
<1>8. PassedInv'
  BY <1>1, <1>2, <1>3 DEF PassedInv, SaidBy
<1> QED
  BY <1>4, <1>5, <1>6, <1>7, <1>8

(* The scout: what it drops was said by the one it is a repetition of.       *)
LEMMA CheckKeeps == LoopInv /\ Check => LoopInv'
<1> SUFFICES ASSUME LoopInv, Check PROVE LoopInv'
  OBVIOUS
<1> USE DEF LoopInv
<1> DEFINE c == candidates[passed + 1]
           alike == {j \in 1..passed : SameMatter(candidates[j], c)}
<1>1. /\ loopStage = "proposed" /\ loopStage' = loopStage /\ harvest' = harvest
      /\ clusters' = clusters /\ candidates' = candidates /\ curated' = curated
      /\ passed < Len(candidates) /\ passed' = passed + 1
  BY DEF Check
<1>2. /\ candidates \in Seq(LoopCandidate) /\ checked \in Seq(LoopCandidate)
      /\ harvest \in Harvests /\ Len(candidates) \in Nat /\ passed \in Nat
      /\ SaidBy(passed, candidates, checked)
  BY <1>1 DEF LoopTypes, PassedInv
<1>3. passed + 1 \in 1..Len(candidates) /\ 1..passed \subseteq 1..Len(candidates)
  BY <1>1, <1>2
<1>4. c \in LoopCandidate /\ RestsOn(harvest, c)
  BY <1>2, <1>3 DEF BackedInv
<1>5. CASE \E d \in LoopCandidate : /\ RestsOn(harvest, d) /\ Repeats(d, c)
                                   /\ checked' = Append(checked, d)
  <2>1. PICK d \in LoopCandidate : /\ RestsOn(harvest, d) /\ Repeats(d, c)
                                  /\ checked' = Append(checked, d)
    BY <1>5
  <2> HIDE DEF c
  <2>2. /\ checked' \in Seq(LoopCandidate) /\ Len(checked) + 1 \in DOMAIN checked'
        /\ checked'[Len(checked) + 1] = d
    BY <1>2, <2>1, LastIsThere
  <2>3. \A k \in 1..Len(checked') : RestsOn(harvest, checked'[k])
    BY <1>2, <2>1, AllRest, Zenon DEF BackedInv
  <2>4. SaidBy(passed, candidates, checked')
    BY <1>2, <2>1, StillSaid
  <2>5. SaidBy(passed + 1, candidates, checked')
    BY <1>2, <2>1, <2>2, <2>4, OneMoreSaid, Zenon DEF c
  <2> QED
    BY <2>2, <2>3, <2>5, <1>1, <1>2 DEF LoopTypes, PartsInv, Ungrouped, dedupeBySnippet, SameGroup,
       CandidatesInv, BackedInv, PassedInv
<1>6. CASE /\ checked' = checked
           /\ \E j \in 1..passed : Repeats(candidates[j], c)
  <2>1. PICK j \in 1..passed : Repeats(candidates[j], c)
    BY <1>6
  <2>2. Stated(c) => \E k \in DOMAIN checked : Repeats(checked[k], c)
    <3> SUFFICES ASSUME Stated(c) PROVE \E k \in DOMAIN checked : Repeats(checked[k], c)
      OBVIOUS
    <3>1. Stated(candidates[j])
      BY <2>1, Zenon DEF Stated, Repeats
    <3>2. PICK k \in DOMAIN checked : Repeats(checked[k], candidates[j])
      BY <1>2, <3>1, Zenon DEF SaidBy
    <3> QED
      BY <2>1, <3>2, Zenon DEF Repeats
  <2>3. SaidBy(passed + 1, candidates, checked)
    BY <1>2, <2>2, OneMoreSaid, Zenon
  <2> HIDE DEF c
  <2> QED
    BY <1>6, <2>3, <1>1, <1>2 DEF LoopTypes, PartsInv, Ungrouped, dedupeBySnippet, SameGroup,
       CandidatesInv, BackedInv, PassedInv
<1>7. CASE alike = {}
  <2>1. checked' = Append(checked, c)
    BY <1>7 DEF Check
  <2>2. Repeats(c, c)
    BY DEF Repeats
  <2> QED
    BY <1>4, <1>5, <2>1, <2>2, Zenon
<1>8. CASE alike # {}
  <2>1. PICK j \in alike :
           checked' = IF candidates[j].summary = c.summary THEN checked
                      ELSE Append(checked, Contradicting(c, candidates[j]))
    BY <1>8 DEF Check
  <2>2. CASE candidates[j].summary = c.summary
    <3>1. Repeats(candidates[j], c)
      BY <2>1, <2>2 DEF Repeats, SameMatter
    <3> QED
      BY <1>6, <2>1, <2>2, <3>1
  <2>3. CASE candidates[j].summary # c.summary
    <3>1. candidates[j] \in LoopCandidate /\ RestsOn(harvest, candidates[j])
      BY <1>2, <1>3 DEF BackedInv
    <3>2. LET d == Contradicting(c, candidates[j])
          IN  d \in LoopCandidate /\ RestsOn(harvest, d) /\ Repeats(d, c)
      <4> HIDE DEF c, alike
      <4> QED
        BY <1>2, <1>4, <3>1, ContradictingRests
    <3>3. checked' = Append(checked, Contradicting(c, candidates[j]))
      BY <2>1, <2>3
    <3> HIDE DEF c, alike
    <3> QED
      BY <1>5, <3>2, <3>3
  <2> QED
    BY <2>2, <2>3
<1> QED
  BY <1>7, <1>8

LEMMA StartCuratingKeeps == LoopInv /\ StartCurating => LoopInv'
<1> SUFFICES ASSUME LoopInv, StartCurating PROVE LoopInv'
  OBVIOUS
<1>1. /\ loopStage = "proposed" /\ loopStage' = "checked" /\ harvest' = harvest
      /\ clusters' = clusters /\ candidates' = candidates
      /\ curated' = curated /\ checked' = checked
      /\ passed = Len(candidates) /\ passed' = 0
  BY DEF StartCurating
<1>2. Len(checked) \in Nat
  BY DEF LoopInv, LoopTypes
<1> QED
  BY <1>1, <1>2 DEF LoopInv, LoopTypes, PartsInv, Ungrouped, dedupeBySnippet, SameGroup,
     CandidatesInv, BackedInv, PassedInv, SaidBy

(* The curator: what says something has a quote, and what is not proposed    *)
(* twice was proposed.                                                       *)
LEMMA CurateKeeps == LoopInv /\ Curate => LoopInv'
<1> SUFFICES ASSUME LoopInv, Curate PROVE LoopInv'
  OBVIOUS
<1> USE DEF LoopInv
<1> DEFINE c == checked[passed + 1]
<1>1. /\ loopStage = "checked" /\ loopStage' = loopStage /\ harvest' = harvest
      /\ clusters' = clusters /\ candidates' = candidates /\ checked' = checked
      /\ passed < Len(checked) /\ passed' = passed + 1
  BY DEF Curate
<1>2. /\ checked \in Seq(LoopCandidate) /\ curated \in Seq(LoopCandidate)
      /\ harvest \in Harvests /\ Len(checked) \in Nat /\ passed \in Nat
      /\ SaidBy(passed, checked, curated)
  BY <1>1 DEF LoopTypes, PassedInv
<1>3. passed + 1 \in 1..Len(checked)
  BY <1>1, <1>2
<1>4. c \in LoopCandidate /\ RestsOn(harvest, c)
  BY <1>2, <1>3 DEF BackedInv
<1> DEFINE left == c.quotes = {} \/ \E n \in DOMAIN curated : SameProposal(curated[n], c)
<1>5. curated' = IF left THEN curated ELSE Append(curated, Curated(c))
  BY DEF Curate
<1>6. CASE ~left
  <2>1. Curated(c) \in LoopCandidate /\ RestsOn(harvest, Curated(c)) /\ Repeats(Curated(c), c)
    <3> HIDE DEF c
    <3> QED
      BY <1>2, <1>4, CuratedRests
  <2> DEFINE d == Curated(c)
  <2>2. curated' = Append(curated, d)
    BY <1>5, <1>6
  <2> HIDE DEF d
  <2>3. d \in LoopCandidate /\ RestsOn(harvest, d) /\ Repeats(d, c)
    BY <2>1 DEF d
  <2>4. /\ curated' \in Seq(LoopCandidate) /\ Len(curated) + 1 \in DOMAIN curated'
        /\ curated'[Len(curated) + 1] = d
    BY <1>2, <2>2, <2>3, LastIsThere
  <2>5. \A k \in 1..Len(curated') : RestsOn(harvest, curated'[k])
    BY <1>2, <2>2, <2>3, AllRest, Zenon DEF BackedInv
  <2>6. SaidBy(passed, checked, curated')
    BY <1>2, <2>2, <2>3, StillSaid
  <2>7. SaidBy(passed + 1, checked, curated')
    BY <1>2, <2>3, <2>4, <2>6, OneMoreSaid, Zenon
  <2> HIDE DEF c, left
  <2> QED
    BY <2>4, <2>5, <2>7, <1>1, <1>2 DEF LoopTypes, PartsInv, Ungrouped, dedupeBySnippet, SameGroup,
       CandidatesInv, BackedInv, PassedInv
<1>7. CASE left
  <2>1. curated' = curated
    BY <1>5, <1>7
  <2>2. Stated(c) => \E k \in DOMAIN curated : Repeats(curated[k], c)
    <3> SUFFICES ASSUME Stated(c) PROVE \E k \in DOMAIN curated : Repeats(curated[k], c)
      OBVIOUS
    <3>1. c.quotes # {}
      <4> HIDE DEF c
      <4> QED
        BY <1>2, <1>4, StatedHasQuote
    <3>2. PICK k \in DOMAIN curated : SameProposal(curated[k], c)
      BY <1>7, <3>1
    <3> QED
      BY <3>2 DEF SameProposal, SameMatter, Repeats
  <2>3. SaidBy(passed + 1, checked, curated)
    BY <1>2, <2>2, OneMoreSaid, Zenon
  <2> HIDE DEF c, left
  <2> QED
    BY <2>1, <2>3, <1>1, <1>2 DEF LoopTypes, PartsInv, Ungrouped, dedupeBySnippet, SameGroup,
       CandidatesInv, BackedInv, PassedInv
<1> QED
  BY <1>6, <1>7

LEMMA FinishKeeps == LoopInv /\ Finish => LoopInv'
<1> SUFFICES ASSUME LoopInv, Finish PROVE LoopInv'
  OBVIOUS
<1>1. /\ loopStage = "checked" /\ loopStage' = "curated" /\ harvest' = harvest
      /\ clusters' = clusters /\ candidates' = candidates
      /\ curated' = curated /\ checked' = checked
      /\ passed = Len(checked) /\ passed' = passed
  BY DEF Finish
<1> QED
  BY <1>1 DEF LoopInv, LoopTypes, PartsInv, Ungrouped, dedupeBySnippet, SameGroup,
     CandidatesInv, BackedInv, PassedInv

LEMMA LoopKeeps == LoopInv /\ [LoopNext]_loopVars => LoopInv'
<1> SUFFICES ASSUME LoopInv, [LoopNext]_loopVars PROVE LoopInv'
  OBVIOUS
<1>1. CASE UNCHANGED loopVars
  BY <1>1 DEF loopVars, LoopInv, LoopTypes, PartsInv, Ungrouped, dedupeBySnippet, SameGroup,
     CandidatesInv, BackedInv, PassedInv
<1> QED
  BY <1>1, ClusterKeeps, ExtractKeeps, BuildKeeps, CheckKeeps, StartCuratingKeeps, CurateKeeps,
     FinishKeeps, Zenon DEF LoopNext

LEMMA LoopInvariant == LoopSpec => []LoopInv
BY LoopBegins, LoopKeeps, PTL DEF LoopSpec

-----------------------------------------------------------------------------
(* When the grouping is over, a memory or another of its text is in a part.  *)
LEMMA EachIsGrouped ==
    ASSUME harvest \in Harvests, Ungrouped = {}, NEW i \in DOMAIN harvest, harvest[i].quote # 0
    PROVE  \E k \in DOMAIN clusters : \E j \in clusters[k].points :
              SameGroup(i, j) /\ harvest[j].quote = harvest[i].quote
<1> DEFINE alike == {j \in DOMAIN harvest : SameGroup(i, j) /\ harvest[j].quote = harvest[i].quote}
<1>1. alike \subseteq Nat /\ alike # {}
  <2>1. DOMAIN harvest = 1..Len(harvest)
    BY HarvestShape
  <2>2. i \in alike
    BY DEF SameGroup
  <2>3. alike \subseteq 1..Len(harvest)
    BY <2>1
  <2> QED BY <2>2, <2>3
<1>2. PICK j \in alike : \A m \in alike : j <= m
  <2> HIDE DEF alike
  <2> QED
    BY <1>1, LeastNatural, Zenon
<1>3. j \in 1..Len(harvest) /\ Len(harvest) \in Nat /\ DOMAIN harvest = 1..Len(harvest)
  BY HarvestShape
<1>4. j \in dedupeBySnippet
  <2> SUFFICES ASSUME NEW m \in 1..j - 1, SameGroup(j, m), harvest[m].quote = harvest[j].quote
               PROVE  FALSE
    BY DEF dedupeBySnippet
  <2>1. m \in DOMAIN harvest /\ ~(j <= m)
    BY <1>3
  <2>2. m \in alike
    BY <2>1 DEF SameGroup
  <2> QED
    BY <1>2, <2>1, <2>2
<1> QED
  BY <1>2, <1>4 DEF Ungrouped

LEMMA SourcesAreBehind ==
    ASSUME NEW c
    PROVE  Behind(c) = SourcesIn(harvest, c)
BY DEF Behind, SourcesIn

(* Nothing the memories say is lost between grouping, extraction, the scout  *)
(* and the curator, and what is proposed rests on the memories it names, for *)
(* every harvest and every size of a part.                                   *)
THEOREM FactsReachTheReviewer == LoopSpec => []FactsSurvive
<1>1. LoopInv => FactsSurvive
  <2> SUFFICES ASSUME LoopInv, loopStage = "curated" PROVE FactsSurvive
    BY DEF FactsSurvive
  <2>1. /\ harvest \in Harvests /\ Ungrouped = {} /\ Len(clusters) \in Nat /\ Len(checked) \in Nat
        /\ DOMAIN clusters = 1..Len(clusters) /\ DOMAIN curated = 1..Len(curated)
        /\ DOMAIN checked = 1..Len(checked) /\ Len(candidates) \in Nat
        /\ Len(clusters) <= Len(candidates)
    BY DEF LoopInv, LoopTypes, PartsInv, CandidatesInv
  <2>2. \A i \in DOMAIN harvest :
           harvest[i].quote # 0 =>
              \E k \in DOMAIN clusters : \E j \in clusters[k].points :
                 SameGroup(i, j) /\ harvest[j].quote = harvest[i].quote
    BY <2>1, EachIsGrouped
  <2>3. ASSUME NEW k \in DOMAIN clusters, \E i \in clusters[k].points : harvest[i].line # 0
        PROVE  \E c \in Proposed : /\ c.summary = candidates[k].summary
                                   /\ c.project = candidates[k].project
                                   /\ c.summary.lines # << >>
    <3>1. k \in 1..Len(clusters) /\ k \in 1..Len(candidates) /\ k <= Len(candidates)
      BY <2>1
    <3>2. Stated(candidates[k])
      BY <2>3, <3>1, Zenon DEF LoopInv, CandidatesInv
    <3>3. SaidBy(Len(candidates), candidates, checked) /\ SaidBy(Len(checked), checked, curated)
      BY DEF LoopInv, PassedInv
    <3>4. PICK m \in DOMAIN checked : Repeats(checked[m], candidates[k])
      BY <3>1, <3>2, <3>3, Zenon DEF SaidBy
    <3>5. Stated(checked[m])
      BY <3>2, <3>4, Zenon DEF Stated, Repeats
    <3>6. PICK n \in DOMAIN curated : Repeats(curated[n], checked[m])
      BY <2>1, <3>3, <3>5, Zenon DEF SaidBy
    <3>7. curated[n] \in Proposed
      BY DEF Proposed
    <3> QED
      BY <3>2, <3>4, <3>6, <3>7, Zenon DEF Repeats, Stated
  <2>4. ASSUME NEW c \in Proposed
        PROVE  /\ c.sources # {} /\ c.sources \subseteq Ids(DOMAIN harvest)
               /\ c.quotes = Quotes(Behind(c))
               /\ c.summary.of = "cluster" =>
                     \A n \in DOMAIN c.summary.lines :
                        \E i \in Behind(c) : harvest[i].line = c.summary.lines[n]
    <3>1. RestsOn(harvest, c)
      BY <2>1 DEF Proposed, LoopInv, BackedInv
    <3>2. c.sources # {} /\ c.sources \subseteq Ids(DOMAIN harvest)
      BY <3>1 DEF RestsOn, SourcesIn, Ids
    <3> QED
      BY <3>1, <3>2, SourcesAreBehind DEF RestsOn, Quotes
  <2> QED
    BY <2>2, <2>3, <2>4 DEF FactsSurvive
<1> QED
  BY <1>1, LoopInvariant, PTL

(* What is proposed as the user's statement rests on the user's memories     *)
(* alone: the parts of a group are of one speaker, and no contradiction is   *)
(* the user's statement.                                                     *)
THEOREM UsersStatements == LoopSpec => []DirectStatementsAreTheUsers
<1>1. LoopInv => DirectStatementsAreTheUsers
  <2> SUFFICES ASSUME LoopInv, NEW c \in Proposed, c.status = "direct"
               PROVE  \A i \in Behind(c) : harvest[i].speaker = User
    BY DEF DirectStatementsAreTheUsers
  <2>1. DOMAIN curated = 1..Len(curated)
    BY DEF LoopInv, LoopTypes
  <2>2. RestsOn(harvest, c)
    BY <2>1 DEF Proposed, LoopInv, BackedInv
  <2> QED
    BY <2>2, SourcesAreBehind DEF RestsOn
<1> QED
  BY <1>1, LoopInvariant, PTL
=============================================================================
