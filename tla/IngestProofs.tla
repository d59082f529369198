---------------------------- MODULE IngestProofs ----------------------------
(***************************************************************************)
(* Proofs about Ingest, for every archive, every set of legacy points and  *)
(* every batch size: what the journal covers, what a reported match means, *)
(* that the import implements ResumableImport, what an import leaves when  *)
(* it is repeated or re-keys a collection, and the integrity count.        *)
(***************************************************************************)
EXTENDS Ingest, FiniteSetTheorems, TLAPS

-----------------------------------------------------------------------------
(* Facts about records, points and Upsert *)

LEMMA RecordType ==
    ASSUME selection \in DOMAIN Archive
    PROVE  /\ N \in Nat
           /\ \A i \in 1..N : records[i] \in Record
           /\ 1..N \subseteq RecordIndices
BY ArchiveAssumption DEF N, records, RecordIndices

LEMMA RecordIndicesAreNat == RecordIndices \subseteq Nat \ {0}
BY ArchiveAssumption DEF RecordIndices

\* The point of a chunk is a point.
LEMMA PointIsPoint ==
    ASSUME selection \in DOMAIN Archive,
           NEW i \in 1..N, NEW k \in Nat \ {0}
    PROVE  /\ MemoryId(i, k) \in PointId
           /\ Point(i, k) \in PointType
<1>1. N \in Nat /\ records[i] \in Record
  BY RecordType
<1>2. MemoryId(i, k) \in PointId
  BY <1>1 DEF MemoryId, PointId, Record
<1>3. QED
  BY <1>1, <1>2 DEF Point, PointType, Record

LEMMA PointsArePoints ==
    ASSUME selection \in DOMAIN Archive,
           NEW refs, refs \subseteq (1..N) \X (Nat \ {0})
    PROVE  Points(refs) \subseteq PointType
BY PointIsPoint DEF Points

\* An upsert leaves no id out.
LEMMA UpsertIds ==
    ASSUME NEW points, NEW new
    PROVE  Ids(Upsert(points, new)) = Ids(points) \cup Ids(new)
BY DEF Ids, Upsert

\* Whether a conversation holds a position-keyed point shows in the ids.
LEMMA LegacyByIds ==
    ASSUME NEW points, NEW c
    PROVE  ConversationHasLegacy(points, c) <=>
             \E id \in Ids(points) : id.conversation = c /\ id.message = NoMessage
BY DEF ConversationHasLegacy, LegacyPoints, Ids

LEMMA LegacyGrows ==
    ASSUME NEW points, NEW more, Ids(points) \subseteq Ids(more), NEW c,
           ConversationHasLegacy(points, c)
    PROVE  ConversationHasLegacy(more, c)
BY LegacyByIds


\* Finite sets of chunks have finite sets of points.
LEMMA FinitePoints ==
    ASSUME NEW refs, IsFiniteSet(refs)
    PROVE  IsFiniteSet(Points(refs))
<1> DEFINE f == [r \in refs |-> Point(r[1], r[2])]
<1>1. f \in Surjection(refs, Points(refs))
  BY DEF Points, Surjection
<1> QED
  BY <1>1, FS_Surjection

LEMMA FiniteUpsert ==
    ASSUME NEW points, IsFiniteSet(points), NEW new, IsFiniteSet(new)
    PROVE  IsFiniteSet(Upsert(points, new))
<1>1. IsFiniteSet({p \in points : p.id \notin Ids(new)})
  BY FS_Subset
<1> QED
  BY <1>1, FS_Union DEF Upsert

LEMMA FiniteCount ==
    ASSUME NEW points, IsFiniteSet(points)
    PROVE  CountPoints(points) \in Nat
BY FS_Difference, FS_CardinalityType DEF CountPoints

LEMMA MissingType ==
    ASSUME selection \in DOMAIN Archive, NEW i \in 1..N
    PROVE  /\ MissingRefs(i) \subseteq (1..N) \X (Nat \ {0})
           /\ IsFiniteSet(MissingRefs(i))
           /\ EmbeddedCount(i) \in Nat
<1>1. N \in Nat /\ records[i].chunks \in Nat
  BY RecordType DEF Record
<1>2. Missing(i) \in SUBSET (1..records[i].chunks)
  BY DEF Missing
<1>3. IsFiniteSet(1..records[i].chunks)
  BY <1>1, FS_Interval
<1>4. IsFiniteSet(Missing(i))
  BY <1>2, <1>3, FS_Subset
<1> DEFINE f == [k \in Missing(i) |-> <<i, k>>]
<1>5. f \in Surjection(Missing(i), MissingRefs(i))
  BY DEF Surjection, MissingRefs
<1>6. IsFiniteSet(MissingRefs(i))
  BY <1>4, <1>5, FS_Surjection
<1>7. MissingRefs(i) \subseteq (1..N) \X (Nat \ {0})
  BY <1>1, <1>2 DEF MissingRefs
<1> QED
  BY <1>6, <1>7, FS_CardinalityType DEF EmbeddedCount

LEMMA PlannedType ==
    ASSUME selection \in DOMAIN Archive, rewritePlans \subseteq 1..N, NEW c
    PROVE  /\ PlannedRefs(c) \subseteq (1..N) \X (Nat \ {0})
           /\ IsFiniteSet(PlannedRefs(c))
<1>1. N \in Nat /\ Planned(c) \in SUBSET (1..N)
  BY RecordType DEF Planned
<1>2. IsFiniteSet(1..N)
  BY <1>1, FS_Interval
<1>3. IsFiniteSet(Planned(c))
  BY <1>1, <1>2, FS_Subset
<1> DEFINE parts == {MissingRefs(i) : i \in Planned(c)}
           f == [i \in Planned(c) |-> MissingRefs(i)]
<1>4. f \in Surjection(Planned(c), parts)
  BY DEF Surjection
<1>5. IsFiniteSet(parts)
  BY <1>3, <1>4, FS_Surjection
<1>6. \A part \in parts : IsFiniteSet(part) /\ part \subseteq (1..N) \X (Nat \ {0})
  BY <1>1, MissingType
<1>7. IsFiniteSet(UNION parts)
  BY <1>5, <1>6, FS_UNION
<1> QED
  BY <1>6, <1>7 DEF PlannedRefs

-----------------------------------------------------------------------------
(* Type correctness *)

\* Between runs the run's own variables have their initial values, and what
\* is counted is finite.
TypeInv ==
    /\ TypeOK
    /\ IsFiniteSet(store)
    /\ IsFiniteSet(batch)
    /\ pc = "idle" => cursor = 1 /\ batch = {} /\ rewritePlans = {}

\* Ending a run keeps the types, whatever the last step wrote.
LEMMA EndRunType ==
    ASSUME TypeInv, EndRun,
           store' \subseteq PointType, IsFiniteSet(store'),
           lastRecordIndex' \in RecordIndices \cup {0},
           outcome' \in {"none", "ok", "mismatch"},
           aborts' \in Nat
    PROVE  TypeInv'
<1>1. N' = N /\ N \in Nat
  BY RecordType DEF EndRun, TypeInv, TypeOK, N, records
<1>2. cursor' \in 1..(N' + 1)
  BY <1>1 DEF EndRun
<1>3. IsFiniteSet(batch')
  BY FS_EmptySet DEF EndRun
<1>4. legacyCache' \in [Conversations -> {"unknown", "legacy", "fresh"}]
  BY DEF EndRun
<1> QED
  BY <1>1, <1>2, <1>3, <1>4 DEF EndRun, TypeInv, TypeOK

LEMMA FailWriteType ==
    ASSUME TypeInv, NEW new, new \subseteq PointType, IsFiniteSet(new),
           FailWrite(new)
    PROVE  TypeInv'
<1>1. PICK done \in SUBSET new : store' = Upsert(store, done)
  BY DEF FailWrite
<1>2. store' \subseteq PointType
  BY <1>1 DEF Upsert, TypeInv, TypeOK
<1>3. IsFiniteSet(done)
  BY FS_Subset
<1>4. IsFiniteSet(store')
  BY <1>1, <1>3, FiniteUpsert DEF TypeInv
<1> QED
  BY <1>2, <1>4, EndRunType DEF FailWrite, TypeInv, TypeOK

\* The parts of TypeInv that a record of the scan can disturb.
LEMMA LegacyCheckType ==
    ASSUME TypeInv, LegacyCheck
    PROVE  /\ cursor \in 1..N /\ N' = N
           /\ cursor' \in 1..(N' + 1)
           /\ legacyCache' \in [Conversations -> {"unknown", "legacy", "fresh"}]
<1>1. N \in Nat /\ cursor \in 1..N /\ N' = N
  BY RecordType DEF LegacyCheck, Scanning, TypeInv, TypeOK, N, records
<1>2. cursor' \in 1..(N' + 1)
  BY <1>1 DEF LegacyCheck
<1>3. records[cursor].conversation \in Conversations
  BY <1>1, RecordType DEF TypeInv, TypeOK, Record
<1>4. Verdict(records[cursor].conversation) \in {"unknown", "legacy", "fresh"}
  BY <1>3 DEF Verdict, TypeInv, TypeOK
<1>5. legacyCache' \in [Conversations -> {"unknown", "legacy", "fresh"}]
  BY <1>3, <1>4 DEF LegacyCheck, TypeInv, TypeOK
<1> QED
  BY <1>1, <1>2, <1>5

LEMMA InitType == Init => TypeInv
<1> SUFFICES ASSUME Init PROVE TypeInv
  OBVIOUS
<1>1. N \in Nat
  BY RecordType DEF Init
<1>2. cursor \in 1..(N + 1)
  BY <1>1 DEF Init
<1>3. IsFiniteSet({})
  BY FS_EmptySet
<1> QED
  BY <1>2, <1>3, LegacyAssumption DEF Init, TypeInv, TypeOK

LEMMA NextType == TypeInv /\ [Next]_vars => TypeInv'
<1> SUFFICES ASSUME TypeInv, [Next]_vars PROVE TypeInv'
  OBVIOUS
<1> USE DEF TypeInv, TypeOK
<1>0. N \in Nat
  BY RecordType
<1>1. ASSUME NEW s \in DOMAIN Archive, Start(s) PROVE TypeInv'
  <2>1. cursor' = 1 /\ batch' = {} /\ rewritePlans' = {}
    BY <1>1 DEF Start, workVars
  <2>2. N' \in Nat
    BY <1>1, ArchiveAssumption DEF Start, N, records
  <2>a. \A n \in Nat : 1 \in 1..(n + 1)
    OBVIOUS
  <2>3. cursor' \in 1..(N' + 1)
    BY <2>1, <2>2, <2>a, Zenon
  <2>4. baselineCount' \in Nat
    BY <1>1, FiniteCount DEF Start
  <2>5. resumeFrom' \in RecordIndices \cup {0}
    BY <1>1 DEF Start
  <2> QED
    BY <1>1, <2>1, <2>3, <2>4, <2>5, FS_EmptySet DEF Start, disk, workVars
<1>2. CASE SkipRecord
  <2>1. N' = N /\ cursor' \in 1..(N' + 1)
    BY <1>0, <1>2 DEF SkipRecord, Scanning, N, records
  <2> QED
    BY <1>2, <2>1 DEF SkipRecord, Scanning, disk, workVars, countVars
<1>3. CASE SkipLegacy
  <2>1. LegacyCheck
    BY <1>3 DEF SkipLegacy
  <2> QED
    BY <1>3, <2>1, LegacyCheckType
    DEF SkipLegacy, LegacyCheck, Scanning, disk
<1>4. CASE PlanRewrite
  <2>1. LegacyCheck
    BY <1>4 DEF PlanRewrite
  <2>2. rewritePlans' \subseteq 1..N'
    BY <1>4, <2>1, LegacyCheckType DEF PlanRewrite
  <2> QED
    BY <1>4, <2>1, <2>2, LegacyCheckType
    DEF PlanRewrite, LegacyCheck, Scanning, disk
<1>5. CASE EmbedRecord
  <2>1. LegacyCheck
    BY <1>5 DEF EmbedRecord
  <2>2. cursor \in 1..N /\ N' = N
    BY <2>1, LegacyCheckType
  <2>3. batch' \subseteq (1..N') \X (Nat \ {0})
    BY <1>5, <2>2, MissingType DEF EmbedRecord
  <2>4. IsFiniteSet(batch')
    BY <1>5, <2>2, MissingType, FS_Union DEF EmbedRecord
  <2>5. chunksEmbedded' \in Nat
    BY <1>5, <2>2, MissingType DEF EmbedRecord
  <2> QED
    BY <1>5, <2>1, <2>2, <2>3, <2>4, <2>5, LegacyCheckType
    DEF EmbedRecord, LegacyCheck, Scanning, disk
<1>6. CASE UpsertBatch
  <2>1. Points(batch) \subseteq PointType /\ IsFiniteSet(Points(batch))
    BY PointsArePoints, FinitePoints
  <2>2. store' \subseteq PointType
    BY <1>6, <2>1 DEF UpsertBatch, Upsert
  <2>3. IsFiniteSet(store')
    BY <1>6, <2>1, FiniteUpsert DEF UpsertBatch
  <2>4. N' = N
    BY <1>6 DEF UpsertBatch, scanVars, N, records
  <2> QED
    BY <1>6, <2>2, <2>3, <2>4 DEF UpsertBatch, scanVars, workVars, countVars
<1>7. CASE Commit
  <2>1. N' = N
    BY <1>7 DEF Commit, scanVars, N, records
  <2>2. Through \in RecordIndices \cup {0}
    BY <1>0, RecordType DEF Through
  <2>3. lastRecordIndex' \in RecordIndices \cup {0}
    BY <1>7, <2>2 DEF Commit
  <2> QED
    BY <1>7, <2>1, <2>3, FS_EmptySet DEF Commit, scanVars, countVars
<1>8. ASSUME NEW c \in Conversations, RewriteInsert(c) PROVE TypeInv'
  <2>1. PlannedRefs(c) \subseteq (1..N) \X (Nat \ {0}) /\ IsFiniteSet(PlannedRefs(c))
    BY PlannedType
  <2>2. Points(PlannedRefs(c)) \subseteq PointType /\ IsFiniteSet(Points(PlannedRefs(c)))
    BY <2>1, PointsArePoints, FinitePoints
  <2>3. store' \subseteq PointType
    BY <1>8, <2>2 DEF RewriteInsert, Upsert
  <2>4. IsFiniteSet(store')
    BY <1>8, <2>2, FiniteUpsert DEF RewriteInsert
  <2>5. chunksEmbedded' \in Nat
    BY <1>8, <2>1, FS_CardinalityType DEF RewriteInsert
  <2>6. N' = N
    BY <1>8 DEF RewriteInsert, scanVars, N, records
  <2> QED
    BY <1>8, <2>3, <2>4, <2>5, <2>6 DEF RewriteInsert, Scanned, scanVars
<1>9. CASE RewriteDelete
  <2> DEFINE old == LegacyPoints(store, rekeying)
  <2>1. old \subseteq store
    BY DEF LegacyPoints
  <2>2. IsFiniteSet(old) /\ IsFiniteSet(store \ old)
    BY <2>1, FS_Subset, FS_Difference
  <2>3. legacyPointsDeleted' \in Nat
    BY <1>9, <2>2, FS_CardinalityType DEF RewriteDelete
  <2>4. legacyCache' \in [Conversations -> {"unknown", "legacy", "fresh"}]
    BY <1>9 DEF RewriteDelete
  <2>5. N' = N
    BY <1>9 DEF RewriteDelete, N, records
  <2>6. store' = store \ old /\ rewritePlans' \subseteq 1..N'
    BY <1>9, <2>5 DEF RewriteDelete
  <2> QED
    BY <1>9, <2>2, <2>3, <2>4, <2>5, <2>6 DEF RewriteDelete
<1>10. CASE IntegrityCheck
  <2>1. CASE EndRun /\ outcome' = "mismatch"
    BY <1>10, <2>1, EndRunType DEF IntegrityCheck, disk
  <2>2. CASE pc' = "remove" /\ outcome' = "ok" /\ UNCHANGED <<scanVars, workVars, countVars>>
    BY <1>10, <2>2 DEF IntegrityCheck, disk, scanVars, workVars, countVars, N, records
  <2> QED
    BY <1>10, <2>1, <2>2 DEF IntegrityCheck
<1>11. CASE RemoveJournal
  BY <1>11, EndRunType DEF RemoveJournal
<1>12. CASE Abort
  BY <1>12, EndRunType DEF Abort, disk
<1>13. CASE FailUpsert
  <2>1. Points(batch) \subseteq PointType /\ IsFiniteSet(Points(batch))
    BY PointsArePoints, FinitePoints
  <2> QED
    BY <1>13, <2>1, FailWriteType DEF FailUpsert
<1>14. ASSUME NEW c \in Conversations, FailRewrite(c) PROVE TypeInv'
  <2>1. PlannedRefs(c) \subseteq (1..N) \X (Nat \ {0}) /\ IsFiniteSet(PlannedRefs(c))
    BY PlannedType
  <2>2. Points(PlannedRefs(c)) \subseteq PointType /\ IsFiniteSet(Points(PlannedRefs(c)))
    BY <2>1, PointsArePoints, FinitePoints
  <2> QED
    BY <1>14, <2>2, FailWriteType DEF FailRewrite
<1>15. CASE UNCHANGED vars
  BY <1>15 DEF vars, disk, scanVars, workVars, countVars, N, records
<1> QED
  BY <1>1, <1>2, <1>3, <1>4, <1>5, <1>6, <1>7, <1>8, <1>9, <1>10, <1>11,
     <1>12, <1>13, <1>14, <1>15 DEF Next, Step

\* Every variable keeps its type in every mode, for every archive.
THEOREM TypeCorrect == Spec => []TypeOK
<1>1. TypeInv => TypeOK
  BY DEF TypeInv
<1> QED
  BY <1>1, InitType, NextType, PTL DEF Spec

-----------------------------------------------------------------------------
(* The checkpoint, in the modes that delete nothing *)

\* The runs that share a journal are over one list of records.
OneSelection == \A s, t \in DOMAIN Archive : Archive[s] = Archive[t]

\* Record i is settled once the batch in memory is written.
Handled(i) ==
    Accepted(i) =>
        \/ \A k \in 1..records[i].chunks :
              MemoryId(i, k) \in Ids(store) \cup Ids(Points(batch))
        \/ Excused(i)

\* CheckpointCovered is not inductive: a commit needs to know that every
\* record the scan has left behind is settled or in the batch, and that the
\* batch was written.
CheckpointInv ==
    /\ TypeInv
    /\ CheckpointCovered
    /\ MatchMeansImported
    /\ resumeFrom <= lastRecordIndex
    /\ \A i \in 1..(cursor - 1) : Handled(i)
    /\ pc = "commit" => Ids(Points(batch)) \subseteq Ids(store)
    /\ \A c \in Conversations :
          legacyCache[c] = "legacy" => ConversationHasLegacy(store, c)
    /\ rewritePlans = {}
    /\ pc # "rekey"
    /\ pc = "remove" => outcome = "ok"

LEMMA SameRecords ==
    ASSUME TypeInv, OneSelection, [Next]_vars
    PROVE  records' = records /\ N' = N
<1>1. selection \in DOMAIN Archive /\ selection' \in DOMAIN Archive
  BY NextType DEF TypeInv, TypeOK
<1> QED
  BY <1>1 DEF OneSelection, records, N

LEMMA SameIds ==
    ASSUME records' = records, NEW i, NEW k
    PROVE  MemoryId(i, k)' = MemoryId(i, k) /\ Point(i, k)' = Point(i, k)
BY DEF MemoryId, Point

LEMMA SamePoints ==
    ASSUME records' = records, batch' = batch
    PROVE  Points(batch)' = Points(batch)
BY SameIds DEF Points

LEMMA ExcusedGrows ==
    ASSUME records' = records, Ids(store) \subseteq Ids(store)', NEW i, Excused(i)
    PROVE  Excused(i)'
<1>1. ConversationHasLegacy(store', records[i].conversation)
  BY LegacyGrows DEF Excused, Ids
<1> QED
  BY <1>1 DEF Excused, ConversationHasLegacy, LegacyPoints

\* What is settled stays settled while no id leaves the collection.
LEMMA SettledGrows ==
    ASSUME records' = records, N' = N, Ids(store) \subseteq Ids(store)',
           NEW i, Settled(i)
    PROVE  Settled(i)'
BY SameIds, ExcusedGrows DEF Settled, Accepted

LEMMA HandledGrows ==
    ASSUME records' = records, Ids(store) \subseteq Ids(store)',
           Ids(Points(batch)) \subseteq Ids(store)' \cup Ids(Points(batch))',
           NEW i, Handled(i)
    PROVE  Handled(i)'
BY SameIds, ExcusedGrows DEF Handled, Accepted

LEMMA HandledSettled ==
    ASSUME NEW i, Handled(i), Ids(Points(batch)) \subseteq Ids(store)
    PROVE  Settled(i)
BY DEF Handled, Settled

\* An id present now was present before a write or came with it, and none goes.
LEMMA WriteKeepsIds ==
    ASSUME NEW new, store' = Upsert(store, new)
    PROVE  Ids(store)' = Ids(store) \cup Ids(new)
BY UpsertIds DEF Ids, Upsert

\* The verdicts of the guard stay true.
LEMMA VerdictsGrow ==
    ASSUME CheckpointInv, Ids(store) \subseteq Ids(store)', NEW c \in Conversations,
           legacyCache'[c] = "legacy", legacyCache' = legacyCache
    PROVE  ConversationHasLegacy(store, c)'
<1>1. ConversationHasLegacy(store', c)
  BY LegacyGrows DEF CheckpointInv, Ids
<1> QED
  BY <1>1 DEF ConversationHasLegacy, LegacyPoints

\* A run that ends loses its batch and nothing else.
LEMMA EndRunCheckpoint ==
    ASSUME CheckpointInv, TypeInv', EndRun, Ids(store) \subseteq Ids(store)',
           lastRecordIndex' = lastRecordIndex \/ lastRecordIndex' = 0,
           outcome' # "ok" \/ outcome' = outcome
    PROVE  CheckpointInv'
<1>1. records' = records /\ N' = N
  BY DEF EndRun, records, N
<1>2. CheckpointCovered'
  BY <1>1, SettledGrows DEF CheckpointInv, CheckpointCovered
<1>3. MatchMeansImported'
  BY <1>1, SettledGrows DEF CheckpointInv, MatchMeansImported
<1>4. resumeFrom' <= lastRecordIndex'
  BY RecordIndicesAreNat DEF EndRun, TypeInv, TypeOK
<1>5. \A i \in 1..(cursor' - 1) : Handled(i)'
  BY DEF EndRun
<1> QED
  BY <1>2, <1>3, <1>4, <1>5 DEF EndRun, CheckpointInv

\* Steps that leave the collection, the journal and the outcome alone keep
\* what is said of them.
LEMMA ScanCheckpoint ==
    ASSUME CheckpointInv, records' = records, N' = N, UNCHANGED <<store, lastRecordIndex, resumeFrom>>,
           outcome' # "ok" \/ outcome' = outcome
    PROVE  /\ CheckpointCovered'
           /\ MatchMeansImported'
           /\ resumeFrom' <= lastRecordIndex'
           /\ Ids(store) \subseteq Ids(store)'
<1>1. Ids(store) \subseteq Ids(store)'
  BY DEF Ids
<1> QED
  BY <1>1, SettledGrows DEF CheckpointInv, CheckpointCovered, MatchMeansImported

\* The record the scan leaves behind joins the ones that are handled.
LEMMA NextRecord ==
    ASSUME TypeInv, cursor' = cursor + 1, cursor \in 1..N,
           \A i \in 1..(cursor - 1) : Handled(i)',
           \A i : i = cursor => Handled(i)'
    PROVE  \A i \in 1..(cursor' - 1) : Handled(i)'
<1>1. N \in Nat
  BY RecordType DEF TypeInv, TypeOK
<1>2. \A i \in 1..(cursor' - 1) : i \in 1..(cursor - 1) \/ i = cursor
  BY <1>1
<1> QED
  BY <1>2

\* A conversation the guard calls legacy holds a position-keyed point.
LEMMA LegacyIsLegacy ==
    ASSUME CheckpointInv, cursor \in 1..N, IsLegacy(cursor)
    PROVE  ConversationHasLegacy(store, records[cursor].conversation)
<1>1. records[cursor].conversation \in Conversations
  BY RecordType DEF CheckpointInv, TypeInv, TypeOK, Record
<1> QED
  BY <1>1 DEF IsLegacy, Verdict, CheckpointInv

LEMMA VerdictIsTrue ==
    ASSUME CheckpointInv, LegacyCheck, store' = store, NEW c \in Conversations,
           legacyCache'[c] = "legacy"
    PROVE  ConversationHasLegacy(store, c)'
<1>1. cursor \in 1..N
  BY LegacyCheckType DEF CheckpointInv
<1>2. records[cursor].conversation \in Conversations
  BY <1>1, RecordType DEF CheckpointInv, TypeInv, TypeOK, Record
<1>3. ConversationHasLegacy(store, c)
  BY <1>2 DEF LegacyCheck, Verdict, CheckpointInv, TypeInv, TypeOK
<1> QED
  BY <1>3 DEF ConversationHasLegacy, LegacyPoints

LEMMA InitCheckpoint == Init => CheckpointInv
<1> SUFFICES ASSUME Init PROVE CheckpointInv
  OBVIOUS
<1>1. CheckpointCovered /\ MatchMeansImported
  BY DEF Init, CheckpointCovered, MatchMeansImported
<1>2. \A i \in 1..(cursor - 1) : Handled(i)
  BY DEF Init
<1> QED
  BY <1>1, <1>2, InitType DEF Init, CheckpointInv

LEMMA NextCheckpoint ==
    ASSUME Mode # "rewrite", OneSelection, CheckpointInv, [Next]_vars
    PROVE  CheckpointInv'
<1>0. /\ TypeInv /\ TypeInv' /\ records' = records /\ N' = N
      /\ N \in Nat /\ cursor \in 1..(N + 1)
      /\ lastRecordIndex \in Nat /\ resumeFrom \in Nat
  BY NextType, SameRecords, RecordType, RecordIndicesAreNat
  DEF CheckpointInv, TypeInv, TypeOK
<1>1. ASSUME NEW s \in DOMAIN Archive, Start(s) PROVE CheckpointInv'
  <2>1. Ids(store) \subseteq Ids(store)'
    BY <1>1 DEF Start, disk, Ids
  <2>2. CheckpointCovered' /\ MatchMeansImported'
    BY <1>0, <1>1, <2>1, SettledGrows
    DEF Start, disk, CheckpointInv, CheckpointCovered, MatchMeansImported
  <2>3. cursor' = 1
    BY <1>1 DEF Start, CheckpointInv, TypeInv
  <2>4. \A i \in 1..(cursor' - 1) : Handled(i)'
    BY <2>3
  <2>5. \A c \in Conversations :
           legacyCache'[c] = "legacy" => ConversationHasLegacy(store, c)'
    BY <1>1, <2>1, VerdictsGrow DEF Start
  <2>6. resumeFrom' <= lastRecordIndex'
    BY <1>0, <1>1 DEF Start, disk
  <2> QED
    BY <1>0, <1>1, <2>2, <2>4, <2>5, <2>6 DEF Start, workVars, CheckpointInv
<1>2. CASE SkipRecord
  <2>1. CheckpointCovered' /\ MatchMeansImported' /\ resumeFrom' <= lastRecordIndex'
        /\ Ids(store) \subseteq Ids(store)'
    BY <1>0, <1>2, ScanCheckpoint DEF SkipRecord, disk
  <2>2. cursor \in 1..N /\ cursor' = cursor + 1
    BY <1>0, <1>2 DEF SkipRecord, Scanning
  <2>3. Points(batch)' = Points(batch)
    BY <1>0, <1>2, SamePoints DEF SkipRecord, workVars
  <2>4. Ids(Points(batch)) \subseteq Ids(store)' \cup Ids(Points(batch))'
    BY <2>3 DEF Ids
  <2>5. Handled(cursor)
    <3>1. CASE cursor <= resumeFrom
      BY <1>0, <2>2, <3>1 DEF CheckpointInv, CheckpointCovered, Settled, Handled
    <3>2. CASE ~Accepted(cursor)
      BY <3>2 DEF Handled
    <3> QED
      BY <1>2, <3>1, <3>2 DEF SkipRecord, Passed
  <2>6. \A i \in 1..(cursor - 1) : Handled(i)'
    BY <1>0, <2>1, <2>4, HandledGrows DEF CheckpointInv
  <2>7. \A i : i = cursor => Handled(i)'
    BY <1>0, <2>1, <2>4, <2>5, HandledGrows
  <2>8. \A i \in 1..(cursor' - 1) : Handled(i)'
    BY <1>0, <2>2, <2>6, <2>7, NextRecord
  <2>9. \A c \in Conversations :
           legacyCache'[c] = "legacy" => ConversationHasLegacy(store, c)'
    BY <1>2, <2>1, VerdictsGrow DEF SkipRecord
  <2> QED
    BY <1>0, <1>2, <2>1, <2>8, <2>9
    DEF SkipRecord, Scanning, workVars, CheckpointInv
<1>3. CASE SkipLegacy
  <2>1. CheckpointCovered' /\ MatchMeansImported' /\ resumeFrom' <= lastRecordIndex'
        /\ Ids(store) \subseteq Ids(store)'
    BY <1>0, <1>3, ScanCheckpoint DEF SkipLegacy, LegacyCheck, disk
  <2>2. cursor \in 1..N /\ cursor' = cursor + 1
    BY <1>0, <1>3 DEF SkipLegacy, LegacyCheck, Scanning
  <2>3. Ids(Points(batch)) \subseteq Ids(store)' \cup Ids(Points(batch))'
    BY <1>0, <1>3, SamePoints DEF SkipLegacy, Ids
  <2>4. Handled(cursor)
    BY <1>3, <2>2, LegacyIsLegacy DEF SkipLegacy, IsLegacy, Handled, Excused
  <2>5. \A i \in 1..(cursor' - 1) : Handled(i)'
    BY <1>0, <2>1, <2>2, <2>3, <2>4, HandledGrows, NextRecord DEF CheckpointInv
  <2>6. \A c \in Conversations :
           legacyCache'[c] = "legacy" => ConversationHasLegacy(store, c)'
    BY <1>3, VerdictIsTrue DEF SkipLegacy, LegacyCheck, disk
  <2> QED
    BY <1>0, <1>3, <2>1, <2>5, <2>6
    DEF SkipLegacy, LegacyCheck, Scanning, CheckpointInv
<1>4. CASE EmbedRecord
  <2>1. CheckpointCovered' /\ MatchMeansImported' /\ resumeFrom' <= lastRecordIndex'
        /\ Ids(store) \subseteq Ids(store)'
    BY <1>0, <1>4, ScanCheckpoint DEF EmbedRecord, LegacyCheck, disk
  <2>2. cursor \in 1..N /\ cursor' = cursor + 1
    BY <1>0, <1>4 DEF EmbedRecord, LegacyCheck, Scanning
  <2>3. Ids(Points(batch)) \subseteq Ids(store)' \cup Ids(Points(batch))'
    <3>1. Points(batch)' = Points(batch) \cup Points(MissingRefs(cursor))
      BY <1>0, <1>4, SameIds DEF EmbedRecord, Points
    <3> QED
      BY <3>1 DEF Ids
  <2>4. \A i : i = cursor => Handled(i)'
    <3> SUFFICES ASSUME NEW i, i = cursor, NEW k \in 1..records[i].chunks
                 PROVE  MemoryId(i, k) \in Ids(store)' \cup Ids(Points(batch))'
      BY <1>0, SameIds DEF Handled, Accepted
    <3>1. CASE MemoryId(i, k) \in Ids(store)
      BY <2>1, <3>1
    <3>2. CASE MemoryId(i, k) \notin Ids(store)
      <4>1. <<i, k>> \in batch'
        BY <1>4, <3>2 DEF EmbedRecord, MissingRefs, Missing
      <4>2. Point(i, k) \in Points(batch)'
        BY <1>0, <4>1, SameIds DEF Points
      <4> QED
        BY <4>2 DEF Ids, Point
    <3> QED
      BY <3>1, <3>2
  <2>5. \A i \in 1..(cursor' - 1) : Handled(i)'
    BY <1>0, <2>1, <2>2, <2>3, <2>4, HandledGrows, NextRecord DEF CheckpointInv
  <2>6. \A c \in Conversations :
           legacyCache'[c] = "legacy" => ConversationHasLegacy(store, c)'
    BY <1>4, VerdictIsTrue DEF EmbedRecord, LegacyCheck, disk
  <2> QED
    BY <1>0, <1>4, <2>1, <2>5, <2>6 DEF EmbedRecord, CheckpointInv
<1>5. CASE UpsertBatch
  <2>1. Points(batch)' = Points(batch)
    BY <1>0, <1>5, SamePoints DEF UpsertBatch, workVars
  <2>2. Ids(store)' = Ids(store) \cup Ids(Points(batch))
    BY <1>5, WriteKeepsIds DEF UpsertBatch
  <2>3. Ids(store) \subseteq Ids(store)' /\ Ids(Points(batch))' \subseteq Ids(store)'
    BY <2>1, <2>2 DEF Ids
  <2>4. CheckpointCovered' /\ MatchMeansImported'
    BY <1>0, <1>5, <2>3, SettledGrows
    DEF UpsertBatch, CheckpointInv, CheckpointCovered, MatchMeansImported
  <2>5. \A i \in 1..(cursor' - 1) : Handled(i)'
    BY <1>0, <1>5, <2>2, <2>3, HandledGrows DEF UpsertBatch, scanVars, CheckpointInv
  <2>6. \A c \in Conversations :
           legacyCache'[c] = "legacy" => ConversationHasLegacy(store, c)'
    BY <1>5, <2>3, VerdictsGrow DEF UpsertBatch, scanVars
  <2> QED
    BY <1>0, <1>5, <2>3, <2>4, <2>5, <2>6
    DEF UpsertBatch, scanVars, workVars, CheckpointInv
<1>6. CASE Commit
  <2>1. Ids(store) \subseteq Ids(store)' /\ Ids(Points(batch)) \subseteq Ids(store)
    BY <1>6 DEF Commit, Ids, CheckpointInv
  <2>2. \A i \in 1..(cursor - 1) : Settled(i)
    BY <2>1, HandledSettled DEF CheckpointInv
  <2>3. \A i \in 1..lastRecordIndex' : Settled(i)
    BY <1>0, <1>6, <2>2 DEF Commit, Through, CheckpointInv, CheckpointCovered
  <2>4. CheckpointCovered' /\ MatchMeansImported'
    BY <1>0, <1>6, <2>1, <2>3, SettledGrows
    DEF Commit, CheckpointInv, CheckpointCovered, MatchMeansImported
  <2>5. \A i \in 1..(cursor' - 1) : Handled(i)'
    BY <1>0, <1>6, <2>1, HandledGrows DEF Commit, scanVars, CheckpointInv
  <2>6. \A c \in Conversations :
           legacyCache'[c] = "legacy" => ConversationHasLegacy(store, c)'
    BY <1>6, <2>1, VerdictsGrow DEF Commit, scanVars
  <2>7. resumeFrom' <= lastRecordIndex'
    BY <1>0, <1>6 DEF Commit, Through, scanVars, CheckpointInv
  <2> QED
    BY <1>0, <1>6, <2>4, <2>5, <2>6, <2>7 DEF Commit, CheckpointInv
<1>7. ASSUME NEW c \in Conversations, RewriteInsert(c) PROVE CheckpointInv'
  BY <1>7 DEF RewriteInsert, Planned, CheckpointInv
<1>8. CASE RewriteDelete
  BY <1>8 DEF RewriteDelete, CheckpointInv
<1>9. CASE IntegrityCheck
  <2>1. Ids(store) \subseteq Ids(store)'
    BY <1>9 DEF IntegrityCheck, disk, Ids
  <2>2. CASE outcome' = "ok" /\ pc' = "remove" /\ UNCHANGED <<scanVars, workVars, countVars>>
    <3>1. cursor = N + 1 /\ Ids(Points(batch)) \subseteq Ids(store)
      BY <1>0, <1>9 DEF IntegrityCheck, Scanned, Points, Ids
    <3>2. \A i \in 1..N : Settled(i)
      BY <1>0, <3>1, HandledSettled DEF CheckpointInv
    <3>3. CheckpointCovered' /\ MatchMeansImported'
      BY <1>0, <1>9, <2>1, <3>2, SettledGrows
      DEF IntegrityCheck, disk, CheckpointInv, CheckpointCovered, MatchMeansImported
    <3>4. Points(batch)' = Points(batch)
      BY <1>0, <2>2, SamePoints DEF workVars
    <3>5. \A i \in 1..(cursor' - 1) : Handled(i)'
      BY <1>0, <2>1, <2>2, <3>4, HandledGrows DEF scanVars, Ids, CheckpointInv
    <3>6. \A c \in Conversations :
             legacyCache'[c] = "legacy" => ConversationHasLegacy(store, c)'
      BY <2>1, <2>2, VerdictsGrow DEF scanVars
    <3> QED
      BY <1>0, <1>9, <2>2, <3>3, <3>5, <3>6
      DEF IntegrityCheck, disk, scanVars, workVars, CheckpointInv
  <2>3. CASE outcome' = "mismatch" /\ EndRun
    BY <1>0, <1>9, <2>1, <2>3, EndRunCheckpoint DEF IntegrityCheck, disk
  <2> QED
    BY <1>9, <2>2, <2>3 DEF IntegrityCheck
<1>10. CASE RemoveJournal
  <2>1. Ids(store) \subseteq Ids(store)'
    BY <1>10 DEF RemoveJournal, Ids
  <2> QED
    BY <1>0, <1>10, <2>1, EndRunCheckpoint DEF RemoveJournal
<1>11. CASE Abort
  <2>1. Ids(store) \subseteq Ids(store)'
    BY <1>11 DEF Abort, disk, Ids
  <2> QED
    BY <1>0, <1>11, <2>1, EndRunCheckpoint DEF Abort, disk
<1>12. CASE FailUpsert
  <2>1. Ids(store) \subseteq Ids(store)'
    BY <1>12, WriteKeepsIds DEF FailUpsert, FailWrite
  <2> QED
    BY <1>0, <1>12, <2>1, EndRunCheckpoint DEF FailUpsert, FailWrite
<1>13. ASSUME NEW c \in Conversations, FailRewrite(c) PROVE CheckpointInv'
  BY <1>13 DEF FailRewrite, Planned, CheckpointInv
<1>14. CASE PlanRewrite
  BY <1>14 DEF PlanRewrite
<1>15. CASE UNCHANGED vars
  <2>1. Ids(store) \subseteq Ids(store)' /\ Points(batch)' = Points(batch)
    BY <1>0, <1>15, SamePoints DEF vars, disk, workVars, Ids
  <2>2. CheckpointCovered' /\ MatchMeansImported'
    BY <1>0, <1>15, <2>1, SettledGrows
    DEF vars, disk, CheckpointInv, CheckpointCovered, MatchMeansImported
  <2>3. \A i \in 1..(cursor' - 1) : Handled(i)'
    BY <1>0, <1>15, <2>1, HandledGrows DEF vars, scanVars, Ids, CheckpointInv
  <2>4. \A c \in Conversations :
           legacyCache'[c] = "legacy" => ConversationHasLegacy(store, c)'
    BY <1>15, <2>1, VerdictsGrow DEF vars, scanVars
  <2> QED
    BY <1>0, <1>15, <2>1, <2>2, <2>3, <2>4
    DEF vars, disk, scanVars, workVars, Ids, CheckpointInv
<1> QED
  BY <1>1, <1>2, <1>3, <1>4, <1>5, <1>6, <1>7, <1>8, <1>9, <1>10, <1>11,
     <1>12, <1>13, <1>14, <1>15 DEF Next, Step

\* The journal never covers a record that a resumed run would wrongly skip.
THEOREM CheckpointSafety ==
    ASSUME Mode # "rewrite", OneSelection
    PROVE  Spec => []CheckpointCovered
<1>1. Init => CheckpointInv
  BY InitCheckpoint
<1>2. CheckpointInv /\ [Next]_vars => CheckpointInv'
  BY NextCheckpoint
<1>3. CheckpointInv => CheckpointCovered
  BY DEF CheckpointInv
<1> QED
  BY <1>1, <1>2, <1>3, PTL DEF Spec

\* A run that reports a match and removes its journal has imported the archive.
THEOREM MatchSafety ==
    ASSUME Mode # "rewrite", OneSelection
    PROVE  Spec => []MatchMeansImported
<1>1. Init => CheckpointInv
  BY InitCheckpoint
<1>2. CheckpointInv /\ [Next]_vars => CheckpointInv'
  BY NextCheckpoint
<1>3. CheckpointInv => MatchMeansImported
  BY DEF CheckpointInv
<1> QED
  BY <1>1, <1>2, <1>3, PTL DEF Spec

-----------------------------------------------------------------------------
(* The import implements the resumable import *)

\* Outside "rewrite" mode no id ever leaves the collection.
LEMMA NoIdLost ==
    ASSUME Mode # "rewrite", CheckpointInv, [Next]_vars
    PROVE  Ids(store) \subseteq Ids(store)'
<1>1. CASE store' = store
  BY <1>1 DEF Ids
<1>2. CASE \E new : store' = Upsert(store, new)
  BY <1>2, WriteKeepsIds
<1>3. ASSUME NEW c \in Conversations, RewriteInsert(c) \/ FailRewrite(c) PROVE FALSE
  BY <1>3 DEF RewriteInsert, FailRewrite, Planned, CheckpointInv
<1>4. ~RewriteDelete
  BY DEF RewriteDelete, CheckpointInv
<1>5. CASE UpsertBatch \/ FailUpsert
  BY <1>2, <1>5 DEF UpsertBatch, FailUpsert, FailWrite
<1>6. ASSUME NEW s \in DOMAIN Archive, Start(s) PROVE store' = store
  BY <1>6 DEF Start, disk
<1>7. CASE SkipRecord \/ SkipLegacy \/ PlanRewrite \/ EmbedRecord \/ Commit
  BY <1>1, <1>7
  DEF SkipRecord, SkipLegacy, PlanRewrite, EmbedRecord, LegacyCheck, Commit, disk
<1>8. CASE IntegrityCheck \/ RemoveJournal \/ Abort \/ UNCHANGED vars
  BY <1>1, <1>8 DEF IntegrityCheck, RemoveJournal, Abort, vars, disk
<1> QED
  BY <1>1, <1>3, <1>4, <1>5, <1>6, <1>7, <1>8 DEF Next, Step

\* Only a commit and the removal of the journal write it.
LEMMA JournalWriters ==
    ASSUME [Next]_vars, ~Commit, ~RemoveJournal
    PROVE  lastRecordIndex' = lastRecordIndex
<1>1. ASSUME NEW s \in DOMAIN Archive, Start(s) PROVE lastRecordIndex' = lastRecordIndex
  BY <1>1 DEF Start, disk
<1>2. ASSUME NEW c \in Conversations, RewriteInsert(c) \/ FailRewrite(c)
      PROVE  lastRecordIndex' = lastRecordIndex
  BY <1>2 DEF RewriteInsert, FailRewrite, FailWrite
<1>3. CASE SkipRecord \/ SkipLegacy \/ PlanRewrite \/ EmbedRecord \/ UpsertBatch
  BY <1>3 DEF SkipRecord, SkipLegacy, PlanRewrite, EmbedRecord, LegacyCheck, UpsertBatch, disk
<1>4. CASE RewriteDelete \/ IntegrityCheck \/ Abort \/ FailUpsert \/ UNCHANGED vars
  BY <1>4 DEF RewriteDelete, IntegrityCheck, Abort, FailUpsert, FailWrite, vars, disk
<1> QED
  BY <1>1, <1>2, <1>3, <1>4 DEF Next, Step

LEMMA NextRefines ==
    ASSUME Mode # "rewrite", OneSelection, CheckpointInv, [Next]_vars
    PROVE  [Abstract!Next]_(Abstract!vars)
<1> DEFINE settled == {i \in RecordIndices : Settled(i)}
<1>0. /\ CheckpointInv' /\ TypeInv /\ TypeInv' /\ records' = records /\ N' = N
      /\ N \in Nat /\ cursor \in 1..(N + 1) /\ lastRecordIndex \in Nat
      /\ Ids(store) \subseteq Ids(store)'
  BY NextType, NextCheckpoint, NoIdLost, SameRecords, RecordType, RecordIndicesAreNat
  DEF CheckpointInv, TypeInv, TypeOK
<1>1. settled \subseteq settled' /\ settled' \subseteq RecordIndices
  BY <1>0, SettledGrows
<1>2. RecordIndices = 1..N
  <2>1. selection \in DOMAIN Archive
    BY <1>0 DEF TypeInv, TypeOK
  <2> QED
    BY <2>1 DEF RecordIndices, OneSelection, N, records
<1>3. CASE lastRecordIndex' = lastRecordIndex
  BY <1>1, <1>3 DEF Abstract!Next, Abstract!Settle
<1>4. CASE Commit /\ lastRecordIndex' # lastRecordIndex
  <2>1. lastRecordIndex' = cursor - 1 /\ lastRecordIndex < lastRecordIndex'
        /\ lastRecordIndex' \in 1..N
    BY <1>0, <1>4 DEF Commit, Through
  <2>2. Ids(Points(batch)) \subseteq Ids(store)
    BY <1>4 DEF Commit, CheckpointInv
  <2>3. 1..lastRecordIndex' \subseteq settled
    BY <1>0, <1>2, <2>1, <2>2, HandledSettled DEF CheckpointInv
  <2>4. \A i : Settled(i)' <=> Settled(i)
    BY <1>0, <1>4, SameIds
    DEF Commit, Settled, Accepted, Excused, ConversationHasLegacy, LegacyPoints, Ids
  <2>5. settled' = settled
    BY <2>4
  <2> QED
    BY <1>2, <2>1, <2>3, <2>5 DEF Abstract!Next, Abstract!Advance
<1>5. CASE RemoveJournal /\ lastRecordIndex' # lastRecordIndex
  <2>1. lastRecordIndex' = 0
    BY <1>5 DEF RemoveJournal
  <2>2. settled = RecordIndices
    BY <1>2, <1>5 DEF RemoveJournal, CheckpointInv, MatchMeansImported
  <2>3. settled' = settled
    BY <1>1, <2>2
  <2> QED
    BY <2>1, <2>2, <2>3 DEF Abstract!Next, Abstract!Close
<1> QED
  BY <1>3, <1>4, <1>5, JournalWriters

\* Every behaviour of the import is one of the abstract resumable import.
THEOREM Refinement ==
    ASSUME Mode # "rewrite", OneSelection
    PROVE  Spec => ImplementsResumableImport
<1>1. Init => CheckpointInv /\ Abstract!Init
  BY InitCheckpoint DEF Init, Abstract!Init
<1>2. CheckpointInv /\ [Next]_vars => CheckpointInv' /\ [Abstract!Next]_(Abstract!vars)
  BY NextCheckpoint, NextRefines
<1> QED
  BY <1>1, <1>2, PTL DEF Spec, ImplementsResumableImport, Abstract!Spec

-----------------------------------------------------------------------------
(* What the collection can come to hold *)

\* Every point a run adds is the point of a chunk of a record of its archive.
LEMMA StoreWriters ==
    ASSUME TypeInv, [Next]_vars
    PROVE  store' \subseteq store \cup Points((1..N) \X (Nat \ {0}))
<1> DEFINE all == Points((1..N) \X (Nat \ {0}))
<1>1. \A refs : refs \subseteq (1..N) \X (Nat \ {0}) => Points(refs) \subseteq all
  BY DEF Points
<1>2. Points(batch) \subseteq all
  BY <1>1 DEF TypeInv, TypeOK
<1>3. \A c : Points(PlannedRefs(c)) \subseteq all
  BY <1>1, PlannedType DEF TypeInv, TypeOK
<1>4. ASSUME NEW new, new \subseteq all, FailWrite(new) PROVE store' \subseteq store \cup all
  BY <1>4 DEF FailWrite, Upsert
<1>5. ASSUME NEW c \in Conversations, RewriteInsert(c) \/ FailRewrite(c)
      PROVE  store' \subseteq store \cup all
  BY <1>3, <1>4, <1>5 DEF RewriteInsert, FailRewrite, Upsert
<1>6. CASE UpsertBatch \/ FailUpsert
  BY <1>2, <1>4, <1>6 DEF UpsertBatch, FailUpsert, Upsert
<1>7. ASSUME NEW s \in DOMAIN Archive, Start(s) PROVE store' = store
  BY <1>7 DEF Start, disk
<1>8. CASE SkipRecord \/ SkipLegacy \/ PlanRewrite \/ EmbedRecord \/ Commit
  BY <1>8
  DEF SkipRecord, SkipLegacy, PlanRewrite, EmbedRecord, LegacyCheck, Commit, disk
<1>9. CASE RewriteDelete \/ IntegrityCheck \/ RemoveJournal \/ Abort \/ UNCHANGED vars
  BY <1>9 DEF RewriteDelete, IntegrityCheck, RemoveJournal, Abort, vars, disk
<1> QED
  BY <1>5, <1>6, <1>7, <1>8, <1>9 DEF Next, Step

\* The source gives every message an id.
AllStable == \A s \in DOMAIN Archive : \A i \in 1..Len(Archive[s]) : Archive[s][i].stable

\* OnePointPerChunk is not inductive: a point must be known by the id it has.
KeyedInv ==
    /\ TypeInv
    /\ \A p \in store : p.id.message = p.message /\ p.id.position = 0

LEMMA StableId ==
    ASSUME AllStable, selection \in DOMAIN Archive,
           NEW p \in Points((1..N) \X (Nat \ {0}))
    PROVE  p.id.message = p.message /\ p.id.position = 0
<1>1. PICK r \in (1..N) \X (Nat \ {0}) : p = Point(r[1], r[2])
  BY DEF Points
<1>2. records[r[1]].stable
  BY <1>1 DEF AllStable, records, N
<1> QED
  BY <1>1, <1>2 DEF Point, MemoryId

LEMMA NextKeyed == AllStable /\ KeyedInv /\ [Next]_vars => KeyedInv'
BY StableId, StoreWriters, NextType DEF KeyedInv, TypeInv, TypeOK

LEMMA KeyedOnce == KeyedInv => OnePointPerChunk
<1> SUFFICES ASSUME KeyedInv, NEW p \in store, NEW q \in store,
                    p.message = q.message, p.id.conversation = q.id.conversation,
                    p.id.chunk = q.id.chunk
             PROVE  p = q
  BY DEF OnePointPerChunk
<1>1. p \in PointType /\ q \in PointType
  BY DEF KeyedInv, TypeInv, TypeOK
<1>2. p.id \in PointId /\ q.id \in PointId
  BY <1>1 DEF PointType
<1>3. p.id = q.id
  BY <1>2 DEF KeyedInv, PointId
<1> QED
  BY <1>1, <1>3 DEF PointType

\* However often archives with message ids are imported, in whatever version
\* and whatever fails on the way, no chunk of a message gets a second point.
THEOREM ReimportSafety ==
    ASSUME AllStable, Legacy = {}
    PROVE  Spec => []OnePointPerChunk
<1>1. Init => KeyedInv
  BY InitType DEF Init, KeyedInv
<1>2. KeyedInv /\ [Next]_vars => KeyedInv'
  BY NextKeyed
<1> QED
  BY <1>1, <1>2, KeyedOnce, PTL DEF Spec

-----------------------------------------------------------------------------
(* Re-keying a conversation *)

\* Every message with a position-keyed point is in every selection, and all
\* records of its conversation have ids.
Rekeyable == \A s \in DOMAIN Archive : \A p \in Legacy :
    /\ \A i \in 1..Len(Archive[s]) :
          Archive[s][i].conversation = p.id.conversation => Archive[s][i].stable
    /\ \E i \in 1..Len(Archive[s]) :
          /\ Archive[s][i].conversation = p.id.conversation
          /\ Archive[s][i].message = p.message
          /\ Archive[s][i].accepted
          /\ Archive[s][i].chunks > 0

\* Point q holds the message of the legacy point p.
Holds(q, p) == q.message = p.message /\ q.id.conversation = p.id.conversation

\* The record at i, once scanned, is planned if its conversation is legacy.
PlannedIfLegacy(i) ==
    records[i].stable /\ Accepted(i) =>
        LET verdict == legacyCache[records[i].conversation] IN
        verdict # "unknown" /\ (verdict = "legacy" => i \in rewritePlans)

\* RekeyPreservesMessages is not inductive: before the position-keyed points of
\* a conversation go, each of its messages has a point keyed by the message,
\* because the plan holds every record of the conversation.
RekeyInv ==
    /\ TypeInv
    /\ RekeyPreservesMessages
    /\ \A q \in store : q.id.message # NoMessage => q.message = q.id.message
    /\ Mode = "rewrite" => resumeFrom = 0
    /\ Mode = "rewrite" => \A i \in 1..(cursor - 1) : PlannedIfLegacy(i)
    /\ \A i \in rewritePlans : legacyCache[records[i].conversation] = "legacy"
    /\ rewritePlans # {} \/ pc = "rekey" => Mode = "rewrite"
    /\ pc = "rekey" =>
          \A p \in Legacy : p.id.conversation = rekeying =>
              \E q \in store : Holds(q, p) /\ q.id.message # NoMessage

LEMMA ArchiveId ==
    ASSUME Rekeyable, selection \in DOMAIN Archive,
           NEW q \in Points((1..N) \X (Nat \ {0}))
    PROVE  /\ q.id.message # NoMessage => q.message = q.id.message
           /\ \A p \in Legacy : q.id.conversation = p.id.conversation =>
                 q.id.message # NoMessage
<1>1. PICK r \in (1..N) \X (Nat \ {0}) : q = Point(r[1], r[2])
  BY DEF Points
<1>2. records[r[1]] \in Record
  BY <1>1, RecordType
<1>3. records[r[1]].message # NoMessage
  BY <1>2, NamesAssumption DEF Record
<1>4. q.id.message # NoMessage => q.message = q.id.message
  BY <1>1 DEF Point, MemoryId
<1>5. ASSUME NEW p \in Legacy, q.id.conversation = p.id.conversation
      PROVE  q.id.message # NoMessage
  <2>1. records[r[1]].conversation = p.id.conversation
    BY <1>1, <1>5 DEF Point, MemoryId
  <2>2. records[r[1]].stable
    BY <1>1, <2>1 DEF Rekeyable, records, N
  <2> QED
    BY <1>1, <1>3, <2>2 DEF Point, MemoryId
<1> QED
  BY <1>4, <1>5

\* Points keyed by message have the message their id names.
LEMMA KeyedByMessage ==
    ASSUME Rekeyable, RekeyInv, [Next]_vars
    PROVE  \A q \in store' : q.id.message # NoMessage => q.message = q.id.message
BY ArchiveId, StoreWriters DEF RekeyInv, TypeInv, TypeOK

\* A write of points of the archive may replace the point that holds a
\* message, by one that holds the same message.
LEMMA UpsertHolds ==
    ASSUME Rekeyable, RekeyInv,
           NEW new, new \subseteq Points((1..N) \X (Nat \ {0})),
           NEW p \in Legacy, NEW q \in store, Holds(q, p)
    PROVE  \E other \in Upsert(store, new) :
              Holds(other, p) /\ (q.id.message # NoMessage => other.id.message # NoMessage)
<1>1. CASE q.id \notin Ids(new)
  BY <1>1 DEF Upsert
<1>2. CASE q.id \in Ids(new)
  <2>1. PICK other \in new : other.id = q.id
    BY <1>2 DEF Ids
  <2>2. other.id.message # NoMessage /\ other.message = other.id.message
    <3>1. selection \in DOMAIN Archive /\ other \in Points((1..N) \X (Nat \ {0}))
      BY <2>1 DEF RekeyInv, TypeInv, TypeOK
    <3>2. other.id.conversation = p.id.conversation
      BY <2>1 DEF Holds
    <3> QED
      BY <3>1, <3>2, ArchiveId
  <2>3. q.message = q.id.message
    BY <2>1, <2>2 DEF RekeyInv
  <2>4. Holds(other, p)
    BY <2>1, <2>2, <2>3 DEF Holds
  <2> QED
    BY <2>1, <2>2, <2>4 DEF Upsert
<1> QED
  BY <1>1, <1>2

LEMMA UpsertPreserves ==
    ASSUME Rekeyable, RekeyInv,
           NEW new, new \subseteq Points((1..N) \X (Nat \ {0})),
           store' = Upsert(store, new)
    PROVE  RekeyPreservesMessages'
<1> SUFFICES ASSUME NEW p \in Legacy PROVE \E q \in store' : Holds(q, p)
  BY DEF RekeyPreservesMessages, Holds
<1>1. PICK q \in store : Holds(q, p)
  BY DEF RekeyInv, RekeyPreservesMessages, Holds
<1> QED
  BY <1>1, UpsertHolds

\* What a run has in memory is gone with it; the collection decides.
LEMMA EndRunRekey ==
    ASSUME EndRun, TypeInv', RekeyPreservesMessages',
           \A q \in store' : q.id.message # NoMessage => q.message = q.id.message
    PROVE  RekeyInv'
<1>1. cursor' = 1 /\ rewritePlans' = {} /\ pc' = "idle" /\ resumeFrom' = 0
  BY DEF EndRun
<1>2. \A i \in 1..(cursor' - 1) : PlannedIfLegacy(i)'
  BY <1>1
<1> QED
  BY <1>1, <1>2 DEF RekeyInv

LEMMA FailWriteRekey ==
    ASSUME Rekeyable, RekeyInv, [Next]_vars,
           NEW new, new \subseteq Points((1..N) \X (Nat \ {0})), FailWrite(new)
    PROVE  RekeyInv'
<1>1. PICK done \in SUBSET new : store' = Upsert(store, done)
  BY DEF FailWrite
<1>2. RekeyPreservesMessages'
  BY <1>1, UpsertPreserves
<1> QED
  BY <1>2, KeyedByMessage, NextType, EndRunRekey DEF RekeyInv, FailWrite

\* A scanned record is planned exactly if its conversation is legacy.
LEMMA LegacyCheckRekey ==
    ASSUME RekeyInv, LegacyCheck,
           \/ UNCHANGED rewritePlans /\ ~(Mode = "rewrite" /\ IsLegacy(cursor))
           \/ Mode = "rewrite" /\ IsLegacy(cursor) /\ rewritePlans' = rewritePlans \cup {cursor}
    PROVE  /\ Mode = "rewrite" => \A i \in 1..(cursor' - 1) : PlannedIfLegacy(i)'
           /\ \A i \in rewritePlans' : legacyCache'[records'[i].conversation] = "legacy"
<1> DEFINE c == records[cursor].conversation
<1>0. /\ cursor \in 1..N /\ N \in Nat /\ records' = records /\ cursor' = cursor + 1
      /\ \A i \in 1..N : records[i].conversation \in Conversations
      /\ rewritePlans \subseteq 1..N
  BY LegacyCheckType, RecordType
  DEF LegacyCheck, records, RekeyInv, TypeInv, TypeOK, Record
<1>1. legacyCache \in [Conversations -> {"unknown", "legacy", "fresh"}]
  BY DEF RekeyInv, TypeInv, TypeOK
<1>2. \A d \in Conversations : legacyCache[d] # "unknown" => legacyCache'[d] = legacyCache[d]
  BY <1>0, <1>1 DEF LegacyCheck, Verdict
<1>3. records[cursor].stable => legacyCache'[c] = Verdict(c) /\ Verdict(c) # "unknown"
  BY <1>0, <1>1 DEF LegacyCheck, Verdict
<1>4. rewritePlans \subseteq rewritePlans'
  OBVIOUS
<1>5. ASSUME Mode = "rewrite", NEW i \in 1..(cursor' - 1) PROVE PlannedIfLegacy(i)'
  <2>1. CASE i = cursor
    BY <1>0, <1>3, <1>5, <2>1 DEF PlannedIfLegacy, Accepted, IsLegacy
  <2>2. CASE i # cursor
    <3>1. i \in 1..(cursor - 1) /\ i \in 1..N
      BY <1>0, <2>2
    <3>2. PlannedIfLegacy(i)
      BY <1>5, <3>1 DEF RekeyInv
    <3> QED
      BY <1>0, <1>2, <1>4, <3>1, <3>2 DEF PlannedIfLegacy, Accepted
  <2> QED
    BY <2>1, <2>2
<1>6. ASSUME NEW i \in rewritePlans' PROVE legacyCache'[records'[i].conversation] = "legacy"
  <2>1. CASE i \in rewritePlans
    BY <1>0, <1>2, <2>1 DEF RekeyInv
  <2>2. CASE i \notin rewritePlans
    BY <1>0, <1>3, <1>6, <2>2 DEF IsLegacy
  <2> QED
    BY <2>1, <2>2
<1> QED
  BY <1>5, <1>6

\* When the plan of a conversation is written, each of its messages has a
\* point keyed by the message.
LEMMA InsertHolds ==
    ASSUME Rekeyable, RekeyInv, NEW c \in Conversations, RewriteInsert(c),
           NEW p \in Legacy, p.id.conversation = c
    PROVE  \E q \in store' : Holds(q, p) /\ q.id.message # NoMessage
<1>0. /\ N \in Nat /\ cursor = N + 1 /\ Mode = "rewrite" /\ TypeInv
      /\ selection \in DOMAIN Archive
  BY RecordType DEF RewriteInsert, Scanned, Planned, RekeyInv, TypeInv, TypeOK
<1>1. PICK i \in 1..N : /\ records[i].conversation = c /\ records[i].message = p.message
                        /\ records[i].stable /\ Accepted(i)
  BY <1>0 DEF Rekeyable, records, N, Accepted
<1>2. legacyCache[c] = "legacy"
  BY DEF RewriteInsert, Planned, RekeyInv
<1>3. i \in Planned(c)
  <2>1. PlannedIfLegacy(i)
    BY <1>0, <1>1 DEF RekeyInv
  <2> QED
    BY <1>1, <1>2, <2>1 DEF PlannedIfLegacy, Planned
<1>4. records[i] \in Record /\ records[i].message # NoMessage
  BY <1>0, RecordType, NamesAssumption DEF Record
<1>5. 1 \in 1..records[i].chunks
  BY <1>1, <1>4 DEF Accepted, Record
<1>6. MemoryId(i, 1).message = p.message /\ MemoryId(i, 1).conversation = c
  BY <1>1 DEF MemoryId
<1>7. MemoryId(i, 1) \in Ids(store')
  <2>1. CASE MemoryId(i, 1) \in Ids(store)
    BY <2>1, UpsertIds DEF RewriteInsert
  <2>2. CASE MemoryId(i, 1) \notin Ids(store)
    <3>1. <<i, 1>> \in PlannedRefs(c)
      BY <1>3, <1>5, <2>2 DEF PlannedRefs, MissingRefs, Missing
    <3>2. Point(i, 1) \in Points(PlannedRefs(c))
      BY <3>1 DEF Points
    <3>3. MemoryId(i, 1) \in Ids(Points(PlannedRefs(c)))
      BY <3>2 DEF Ids, Point
    <3> QED
      BY <3>3, UpsertIds DEF RewriteInsert
  <2> QED
    BY <2>1, <2>2
<1>8. PICK q \in store' : q.id = MemoryId(i, 1)
  BY <1>7 DEF Ids
<1>9. q.message = q.id.message
  <2>1. [Next]_vars
    BY DEF Next, Step
  <2> QED
    BY <1>1, <1>4, <1>6, <1>8, <2>1, KeyedByMessage
<1> QED
  BY <1>1, <1>4, <1>6, <1>8, <1>9 DEF Holds

LEMMA NextRekey ==
    ASSUME Rekeyable, Mode = "rewrite" => ~Journaled, RekeyInv, [Next]_vars
    PROVE  RekeyInv'
<1>0. /\ TypeInv /\ TypeInv' /\ N \in Nat /\ cursor \in 1..(N + 1)
      /\ \A q \in store' : q.id.message # NoMessage => q.message = q.id.message
      /\ \A refs : refs \subseteq (1..N) \X (Nat \ {0}) =>
            Points(refs) \subseteq Points((1..N) \X (Nat \ {0}))
  BY NextType, RecordType, KeyedByMessage DEF RekeyInv, TypeInv, TypeOK, Points
<1>1. CASE UNCHANGED vars
  BY <1>0, <1>1
  DEF vars, disk, scanVars, workVars, RekeyInv, RekeyPreservesMessages,
      PlannedIfLegacy, records, Accepted
<1>2. ASSUME NEW s \in DOMAIN Archive, Start(s) PROVE RekeyInv'
  <2>1. cursor' = 1 /\ rewritePlans' = {} /\ pc' = "scan" /\ store' = store
    BY <1>2 DEF Start, disk, workVars, RekeyInv, TypeInv
  <2>2. RekeyPreservesMessages'
    BY <2>1 DEF RekeyInv, RekeyPreservesMessages
  <2>3. Mode = "rewrite" => resumeFrom' = 0
    BY <1>2 DEF Start
  <2>4. \A i \in 1..(cursor' - 1) : PlannedIfLegacy(i)'
    BY <2>1
  <2> QED
    BY <1>0, <2>1, <2>2, <2>3, <2>4 DEF RekeyInv
<1>3. CASE SkipRecord
  <2>1. /\ records' = records /\ store' = store /\ pc' = "scan" /\ cursor' = cursor + 1
        /\ UNCHANGED <<resumeFrom, legacyCache, rewritePlans>>
    BY <1>3 DEF SkipRecord, Scanning, disk, workVars, records
  <2>2. Mode = "rewrite" => ~Accepted(cursor)
    BY <1>0, <1>3 DEF SkipRecord, Passed, RekeyInv
  <2>3. Mode = "rewrite" => \A i \in 1..(cursor' - 1) : PlannedIfLegacy(i)'
    BY <1>0, <2>1, <2>2 DEF RekeyInv, PlannedIfLegacy, Accepted
  <2>4. RekeyPreservesMessages'
    BY <2>1 DEF RekeyInv, RekeyPreservesMessages
  <2> QED
    BY <1>0, <2>1, <2>3, <2>4 DEF RekeyInv
<1>4. CASE SkipLegacy \/ PlanRewrite \/ EmbedRecord
  <2>1. LegacyCheck /\ store' = store /\ resumeFrom' = resumeFrom /\ pc' # "rekey"
    BY <1>4 DEF SkipLegacy, PlanRewrite, EmbedRecord, LegacyCheck, disk, Scanning
  <2>2. \/ UNCHANGED rewritePlans /\ ~(Mode = "rewrite" /\ IsLegacy(cursor))
        \/ Mode = "rewrite" /\ IsLegacy(cursor) /\ rewritePlans' = rewritePlans \cup {cursor}
    BY <1>4 DEF SkipLegacy, PlanRewrite, EmbedRecord
  <2>3. /\ Mode = "rewrite" => \A i \in 1..(cursor' - 1) : PlannedIfLegacy(i)'
        /\ \A i \in rewritePlans' : legacyCache'[records'[i].conversation] = "legacy"
    BY <2>1, <2>2, LegacyCheckRekey
  <2>4. RekeyPreservesMessages'
    BY <2>1 DEF RekeyInv, RekeyPreservesMessages
  <2> QED
    BY <1>0, <2>1, <2>2, <2>3, <2>4 DEF RekeyInv
<1>5. CASE UpsertBatch
  <2>1. RekeyPreservesMessages'
    BY <1>0, <1>5, UpsertPreserves DEF UpsertBatch, TypeInv, TypeOK
  <2> QED
    BY <1>0, <1>5, <2>1
    DEF UpsertBatch, scanVars, workVars, RekeyInv, PlannedIfLegacy, records, Accepted
<1>6. CASE Commit
  <2>1. RekeyPreservesMessages'
    BY <1>6 DEF Commit, RekeyInv, RekeyPreservesMessages
  <2> QED
    BY <1>0, <1>6, <2>1
    DEF Commit, scanVars, RekeyInv, PlannedIfLegacy, records, Accepted
<1>7. ASSUME NEW c \in Conversations, RewriteInsert(c) PROVE RekeyInv'
  <2>1. RekeyPreservesMessages'
    BY <1>0, <1>7, PlannedType, UpsertPreserves DEF RewriteInsert, TypeInv, TypeOK
  <2>2. \A p \in Legacy : p.id.conversation = rekeying' =>
           \E q \in store' : Holds(q, p) /\ q.id.message # NoMessage
    BY <1>7, InsertHolds DEF RewriteInsert
  <2>3. Mode = "rewrite"
    BY <1>7 DEF RewriteInsert, Planned, RekeyInv
  <2> QED
    BY <1>0, <1>7, <2>1, <2>2, <2>3
    DEF RewriteInsert, scanVars, RekeyInv, PlannedIfLegacy, records, Accepted
<1>8. CASE RewriteDelete
  <2>1. records' = records /\ UNCHANGED <<cursor, resumeFrom>> /\ pc' = "scan"
        /\ rewritePlans' = rewritePlans \ Planned(rekeying)
        /\ \A d \in Conversations :
              legacyCache'[d] = IF d = rekeying THEN "fresh" ELSE legacyCache[d]
    BY <1>8 DEF RewriteDelete, records, RekeyInv, TypeInv, TypeOK
  <2>2. RekeyPreservesMessages'
    <3> SUFFICES ASSUME NEW p \in Legacy PROVE \E q \in store' : Holds(q, p)
      BY DEF RekeyPreservesMessages, Holds
    <3>1. PICK q \in store : Holds(q, p)
      BY DEF RekeyInv, RekeyPreservesMessages, Holds
    <3>2. CASE p.id.conversation = rekeying
      BY <1>8, <3>2 DEF RewriteDelete, RekeyInv, LegacyPoints
    <3>3. CASE p.id.conversation # rekeying
      BY <1>8, <3>1, <3>3 DEF RewriteDelete, LegacyPoints, Holds
    <3> QED
      BY <3>2, <3>3
  <2>3. \A i \in 1..N : records[i].conversation \in Conversations
    BY <1>0, RecordType DEF TypeInv, TypeOK, Record
  <2>4. ASSUME Mode = "rewrite", NEW i \in 1..(cursor' - 1) PROVE PlannedIfLegacy(i)'
    <3>1. PlannedIfLegacy(i) /\ i \in 1..N
      BY <1>0, <2>1, <2>4 DEF RekeyInv
    <3>2. i \in rewritePlans /\ records[i].conversation # rekeying => i \in rewritePlans'
      BY <2>1 DEF Planned
    <3> DEFINE d == records[i].conversation
    <3>3. d \in Conversations
      BY <2>3, <3>1
    <3>4. legacyCache'[d] = IF d = rekeying THEN "fresh" ELSE legacyCache[d]
      BY <2>1, <3>3
    <3>5. records'[i] = records[i]
      BY <2>1
    <3> QED
      BY <3>1, <3>2, <3>4, <3>5 DEF PlannedIfLegacy, Accepted
  <2>5. ASSUME NEW i \in rewritePlans' PROVE legacyCache'[records'[i].conversation] = "legacy"
    <3>1. i \in rewritePlans /\ records[i].conversation # rekeying /\ i \in 1..N
      BY <2>1, <2>5 DEF Planned, RekeyInv, TypeInv, TypeOK
    <3>2. legacyCache[records[i].conversation] = "legacy"
      BY <3>1 DEF RekeyInv
    <3>3. records'[i] = records[i] /\ records[i].conversation \in Conversations
      BY <2>1, <2>3, <3>1
    <3>4. legacyCache'[records[i].conversation] = "legacy"
      BY <2>1, <3>1, <3>2, <3>3
    <3> QED
      BY <3>3, <3>4
  <2>6. Mode = "rewrite"
    BY <1>8 DEF RewriteDelete, RekeyInv
  <2> QED
    BY <1>0, <2>1, <2>2, <2>4, <2>5, <2>6 DEF RekeyInv
<1>9. CASE IntegrityCheck
  <2>1. RekeyPreservesMessages'
    BY <1>9 DEF IntegrityCheck, disk, RekeyInv, RekeyPreservesMessages
  <2>2. CASE pc' = "remove" /\ UNCHANGED <<scanVars, workVars, countVars>>
    BY <1>0, <1>9, <2>1, <2>2
    DEF IntegrityCheck, disk, scanVars, workVars, RekeyInv, PlannedIfLegacy, records, Accepted
  <2>3. CASE EndRun
    BY <1>0, <2>1, <2>3, EndRunRekey
  <2> QED
    BY <1>9, <2>2, <2>3 DEF IntegrityCheck
<1>10. CASE RemoveJournal \/ Abort
  <2>1. RekeyPreservesMessages'
    BY <1>10 DEF RemoveJournal, Abort, disk, RekeyInv, RekeyPreservesMessages
  <2> QED
    BY <1>0, <1>10, <2>1, EndRunRekey DEF RemoveJournal, Abort
<1>11. CASE FailUpsert
  BY <1>0, <1>11, FailWriteRekey DEF FailUpsert, TypeInv, TypeOK
<1>12. ASSUME NEW c \in Conversations, FailRewrite(c) PROVE RekeyInv'
  BY <1>0, <1>12, PlannedType, FailWriteRekey DEF FailRewrite, TypeInv, TypeOK
<1> QED
  BY <1>1, <1>2, <1>3, <1>4, <1>5, <1>6, <1>7, <1>8, <1>9, <1>10, <1>11, <1>12
  DEF Next, Step

\* Whatever the legacy mode, and wherever its runs are cut short, an import
\* loses no message that a position-keyed point holds, provided the selection
\* still has the message; with a resumed rewrite this is not so.
THEOREM RekeySafety ==
    ASSUME Rekeyable, Mode = "rewrite" => ~Journaled
    PROVE  Spec => []RekeyPreservesMessages
<1>1. Init => RekeyInv
  <2> SUFFICES ASSUME Init PROVE RekeyInv
    OBVIOUS
  <2>1. RekeyPreservesMessages
    BY DEF Init, RekeyPreservesMessages
  <2>2. \A q \in store : q.id.message = NoMessage
    BY LegacyAssumption DEF Init
  <2> QED
    BY <2>1, <2>2, InitType DEF Init, RekeyInv
<1>2. RekeyInv /\ [Next]_vars => RekeyInv'
  BY NextRekey
<1>3. RekeyInv => RekeyPreservesMessages
  BY DEF RekeyInv
<1> QED
  BY <1>1, <1>2, <1>3, PTL DEF Spec

-----------------------------------------------------------------------------
(* The integrity check *)

\* The records of a selection that have ids have them for themselves.
DistinctIds == \A s \in DOMAIN Archive : \A i, j \in 1..Len(Archive[s]) :
    /\ Archive[s][i].accepted /\ Archive[s][j].accepted
    /\ Archive[s][i].stable /\ Archive[s][j].stable
    /\ Archive[s][i].conversation = Archive[s][j].conversation
    /\ Archive[s][i].message = Archive[s][j].message
    => i = j

\* The chunks of accepted records.
ChunkRefs == {r \in (1..N) \X (Nat \ {0}) : Accepted(r[1])}

\* The batch is in no point yet.
Unwritten == Ids(Points(batch)) \cap Ids(store) = {}

\* NoFalseAlarm is not inductive: what is stored, with what waits in the
\* batch, is what the run started from, with what it embedded and deleted.
CountInv ==
    /\ TypeInv
    /\ NoFalseAlarm
    /\ pc = "idle" => chunksEmbedded = 0 /\ legacyPointsDeleted = 0
    /\ pc \notin {"idle", "commit"} =>
          /\ Cardinality(store) + Cardinality(batch) =
                baselineCount + chunksEmbedded - legacyPointsDeleted
          /\ Unwritten
    /\ pc = "commit" =>
          Cardinality(store) = baselineCount + chunksEmbedded - legacyPointsDeleted
    /\ batch \subseteq ChunkRefs
    /\ \A r \in batch : r[1] < cursor /\ r[1] \notin rewritePlans
    /\ \A i \in rewritePlans : i < cursor /\ Accepted(i)

LEMMA IdsAreTheChunks ==
    ASSUME DistinctIds, selection \in DOMAIN Archive,
           NEW r \in ChunkRefs, NEW t \in ChunkRefs,
           MemoryId(r[1], r[2]) = MemoryId(t[1], t[2])
    PROVE  r = t
<1> DEFINE i == r[1] k == r[2] j == t[1] l == t[2]
<1>1. i \in 1..N /\ j \in 1..N /\ Accepted(i) /\ Accepted(j) /\ r = <<i, k>> /\ t = <<j, l>>
  BY DEF ChunkRefs
<1>2. records[i] \in Record /\ records[j] \in Record /\ N \in Nat
  BY <1>1, RecordType
<1>3. records[i].message # NoMessage /\ records[j].message # NoMessage
  BY <1>2, NamesAssumption DEF Record
<1>4. k = l /\ records[i].conversation = records[j].conversation
  BY DEF MemoryId
<1>5. i = j
  <2>1. CASE records[i].stable /\ records[j].stable
    <3>1. records[i].message = records[j].message
      BY <2>1 DEF MemoryId
    <3> QED
      BY <1>1, <1>4, <2>1, <3>1 DEF DistinctIds, records, N, Accepted
  <2>2. CASE ~records[i].stable /\ ~records[j].stable
    BY <2>2 DEF MemoryId
  <2>3. CASE ~(records[i].stable <=> records[j].stable)
    BY <1>3, <2>3 DEF MemoryId
  <2> QED
    BY <2>1, <2>2, <2>3
<1> QED
  BY <1>1, <1>4, <1>5

LEMMA AsManyPoints ==
    ASSUME DistinctIds, selection \in DOMAIN Archive,
           NEW refs, refs \subseteq ChunkRefs, IsFiniteSet(refs)
    PROVE  Cardinality(Points(refs)) = Cardinality(refs) /\ IsFiniteSet(Points(refs))
<1> DEFINE f == [r \in refs |-> Point(r[1], r[2])]
<1>1. \A r, t \in refs : f[r] = f[t] => r = t
  BY IdsAreTheChunks DEF Point
<1>2. f \in Surjection(refs, Points(refs))
  BY DEF Surjection, Points
<1>3. f \in Injection(refs, Points(refs))
  <2>1. f \in [refs -> Points(refs)]
    BY DEF Points
  <2> QED
    BY <1>1, <2>1 DEF Injection, IsInjective
<1>4. Cardinality(Points(refs)) = Cardinality(refs) <=> f \in Injection(refs, Points(refs))
  BY <1>2, FS_Surjection
<1> QED
  BY <1>3, <1>4, FinitePoints

\* Writing chunks that have no point yet adds as many points.
LEMMA WriteCounts ==
    ASSUME DistinctIds, selection \in DOMAIN Archive, IsFiniteSet(store),
           NEW refs, refs \subseteq ChunkRefs, IsFiniteSet(refs),
           Ids(Points(refs)) \cap Ids(store) = {}
    PROVE  Cardinality(Upsert(store, Points(refs))) = Cardinality(store) + Cardinality(refs)
<1>1. Upsert(store, Points(refs)) = store \cup Points(refs)
  BY DEF Upsert, Ids
<1>2. store \cap Points(refs) = {}
  BY DEF Ids
<1>3. Cardinality(Points(refs)) = Cardinality(refs) /\ IsFiniteSet(Points(refs))
  BY AsManyPoints
<1>4. Cardinality(store) \in Nat /\ Cardinality(refs) \in Nat
  BY FS_CardinalityType
<1>5. Cardinality(store \cup Points(refs)) =
         Cardinality(store) + Cardinality(Points(refs)) - Cardinality({})
  BY <1>2, <1>3, FS_Union
<1> QED
  BY <1>1, <1>3, <1>4, <1>5, FS_EmptySet

LEMMA EndRunCount ==
    ASSUME EndRun, TypeInv', outcome' # "mismatch"
    PROVE  CountInv'
BY DEF EndRun, CountInv, NoFalseAlarm
\* The chunks that an existence check finds without a point.
LEMMA MissingIsUnwritten ==
    ASSUME selection \in DOMAIN Archive, NEW i \in 1..N, Accepted(i)
    PROVE  /\ MissingRefs(i) \subseteq ChunkRefs
           /\ Ids(Points(MissingRefs(i))) \cap Ids(store) = {}
           /\ \A r \in MissingRefs(i) : r[1] = i
<1>1. MissingRefs(i) \subseteq (1..N) \X (Nat \ {0})
  BY MissingType
<1>2. \A r \in MissingRefs(i) : r[1] = i /\ MemoryId(r[1], r[2]) \notin Ids(store)
  BY DEF MissingRefs, Missing
<1>3. MissingRefs(i) \subseteq ChunkRefs
  BY <1>1, <1>2 DEF ChunkRefs
<1>4. Ids(Points(MissingRefs(i))) \cap Ids(store) = {}
  BY <1>2 DEF Ids, Points, Point
<1> QED
  BY <1>2, <1>3, <1>4

LEMMA PlannedIsUnwritten ==
    ASSUME selection \in DOMAIN Archive, rewritePlans \subseteq 1..N,
           \A i \in rewritePlans : Accepted(i), NEW c
    PROVE  /\ PlannedRefs(c) \subseteq ChunkRefs
           /\ Ids(Points(PlannedRefs(c))) \cap Ids(store) = {}
           /\ \A r \in PlannedRefs(c) : r[1] \in rewritePlans
<1>1. \A i \in Planned(c) : i \in rewritePlans /\ i \in 1..N /\ Accepted(i)
  BY DEF Planned
<1>2. \A r \in PlannedRefs(c) : \E i \in Planned(c) : r \in MissingRefs(i)
  BY DEF PlannedRefs
<1>3. \A r \in PlannedRefs(c) : MemoryId(r[1], r[2]) \notin Ids(store)
  BY <1>2 DEF MissingRefs, Missing
<1>4. Ids(Points(PlannedRefs(c))) \cap Ids(store) = {}
  BY <1>3 DEF Ids, Points, Point
<1> QED
  BY <1>1, <1>2, <1>4, MissingIsUnwritten

LEMMA InitCount == Init => CountInv
<1> SUFFICES ASSUME Init PROVE CountInv
  OBVIOUS
<1> QED
  BY InitType DEF Init, CountInv, NoFalseAlarm

LEMMA NextCount ==
    ASSUME Unlabelled = {}, DistinctIds, CountInv, [Next]_vars
    PROVE  CountInv'
<1>0. /\ TypeInv /\ TypeInv' /\ N \in Nat /\ cursor \in 1..(N + 1)
      /\ selection \in DOMAIN Archive /\ IsFiniteSet(store) /\ IsFiniteSet(batch)
      /\ Cardinality(store) \in Nat /\ Cardinality(batch) \in Nat
      /\ chunksEmbedded \in Nat /\ legacyPointsDeleted \in Nat /\ baselineCount \in Nat
      /\ rewritePlans \subseteq 1..N
  BY NextType, RecordType, FS_CardinalityType DEF CountInv, TypeInv, TypeOK
<1>1. CASE UNCHANGED vars
  <2>1. records' = records
    BY <1>1 DEF vars, scanVars, records
  <2> QED
    BY <1>0, <1>1, <2>1, SamePoints
    DEF vars, disk, scanVars, workVars, countVars, CountInv, NoFalseAlarm, ChunkRefs,
        Accepted, Unwritten, Ids, N
<1>2. ASSUME NEW s \in DOMAIN Archive, Start(s) PROVE CountInv'
  <2>1. /\ batch' = {} /\ rewritePlans' = {} /\ store' = store /\ pc' = "scan"
        /\ chunksEmbedded' = 0 /\ legacyPointsDeleted' = 0 /\ outcome' = "none"
        /\ baselineCount' = Cardinality(store)
    BY <1>2 DEF Start, disk, workVars, CountInv, TypeInv, CountPoints
  <2>2. Cardinality(batch') = 0 /\ Unwritten'
    BY <2>1, FS_EmptySet DEF Unwritten, Ids, Points
  <2> QED
    BY <1>0, <2>1, <2>2 DEF CountInv, NoFalseAlarm
<1>3. CASE SkipRecord
  <2>1. /\ records' = records /\ cursor' = cursor + 1 /\ pc = "scan" /\ N' = N
        /\ UNCHANGED <<store, pc, batch, rewritePlans, chunksEmbedded,
                        legacyPointsDeleted, baselineCount, outcome>>
    BY <1>3 DEF SkipRecord, Scanning, disk, workVars, countVars, records, N
  <2>2. Unwritten' = Unwritten /\ ChunkRefs' = ChunkRefs
    BY <2>1, SamePoints DEF Unwritten, Ids, ChunkRefs, Accepted
  <2> QED
    BY <1>0, <2>1, <2>2 DEF CountInv, NoFalseAlarm, Accepted, TypeInv, TypeOK
<1>4. CASE SkipLegacy \/ PlanRewrite
  <2>1. /\ records' = records /\ cursor' = cursor + 1 /\ pc = "scan" /\ N' = N
        /\ Accepted(cursor) /\ rewritePlans' \subseteq rewritePlans \cup {cursor}
        /\ UNCHANGED <<store, pc, batch, chunksEmbedded,
                        legacyPointsDeleted, baselineCount, outcome>>
    BY <1>4 DEF SkipLegacy, PlanRewrite, LegacyCheck, Passed, Scanning, disk, records, N
  <2>2. Unwritten' = Unwritten /\ ChunkRefs' = ChunkRefs
    BY <2>1, SamePoints DEF Unwritten, Ids, ChunkRefs, Accepted
  <2>3. \A r \in batch' : r[1] < cursor' /\ r[1] \notin rewritePlans'
    BY <1>0, <2>1 DEF CountInv, ChunkRefs
  <2>4. \A i \in rewritePlans' : i < cursor' /\ Accepted(i)'
    BY <1>0, <2>1 DEF CountInv, Accepted
  <2> QED
    BY <1>0, <2>1, <2>2, <2>3, <2>4 DEF CountInv, NoFalseAlarm
<1>5. CASE EmbedRecord
  <2> DEFINE new == MissingRefs(cursor)
  <2>1. /\ records' = records /\ cursor' = cursor + 1 /\ pc = "scan" /\ N' = N
        /\ pc' \in {"scan", "flush"} /\ cursor \in 1..N /\ Accepted(cursor)
        /\ batch' = batch \cup new
        /\ chunksEmbedded' = chunksEmbedded + Cardinality(new)
        /\ UNCHANGED <<store, rewritePlans, legacyPointsDeleted, baselineCount, outcome>>
    BY <1>0, <1>5
    DEF EmbedRecord, EmbeddedCount, LegacyCheck, Passed, Scanning, disk, records, N
  <2>2. /\ new \subseteq ChunkRefs /\ Ids(Points(new)) \cap Ids(store) = {}
        /\ \A r \in new : r[1] = cursor
    BY <1>0, <2>1, MissingIsUnwritten
  <2>3. IsFiniteSet(new) /\ Cardinality(new) \in Nat
    BY <1>0, <2>1, MissingType, FS_CardinalityType
  <2>4. batch \cap new = {}
    BY <1>0, <2>2 DEF CountInv, ChunkRefs
  <2>5. Cardinality(batch') = Cardinality(batch) + Cardinality(new)
    <3> HIDE DEF new
    <3>1. Cardinality(batch \cup new) =
             Cardinality(batch) + Cardinality(new) - Cardinality(batch \cap new)
      BY <1>0, <2>3, FS_Union
    <3>2. Cardinality(batch \cap new) = 0
      BY <2>4, FS_EmptySet
    <3>3. Cardinality(batch') = Cardinality(batch \cup new)
      BY <2>1
    <3> QED
      BY <1>0, <2>3, <3>1, <3>2, <3>3
  <2>6. Points(batch)' = Points(batch) \cup Points(new)
    BY <2>1, SameIds DEF Points
  <2>7. Unwritten'
    BY <2>1, <2>2, <2>6 DEF Unwritten, CountInv, Ids
  <2>8. ChunkRefs' = ChunkRefs
    BY <2>1 DEF ChunkRefs, Accepted
  <2>9. \A r \in batch' : r[1] < cursor' /\ r[1] \notin rewritePlans'
    BY <1>0, <2>1, <2>2 DEF CountInv, ChunkRefs
  <2>10. \A i \in rewritePlans' : i < cursor' /\ Accepted(i)'
    BY <1>0, <2>1 DEF CountInv, Accepted
  <2>11. Cardinality(store') + Cardinality(batch') =
            baselineCount' + chunksEmbedded' - legacyPointsDeleted'
    BY <1>0, <2>1, <2>3, <2>5 DEF CountInv
  <2> QED
    BY <1>0, <2>1, <2>2, <2>7, <2>8, <2>9, <2>10, <2>11 DEF CountInv, NoFalseAlarm
<1>6. CASE UpsertBatch
  <2>1. /\ records' = records /\ N' = N /\ pc' = "commit" /\ pc \notin {"idle", "commit"}
        /\ store' = Upsert(store, Points(batch))
        /\ UNCHANGED <<cursor, batch, rewritePlans, chunksEmbedded,
                        legacyPointsDeleted, baselineCount, outcome>>
    BY <1>6
    DEF UpsertBatch, Flushing, Scanned, scanVars, workVars, countVars, records, N
  <2>2. Cardinality(store') = Cardinality(store) + Cardinality(batch)
    BY <1>0, <2>1, WriteCounts DEF CountInv, Unwritten
  <2>3. ChunkRefs' = ChunkRefs /\ \A i : Accepted(i)' = Accepted(i)
    BY <2>1 DEF ChunkRefs, Accepted
  <2> QED
    BY <1>0, <2>1, <2>2, <2>3 DEF CountInv, NoFalseAlarm
<1>7. CASE Commit
  <2>1. /\ records' = records /\ N' = N /\ pc' = "scan" /\ pc = "commit" /\ batch' = {}
        /\ UNCHANGED <<store, cursor, rewritePlans, chunksEmbedded,
                        legacyPointsDeleted, baselineCount, outcome>>
    BY <1>7 DEF Commit, scanVars, countVars, records, N
  <2>2. Cardinality(batch') = 0 /\ Unwritten'
    BY <2>1, FS_EmptySet DEF Unwritten, Ids, Points
  <2>3. \A i : Accepted(i)' = Accepted(i)
    BY <2>1 DEF Accepted
  <2> QED
    BY <1>0, <2>1, <2>2, <2>3 DEF CountInv, NoFalseAlarm
<1>8. ASSUME NEW c \in Conversations, RewriteInsert(c) PROVE CountInv'
  <2> DEFINE new == PlannedRefs(c)
  <2>1. /\ records' = records /\ N' = N /\ pc = "scan" /\ pc' = "rekey"
        /\ store' = Upsert(store, Points(new))
        /\ chunksEmbedded' = chunksEmbedded + Cardinality(new)
        /\ UNCHANGED <<cursor, batch, rewritePlans, legacyPointsDeleted,
                        baselineCount, outcome>>
    BY <1>8 DEF RewriteInsert, Scanned, scanVars, records, N
  <2>2. /\ new \subseteq ChunkRefs /\ Ids(Points(new)) \cap Ids(store) = {}
        /\ \A r \in new : r[1] \in rewritePlans
    BY <1>0, PlannedIsUnwritten DEF CountInv
  <2>3. IsFiniteSet(new) /\ Cardinality(new) \in Nat
    BY <1>0, PlannedType, FS_CardinalityType
  <2> HIDE DEF new
  <2>4. Cardinality(store') = Cardinality(store) + Cardinality(new)
    BY <1>0, <2>1, <2>2, <2>3, WriteCounts
  <2>5. Ids(Points(batch)) \cap Ids(Points(new)) = {}
    <3> SUFFICES ASSUME NEW r \in batch, NEW t \in new,
                        MemoryId(r[1], r[2]) = MemoryId(t[1], t[2])
                 PROVE  FALSE
      BY DEF Ids, Points, Point
    <3>1. r \in ChunkRefs /\ t \in ChunkRefs
      BY <2>2 DEF CountInv
    <3>2. r = t
      BY <1>0, <3>1, IdsAreTheChunks
    <3> QED
      BY <2>2, <3>2 DEF CountInv
  <2>6. Ids(store') = Ids(store) \cup Ids(Points(new))
    BY <2>1, UpsertIds
  <2>7. Unwritten'
    BY <2>1, <2>5, <2>6, SamePoints DEF Unwritten, CountInv, Ids
  <2>8. ChunkRefs' = ChunkRefs /\ \A i : Accepted(i)' = Accepted(i)
    BY <2>1 DEF ChunkRefs, Accepted
  <2> QED
    BY <1>0, <2>1, <2>3, <2>4, <2>7, <2>8 DEF CountInv, NoFalseAlarm
<1>9. CASE RewriteDelete
  <2> DEFINE old == LegacyPoints(store, rekeying)
  <2>1. /\ records' = records /\ N' = N /\ pc = "rekey" /\ pc' = "scan"
        /\ store' = store \ old
        /\ legacyPointsDeleted' = legacyPointsDeleted + Cardinality(old)
        /\ rewritePlans' \subseteq rewritePlans
        /\ UNCHANGED <<cursor, batch, chunksEmbedded, baselineCount, outcome>>
    BY <1>9 DEF RewriteDelete, records, N
  <2>2. old \in SUBSET store
    BY DEF LegacyPoints
  <2> HIDE DEF old
  <2>3. IsFiniteSet(old) /\ Cardinality(old) \in Nat
    BY <1>0, <2>2, FS_Subset, FS_CardinalityType
  <2>4. Cardinality(store \ old) = Cardinality(store) - Cardinality(store \cap old)
    BY <1>0, FS_Difference
  <2>5. Cardinality(store') = Cardinality(store) - Cardinality(old)
    <3>1. store \cap old = old
      BY <2>2
    <3> QED
      BY <2>1, <2>4, <3>1
  <2>6. Unwritten'
    BY <2>1, SamePoints DEF Unwritten, CountInv, Ids
  <2>7. ChunkRefs' = ChunkRefs /\ \A i : Accepted(i)' = Accepted(i)
    BY <2>1 DEF ChunkRefs, Accepted
  <2>8. Cardinality(store') + Cardinality(batch') =
            baselineCount' + chunksEmbedded' - legacyPointsDeleted'
    BY <1>0, <2>1, <2>3, <2>5 DEF CountInv
  <2> QED
    BY <1>0, <2>1, <2>6, <2>7, <2>8 DEF CountInv, NoFalseAlarm
<1>10. CASE IntegrityCheck
  <2>1. pc = "scan" /\ batch = {} /\ store' = store
    BY <1>10 DEF IntegrityCheck, Scanned, disk
  <2>2. CountPoints(store) - baselineCount = chunksEmbedded - legacyPointsDeleted
    BY <1>0, <2>1, FS_EmptySet DEF CountInv, CountPoints
  <2>3. /\ outcome' = "ok" /\ pc' = "remove" /\ UNCHANGED <<scanVars, workVars, countVars>>
    BY <1>10, <2>2 DEF IntegrityCheck
  <2>4. records' = records /\ N' = N
    BY <2>3 DEF scanVars, records, N
  <2>5. Unwritten' /\ ChunkRefs' = ChunkRefs /\ \A i : Accepted(i)' = Accepted(i)
    BY <2>1, <2>3, <2>4, SamePoints
    DEF workVars, Unwritten, CountInv, Ids, ChunkRefs, Accepted
  <2> QED
    BY <1>0, <2>1, <2>3, <2>4, <2>5
    DEF scanVars, workVars, countVars, CountInv, NoFalseAlarm
<1>11. CASE RemoveJournal \/ Abort \/ FailUpsert
  BY <1>0, <1>11, EndRunCount
  DEF RemoveJournal, Abort, FailUpsert, FailWrite, CountInv, NoFalseAlarm
<1>12. ASSUME NEW c \in Conversations, FailRewrite(c) PROVE CountInv'
  BY <1>0, <1>12, EndRunCount DEF FailRewrite, FailWrite, CountInv, NoFalseAlarm
<1> QED
  BY <1>1, <1>2, <1>3, <1>4, <1>5, <1>6, <1>7, <1>8, <1>9, <1>10, <1>11, <1>12
  DEF Next, Step

\* The integrity check reports no mismatch for an import that went as it
\* should, whatever partial writes, kills and checkpoints came before it, in
\* every legacy mode: the counts taken around a run agree with what it did.
THEOREM IntegritySafety ==
    ASSUME Unlabelled = {}, DistinctIds
    PROVE  Spec => []NoFalseAlarm
<1>1. Init => CountInv
  BY InitCount
<1>2. CountInv /\ [Next]_vars => CountInv'
  BY NextCount
<1>3. CountInv => NoFalseAlarm
  BY DEF CountInv
<1> QED
  BY <1>1, <1>2, <1>3, PTL DEF Spec
=============================================================================
