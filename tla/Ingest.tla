------------------------------- MODULE Ingest -------------------------------
(***************************************************************************)
(* The batched, resumable import of an archive into the Qdrant collection: *)
(* Ingestor.Ingest and rewriteConversation (internal/memory/ingest.go),    *)
(* the FileJournal checkpoint (internal/memory/resume.go) and the end of   *)
(* the two CLI importers that call them (cmd/frontpocket/ingest_*.go).     *)
(*                                                                         *)
(* A run is one execution of `frontpocket ingest chatgpt|claude`.  It may  *)
(* end at any point by an error return or a kill; only the collection      *)
(* (store) and the journal file (lastRecordIndex) outlive it.  Record i of *)
(* the model is records[i-1] of the code, and lastRecordIndex counts       *)
(* records, so it is the code's LastRecordIndex + 1 and 0 stands for -1.   *)
(***************************************************************************)
EXTENDS Integers, Sequences, FiniteSets

CONSTANTS
    Conversations, Messages,
    Archive,      \* Archive[s]: the records that selection s of the source gives
    Legacy,       \* points already stored by binaries that keyed by position
    Unlabelled,   \* those of them the integrity filter does not count
    Mode,         \* --legacy-mode: "skip", "mixed" or "rewrite"
    Journaled,    \* whether --resume is given
    BatchSize,    \* Ingestor.BatchSize
    MaxAborts     \* bound: how many runs end early

VARIABLES
    store,                \* the points of the collection
    lastRecordIndex,      \* the journal file; 0 when there is none
    pc,                   \* where the run is; "idle" between runs
    selection,            \* the selection the run was started with
    cursor,               \* the record the scan looks at next
    resumeFrom,           \* the checkpoint the run started from
    batch,                \* chunks embedded and not yet written: <<record, chunk>>
    rewritePlans,         \* records set aside for rewriteConversation
    rekeying,             \* the conversation rewriteConversation is at
    legacyCache,          \* verdicts of ConversationHasLegacy, per conversation
    chunksEmbedded,       \* chunks embedded by this run
    legacyPointsDeleted,  \* points deleted by this run
    baselineCount,        \* points the integrity filter counted at the start
    outcome,              \* what the last run reported: "none", "ok", "mismatch"
    aborts                \* runs that ended early so far

disk == <<store, lastRecordIndex>>
scanVars == <<selection, cursor, resumeFrom, legacyCache>>
workVars == <<batch, rewritePlans, rekeying>>
countVars == <<chunksEmbedded, legacyPointsDeleted, baselineCount>>
vars == <<disk, pc, scanVars, workVars, countVars, outcome, aborts>>

-----------------------------------------------------------------------------
(* Records, ids and points *)

records == Archive[selection]
N == Len(records)

NoConversation == "no conversation"
NoMessage == "no message"

Record == [conversation : Conversations, message : Messages,
           stable : BOOLEAN,     \* the source gives the message an id
           accepted : BOOLEAN,   \* its speaker is stored, its text is not blank
           chunks : Nat]
PointId == [conversation : Conversations, message : Messages \cup {NoMessage},
            position : Nat, chunk : Nat \ {0}]
PointType == [id : PointId, message : Messages]

ASSUME ArchiveAssumption == \A s \in DOMAIN Archive : Archive[s] \in Seq(Record)
ASSUME NamesAssumption == NoConversation \notin Conversations /\ NoMessage \notin Messages
ASSUME LegacyAssumption ==
    /\ Legacy \subseteq PointType
    /\ IsFiniteSet(Legacy)
    /\ \A p \in Legacy : p.id.message = NoMessage
    /\ \A p, q \in Legacy : p.id = q.id => p = q
    /\ Unlabelled \subseteq Legacy
ASSUME ParameterAssumption ==
    /\ Mode \in {"skip", "mixed", "rewrite"}
    /\ Journaled \in BOOLEAN
    /\ BatchSize \in Nat \ {0}
    /\ MaxAborts \in Nat

\* shouldStoreSpeaker, the blank-text test and the empty chunk list
Accepted(i) == records[i].accepted /\ records[i].chunks > 0

\* Mutant: ids keyed by position, as before stable message ids.
PositionKeyedId(i, k) ==
    [conversation |-> records[i].conversation,
     message |-> NoMessage, position |-> i, chunk |-> k]

\* buildMemoryID: keyed by the message when the source names it, else by position
MemoryId(i, k) ==
    [conversation |-> records[i].conversation,
     message  |-> IF records[i].stable THEN records[i].message ELSE NoMessage,
     position |-> IF records[i].stable THEN 0 ELSE i,
     chunk    |-> k]

Point(i, k) == [id |-> MemoryId(i, k), message |-> records[i].message]
Points(refs) == {Point(r[1], r[2]) : r \in refs}
Ids(points) == {p.id : p \in points}

\* Qdrant replaces the point that has the same id
Upsert(points, new) == {p \in points : p.id \notin Ids(new)} \cup new

\* Mutant: every point of the conversation is listed, not only old ones.
AllPoints(points, c) == {p \in points : p.id.conversation = c}

LegacyPoints(points, c) ==
    {p \in points : p.id.conversation = c /\ p.id.message = NoMessage}
ConversationHasLegacy(points, c) == LegacyPoints(points, c) # {}

\* MemoryIDsExist, complemented: the chunks of record i that have no point
Missing(i) == {k \in 1..records[i].chunks : MemoryId(i, k) \notin Ids(store)}
MissingRefs(i) == {<<i, k>> : k \in Missing(i)}

\* Mutant: the chunks of a record are counted before the existence check.
AllChunks(i) == records[i].chunks

EmbeddedCount(i) == Cardinality(MissingRefs(i))

\* buildCLIIngestIntegrityFilter: what CountPoints sees
CountPoints(points) == Cardinality(points \ Unlabelled)

-----------------------------------------------------------------------------
Init ==
    /\ store = Legacy
    /\ lastRecordIndex = 0
    /\ pc = "idle"
    /\ selection \in DOMAIN Archive
    /\ cursor = 1
    /\ resumeFrom = 0
    /\ batch = {}
    /\ rewritePlans = {}
    /\ rekeying = NoConversation
    /\ legacyCache = [c \in Conversations |-> "unknown"]
    /\ chunksEmbedded = 0
    /\ legacyPointsDeleted = 0
    /\ baselineCount = 0
    /\ outcome = "none"
    /\ aborts = 0

\* The process is gone: everything it held in memory is.
EndRun ==
    /\ pc' = "idle"
    /\ cursor' = 1
    /\ resumeFrom' = 0
    /\ batch' = {}
    /\ rewritePlans' = {}
    /\ rekeying' = NoConversation
    /\ legacyCache' = [c \in Conversations |-> "unknown"]
    /\ chunksEmbedded' = 0
    /\ legacyPointsDeleted' = 0
    /\ baselineCount' = 0
    /\ UNCHANGED selection

\* The CLI opens the journal and counts the baseline before it calls Ingest.
Start(s) ==
    /\ pc = "idle"
    /\ Len(Archive[s]) > 0
    /\ pc' = "scan"
    /\ selection' = s
    /\ resumeFrom' = IF Journaled THEN lastRecordIndex ELSE 0
    /\ baselineCount' = CountPoints(store)
    /\ outcome' = "none"
    /\ UNCHANGED <<disk, cursor, legacyCache, workVars, chunksEmbedded,
                   legacyPointsDeleted, aborts>>

-----------------------------------------------------------------------------
(* The scan over the records *)

Scanning == pc = "scan" /\ cursor <= N

\* Mutant: the resumed run starts one record too late.
PassedOneMore == cursor <= resumeFrom + 1 \/ ~Accepted(cursor)

Passed == cursor <= resumeFrom \/ ~Accepted(cursor)

\* A record below the checkpoint, or one there is nothing to store of.
SkipRecord ==
    /\ Scanning
    /\ Passed
    /\ cursor' = cursor + 1
    /\ UNCHANGED <<disk, pc, selection, resumeFrom, legacyCache, workVars,
                   countVars, outcome, aborts>>

\* Mutant: what the cache does not know is taken for fresh, unasked.
UncheckedVerdict(c) == IF legacyCache[c] # "unknown" THEN legacyCache[c] ELSE "fresh"

\* The legacy guard, asked once per conversation and run, and only about
\* records with a message id.
Verdict(c) ==
    IF legacyCache[c] # "unknown" THEN legacyCache[c]
    ELSE IF ConversationHasLegacy(store, c) THEN "legacy" ELSE "fresh"
IsLegacy(i) == records[i].stable /\ Verdict(records[i].conversation) = "legacy"

LegacyCheck ==
    /\ Scanning
    /\ ~Passed
    /\ legacyCache' = IF records[cursor].stable
                      THEN [legacyCache EXCEPT ![records[cursor].conversation] =
                                Verdict(records[cursor].conversation)]
                      ELSE legacyCache
    /\ cursor' = cursor + 1
    /\ UNCHANGED <<disk, selection, resumeFrom, rekeying, legacyPointsDeleted,
                   baselineCount, outcome, aborts>>

SkipLegacy ==
    /\ LegacyCheck
    /\ Mode = "skip" /\ IsLegacy(cursor)
    /\ UNCHANGED <<pc, batch, rewritePlans, chunksEmbedded>>

PlanRewrite ==
    /\ LegacyCheck
    /\ Mode = "rewrite" /\ IsLegacy(cursor)
    /\ rewritePlans' = rewritePlans \cup {cursor}
    /\ UNCHANGED <<pc, batch, chunksEmbedded>>

\* The chunks that have no point yet are embedded and join the batch; a full
\* batch is written at once.
EmbedRecord ==
    /\ LegacyCheck
    /\ ~(Mode \in {"skip", "rewrite"} /\ IsLegacy(cursor))
    /\ batch' = batch \cup MissingRefs(cursor)
    /\ chunksEmbedded' = chunksEmbedded + EmbeddedCount(cursor)
    /\ pc' = IF Missing(cursor) # {} /\ Cardinality(batch') >= BatchSize
             THEN "flush" ELSE "scan"
    /\ UNCHANGED rewritePlans

-----------------------------------------------------------------------------
(* flush: write the batch, then move the checkpoint *)

Scanned == pc = "scan" /\ cursor > N
Flushing ==
    \/ pc = "flush"
    \/ Scanned /\ rewritePlans = {} /\ batch # {}

UpsertBatch ==
    /\ Flushing
    /\ store' = Upsert(store, Points(batch))
    /\ pc' = "commit"
    /\ UNCHANGED <<lastRecordIndex, scanVars, workVars, countVars, outcome, aborts>>

\* Mutant: the checkpoint counts the record after the one just scanned.
OneAhead == cursor

Through == cursor - 1

\* Mutant: the batch is not emptied after it was written.
CommitKeepsBatch ==
    /\ pc = "commit"
    /\ lastRecordIndex' = IF Journaled /\ Through >= lastRecordIndex
                          THEN Through ELSE lastRecordIndex
    /\ pc' = "scan"
    /\ UNCHANGED <<store, scanVars, workVars, countVars, outcome, aborts>>

\* Commit never moves the checkpoint backwards and replaces the file by a
\* rename, so the file holds the old or the new value.
Commit ==
    /\ pc = "commit"
    /\ batch' = {}
    /\ lastRecordIndex' = IF Journaled /\ Through >= lastRecordIndex
                          THEN Through ELSE lastRecordIndex
    /\ pc' = "scan"
    /\ UNCHANGED <<store, scanVars, rewritePlans, rekeying, countVars, outcome, aborts>>

-----------------------------------------------------------------------------
(* rewriteConversation, for each planned conversation in map order *)

Planned(c) == {i \in rewritePlans : records[i].conversation = c}
PlannedRefs(c) == UNION {MissingRefs(i) : i \in Planned(c)}

RewriteInsert(c) ==
    /\ Scanned
    /\ Planned(c) # {}
    /\ store' = Upsert(store, Points(PlannedRefs(c)))
    /\ chunksEmbedded' = chunksEmbedded + Cardinality(PlannedRefs(c))
    /\ rekeying' = c
    /\ pc' = "rekey"
    /\ UNCHANGED <<lastRecordIndex, scanVars, batch, rewritePlans,
                   legacyPointsDeleted, baselineCount, outcome, aborts>>

\* Every listed point of the conversation whose id has no "_msg_" is deleted.
RewriteDelete ==
    LET old == LegacyPoints(store, rekeying) IN
    /\ pc = "rekey"
    /\ store' = store \ old
    /\ legacyPointsDeleted' = legacyPointsDeleted + Cardinality(old)
    /\ legacyCache' = [legacyCache EXCEPT ![rekeying] = "fresh"]
    /\ rewritePlans' = rewritePlans \ Planned(rekeying)
    /\ rekeying' = NoConversation
    /\ pc' = "scan"
    /\ UNCHANGED <<lastRecordIndex, selection, cursor, resumeFrom, batch,
                   chunksEmbedded, baselineCount, outcome, aborts>>

-----------------------------------------------------------------------------
(* The CLI's integrity check and the end of the run *)

IntegrityCheck ==
    /\ Scanned
    /\ rewritePlans = {} /\ batch = {}
    /\ IF CountPoints(store) - baselineCount = chunksEmbedded - legacyPointsDeleted
       THEN outcome' = "ok" /\ pc' = "remove"
            /\ UNCHANGED <<scanVars, workVars, countVars>>
       ELSE outcome' = "mismatch" /\ EndRun
    /\ UNCHANGED <<disk, aborts>>

RemoveJournal ==
    /\ pc = "remove"
    /\ lastRecordIndex' = IF Journaled THEN 0 ELSE lastRecordIndex
    /\ EndRun
    /\ UNCHANGED <<store, outcome, aborts>>

-----------------------------------------------------------------------------
(* Failures *)

\* An error return (lookup, embedding, timestamp, journal write) or a kill.
Abort ==
    /\ pc # "idle"
    /\ aborts < MaxAborts
    /\ aborts' = aborts + 1
    /\ EndRun
    /\ UNCHANGED <<disk, outcome>>

\* A write that fails, or whose answer is lost, may have stored any part of
\* its points: the store sends them in several requests.
FailWrite(new) ==
    /\ aborts < MaxAborts
    /\ aborts' = aborts + 1
    /\ \E done \in SUBSET new : store' = Upsert(store, done)
    /\ EndRun
    /\ UNCHANGED <<lastRecordIndex, outcome>>

FailUpsert == Flushing /\ FailWrite(Points(batch))
FailRewrite(c) == Scanned /\ Planned(c) # {} /\ FailWrite(Points(PlannedRefs(c)))

-----------------------------------------------------------------------------
Step ==
    \/ SkipRecord
    \/ SkipLegacy
    \/ PlanRewrite
    \/ EmbedRecord
    \/ UpsertBatch
    \/ Commit
    \/ \E c \in Conversations : RewriteInsert(c)
    \/ RewriteDelete
    \/ IntegrityCheck
    \/ RemoveJournal

Next ==
    \/ \E s \in DOMAIN Archive : Start(s)
    \/ Step
    \/ Abort
    \/ FailUpsert
    \/ \E c \in Conversations : FailRewrite(c)

Spec == Init /\ [][Next]_vars

\* Ingest is one goroutine: a run that is neither killed nor failed goes on.
RunSpec == Spec /\ WF_vars(Step)

\* In addition the operator starts the import again after every run.
RetrySpec == RunSpec /\ \A s \in DOMAIN Archive : WF_vars(Start(s))
-----------------------------------------------------------------------------
(* Properties *)

RecordIndices == UNION {1..Len(Archive[s]) : s \in DOMAIN Archive}
\* The types of the variables, and what each place of a run implies of them.
TypeOK ==
    /\ store \subseteq PointType
    /\ lastRecordIndex \in RecordIndices \cup {0}
    /\ pc \in {"idle", "scan", "flush", "commit", "rekey", "remove"}
    /\ selection \in DOMAIN Archive
    /\ cursor \in 1..(N + 1)
    /\ resumeFrom \in RecordIndices \cup {0}
    /\ batch \subseteq (1..N) \X (Nat \ {0})
    /\ rewritePlans \subseteq 1..N
    /\ rekeying \in Conversations \cup {NoConversation}
    /\ legacyCache \in [Conversations -> {"unknown", "legacy", "fresh"}]
    /\ chunksEmbedded \in Nat
    /\ legacyPointsDeleted \in Nat
    /\ baselineCount \in Nat
    /\ outcome \in {"none", "ok", "mismatch"}
    /\ aborts \in Nat

\* In "skip" mode the guard leaves alone what sits in a legacy conversation.
Excused(i) ==
    /\ Mode = "skip"
    /\ records[i].stable
    /\ ConversationHasLegacy(store, records[i].conversation)

\* Record i needs nothing more from the import.
Settled(i) ==
    (i <= N /\ Accepted(i)) =>
        \/ \A k \in 1..records[i].chunks : MemoryId(i, k) \in Ids(store)
        \/ Excused(i)

\* The journal never runs ahead of the collection: whatever a resumed run is
\* going to pass over is stored, or was left alone on purpose, whichever
\* writes failed half-way and wherever earlier runs were killed.
CheckpointCovered == \A i \in 1..lastRecordIndex : Settled(i)

\* A run that reports a match (and then gives up its journal) has stored
\* every record of the archive, whatever happened to the runs before it.
MatchMeansImported == outcome = "ok" => \A i \in 1..N : Settled(i)

\* Partial writes, retries and resumed runs never make the integrity check
\* report a mismatch when every record has an id of its own and the filter
\* counts every point.
NoFalseAlarm == outcome # "mismatch"

\* Re-importing the archive, updated or not, gives no chunk a second point.
OnePointPerChunk ==
    \A p, q \in store :
        /\ p.message = q.message
        /\ p.id.conversation = q.id.conversation
        /\ p.id.chunk = q.id.chunk
        => p = q

\* Re-keying a conversation loses none of its messages, at any moment.
RekeyPreservesMessages ==
    \A p \in Legacy : \E q \in store :
        /\ q.message = p.message
        /\ q.id.conversation = p.id.conversation

\* Every run comes to an end, and however many are cut short, repeating the
\* import settles the archive.
EventuallyImported ==
    /\ pc # "idle" ~> pc = "idle"
    /\ <>[](\A i \in 1..N : Settled(i))

\* ... and in "rewrite" mode leaves no position-keyed point behind in the
\* conversations whose messages have ids.
EventuallyRekeyed ==
    <>[](\A i \in 1..N : records[i].stable /\ Accepted(i) =>
            ~ConversationHasLegacy(store, records[i].conversation))

\* The detailed import implements the abstract one: settled are the records
\* with nothing left to do, the mark is the journal's checkpoint.
Abstract == INSTANCE ResumableImport WITH
    Items <- RecordIndices,
    settled <- {i \in RecordIndices : Settled(i)},
    mark <- lastRecordIndex
ImplementsResumableImport == Abstract!Spec
=============================================================================
