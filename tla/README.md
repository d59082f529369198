# FrontPocket: a verification project

FrontPocket keeps a user's conversations as points of a Qdrant collection,
recalls them through an HTTP API, distils them into reviewed "canon" and lets a
research runtime think about them. This directory holds TLA+ models of its
parts, the TLC runs that check them on small instances, and proofs that TLAPS
checks for every instance. Paths below are relative to the repository.

- [The system](#the-system): every component, its state, its operations, what is hard about it
- [The models](#the-models): which module models what, and how to read it against the code
- [The runs](#the-runs): what each checks, with which bounds, and what it shows
- [Fairness](#fairness)
- [The proofs](#the-proofs)
- [Where documents and code disagree](#where-documents-and-code-disagree)
- [What is not modelled](#what-is-not-modelled)
- [What is left](#what-is-left)

To check a run, `tlc -config <run>.cfg <module>`; to check the proofs,
`tlapm <Component>Proofs.tla`. `PROJECT.json` lists the runs, the mutants that
show that each property can fail, the source lines each definition stands for,
the hazards and the theorems.

## The system

### Processes and what they share

```
 frontpocket ingest chatgpt|claude|folder      frontpocket memory-loop ...
        |  journal file                            |  queue file (shared)
        v                                          v
 +-----------------------+   points        +----------------------+
 | Ingestor              |---------------->| Qdrant collections   |
 +-----------------------+                 | memories, minddrill, |
        ^ POST /memory/ingest              | canon, thoughts      |
 +-----------------------+<--------------->+----------------------+
 | API: routes, store,   |                        ^        ^
 | in-memory fallback,   |<---> Redis             |        |
 | session map, queue    |      (search cache,    |   Python cleanup and
 +-----------------------+       sessions)        |   reflection loop
        ^                                         |
 MindDrill page, MCP server            minddrill deepdrill (session file)
```

The API is one long-lived process with a goroutine per request; every command
is a process of its own. They share the Qdrant collections, Redis, and three
kinds of files (journal, review queue, research sessions), with no lock between
processes.

### Components

| Component | State | Operations | What is hard | What makes it correct |
|---|---|---|---|---|
| **Ingest** (`internal/memory/ingest.go`, `resume.go`, `cmd/frontpocket/ingest_*.go`) | the collection; the journal `{LastRecordIndex}`; per run: cursor, batch, legacy cache, rewrite plans, counts | scan a record, flush a batch, commit the checkpoint, rewrite a conversation, integrity check, remove the journal | a run may die between any two steps; a write may be partly applied; the resumed run trusts the journal; legacy points are keyed differently | the checkpoint never covers what is not stored; a reported match means a complete import; retries neither lose nor double anything; re-keying loses no message |
| **Review queue** (`internal/memoryloop/review_queue.go`, `internal/api/routes_canon.go`, `cmd/frontpocket/memory_loop.go`) | a JSON file; a mutex per process; the canonical points | propose, approve, reject, merge, list, get | read-modify-write of a whole file, from several processes; truncation before writing; two stores to keep in step | operations of a process are serial; what the queue calls canonical has its point; every call returns |
| **Memory API** (`internal/api/routes_memory*.go`, `internal/store/qdrant.go`, `internal/memory/recall.go`) | the collection; the in-memory fallback; the search cache | ingest, search, forget, pin, correct, browse, stats, export, context pack | batches that fail in the middle, retried writes whose answer was lost, reads and writes that fall back, a cache in front | "persisted" means in Qdrant; unmarked answers come from the store; the fallback holds what the process inserted; every request is answered |
| **Chat and sessions** (`internal/api/routes_chat.go`, session part of `routes_memory.go`) | session state in Redis with a TTL, and in a map of the process without one; the MindDrill collection | a turn (recall, tool loop, answer, write turn), session get/put/delete | turns of one session overlap; a session is deleted while a turn runs; the two copies expire differently | one turn, one number; a deleted session stays deleted |
| **Memory loop** (`internal/memoryloop/`) | none between runs, but for the queue | harvest pages, cluster, extract, contradict, curate | paging over a collection that others write; filters applied after paging | every matching memory is visited; a run proposes the same ids again |
| **DeepDrill** (`internal/tools/deepdrill*.go`) | per session: branch status, strategy history, low-gain counter, hypotheses | plan, step, run until stable, freeze, reopen | state shared by pointer and changed before calls that fail; termination by several counters | a branch freezes once, with one artifact; it reopens when there is something new |
| **Research sessions** (`internal/tools/minddrill_research.go`) | a map and the JSON file of all sessions | get, put, ledger | the lock covers single calls; each process saves its own map | no session is lost |
| **Cleanup** (`frontpocket/memory_cleanup.py`) | cleaned collection | clean a batch, find duplicates, write | ids derived from hashes that change with the text | a cleaned record follows its source |
| **Reflection** (`frontpocket/reflection_loop.py`) | reflections; flags on the source points | reflect on what is not reflected yet | what is done is read once; several workers | each memory is reflected once |
| **Export parsers** (`internal/memory/chatgpt_import.go`, `claude_import.go`, `chatgpt_parse_checkpoint.go`) | a parse checkpoint | yield records in order | shards, restart in the middle of one | the same records in the same order |
| **Folder import, attachments, captions** (`internal/memory/folder_import.go`, `assets.go`, ..., `caption_cache.go`) | the caption cache file | walk, convert, caption | one temporary file name for all processes | a caption is not lost |
| **Statistics and caches of the store** (`internal/store/qdrant.go`, `qdrant_indexes.go`) | distinct values per field, statistics, query embeddings, each with a TTL | count, aggregate, refresh | a filtered count refreshes an unfiltered cache | counts do not miss values |
| **Ranking, context pack, chunkers** (`internal/memory/`) | none | pure functions | arithmetic at bounds | within budget, nothing twice |
| **Limits and authentication** (`internal/api/middleware_*.go`) | token buckets per key | allow, collect idle buckets | refill arithmetic | never more than the rate allows |
| **Redis client, embedders, chat clients, MCP server, minddrill command, configuration, metrics** | connections only | calls with timeouts | - | modelled by their callers: a value, nothing, or an error |

The hazards of this code, each at its line with the properties that watch it,
are listed in `PROJECT.json` under `hazards`. Those without a property say why.

## The models

Seventeen modules model code; the others instantiate them (`MC...`), state what
they promise (`ResumableImport`, `ReviewRegister`, `DeepDrillBranch`) or prove
something about them (`...Proofs`, with what several of them need of orders in
`OrderLemmas`). In every module a comment
before a definition names the function it stands for when the name does not,
and marks a definition `Mutant` that is only there to break a property.

| Module | Models | Checked by |
|---|---|---|
| `Ingest` | `Ingestor.Ingest`, `rewriteConversation`, `FileJournal`, the CLI's integrity check | `ingest_*` |
| `CanonCandidates`, `ReviewQueue` | the review queue's records, file, mutexes and operations | `queue_*` |
| `MemoryApi` | ingest, search and forget over Qdrant, the fallback and the search cache | `api_*` |
| `DeepDrill`, `DeepDrillModel` | the scheduler of one research branch; provenance, hypotheses, gain, retrieval | `deepdrill*` |
| `CollectionScan` | the eight paged reads of a collection | `services` |
| `StatsCache` | `GET /memory/stats` with its three caches | `services`, `stats_narrowed` |
| `RateLimiter` | the token buckets | `services` |
| `ChatSession` | MindDrill turns and the two copies of a session's state | `services` |
| `ResearchSessions` | the research session store of several processes | `services` |
| `ExportImport`, `ClaudeThreads` | ChatGPT exports with checkpoint and caption cache; the order of Claude's messages | `services` |
| `Recall` | from the matches of a search to the context pack | `services`, `recall_duplicates` |
| `MemoryLoop` | one memory-loop run up to the review queue | `services` |
| `Chunker` | `ChunkText` and `ChunkConversation` | `services` |
| `Reflection` | the reflection workers | `services` |

### Ingest

One execution of the importer is a *run*: `Start` opens the journal and counts
the baseline; the scan takes `SkipRecord`, `SkipLegacy`, `PlanRewrite` or
`EmbedRecord` at each record, in the order of the guards of the loop in
`ingest.go:179-334`; a full batch goes through `UpsertBatch` (the store call of
`flush`) and `Commit` (the journal's rename); the rewrite phase is
`RewriteInsert` and `RewriteDelete` for each planned conversation; then
`IntegrityCheck` and `RemoveJournal`. Only `store` and `lastRecordIndex` outlive
a run: `Abort` (an error return or a kill, between any two steps) and `FailWrite`
(a write of which any part arrived) reset everything else.

Record `i` of the model is `records[i-1]` of the code, and `lastRecordIndex`
is the code's `LastRecordIndex + 1`. A record is its conversation, its message,
whether the source names the message (`stable`), whether it is accepted, and its
number of chunks; a point is its id and the message it holds. Ids follow
`buildMemoryID`: keyed by message if there is an id, by position otherwise. Text,
vectors and metadata are left out. `Archive` gives the records for each
selection of the source, so that the same journal and collection meet an archive
that has changed. `ResumableImport` is what an import promises: settled items
stay settled, the mark covers only settled items and is given up only when
everything is settled.

### Review queue

An operation is `Lock`, `Load` (or `Refuse`, for a file that does not parse or a
candidate that is not there), for an approval `StorePoint` (or `StoreError`),
`Truncate` and `Write`. The two halves of `os.WriteFile` are separate because
another process may read or write in between: `Overlay` is a shorter text laid
over a longer one. `FailWrite` and `Kill` stop an operation half-way. A process
that is killed while it writes leaves the file empty or torn; `load` takes an
empty file for an empty queue, as the code does. A record is its status and the
two fields reviews set. `List` and `Get` change nothing and are left out.
`ReviewRegister` is what the queue promises: operations act at once, and nothing
is approved before its point is stored.

### Memory API

Each client runs one request at a time, as the sequence of calls to Qdrant and
Redis that its handler makes. An ingest is `Check` (`MemoryIDsExist`), `Ensure`
(`ensureCollection`), then one `Send` for each batch; `SendLost` is a timeout or
a broken connection, after which any part of the batch may have arrived and
`doJSONWithTransientRetry` tries again; `SendRefused` is an error that is not
retried. When the write fails for good `FallBack` gives *all* points to the
in-memory store, if there is one, and marks the answer. A search is `Hit` or
`Miss`, then `Query` (with the second look at the fallback when nothing was
found) or `QueryFails`, then `Keep`, which caches the hits. A forget is one call
whose answer may be lost. `Restart` empties the process.

Simplifications: one ingest writes its points with one `Upsert`; every memory
matches the one query (what a search makes of its matches is in `Recall`);
batches are arbitrary parts of the points, which includes those the code forms
in order; the embedder fails together with the call it precedes; admin endpoints
are enabled. Pin and correct are not modelled. Four history variables
(`promise`, `confirmed`, `held`, `reached`) record what was answered and what was
ever stored; no action's guard reads them.

### DeepDrill

`Invoke` is one `minddrill deepdrill run` (or a tool call of the chat): it sets
the number of steps, `MaxIterations` for a run until stable. `DeepDrillPlan` is
`prepareDeepDrillSession` with the choice of uncertainty, question and strategy,
and saves the session; `executeDeepDrillStep` retrieves, updates the hypotheses,
classifies the gain, exhausts or reclassifies, freezes, stores the thoughts and
saves. `StepFails(n)` stops between the kinds of thoughts, with the session not
saved; `Terminal` is the early return of a frozen branch; `Import` lets the
collection grow between any two steps. `prints` are the fingerprints of the
stored thoughts. A source is one record of the collection with the concepts it
carries; a question and a strategy are names; confidences are whole numbers
(1/10000). The arithmetic of tiers, scores and status is in `DeepDrillModel`.
`runDeepDrillStrategy` is the set of what a strategy may retrieve: all that matches
in a collection no larger than the limit of its search (`SearchLimit`), in a larger
one any part of that within the limit, since the ranking decides; the broad search
brings any one source of each document, the expansion the chunks of any source that
supported the first hypothesis.
`DeepDrillBranch` is what the scheduler promises of a branch: work is done on an
open branch, a frozen one is left alone until a request opens it, or unless it
never saw a source of known provenance; the best tier never falls.

### Paged reads

`CollectionScan` has one loop body for the eight scroll loops of the code;
`request.kind` selects the filter, the limit, the cap, what is kept of a page and
why the loop ends, and each kind is an action of its own. Between two pages
`Write` inserts or deletes any point. Pages follow the order of ids and carry the
id of the next point, as Qdrant's scroll does (external).

### Statistics

A request is `handleMemoryStats` (the server's cache), `Total`, one of the two
samples, `CountKind` for each value, `Counted` (which narrows the store's list of
values, as `aggregateDistinctFieldCounts` does) and `Respond`; `QdrantFails`
takes a stale answer or the fallback's. One field stands for the four, a count
for whether it is zero.

### Rate limiter

`Arrive` reads the clock, `allow` runs under the lock, later and perhaps in
another order. Tokens are measured in the ticks that earn them, so that the
floating-point refill is a sum of whole numbers. `since` and `admitted` are
history: they look at an arbitrary period. No relation of burst, rate and idle time is
assumed, as `newRateLimiter` checks none: a bucket may hold more than the idle time
refills, and then gains `Excess` when it is dropped and made anew.

### Chat and research sessions

In `ChatSession` a turn is `Ask`, `ReadState`, `UpsertTurn`, `SaveState`; the state
has a copy in Redis, which expires, fails and is written second, and one in the
process, which a restart loses. Deletion drops the state and then the points.
Sanitized ids may coincide (`Safe`). In `ResearchSessions` each process keeps a
map it loaded from the file at its start; a call copies its session, works on the
copy and puts it back, and a put truncates and rewrites the file. Two calls of one
process may share the array under the ledger: `Overwritten` is what the data race
on it can do, one entry replaced by the other call's.

### Imports

`ExportImport` goes through the conversations of the ChatGPT export, message by
message: `ReadMessage` decides what becomes a record and whether its image needs a
caption, `Captioned` and `SaveCaption` ask for it and save the cache,
`MarkDone` writes the checkpoint. An import may stop anywhere and be started with
another scope. `ClaudeThreads` walks a conversation whose messages name their
parents: `Walk` is one step of the recursive `walk` of `orderClaudeMessages` (the
recursion is the sequence `trail` of the ids it is inside of), `Return` one return,
`Remainder` appends the next of those the walk has not met, and
`ParseClaudeExport` is one round of the loop over the ordered messages. Messages
are places in the export, because an id may be there twice; `byID` keeps the last,
as the code's map does.

### Recall, memory loop, chunker

These three are pipelines. `Recall` goes through the loops of a search a result at a
time: `Match` over the points, `Rank` (the sort and the fusion), `Collapse` and
`CapConversation` over the results, `Page` (floor, limit and what the server adds),
`Order` and `Fit` for the context pack. A sort lists the places of a sequence in the
order of a relation (`Listed`, `Arrange`); of equals the earlier place comes first,
which `sort.Slice` does not promise, but no property depends on it. Scores are exact
fractions; similarity is given with the memory. `MemoryLoop` has one action
per round of the code's loops: `Cluster` makes the next part of a group,
`Extract` and `Build` the next candidate, `Check` and `Curate` pass the next one
through the scout and the curator. A part of a group is a set of places in the
harvest; `sort.Slice` is not stable, so the lines of a summary stand in any order
that the times allow. A memory's project, kind and speaker are numbers, its text
and quote the number of what they say. `Chunker` works on texts of four classes
of characters (`word`, `stop`, `space`, `line`); a chunk is the stretches of text
it was put together from, and `ChunkConversation` puts a window together turn by
turn.

### Reflection

Each worker is a process: `BeginRound` (which drops the collection with
`--from-scratch`, or passes over a drop that fails), `FindTarget`, `CreateTarget`, `get_already_reflected`, then
pages with `ReadSource`, `PickMemory`, and `Reflect`, `ReflectFails` or
`AnswerLost`. Workers divide the memories by `worker_slot`. A worker may die and
be started again, memories may arrive.

### One run for the services

The eleven small services share no state, so `MCServices` is their sum: `part`
says which of them this behaviour is about, and the others keep their initial
state. TLC explores each of them completely, as it would in a run of its own,
and each keeps its own specification and properties.

## The runs

| Run | Question | Instance |
|---|---|---|
| `ingest_skip` | Does a journaled import survive kills and failed writes? Types, `CheckpointCovered`, `MatchMeansImported`, `NoFalseAlarm`, the refinement of `ResumableImport`, `EventuallyImported` | seven records in three conversations: two chunks, a rejected speaker, no ids, a legacy conversation; batches of two; three aborted runs |
| `ingest_rewrite` | Does re-keying keep every message at every moment, and finish? `RekeyPreservesMessages`, `EventuallyRekeyed` | the same archive, no journal, two aborted runs |
| `ingest_reimport` | Does an archive that has grown in the middle keep one point per chunk? `OnePointPerChunk` | the old and the new archive, in any order, two aborted runs |
| `queue_one_process` | Are the operations of one process serial? Types, the refinement of `ReviewRegister`, `CallsReturn` | two callers, two candidates, every operation |
| `queue_faults` | Does an approval keep queue and collection in step when processes share the file and die? `ApprovedIsStored` | the API and a command, one candidate, two faults |
| `api_memory` | Do answers say the truth about durability when calls fail? Types, `PersistedReachedQdrant`, `OutageRecall`, `ComputedIsDurable`, `RequestsAnswered` | two clients, two memories, one retry, one restart, fallback on or off |
| `deepdrill` | Does a branch count its evidence once, keep its record, never go round in circles, and stay frozen? `EvidenceCountedOnce`, `SavedIsOnRecord`, `LowGainUsesUp`, the refinement of `DeepDrillBranch`, `EvidenceKept` | three invocations (forced, with a blocker, with a question, until stable: 25 iterations), four collections, four topics, one import, failure or crash |
| `services` | The seventeen properties below | below |
| `api_forgotten`, `deepdrill_seeds`, `stats_narrowed`, `recall_duplicates` | see [Where documents and code disagree](#where-documents-and-code-disagree) | |

What `services` asks of each part:

| Part | Properties | Instance |
|---|---|---|
| scan | `ScanFindsAll`: a scan that came to the end missed nothing that was there all the while. `NeighborsHaveNoHole`: the neighbours of a chunk are a stretch of its document | every collection of six points, eight kinds, pages of two, a cap of five, two writes between pages |
| stats | `StatsSettle`: once left alone for the lifetimes of both caches, answers are exact | two kinds, one filter, two requests at once, lifetimes of one, one write or failure |
| rate | `NeverOverspent`: no period lets through more than a bucket, what it and the longest wait earn, and the excess of a fresh bucket for each time it can have been dropped | two requests at once, a cost of 2, a burst of 8 of which the idle time of 5 refills only a part, seven ticks, every period |
| chat | `ChatMemoryKept`: an answered turn keeps its points | three sessions of which two have one sanitized id, two turns at once, two faults |
| research | `LedgerAccountsForSources`, `SearchesOnRecord` | two processes, two slots in each, three calls, two crashes |
| export | `ParsedIsWhole`, `DoneIsCaptioned`, `CaptionsStay` | three files with four conversations, four scopes, three captions, two stops or failures |
| claude | `ThreadOrder`: one record for each id, threads whole and in order | three messages in every shape of reply, two with missing or repeated ids |
| recall | `RecallExplained`, `OverlapFirst` | 44 archives of six memories with twins, every combination of the options that interact |
| loop | `FactsSurvive`: what a group says is proposed, and each proposal rests on memories of the harvest. `DirectStatementsAreTheUsers` | every part of eleven notes |
| chunk | `NothingIsCutAway`: no ink and no turn is lost, no chunk is longer than asked | all texts of three and six characters, of twelve about the last fifth; conversations of up to four turns; every small size, overlap and least size |
| reflection | `EachReflectedOnce` | one or two workers, two rounds, five memories, pages of two, one failure or death, one arrival |

Why the bounds are enough. An undisturbed run of `ingest_skip` writes three
batches, and the chunks of one record straddle none, one or two of them depending
on what earlier runs left, so a checkpoint can lag, be exact, or be resumed from
twice; three aborts let a resumed run be cut short, resumed, and cut short again.
A rewrite needs one planned conversation next to one that is not. The queue's
faults concern pairs of operations: two workers give every overlap, and the second
fault meets the file the first one left. In `api_memory` an ingest of two points
is sent as one or two batches, the first of which may have arrived in whole or in
part; with a second client every other request can come in between; one restart
separates what a process held from what it stored. The retry delays of the code
are several; one retry already gives a first, a last and a failed attempt. Soft
forgets change no id and no durability property, and are checked in
`api_forgotten`.

In `deepdrill` the iterations are the code's own bound, three invocations let a
branch freeze, be forced open and freeze again, and the one import or failure can
fall between any two steps. Six points in pages of two give a first, a middle and
a last page, each of which may be without anything to keep; the cap of five falls
inside a page. Seven ticks let a bucket empty, be collected before it is full
again, and be used anew: the gain of a dropped bucket does occur, and a bound without
it is violated there. `RankConstant`, `PoolFloor` and `PoolCap` are small (4, 4, 5
for 60, 40, 200) so that few memories already reach them: the properties speak of
the constants, not of the numbers. Two workers with two rounds suffice to drop a
collection under each other's hands; the number of workers is general in the
proof.

Every property of a passing run has a mutant: a definition of the code changed
the way a plausible mistake would change it (a dropped guard, an index off by
one, a batch that is not emptied, an error that is not looked at), under which
TLC finds the property violated. The mutants are in the modules, each marked
`Mutant`.

Deadlock is checked in `ingest_*`, `queue_*` and `api_*`. The other runs end where
their bounds or their work do, and say `CHECK_DEADLOCK FALSE`.

## Fairness

- `Ingest`: `RunSpec` lets a run that is not cut short go on (`WF(Step)`): one
  goroutine does it all. `RetrySpec` adds that the operator starts the import
  again after each run; without that nothing can be promised of an import that
  was killed. `MaxAborts` bounds how many runs are cut short, so *eventually* a
  run is not.
- `ReviewQueue`: `WF` for a worker inside an operation, and `SF(Lock)` because a
  Go mutex hands itself to a waiter that has waited longer than a millisecond
  (its starvation mode), so a waiting request is not passed over forever.
- `MemoryApi`: `WF` for the next step of each request. Qdrant requests have a
  deadline of 30 s (`internal/store/qdrant.go:54,269`), Redis commands one of 4 s
  (`redis.go:117`), embedders one of 30 s (`internal/embed/http_util.go:19`), so
  each call returns. Nothing is assumed of Qdrant: it may fail forever.
- The other modules state safety only. That a branch of DeepDrill comes to rest
  is bounded by `MaxIterations` in the code itself; what is worth knowing is the
  invariant `LowGainUsesUp`: every run without gain has used something up, a
  strategy that was exhausted for a model or a piece of evidence that was credited.
  The evidence belongs in it: a run finds a second passage of a document that is
  already a source, which changes the model but is no gain.

## The proofs

All theorems hold for every value of the constants that the modules' assumptions
allow: any archive, any batch size, any number of workers, clients, memories,
points, retries and faults.

**`IngestProofs`.** `TypeCorrect`: the types, for all three modes, with
finiteness of the collection and of the planned points, which the counts need.
`CheckpointSafety` and `MatchSafety` are for the modes that delete nothing (skip
and mixed) and runs over one selection; rewrite does break them (see
[below](#known-deviations-that-no-run-shows)), and a journal left by another
selection is not told apart by the code. `CheckpointCovered` is not inductive: at
a commit it needs to know that every record behind the cursor is settled *once the
batch is written* (`Handled`), that in `commit` the batch has been written, that a
run resumed at or below the present checkpoint, and that a cached verdict
"legacy" is still true, which holds because these modes never delete.
`CheckpointInv` is the conjunction. `Refinement` shows from the same invariant
that each step is a step or a stutter of `ResumableImport`: writes settle
(`Settle`), `Commit` advances over settled records (`Advance`), `RemoveJournal`
gives up the mark when everything is settled (`Close`).
The other three are for all modes and speak of what repeated, resumed and killed
imports leave. `ReimportSafety` assumes that the source gives every message an id
and that no legacy points are there: a point is then known by its message
(`KeyedInv`). `RekeySafety` assumes that the selection still has the messages of the
legacy points, with ids (`Rekeyable`), and that a rewrite is not resumed from a
journal, which is where the code can lose one; `RekeyInv` says that a record
behind the cursor is in the plan if its conversation is legacy, and that between
the insertion and the deletion of a conversation both points are there.
`IntegritySafety` assumes labelled points and distinct ids; `CountInv` keeps the
size of the collection in step with the counters through each partial write.

**`ReviewQueueProofs`.** `TypeCorrect`: types and mutual exclusion per process.
`ApprovalSafety`: whatever shares the file or dies, a canonical record has its
point. `ApprovedIsStored` speaks of the file; `ApprovalInv` follows the queue each
worker is going to save, which may lack only the point that is being stored.
`Serial`: with one process and no faults, the file and its lock implement
`ReviewRegister`. The invariant says that what the lock holder loaded is still
what the file holds, that the point of an approval is stored before the save,
and that nobody fills the file while it is truncated; an operation takes effect
at its truncation, from where on `Queue` reads what is being saved.

**`MemoryApiProofs`.** `TypeCorrect` includes the bound on retries.
`PersistedSafety`: to be inductive it needs, of each ingest in progress, that
each memory it vouches for is stored or still to be sent (`Vouched`).
`RecallSafety`: points are held only between `Check` and the end of the ingest
(`Resting`). `ComputedSafety`: from `Durable`, because an unmarked answer lists
only ids of the collection.

**`ServerProofs`, the rate limiter.** `RateTypeCorrect`, and `RateLimited` for every
cost, burst, lifetime and number of keys and requests. The sum of what was let
through and what the bucket still holds is what cannot grow faster than the clock;
`BucketCovered` states it of a key with a bucket, `KeyCovered` of one whose bucket was
collected. Nothing is assumed of the burst: a bucket that was idle has earned a full
one but for `Excess`, which is zero where the idle time refills the burst, and each
drop adds at most that. What has to be shown then is how often a bucket can be
dropped: `DropsPlaced` finds room for n drops in the period, each more than the idle
time after the one before and each in a collection of its own (`FirstDrop` for the
first, `DropsStayPlaced` while time passes), which is the bound of `CanBeDropped`.

**`ServerProofs`, statistics.** `StatisticsSettle` for every set of kinds, filters
and concurrent requests and every pair of lifetimes. No entry of the three caches
outlives both lifetimes (`LifetimesBounded`), counted from the last disturbance
once no request is under way (`PastWhenQuiet`). A calm request starts later than
that and meets no other (`CalmAlone`), so it finds nothing it may use
(`CalmFindsNothing`), and what it has found and what is left to count are together
what the collection holds (`CalmCounts`).

**`ServerProofs`, chat.** `ChatKeepsMemory` for any number of sessions, turns,
restarts, lost answers and expiries. The ids of a turn's points are made from its
number, so two turns with one number overwrite each other: `StateCounts` says
that whatever copy of a session's state will be read next counts every completed
turn, `NumberIsNew` that a turn under way has a number above them all,
`StoredKept` that what a turn has written is still there when it is answered. All
of it is for sessions in which one thing happens at a time (`OneAtATime`), which
the property assumes too: overlapping turns do share a number.

**`ServerProofs`, research.** `ResearchTypeCorrect`, and `LedgerSafety` for any number
of processes, slots, sessions and crashes: `StoredAccounted` says it of every map
and of the file, `CallHolds` of the copies that calls work on, which go back into
the map later, and that the copy of a call that is alone in its process is what
the map holds. `RecordSafety` is the converse, that an answered search stays in the
ledger, under the conditions the property names. `SteadyInv` follows the entry from
the copy of the call that made it (`EntryInCopy`) to the map and the file, and says
that no copy, map or file an overwriting call could save lacks what was recorded
(`CopiesKeep`, `MemoryKeeps`, `FileKeeps`), because calls of such a session come
one after another (`OneCall`) and its process is the only one (`OneProcess`).

**`RetrievalProofs`, scans.** `ScanTypeCorrect`, and `ScanComplete` for every collection,
page size, cap and limit, and any number of writes between the pages.
`ScanFindsAll` speaks of the end; the invariant adds `ReadSoFar`: everything wanted
with an id before the offset has been gathered, and nothing gathered is at or past
it. A step needs two facts about pages: a page holds what comes first, and the next
offset is the least id of what it leaves out (`LeastNatural`). `NeighborsSafety`
follows: everything that was there all the while has been gathered, and the
position of a chunk in its document follows its index, so a chunk between two of
the window is in it (`NoHole`).

**`RetrievalProofs`, reflection.** `ReflectedOnce`, for any number of workers, rounds,
limits, memories and mishaps. `WorkerHolds` says of each worker what lies before it
(`ToDo`), that nothing of its slot that was there when it began is missing from
both the target and what lies before it, unless it had an error or the collection
was dropped (`LeavesNone`), and that what lies before it was reflected at most
once for each drop it has seen (`HasYet`), which holds because no other worker has
the slot. `Counted` ties the number of reflections to the target.

**`RetrievalProofs`, recall.** `NothingIsLost` and `OverlapComesFirst`, for any memories,
proposals, queries and constants. `RecallInv` says of each stage what it has made
of the one before: the matches are fetched once each (`Fetched`); the ranking is
the matches in another order, cut only when it is full (`RankedFrom`); the
collapsed results are drawn from the ranking in turn (`Drawn`), and whatever is not
among them has one that stands for it, before it, with its id (`CollapsedFrom`); a
conversation that lacks a result had its share before it (`SharedFrom`); and the
sum, the order and the drops of the pack so far (`Packed`). `PageIs` puts the first
four together into a reason for each place of the ranking. That a sort rearranges
and loses nothing is `ArrangeAll`: a strict order of a finite set lists it
(`ListedIs`), and a stable sort by a comparison that is a weak order is one
(`StableOrder`); comparisons of fractions are (`BetterBetween`). For
`OverlapComesFirst` the two reciprocal ranks of a result with a word of the query
are together more than any single one (`OverlapWins`): with so few candidates each
of them is more than half of the best there is (`TwoRanks`). `PackSum` shows that the fold of the
property is the sum of `OrderLemmas`.

**`DeepDrillProofs`.** `SavedSafety`, for any collection, hypotheses, requests and
disturbances: a step stores its thoughts before the session is saved, thoughts are
never lost, and a failed step saves nothing, so the history never gets ahead of
what is stored. `BranchRefinement` maps the branch status, the length of the
history and the rank of the best tier to `DeepDrillBranch`. It needs
`PlanIsSaved`: the question of a plan is the one that was saved with it, so a
frozen branch is never reopened for its question.
`EvidenceSafety`: the confidence of a hypothesis is what the sources it was
credited with weigh, each once (`Weighed`), for a collection of any size and whatever
part of it each retrieval brings. Evidence arrives in any order and the confidence is
clamped after each, so it is no function of the evidence alone: `EvidenceCountedOnce`
bounds it by what the clamps can cut off, all support above 1 and all counterevidence
below 0, and where neither leaves the range by itself the two bounds are one value. The
bounds are inductive under a clamped update (`UpdateFacts`). The hypotheses are known by their ids
(distinct, and those of the seeds), not by their places, because every update
sorts them: `RerankSorts` shows that the sort is a permutation into the order of
the ranks, from the places of `OrderLemmas`. That the confidence grows by what is new
is a sum over a finite set; `SumAdds` of `OrderLemmas` is its law, by the least set
that would break it.
`EvidenceStays` (nothing credited is forgotten) and `NoCircles` (`LowGainUsesUp`)
assume `Unseeded`: no invocation names the hypotheses anew, which starts the
session from its seeds and is the finding of `deepdrill_seeds`. For `NoCircles`
a run without gain must exhaust a strategy that was not exhausted for this
model: the plan's strategy was not (`LowInv`); and what was exhausted at one tier is
not exhausted again at another, since tiers do not fall (`TiersBelow`); where the
leading hypothesis has changed, evidence was credited, since the hypotheses are in
the order of their ranks (`RankedSince`).

**`ImportProofs`, the ChatGPT import.** `ParseIsComplete`, `CheckpointIsCaptioned`
and `CaptionsAreKept`, for every export, scope, limit and number of broken-off
attempts. `ExportInv` relates where a parse is (`Placed`: the conversations behind it
that are in its scope are as many as it has counted, which is no more than its
limit) to what it has made of the messages behind it (`RecordsThem`, `InOrder`), to
the captions of their images (`Describing`) and its cache to the file (`Caches`).
The code stops at the limit between two conversations; that this selects the
conversations with fewer than the limit before them is `EarlierCounts`.

**`ImportProofs`, threads.** `ThreadsStayWhole`, for every conversation.
`OrderIn` says what an order and a trail have of each other. What was
ordered after a message on the trail answers it or something that came after it
(`Below`); what is visited and on the trail stands in its order (`TrailIn`); what
the walk has left out answers something on its trail (`LeftIn`), so that with an
empty trail what it has visited is closed under answers and has everything a
thread leads to (`ReachIn`), and circles and strays are just what remains.
`SiblingsIn` keeps what is still to be ordered from being sooner than what was.
`RecordsIn` follows the loop over the order.

**`ImportProofs`, the chunker.** `ChunksAreWhole` for every text, size, overlap, least
size, choice of break points and list of turns. `Laid` says what lies before the
start of the next chunk: all ink is covered, and no stretch reaches behind the end
of the next chunk. That holds although chunks overlap, because the break for a
later start is not an earlier one (`BreakPointsFollow`).

**`ReviewQueueProofs`, the memory loop.** `FactsReachTheReviewer` and
`UsersStatements`, for every harvest, size of a part and order of memories of
one time. Each candidate rests on memories of the harvest with just their
quotes (`RestsOn`: also that it is direct only if they are all the user's, and that
each line of its summary is one of theirs), which every stage keeps although it
rewrites or merges candidates. `SaidBy` carries what a candidate states through the
stages: the first `passed` candidates of one are said by those of the next for the
same project, whether they passed or were dropped as repetitions. The
parts cover the harvest because `Cluster` goes on until nothing is ungrouped.

Model-checked only: liveness (`EventuallyImported`, `EventuallyRekeyed`, `CallsReturn`,
`RequestsAnswered`), because liveness under fairness is out of this prover's reach.

## Where documents and code disagree

Each is a run that TLC ends with a counterexample; `PROJECT.json` quotes the
document.

| Run | What it shows |
|---|---|
| `api_forgotten` | a softly forgotten memory is not excluded from search |
| `deepdrill_seeds` | a run that is given hypotheses seeds them again in every iteration and forgets the evidence of the one before |
| `stats_narrowed` | statistics for one filter narrow the values the next filter counts |
| `recall_duplicates` | without hybrid ranking, the result that stands for its duplicates need not have the highest score |

### Known deviations that no run shows

The models show these too, with other constants than those of the runs:

- A killed `--resume` in rewrite mode is resumed beyond the records that were only
  planned for the rewrite, and reports a match: `MCIngest` with `Mode = "rewrite"`,
  `Journaled = TRUE`, `BatchSize = 1`, `MaxAborts = 1`, `Archive <- FullArchive`,
  `Legacy <- LegacyA`, `SPECIFICATION Spec`, `INVARIANT MatchMeansImported`.
- Rewrite deletes all position-keyed points of a conversation, also of messages
  that `--since` left out: `Journaled = FALSE`, `BatchSize = 2`,
  `Archive <- SinceArchive`, `Legacy <- LegacyA`, `RekeyPreservesMessages`.
- Two processes that save the queue at once lose candidates, the mutex being one
  per process: `MCReviewQueue` with `Process <- TwoProcesses`, two candidates,
  `Requests <- Loops`, `MaxFaults = 0`, `PROPERTY CandidatesKept`.
- A rerun of the memory loop proposes the same ids again and undoes the
  reviewer's decision: one candidate, one worker, `Process <- OneProcess`,
  `Requests <- LoopAndReject`, `PROPERTY ReviewsStick`.
- A degraded answer is cached without its mark and served as if it came from the
  store: `MCMemoryApi` with the constants of `api_forgotten`, `UnmarkedIsDurable`.
- A memory without any word of the query can come before one with some in a hybrid
  search, although the comment of `FuseHybridResults` excludes it: with more than
  `RankConstant + 1` candidates (61 in the code, which fetches up to 200), so
  `OverlapFirst` without its bound fails. The hybrid list is also cut to the limit
  before duplicates are collapsed, so a page can be shorter than what was found.
- A chunk may lie wholly inside the one before it (size 3, overlap 2, a sentence
  that ends at 3); it is not lost text, and `NothingIsCutAway` allows it.
- A harvest ends at a page of which the filters leave nothing (`"blank"` in
  `CollectionScan`); `ScanFindsAll` says nothing of it.
- `--from-scratch` with several workers or rounds drops the reflections of the
  others; `EachReflectedOnce` allows for the drops.

## What is not modelled

- **Cleanup** (`frontpocket/memory_cleanup.py`): rules from one record to another,
  one record after the other; a repeated run writes the same points again.
- **Browse, pin, correct, export**: they read, or patch fields that no step of
  recall reads back here.
- **Folder import and file formats**: calls to external programs.
- **Stateless clients**: Redis protocol, embedders, chat clients. A call returns
  a value or an error; both are modelled at the caller.
- **MCP server and `minddrill` web page**: turn one request into another.
- **Output and configuration**: metrics, logs, the mutation log, OpenAPI.
- Within modelled parts: texts, vectors, prompts and answers of models; body limits
  and authentication, which are guards without state; index creation; share and
  feedback signals, Claude's projects and memories; inspection counts and the
  embedding check of the research runtime.

The same list, with reasons, is in `PROJECT.json` under `components`.

## What is left

1. `MemoryApi` composed with `ReviewQueue`, so that an approval can meet the
   in-memory fallback (`internal/api/routes_canon.go:73`), and a queue that keeps
   the stored point and a later rejection together
   (`internal/memoryloop/review_queue.go:111`).
2. Pin and correct as requests of `MemoryApi`, with their audit records.
3. `ExportImport` composed with `Ingest`, so that the selection of a journal is
   part of the picture (`internal/memory/resume.go:83`).
