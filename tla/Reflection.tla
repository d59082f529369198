----------------------------- MODULE Reflection -----------------------------
(***************************************************************************)
(* The reflection loop (frontpocket/reflection_loop.py): workers that page *)
(* through the memories, ask a model about each one nobody has reflected   *)
(* and store what it says in a collection of its own.  The workers are     *)
(* processes that know nothing of each other: they share the two           *)
(* collections, and the slots by which they divide the memories.           *)
(*                                                                         *)
(* What the model answers is left out; it answers, or it fails.            *)
(***************************************************************************)
EXTENDS Integers, FiniteSets

CONSTANTS
    Memories,    \* points: [id, slot, safe, long]; ids are the order of the pages, slot[n]
                 \*   is the slot among n workers
    Commands,    \* [workers, limit, rounds, scratch, review, raw]: how all workers were
                 \*   started; scratch are those with --from-scratch, review is
                 \*   --include-needs-review, raw is --raw-input
    Starts,      \* the source and the target as they may be: [source, target]
    SourcePage,  \* points in a page of the source, 100 in the code
    MaxMishaps,  \* failures, deaths and restarts together
    MaxArrivals  \* memories that come while the workers run

ASSUME ReflectionAssumption ==
    /\ IsFiniteSet(Memories)
    /\ \A m \in Memories : m.id \in Nat \ {0}
    /\ \A m, n \in Memories : m.id = n.id => m = n
    /\ SourcePage \in Nat \ {0}
    /\ \A c \in Commands :
          /\ c.workers \in Nat \ {0} /\ c.limit \in Nat
          /\ \A m \in Memories : m.slot[c.workers] \in 0..c.workers - 1
    /\ \A s \in Starts :
          /\ s.source \subseteq Memories /\ s.target \subseteq Int
          /\ s.target = {0} \/ 0 \notin s.target

VARIABLES
    command,
    source,      \* the points of the source
    target,      \* the ids that have a reflection, or NoCollection
    flagged,     \* the raw points marked as reflected
    worker,      \* each worker
    reflections, \* how often a memory was reflected
    drops,       \* how often the collection was dropped
    mishaps, arrivals

reflectionVars ==
    <<command, source, target, flagged, worker, reflections, drops, mishaps, arrivals>>
given == <<command, source, arrivals>>
collections == <<source, target, flagged, reflections, drops, arrivals, command>>

NoCollection == {0}

-----------------------------------------------------------------------------
\* worker_slot, by the id of the memory; alone, a worker takes everything.
\* Mutant: slots count from one, as the workers do in the output.
slotFromOne(w, m) == m.slot[command.workers] + 1 = w
worker_slot(w, m) == m.slot[command.workers] = w

\* The filter of the pages (by --speaker, which is one for all, and by safety),
\* the check of the loop, and a text that is worth a reflection.
Offered(m) == command.raw \/ command.review \/ m.safe
Worthy(m) == m.long

SoMany(n, S) == {m \in S : Cardinality({k \in S : k.id < m.id}) < n}
Smallest(S) == CHOOSE m \in S : \A k \in S : m.id <= k.id

NewWorker ==
    [at |-> "idle", round |-> 0, skip |-> {}, offset |-> 0, page |-> {}, more |-> TRUE,
     processed |-> 0, errors |-> 0, dropsSeen |-> 0, kept |-> {}]
ReflectionInit ==
    /\ command \in Commands
    /\ \E s \in Starts : source = s.source /\ target = s.target
    /\ flagged = {}
    /\ worker = [w \in 0..command.workers - 1 |-> NewWorker]
    /\ reflections = [m \in Memories |-> 0]
    /\ drops = 0 /\ mishaps = 0 /\ arrivals = 0

Goes(w, from, to) == worker[w].at = from /\ worker' = [worker EXCEPT ![w].at = to]
Mishap == mishaps < MaxMishaps /\ mishaps' = mishaps + 1

\* ensure_target_collection: every round of every worker that was started with
\* --from-scratch drops what there is; a drop that fails is passed over.
BeginRound(w) ==
    /\ worker[w].at = "idle" /\ worker[w].round < command.rounds
    /\ worker' = [worker EXCEPT ![w] =
          [NewWorker EXCEPT !.at = "checking", !.round = worker[w].round + 1]]
    /\ \/ /\ w \in command.scratch
          /\ target' = NoCollection /\ drops' = drops + 1 /\ UNCHANGED mishaps
       \/ w \in command.scratch /\ Mishap /\ UNCHANGED <<target, drops>>
       \/ w \notin command.scratch /\ UNCHANGED <<target, drops, mishaps>>
    /\ UNCHANGED <<given, flagged, reflections>>
FindTarget(w) ==
    /\ Goes(w, "checking", IF target = NoCollection THEN "creating" ELSE "scanning")
    /\ UNCHANGED <<collections, mishaps>>
\* It is an error that the collection is there by now.
CreateTarget(w) ==
    /\ Goes(w, "creating", IF target = NoCollection THEN "scanning" ELSE "dead")
    /\ target' = IF target = NoCollection THEN {} ELSE target
    /\ UNCHANGED <<given, flagged, reflections, drops, mishaps>>

\* get_already_reflected: once a round, and the pages of the source after it.
get_already_reflected(w) ==
    /\ worker[w].at = "scanning"
    /\ worker' = [worker EXCEPT ![w] =
          IF target = NoCollection THEN [@ EXCEPT !.at = "dead"]
          ELSE [@ EXCEPT !.at = "reading", !.skip = target, !.dropsSeen = drops, !.kept = source]]
    /\ UNCHANGED <<collections, mishaps>>

ReadSource(w) ==
    LET rest == {m \in source : m.id >= worker[w].offset /\ Offered(m)}
        page == SoMany(SourcePage, rest)
    IN  /\ worker[w].at = "reading" /\ worker[w].more
        /\ worker' = [worker EXCEPT ![w] =
              [worker[w] EXCEPT !.at = "picking", !.page = {m \in page : m.id \notin worker[w].skip},
                        !.more = rest # page,
                        !.offset = IF rest = page THEN @ ELSE Smallest(rest \ page).id]]
        /\ UNCHANGED <<collections, mishaps>>
\* The next point of the page: past the limit the round ends, what is another
\* worker's or too short is left.
PickMemory(w) ==
    LET m == Smallest(worker[w].page) IN
    /\ worker[w].at = "picking" /\ worker[w].page # {}
    /\ worker' = [worker EXCEPT ![w] =
          IF worker[w].processed >= command.limit THEN [@ EXCEPT !.at = "ended"]
          ELSE IF ~worker_slot(w, m) \/ ~Worthy(m) THEN [worker[w] EXCEPT !.page = @ \ {m}]
          ELSE [@ EXCEPT !.at = "reflecting"]]
    /\ UNCHANGED <<collections, mishaps>>
NextPage(w) ==
    /\ worker[w].page = {}
    /\ Goes(w, "picking", IF worker[w].more THEN "reading" ELSE "ended")
    /\ UNCHANGED <<collections, mishaps>>

Finished(w, key) ==
    worker' = [worker EXCEPT ![w] =
        [worker[w] EXCEPT !.at = "picking", !.page = @ \ {Smallest(@)}, ![key] = @ + 1]]
\* reflect_on_point, upsert_reflection and flag_source_point.  The model may
\* fail, the collection be away, or the answer to the upsert be lost.
Reflect(w) ==
    LET m == Smallest(worker[w].page) IN
    /\ worker[w].at = "reflecting" /\ target # NoCollection
    /\ Finished(w, "processed")
    /\ target' = target \cup {m.id}
    /\ reflections' = [reflections EXCEPT ![m] = @ + 1]
    /\ flagged' \in IF command.raw THEN {flagged, flagged \cup {m.id}} ELSE {flagged}
    /\ UNCHANGED <<given, drops, mishaps>>
ReflectFails(w) ==
    /\ worker[w].at = "reflecting"
    /\ Finished(w, "errors")
    /\ (target = NoCollection /\ UNCHANGED mishaps) \/ Mishap
    /\ UNCHANGED collections
AnswerLost(w) ==
    LET m == Smallest(worker[w].page) IN
    /\ worker[w].at = "reflecting" /\ target # NoCollection /\ Mishap
    /\ Finished(w, "errors")
    /\ target' = target \cup {m.id}
    /\ reflections' = [reflections EXCEPT ![m] = @ + 1]
    /\ UNCHANGED <<given, flagged, drops>>

\* The loop sleeps and goes on; a worker that died is started again.
EndRound(w) ==
    /\ worker[w].round < command.rounds
    /\ Goes(w, "ended", "idle")
    /\ UNCHANGED <<collections, mishaps>>
Die(w) ==
    /\ worker[w].at \notin {"idle", "ended", "dead"} /\ Mishap
    /\ worker' = [worker EXCEPT ![w].at = "dead"]
    /\ UNCHANGED collections
StartAgain(w) ==
    /\ worker[w].at = "dead" /\ Mishap
    /\ worker' = [worker EXCEPT ![w] = NewWorker]
    /\ UNCHANGED collections

\* The cleanup, or an import, stores another memory (external).
MemoryArrives ==
    /\ arrivals < MaxArrivals /\ arrivals' = arrivals + 1
    /\ \E m \in Memories \ source : source' = source \cup {m}
    /\ UNCHANGED <<command, target, flagged, worker, reflections, drops, mishaps>>

ReflectionNext ==
    \/ \E w \in DOMAIN worker :
          \/ BeginRound(w) \/ FindTarget(w) \/ CreateTarget(w) \/ get_already_reflected(w)
          \/ ReadSource(w) \/ PickMemory(w) \/ NextPage(w)
          \/ Reflect(w) \/ ReflectFails(w) \/ AnswerLost(w)
          \/ EndRound(w) \/ Die(w) \/ StartAgain(w)
    \/ MemoryArrives
ReflectionSpec == ReflectionInit /\ [][ReflectionNext]_reflectionVars

-----------------------------------------------------------------------------
Whole(w) ==
    /\ worker[w].at = "ended" /\ worker[w].errors = 0 /\ worker[w].processed < command.limit
    /\ worker[w].dropsSeen = drops

(* Every memory is reflected, and once: when all workers have come through a *)
(* round without an error or the limit, and none has dropped the collection  *)
(* since, all that was there when they began, safe and worth it has its      *)
(* reflection; no memory is reflected twice, by two workers or in two rounds,*)
(* unless the collection was dropped in between; and only what was reflected *)
(* is marked so.                                                             *)
EachReflectedOnce ==
    /\ (\A w \in DOMAIN worker : Whole(w)) =>
          \A m \in Memories :
             (\A w \in DOMAIN worker : m \in worker[w].kept) /\ Offered(m) /\ Worthy(m)
                => m.id \in target
    /\ \A m \in Memories : reflections[m] <= drops + 1
    /\ \A m \in Memories : m.id \in flagged => reflections[m] > 0
=============================================================================
