----------------------------- MODULE StatsCache -----------------------------
(***************************************************************************)
(* GET /memory/stats: the answers the server keeps (routes_memory.go), and *)
(* under them, in the store, the unfiltered aggregation and the distinct   *)
(* values of a field (qdrant.go).  A filtered answer counts the distinct   *)
(* values one request at a time, and then keeps those it found as the      *)
(* distinct values, for a lifetime that starts anew.                       *)
(*                                                                         *)
(* One field stands for the four: each has its own values.  A count is     *)
(* abstracted to whether it is zero.  How the samples are read is in       *)
(* CollectionScan; here one is a step, and not capped.                     *)
(***************************************************************************)
EXTENDS Integers, FiniteSets

CONSTANTS
    Kinds,       \* values of the field
    Filters,     \* filters a request can have
    FirstStocks, \* what the collection may hold at first
    StatsCalls,  \* requests that can be under way at once
    FieldTTL,    \* lifetime of what the store keeps (two minutes)
    AnswerTTL,   \* lifetime of what the server keeps (45 seconds)
    Fallback,    \* whether the store answers from the process when Qdrant is away
    MaxTime,     \* bound of the clock
    MaxStirs     \* bound: writes to the collection, and requests to it that fail

All == "all"              \* no filter: every point matches
Stocked == {s \in SUBSET (Filters \cup {All}) : s # {} => All \in s}

ASSUME StatsAssumption ==
    /\ {FieldTTL, AnswerTTL, MaxTime, MaxStirs} \subseteq Nat
    /\ Fallback \in BOOLEAN
    /\ FirstStocks \subseteq [Kinds -> Stocked]

VARIABLES
    time,
    stock,       \* kind -> the filters its points match; no point has a kind that matches none
    fields,      \* what the store keeps: the distinct values
    aggregate,   \* what the store keeps: the unfiltered aggregation
    statsCache,  \* what the server keeps: filter -> answer
    asks,        \* the requests under way, and their answers
    stirs,       \* writes and failures so far
    stirred      \* the last time a request ended, failed, or the collection changed

statsVars == <<time, stock, fields, aggregate, statsCache, asks, stirs, stirred>>

NoEntry == [kinds |-> {}, expiresAt |-> -1]
NoAsk == [at |-> "none"]

-----------------------------------------------------------------------------
\* Mutant: the lifetime is written down and never looked at.
NeverStale(entry) == entry # NoEntry
Fresh(entry) == entry # NoEntry /\ time <= entry.expiresAt
KeptFor(kinds, ttl) == [kinds |-> kinds, expiresAt |-> time + ttl]
Matching(filter) == {k \in Kinds : filter \in stock[k]}

StatsInit ==
    /\ time = 0 /\ stirs = 0 /\ stirred = -1
    /\ stock \in FirstStocks
    /\ fields = NoEntry /\ aggregate = NoEntry
    /\ statsCache = [f \in Filters \cup {All} |-> NoEntry]
    /\ asks = [c \in StatsCalls |-> NoAsk]

\* What happens in the collection or to another request reaches every request
\* under way: none of them is calm any more.
Stir(others) ==
    [c \in StatsCalls |-> IF c \in others /\ asks[c] # NoAsk
                          THEN [asks[c] EXCEPT !.calm = FALSE] ELSE asks[c]]
Calm == /\ \A c \in StatsCalls : asks[c] = NoAsk
        /\ stirred = -1 \/ time > stirred + FieldTTL + AnswerTTL
Ended(c, how, kinds) ==
    asks' = [asks EXCEPT ![c] = [@ EXCEPT !.at = how, !.found = kinds]]

handleMemoryStats(c, filter) ==
    /\ asks[c] = NoAsk
    /\ asks' = [Stir(StatsCalls) EXCEPT ![c] =
                   [at |-> IF Fresh(statsCache[filter]) THEN "answered" ELSE "total",
                    filter |-> filter, calm |-> Calm, left |-> {},
                    found |-> IF Fresh(statsCache[filter]) THEN statsCache[filter].kinds ELSE {}]]
    /\ UNCHANGED <<time, stock, fields, aggregate, statsCache, stirs, stirred>>

\* Stats: the total, and then what the store has kept, if it is fresh.
Total(c) ==
    LET cached == IF asks[c].filter = All THEN aggregate ELSE fields IN
    /\ asks[c].at = "total"
    /\ asks' = [asks EXCEPT ![c] =
          CASE ~Fresh(cached) -> [@ EXCEPT !.at = "scanning"]
            [] Fresh(cached) /\ @.filter = All -> [@ EXCEPT !.at = "counted", !.found = cached.kinds]
            [] OTHER -> [@ EXCEPT !.at = "counting", !.left = cached.kinds]]
    /\ UNCHANGED <<time, stock, fields, aggregate, statsCache, stirs, stirred>>

sampleUnfilteredAggregation(c) ==
    /\ asks[c].at = "scanning" /\ asks[c].filter = All
    /\ aggregate' = KeptFor(Matching(All), FieldTTL)
    /\ asks' = [asks EXCEPT ![c].at = "counted", ![c].found = Matching(All)]
    /\ UNCHANGED <<time, stock, fields, statsCache, stirs, stirred>>

distinctFieldValues(c) ==
    /\ asks[c].at = "scanning" /\ asks[c].filter # All
    /\ fields' = KeptFor(Matching(All), FieldTTL)
    /\ asks' = [asks EXCEPT ![c].at = "counting", ![c].left = Matching(All)]
    /\ UNCHANGED <<time, stock, aggregate, statsCache, stirs, stirred>>

\* aggregateDistinctFieldCounts, a value at a time.
CountKind(c, k) ==
    /\ asks[c].at = "counting" /\ k \in asks[c].left
    /\ asks' = [asks EXCEPT ![c].left = @ \ {k},
                            ![c].found = IF k \in Matching(asks[c].filter) THEN @ \cup {k} ELSE @]
    /\ UNCHANGED <<time, stock, fields, aggregate, statsCache, stirs, stirred>>

rememberDistinctFieldValues(kinds) ==
    IF kinds = {} THEN fields ELSE KeptFor(kinds, FieldTTL)
Counted(c) ==
    /\ asks[c].at = "counting" /\ asks[c].left = {}
    /\ fields' = rememberDistinctFieldValues(asks[c].found)
    /\ asks' = [asks EXCEPT ![c].at = "counted"]
    /\ UNCHANGED <<time, stock, aggregate, statsCache, stirs, stirred>>

\* setCachedMemoryStats, and the answer.
Respond(c) ==
    /\ asks[c].at = "counted"
    /\ statsCache' = [statsCache EXCEPT ![asks[c].filter] = KeptFor(asks[c].found, AnswerTTL)]
    /\ Ended(c, "answered", asks[c].found)
    /\ UNCHANGED <<time, stock, fields, aggregate, stirs, stirred>>

\* A request to Qdrant fails or the time for the answer is over: an answer
\* that was kept is given, however old.  When the total fails and there is a
\* fallback, that answers, and the server keeps its answer like any other.
QdrantFails(c) ==
    LET filter == asks[c].filter
        kept == statsCache[filter]
    IN  /\ asks[c].at \in {"total", "scanning", "counting"} /\ stirs < MaxStirs
        /\ stirs' = stirs + 1 /\ stirred' = time
        /\ asks' = [Stir(StatsCalls) EXCEPT ![c] =
              CASE asks[c].at = "total" /\ Fallback ->
                       [asks[c] EXCEPT !.at = "counted", !.found = {}, !.calm = FALSE]
                [] kept # NoEntry /\ ~(asks[c].at = "total" /\ Fallback) ->
                       [asks[c] EXCEPT !.at = "stale", !.found = kept.kinds, !.calm = FALSE]
                [] OTHER -> [asks[c] EXCEPT !.at = "refused", !.calm = FALSE]]
        /\ UNCHANGED <<time, stock, fields, aggregate, statsCache>>

Leave(c) ==
    /\ asks[c].at \in {"answered", "stale", "refused"}
    /\ asks' = [asks EXCEPT ![c] = NoAsk]
    /\ stirred' = time
    /\ UNCHANGED <<time, stock, fields, aggregate, statsCache, stirs>>

\* Points are stored and deleted (the module MemoryApi, and other processes).
Restock ==
    /\ stirs < MaxStirs /\ stirs' = stirs + 1
    /\ \E k \in Kinds, s \in Stocked : s # stock[k] /\ stock' = [stock EXCEPT ![k] = s]
    /\ asks' = Stir(StatsCalls)
    /\ stirred' = time
    /\ UNCHANGED <<time, fields, aggregate, statsCache>>

Pass ==
    /\ time < MaxTime /\ time' = time + 1
    /\ UNCHANGED <<stock, fields, aggregate, statsCache, asks, stirs, stirred>>

StatsNext ==
    \/ \E c \in StatsCalls :
          \/ \E filter \in Filters \cup {All} : handleMemoryStats(c, filter)
          \/ Total(c) \/ sampleUnfilteredAggregation(c) \/ distinctFieldValues(c)
          \/ \E k \in Kinds : CountKind(c, k)
          \/ Counted(c) \/ Respond(c) \/ QdrantFails(c) \/ Leave(c)
    \/ Restock \/ Pass
StatsSpec == StatsInit /\ [][StatsNext]_statsVars

-----------------------------------------------------------------------------
Entries == {fields, aggregate} \cup {statsCache[f] : f \in DOMAIN statsCache}
StatsTypeOK ==
    /\ time \in 0..MaxTime /\ stirs \in 0..MaxStirs /\ stirred \in -1..MaxTime
    /\ stock \in [Kinds -> Stocked]
    /\ \A e \in Entries : e.kinds \subseteq Kinds
    /\ \A c \in StatsCalls :
          asks[c] # NoAsk => asks[c].found \subseteq Kinds /\ asks[c].left \subseteq Kinds

(* Nothing a cache holds outlives it: once the server and the store have     *)
(* been left alone for the lifetimes of both, a request that no other meets, *)
(* no failure and no write, is answered with exactly the kinds that have     *)
(* points for its filter, whatever was counted, narrowed or answered from    *)
(* the process before.                                                       *)
StatsSettle ==
    \A c \in StatsCalls :
        asks[c] # NoAsk /\ asks[c].at = "answered" /\ asks[c].calm =>
            asks[c].found = Matching(asks[c].filter)

(* The counts of a filter are those of the collection, when nothing is       *)
(* written and no request fails: README.md calls them exact.                 *)
FilteredStatsExact ==
    \A c \in StatsCalls :
        asks[c] # NoAsk /\ asks[c].at = "answered" /\ stirs = 0 =>
            asks[c].found = Matching(asks[c].filter)
=============================================================================
