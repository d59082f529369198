------------------------------- MODULE Recall -------------------------------
(***************************************************************************)
(* What a search answers, from the matches to the page: the boost of canon,*)
(* the fusion of two rankings, the collapse of duplicates, the floor, the  *)
(* limit (qdrant.go, recall.go, ranking.go), the canonical-first order and *)
(* the proposals of the review queue (routes_memory.go), and the context   *)
(* pack that is cut from it (context_pack.go).                             *)
(*                                                                         *)
(* Scores are whole numbers; `one` of a result is what stands for 1.0.  A  *)
(* match's similarity is external; what the query has in common with a     *)
(* text, and the length of a text, are numbers of the memory.              *)
(***************************************************************************)
EXTENDS Integers, Sequences, FiniteSets, SequencesExt, FiniteSetsExt

CONSTANTS
    Archives,    \* sets of memories that may be stored: [id, conversation, key, dense, words,
                 \*   lexical, canonical, status, time, size, quote]
    Proposals,   \* candidates of the review queue, in its order, as memories
    Queries,     \* [limit, hybrid, dedupe, perConversation, minScore (percent), rejected,
                 \*   canonicalFirst, proposed, budget, quoteOnly, chronological]
    Similarity,  \* the dense score that stands for 1.0
    QueryWords,  \* words of the query
    RankConstant,\* hybridRankConstant, 60 in the code
    PoolFloor, PoolCap  \* 40 and 200 in the code

\* A memory has an id of its own; of no conversation and of no text are 0.
Memory ==
    [id : Nat, conversation : Nat, key : Nat, dense : Nat, words : Nat, lexical : Nat,
     canonical : BOOLEAN, status : STRING, time : Int, size : Nat, quote : Nat]
Query ==
    [limit : Nat \ {0}, hybrid : BOOLEAN, dedupe : BOOLEAN, perConversation : Nat, minScore : Nat,
     rejected : BOOLEAN, canonicalFirst : BOOLEAN, proposed : BOOLEAN, budget : Nat,
     quoteOnly : BOOLEAN, chronological : BOOLEAN]

ASSUME RecallAssumption ==
    /\ {Similarity, QueryWords, PoolFloor, PoolCap} \subseteq Nat \ {0}
    /\ RankConstant \in Nat
    /\ \A a \in Archives :
          a \subseteq Memory /\ IsFiniteSet(a) /\ \A m, n \in a : m.id = n.id => m = n
    /\ Proposals \in Seq(Memory)
    /\ Queries \subseteq Query

VARIABLES
    archive, query, store,
    stage,       \* which loop the search is in
    visited,      \* how many it has been through
    pool,        \* the matches that were fetched
    ranked,      \* the same in the order of the store
    distinct,    \* the same with one result for a text
    shared,      \* the same with each conversation's share
    found,       \* what the store returns, and the page
    ordered,     \* the page in the order of the pack
    pack         \* the context pack: places in the order

recallVars == <<archive, query, store, stage, visited, pool, ranked, distinct, shared,
                found, ordered, pack>>

-----------------------------------------------------------------------------
\* A set in the order of a relation, and the members of a sequence at some places.
Listed(S, R) ==
    [k \in 1..Cardinality(S) |->
        CHOOSE x \in S : Cardinality({y \in S : <<y, x>> \in R}) = k - 1]
Arrange(s, I, R) == LET order == Listed(I, R) IN [k \in DOMAIN order |-> s[order[k]]]
InTurn(I) == {p \in I \X I : p[1] < p[2]}
Keeping(s, I) == Arrange(s, I, InTurn(I))
Take(n, s) == SubSeq(s, 1, IF n < Len(s) THEN n ELSE Len(s))

\* Scores are compared as fractions.
Exceeds(a, b) == a.score * b.one > b.score * a.one
Better(a, b) ==
    Exceeds(a, b) \/ (~Exceeds(b, a) /\ a.memory.time > b.memory.time)
\* The stable sort by it.
ByScore(s) ==
    {p \in (DOMAIN s) \X (DOMAIN s) :
        \/ Better(s[p[1]], s[p[2]])
        \/ ~Better(s[p[2]], s[p[1]]) /\ p[1] < p[2]}

\* The in-memory store leaves out what is deleted as well.
Hidden == {"rejected", "contradicted", "outdated"}
Excluded(m, hidden) == ~query.rejected /\ m.status \in hidden

\* applyCanonicalBoost: 5/4 for canon, and a factor of the status, in 50ths.
StatusBoost(m) ==
    CASE m.status \in {"approved_by_user", "direct_user_statement"} -> 60
      [] m.status = "inferred_from_sources" -> 54
      [] m.status = "needs_review" -> 49
      [] OTHER -> 50
applyCanonicalBoost(m, score) ==
    score * (IF m.canonical THEN 5 ELSE 4) * StatusBoost(m)
Result(m, score, one) == [memory |-> m, score |-> score, one |-> one, duplicates |-> << >>]
Scored(m, score, full) == Result(m, applyCanonicalBoost(m, score), full * 200)

\* A wider pool for what can only reorder what was fetched.
candidateLimit ==
    IF ~query.hybrid /\ ~query.dedupe /\ query.perConversation = 0 THEN query.limit
    ELSE IF 4 * query.limit < PoolFloor THEN PoolFloor
    ELSE IF 4 * query.limit > PoolCap THEN PoolCap ELSE 4 * query.limit

\* The points a search looks at: Qdrant's, nearest first, or all of the process.
Nearest ==
    {p \in archive \X archive :
        p[1].dense > p[2].dense \/ (p[1].dense = p[2].dense /\ p[1].id < p[2].id)}
ById == {p \in archive \X archive : p[1].id < p[2].id}
LookedAt ==
    IF store = "qdrant" THEN Take(candidateLimit, Listed(archive, Nearest))
    ELSE Listed(archive, ById)
Shown(m) ==
    IF store = "qdrant" THEN ~Excluded(m, Hidden)
    ELSE m.words > 0 /\ ~Excluded(m, Hidden \cup {"deleted"})
Matched(m) ==
    IF store = "qdrant" THEN Scored(m, m.dense, Similarity) ELSE Scored(m, m.words, QueryWords)

\* Reciprocal ranks: the dense one, and the lexical one of a result that has
\* any word of the query.  The best of them stands for 1.0.
RankBy(values, i) ==
    Cardinality({j \in DOMAIN values : values[j] > values[i] \/ (values[j] = values[i] /\ j < i)})
Scores(s) == [i \in DOMAIN s |-> s[i].score]
Lexical(s) == [i \in DOMAIN s |-> s[i].memory.lexical]
Damped(values, i) == RankConstant + RankBy(values, i) + 1
\* Mutant: a result without a word of the query has a lexical rank too.
AllRanked(s, i) ==
    LET dense == Damped(Scores(s), i)
        lexical == Damped(Lexical(s), i)
    IN  Result(s[i].memory, dense + lexical, dense * lexical)
Fused(s, i) ==
    LET dense == Damped(Scores(s), i)
        lexical == Damped(Lexical(s), i)
    IN  IF s[i].memory.lexical = 0 THEN Result(s[i].memory, 1, dense)
        ELSE Result(s[i].memory, dense + lexical, dense * lexical)
FuseHybridResults(s) ==
    LET fused == [i \in DOMAIN s |-> Fused(s, i)]
        sorted == Arrange(fused, DOMAIN fused, ByScore(fused))
    IN  [i \in DOMAIN sorted |->
            [sorted[i] EXCEPT !.score = @ * sorted[1].one, !.one = @ * sorted[1].score]]

Listing == IF store = "process" THEN Arrange(pool, DOMAIN pool, ByScore(pool)) ELSE pool
\* Mutant: the page is cut before the duplicates are collapsed.
CutFirst ==
    Take(query.limit, IF query.hybrid THEN FuseHybridResults(Listing) ELSE Listing)
Ranked ==
    IF query.hybrid THEN Take(query.limit, FuseHybridResults(Listing)) ELSE Listing

SameText(a, b) ==
    a.memory.key # 0 /\ a.memory.key = b.memory.key
      /\ a.memory.conversation = b.memory.conversation
Deduping == query.dedupe \/ query.perConversation > 0
Below(r) == r.score * 100 < query.minScore * r.one
ApplyMinScore(s) == Keeping(s, {i \in DOMAIN s : ~Below(s[i])})

\* What the review queue proposes, behind what was found, when it is asked for.
proposedCandidatesToResults ==
    LET shown == Keeping(Proposals, {i \in DOMAIN Proposals :
                                        ~Excluded(Proposals[i], Hidden) /\ Proposals[i].words > 0})
    IN  [i \in DOMAIN shown |->
            Scored([shown[i] EXCEPT !.canonical = FALSE], shown[i].words, QueryWords)]
CanonFirst(a, b) ==
    IF a.memory.canonical # b.memory.canonical THEN a.memory.canonical ELSE Better(a, b)
ByCanon(s) ==
    {p \in (DOMAIN s) \X (DOMAIN s) :
        \/ CanonFirst(s[p[1]], s[p[2]])
        \/ ~CanonFirst(s[p[2]], s[p[1]]) /\ p[1] < p[2]}
searchWithCanonOptions(kept) ==
    LET all == kept \o IF query.proposed THEN proposedCandidatesToResults ELSE << >>
    IN  ApplyMinScore(Take(query.limit,
            IF query.canonicalFirst THEN Arrange(all, DOMAIN all, ByCanon(all)) ELSE all))

ByTime(s) ==
    {p \in (DOMAIN s) \X (DOMAIN s) :
        LET early == s[p[1]].memory.time late == s[p[2]].memory.time
        IN  early < late \/ (early = late /\ p[1] < p[2])}
packItemCharacters(r) == r.memory.quote + IF query.quoteOnly THEN 0 ELSE r.memory.size

-----------------------------------------------------------------------------
RecallInit ==
    /\ archive \in Archives /\ query \in Queries /\ store \in {"qdrant", "process"}
    /\ stage = "matching" /\ visited = 0
    /\ pool = << >> /\ ranked = << >> /\ distinct = << >> /\ shared = << >>
    /\ found = [kept |-> << >>, results |-> << >>]
    /\ ordered = << >> /\ pack = [used |-> 0, dropped |-> 0, kept |-> << >>]

\* The loop over the points.
Match ==
    /\ stage = "matching" /\ visited < Len(LookedAt)
    /\ visited' = visited + 1
    /\ LET m == LookedAt[visited + 1]
       IN  pool' = IF Shown(m) THEN Append(pool, Matched(m)) ELSE pool
    /\ UNCHANGED <<archive, query, store, stage, ranked, distinct, shared, found, ordered, pack>>
Rank ==
    /\ stage = "matching" /\ visited = Len(LookedAt)
    /\ stage' = "collapsing" /\ visited' = 0
    /\ ranked' = Ranked
    /\ UNCHANGED <<archive, query, store, pool, distinct, shared, found, ordered, pack>>

\* DedupeResults: one result for a text in a conversation, and the ids of the
\* others go with it;
Collapse ==
    /\ stage = "collapsing" /\ visited < Len(ranked)
    /\ visited' = visited + 1
    /\ LET r == ranked[visited + 1]
           same == {i \in DOMAIN distinct : Deduping /\ SameText(distinct[i], r)}
       IN  \/ same = {} /\ distinct' = Append(distinct, r)
           \/ \E i \in same :
                 distinct' = [distinct EXCEPT ![i].duplicates = Append(@, r.memory.id)]
    /\ UNCHANGED <<archive, query, store, stage, pool, ranked, shared, found, ordered, pack>>
Collapsed ==
    /\ stage = "collapsing" /\ visited = Len(ranked)
    /\ stage' = "sharing" /\ visited' = 0
    /\ UNCHANGED <<archive, query, store, pool, ranked, distinct, shared, found, ordered, pack>>
\* and no conversation has more than its share.
CapConversation ==
    /\ stage = "sharing" /\ visited < Len(distinct)
    /\ visited' = visited + 1
    /\ LET r == distinct[visited + 1]
           of == {i \in DOMAIN shared : shared[i].memory.conversation = r.memory.conversation}
           full == query.perConversation > 0 /\ r.memory.conversation # 0
                     /\ Cardinality(of) >= query.perConversation
       IN  shared' = IF full THEN shared ELSE Append(shared, r)
    /\ UNCHANGED <<archive, query, store, stage, pool, ranked, distinct, found, ordered, pack>>

\* The floor, the limit, and what the server makes of what the store returns.
Page ==
    /\ stage = "sharing" /\ visited = Len(distinct)
    /\ stage' = "found" /\ visited' = 0
    /\ found' = LET kept == Take(query.limit, ApplyMinScore(shared))
                IN  [kept |-> kept, results |-> searchWithCanonOptions(kept)]
    /\ UNCHANGED <<archive, query, store, pool, ranked, distinct, shared, ordered, pack>>

\* AssembleContextPack: its order, and the loop that fills it.
Order ==
    /\ stage = "found" /\ stage' = "packing"
    /\ ordered' = IF query.chronological
                  THEN Arrange(found.results, DOMAIN found.results, ByTime(found.results))
                  ELSE found.results
    /\ UNCHANGED <<archive, query, store, visited, pool, ranked, distinct, shared, found, pack>>
Fit ==
    /\ stage = "packing" /\ visited < Len(ordered)
    /\ visited' = visited + 1
    /\ LET cost == packItemCharacters(ordered[visited + 1])
       IN  pack' = IF query.budget > 0 /\ pack.used + cost > query.budget
                   THEN [pack EXCEPT !.dropped = @ + 1]
                   ELSE [pack EXCEPT !.used = @ + cost, !.kept = Append(@, visited + 1)]
    /\ UNCHANGED <<archive, query, store, stage, pool, ranked, distinct, shared, found, ordered>>
RecallNext ==
    Match \/ Rank \/ Collapse \/ Collapsed \/ CapConversation \/ Page \/ Order \/ Fit
RecallSpec == RecallInit /\ [][RecallNext]_recallVars

-----------------------------------------------------------------------------
Kept == found.kept
\* The result of s that has the memory of r; what stands before place i; and
\* that it stands before it.
Has(s, r) == \E k \in DOMAIN s : s[k].memory = r.memory
Ahead(r, i) == \E j \in 1..i - 1 : ranked[j].memory = r.memory
ShareBefore(i) ==
    {k \in DOMAIN shared : /\ Ahead(shared[k], i)
                           /\ shared[k].memory.conversation = ranked[i].memory.conversation}

PageExplained ==
    stage = "found" =>
        /\ \A i \in DOMAIN pool :
             Has(ranked, pool[i]) \/ (query.hybrid /\ Len(ranked) >= query.limit)
        /\ \A i \in DOMAIN ranked :
             \/ Has(Kept, ranked[i])
             \/ Deduping /\ \E d \in DOMAIN distinct :
                   /\ Ahead(distinct[d], i) /\ SameText(distinct[d], ranked[i])
                   /\ ranked[i].memory.id \in ToSet(distinct[d].duplicates)
             \/ /\ query.perConversation > 0 /\ ranked[i].memory.conversation # 0
                /\ Cardinality(ShareBefore(i)) >= query.perConversation
             \/ Below(ranked[i])
             \/ Len(Kept) >= query.limit /\ \A k \in DOMAIN Kept : Ahead(Kept[k], i)
        /\ Len(found.results) <= query.limit
        /\ \A i, j \in DOMAIN Kept :
              i # j => /\ Kept[i].memory.id # Kept[j].memory.id
                       /\ Deduping => ~SameText(Kept[i], Kept[j])
        /\ \A i \in DOMAIN Kept : ~Below(Kept[i]) /\ \A id \in ToSet(Kept[i].duplicates) :
             /\ \A j \in DOMAIN Kept : Kept[j].memory.id # id
             /\ \E m \in archive : m.id = id /\ m.key = Kept[i].memory.key
        /\ query.perConversation > 0 =>
             \A c \in {m.conversation : m \in archive} \ {0} :
                Cardinality({i \in DOMAIN Kept : Kept[i].memory.conversation = c})
                  <= query.perConversation

PackExplained ==
    stage = "packing" /\ visited = Len(ordered) =>
        LET Size(k) == packItemCharacters(ordered[k])
            dropped == DOMAIN ordered \ ToSet(pack.kept)
        IN  /\ Len(ordered) = Len(found.results)
            /\ \A r \in ToSet(found.results) : r \in ToSet(ordered)
            /\ pack.used = MapThenSumSet(Size, ToSet(pack.kept))
            /\ pack.dropped = Cardinality(dropped)
            /\ Len(pack.kept) + pack.dropped = Len(ordered)
            /\ dropped # {} => query.budget > 0
            /\ query.budget > 0 => /\ pack.used <= query.budget
                                   /\ \A k \in dropped : pack.used + Size(k) > query.budget
            /\ \A i, j \in DOMAIN pack.kept : i < j =>
                  /\ pack.kept[i] < pack.kept[j]
                  /\ query.chronological => ordered[pack.kept[i]].memory.time
                                              <= ordered[pack.kept[j]].memory.time

(* Nothing that was recalled disappears without a reason, from the matches   *)
(* to the context pack.  A match that a search does not return was not lost: *)
(* the result that stands for it carries its id, or its conversation had its *)
(* share with better ones, or it is under the floor, or the page is full of  *)
(* what came before it.  And the results it returns are as many as asked for *)
(* at most, none under the floor, no text twice, no conversation over its    *)
(* share.  A pack keeps within its budget and accounts for every result:     *)
(* kept in the order asked for, or dropped because it did not fit with those *)
(* kept before it; none is dropped that fits behind all that were kept.      *)
RecallExplained == PageExplained /\ PackExplained

(* In a hybrid search a memory with none of the words of the query never     *)
(* comes before one that has some (FuseHybridResults), as long as there are  *)
(* no more candidates than one more than the rank constant: 61 in the code,  *)
(* which fetches up to 200.                                                  *)
OverlapFirst ==
    stage = "found" /\ query.hybrid /\ Len(pool) <= RankConstant + 1 =>
        \A i, j \in DOMAIN ranked :
            i < j /\ ranked[j].memory.lexical > 0 => ranked[i].memory.lexical > 0

(* Of the results with one text in a conversation, the one that stands for   *)
(* the others has the highest score (the comment of DedupeResults).          *)
BestOfDuplicates ==
    stage = "found" /\ query.dedupe =>
        \A i \in DOMAIN found.kept, j \in DOMAIN ranked :
            ranked[j].memory.id \in ToSet(found.kept[i].duplicates) =>
                found.kept[i].score >= ranked[j].score
=============================================================================
