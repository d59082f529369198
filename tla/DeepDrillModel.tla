--------------------------- MODULE DeepDrillModel ---------------------------
(***************************************************************************)
(* What a DeepDrill step computes from the evidence a strategy retrieved:  *)
(* provenance tiers (internal/tools/deepdrill_provenance.go), hypothesis   *)
(* scores (deepdrill_hypothesis.go, deepdrill_execute.go), and which       *)
(* sources a strategy can retrieve at all (minddrill_research.go).         *)
(*                                                                         *)
(* A source is one corpus record: its memory id, its document, its kind,   *)
(* the concepts its text carries, whether that text negates or hedges,     *)
(* whether it signals a contradiction, and the keyword searches that match *)
(* it.  Confidences are in units of 1/10000, weights in units of 1/100.    *)
(***************************************************************************)
EXTENDS Integers, SequencesExt

Kinds == {"document", "transcript", "draft", "note", "audio_overview",
          "presentation", "summary", "other"}
Searches == {"question", "markers", "generic"}
Polarities == {"support", "counter", "ambiguous", "none"}

SourceRecord(ids, docs, concepts) ==
    [id : ids, doc : docs, kind : Kinds, filed : BOOLEAN, concepts : SUBSET concepts,
     negated : BOOLEAN, hedged : BOOLEAN, contradicts : BOOLEAN, matches : SUBSET Searches]

-----------------------------------------------------------------------------
(* Provenance.  A title that ends like a document file makes any source raw. *)

provenanceTierForResult(s) ==
    IF s.filed THEN "RAW_SOURCE"
    ELSE [document |-> "RAW_SOURCE", transcript |-> "RAW_TRANSCRIPT",
          draft |-> "VERSIONED_DRAFT", note |-> "DIRECT_NOTE",
          audio_overview |-> "AUDIO_OVERVIEW", presentation |-> "PRESENTATION_SUMMARY",
          summary |-> "DERIVED_SUMMARY", other |-> "UNKNOWN"][s.kind]

provenanceTierWeight(tier) ==
    CASE tier = "RAW_SOURCE" -> 100
      [] tier = "RAW_TRANSCRIPT" -> 90
      [] tier = "VERSIONED_DRAFT" -> 88
      [] tier = "DIRECT_NOTE" -> 80
      [] tier = "DERIVED_SUMMARY" -> 45
      [] tier = "AUDIO_OVERVIEW" -> 42
      [] tier = "PRESENTATION_SUMMARY" -> 40
      [] OTHER -> 25

\* compareSourceTier, as the place of a tier in its order.
TierRank(tier) ==
    CASE tier = "RAW_SOURCE" -> 8
      [] tier = "RAW_TRANSCRIPT" -> 7
      [] tier = "VERSIONED_DRAFT" -> 6
      [] tier = "DIRECT_NOTE" -> 5
      [] tier = "DERIVED_SUMMARY" -> 4
      [] tier = "AUDIO_OVERVIEW" -> 3
      [] tier = "PRESENTATION_SUMMARY" -> 2
      [] OTHER -> 0

isWeakProvenanceTier(tier) ==
    tier \in {"DERIVED_SUMMARY", "AUDIO_OVERVIEW", "PRESENTATION_SUMMARY", "AI_SYNTHESIS"}

SumWeight(items) == MapThenSumSet(LAMBDA s : provenanceTierWeight(provenanceTierForResult(s)), items)

\* The mean is kept as a sum: it is only compared with 0 and with 0.6.
WeakScore(items) == items # {} /\ SumWeight(items) < 60 * Cardinality(items)

TopTier(items) ==
    IF items = {} THEN "UNKNOWN"
    ELSE LET tiers == {provenanceTierForResult(s) : s \in items}
         IN  CHOOSE t \in tiers : \A u \in tiers : TierRank(u) =< TierRank(t)

-----------------------------------------------------------------------------
(* Classification of one source against one hypothesis.                     *)

Relevant(h, s, relations) ==
    LET matches == h.concepts \cap s.concepts
    IN  matches \cap relations # {} \/ 2 * Cardinality(matches) >= Cardinality(h.concepts)

classifyEvidence(h, s, relations) ==
    IF h.concepts = {} \/ s.concepts = {} \/ ~Relevant(h, s, relations) THEN "none"
    ELSE IF s.negated THEN "counter"
    ELSE IF s.hedged THEN "ambiguous"
    ELSE "support"

-----------------------------------------------------------------------------
(* The hypothesis model: a sequence in rank order.                          *)

clamp01(v) == IF v < 0 THEN 0 ELSE IF v > 10000 THEN 10000 ELSE v

\* normalizeHypothesesFromStrings: H1, H2, ... with confidence 0.42, strength 0.2.
SeedHypothesis(id, concepts) ==
    [id |-> id, concepts |-> concepts, confidence |-> 4200, strength |-> 2000,
     status |-> "active", support |-> {}, counter |-> {}, ambiguous |-> {}]

\* As if seen evidence counted again.
MutantUnseenEvidence(seen, items) == items
unseenEvidence(seen, items) == {s \in items : s.id \notin seen}

rankScore(h) == 10 * h.confidence + h.strength

\* sort.SliceStable by score, ties by id.
RankedBefore(g, h, ids) ==
    rankScore(g) > rankScore(h) \/ (rankScore(g) = rankScore(h) /\ ids[g.id] < ids[h.id])
rerankHypotheses(hyps, ids) ==
    [i \in DOMAIN hyps |-> CHOOSE h \in Range(hyps) :
        Cardinality({g \in Range(hyps) : RankedBefore(g, h, ids)}) = i - 1]

UpdateHypothesis(h, evidence, relations) ==
    LET Class(p) == {s \in evidence : classifyEvidence(h, s, relations) = p}
        newSupport == unseenEvidence(h.support, Class("support"))
        newCounter == unseenEvidence(h.counter, Class("counter"))
        newAmbiguous == unseenEvidence(h.ambiguous, Class("ambiguous"))
        net == SumWeight(newSupport) - SumWeight(newCounter)
        Ids(items) == {s.id : s \in items}
    IN  [h EXCEPT !.confidence = clamp01(@ + 6 * net),
                  !.strength = clamp01(@ + 8 * net),
                  !.status = IF newCounter # {} THEN "contested"
                             ELSE IF h.counter = {} THEN "active" ELSE @,
                  !.support = @ \cup Ids(newSupport),
                  !.counter = @ \cup Ids(newCounter),
                  !.ambiguous = @ \cup Ids(newAmbiguous)]

applyModelUpdate(hyps, evidence, relations, ids) ==
    rerankHypotheses([i \in DOMAIN hyps |-> UpdateHypothesis(hyps[i], evidence, relations)], ids)

\* Ranks, statuses, confidences (by 0.01) and evidence; ambiguous evidence is not material.
materialModelChange(before, after) ==
    \E i \in DOMAIN after :
        \/ before[i].id # after[i].id
        \/ before[i].status # after[i].status
        \/ before[i].support # after[i].support
        \/ before[i].counter # after[i].counter
        \/ before[i].confidence - after[i].confidence >= 100
        \/ after[i].confidence - before[i].confidence >= 100

deepDrillModelKey(tier, hyps) == <<tier, [i \in DOMAIN hyps |-> <<hyps[i].id, hyps[i].status>>]>>

scoreInformationGain(frozen, duplicate, evidence, before, after) ==
    IF frozen THEN "HIGH"
    ELSE IF duplicate \/ evidence = {} THEN "LOW"
    ELSE IF materialModelChange(before, after) THEN "HIGH"
    ELSE "MEDIUM"

-----------------------------------------------------------------------------
(* Retrieval.  Semantic search returns whatever is nearest; keyword search  *)
(* the sources that contain a token of its query.  Both return as many as   *)
(* the strategy asks for: of a small collection all that match, of a larger *)
(* one any so many, in whatever order they rank.                            *)

keywordSearch(corpus, query) == {s \in corpus : query \in s.matches}
getDocumentChunks(corpus, document) == {s \in corpus : s.doc = document}

MatchingSources(strategy, corpus, hyps) ==
    CASE strategy \in {"PROVENANCE_PROFILE", "PROVENANCE_TRACE",
                      "SOURCE_TYPE_PROFILE", "SOURCE_COMPARISON"} -> corpus
      [] strategy = "RAW_SOURCE_LOOKUP" -> {s \in corpus : s.kind = "document"}
      [] strategy = "CROSS_DOCUMENT" ->
            \* The ids of evidence are memory ids; exclusion compares documents.
            {s \in corpus : hyps # <<>> => s.doc \notin hyps[1].support}
      [] strategy \in {"KEYWORD_TARGETED", "CHRONOLOGY_TRACE", "TIMESTAMP_TRACE",
                       "SOURCE_SEQUENCE", "VOCABULARY_STRIP"} -> keywordSearch(corpus, "question")
      [] strategy \in {"COUNTEREVIDENCE_SCAN", "COUNTEREVIDENCE_SEARCH"} ->
            keywordSearch(corpus, "question") \cup {s \in corpus : s.contradicts}
      [] strategy \in {"PARTITION_TEST", "MARKER_PARTITION"} -> keywordSearch(corpus, "markers")
      [] strategy = "NEGATIVE_CONTROL" -> keywordSearch(corpus, "generic")
      [] OTHER -> {}   \* inspections, the downgrade and the freeze retrieve nothing

\* The broad search keeps the nearest source of each document, whichever that is.
OneOfEachDocument(corpus) ==
    {results \in SUBSET corpus :
        \A d \in {s.doc : s \in corpus} : \E s \in corpus : {r \in results : r.doc = d} = {s}}

\* The expansion starts from the first source that supported the first hypothesis;
\* which one that was is not kept here, so it may be any.
ExpandedDocuments(corpus, hyps) ==
    IF hyps = <<>> \/ hyps[1].support = {} THEN {{}}
    ELSE {getDocumentChunks(corpus, anchor) : anchor \in hyps[1].support}

SearchLimit(strategy) ==
    CASE strategy \in {"SEMANTIC_BROAD", "KEYWORD_TARGETED", "CROSS_DOCUMENT"} -> 10
      [] strategy \in {"PARTITION_TEST", "MARKER_PARTITION"} -> 25
      [] OTHER -> 12

\* What the strategy may retrieve.
runDeepDrillStrategy(strategy, corpus, hyps) ==
    LET matching == CASE strategy = "SEMANTIC_BROAD" -> OneOfEachDocument(corpus)
                      [] strategy = "DOCUMENT_EXPANSION" -> ExpandedDocuments(corpus, hyps)
                      [] OTHER -> {MatchingSources(strategy, corpus, hyps)}
    IN  IF Cardinality(corpus) =< SearchLimit(strategy) THEN matching
        ELSE UNION {{results \in SUBSET sources : Cardinality(results) =< SearchLimit(strategy)} :
                       sources \in matching}

\* The first of the results, as many as are wanted.
sampleResults(results, limit) ==
    IF Cardinality(results) =< limit THEN results
    ELSE CHOOSE sample \in SUBSET results : Cardinality(sample) = limit
=============================================================================
