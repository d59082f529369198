----------------------------- MODULE MCDeepDrill -----------------------------
(* A small corpus and the requests of `minddrill deepdrill run`.            *)
EXTENDS DeepDrill

\* One word is a relation; the hypotheses are about different topics.
RelationConcepts == {"develop"}
TwoSeeds == <<SeedHypothesis("H1", {"sacred", "bridge", "develop"}),
              SeedHypothesis("H2", {"technical", "lineage"})>>
SeedOrder == [H1 |-> 1, H2 |-> 2]

Source(id, doc, kind, concepts, matches) ==
    [id |-> id, doc |-> doc, kind |-> kind, filed |-> FALSE, concepts |-> concepts,
     negated |-> FALSE, hedged |-> FALSE, contradicts |-> FALSE, matches |-> matches]

\* A document that denies the first hypothesis, a passage of the same document
\* that outweighs it, and a conversation of unknown provenance for the second:
\* they put either hypothesis first, and then the other again.
Raw == [Source("m1", "d1", "document", {"develop"}, {"question"})
            EXCEPT !.negated = TRUE, !.contradicts = TRUE]
Passage == Source("m2", "d1", "document", {"sacred", "bridge"}, {"markers"})
Chat == Source("m3", "d3", "other", {"technical"}, {"question", "generic"})
AllSources == {Raw, Passage, Chat}

Run(steps) == [NoRequest EXCEPT !.steps = steps]
UntilStable == Run(0)
RunRequests == {UntilStable, [UntilStable EXCEPT !.blockers = <<"PROVENANCE_GAP">>],
                [UntilStable EXCEPT !.force = TRUE], [Run(2) EXCEPT !.hvq = TRUE]}
SeededRequests == {[Run(3) EXCEPT !.seeded = TRUE]}
FirstCorpora == {{}, {Raw}, {Chat}, {Raw, Passage}}
AllTopics == {"plain", "chronology", "provenance", "unsearched"}
=============================================================================
