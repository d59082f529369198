------------------------------ MODULE MemoryLoop ------------------------------
(***************************************************************************)
(* A run of `frontpocket memory-loop` (internal/memoryloop/loop.go) from   *)
(* the memories it harvested to the candidates it hands to the review      *)
(* queue: groups, one fact for each part of a group, the two candidates of *)
(* the timeline, the contradiction scout and the curator.  The harvest is  *)
(* read as CollectionScan has it, and the queue is the module ReviewQueue; *)
(* the command names no canon to compare with, so the curator has none.    *)
(*                                                                         *)
(* Projects, kinds, speakers and texts are numbers, 0 for none.            *)
(***************************************************************************)
EXTENDS Integers, Sequences, FiniteSets

CONSTANTS
    Harvests,         \* sequences of [id, project, kind, speaker, quote, line, time]: `quote` is
                      \*   the text met first as a quote, `line` the one met first as a summary
    General, Fact, Unknown,  \* what stands for no project, kind and speaker
    User,             \* the user, as a speaker
    DecisionProjects, DecisionKinds,  \* those with `decision` in their name
    MaxClusterSize

\* A memory has an id of its own; its quote and its line are two choices among the same texts.
ASSUME LoopAssumption ==
    /\ MaxClusterSize \in Nat \ {0}
    /\ User \notin {0, Unknown}
    /\ Harvests \subseteq Seq([id : Nat, project : Nat, kind : Nat, speaker : Nat,
                               quote : Nat, line : Nat, time : Int])
    /\ \A h \in Harvests : \A i, j \in DOMAIN h :
          /\ h[i].quote = 0 <=> h[i].line = 0
          /\ h[i].id = h[j].id => i = j

VARIABLES
    harvest,
    loopStage,   \* how far the run is
    passed,      \* how many candidates the scout, and then the curator, has been through
    clusters,    \* the parts of groups, with their members' places in the harvest
    candidates,  \* those extracted, and the timeline's, in this order
    checked,     \* those the scout let through
    curated      \* those for the review queue

loopVars == <<harvest, loopStage, passed, clusters, candidates, checked, curated>>

-----------------------------------------------------------------------------
Or(value, default) == IF value = 0 THEN default ELSE value
\* Mutant: the speaker is left out.
clusterKeyUnspoken(m) == <<Or(m.project, General), Or(m.kind, Fact), Unknown>>
clusterKey(m) == <<Or(m.project, General), Or(m.kind, Fact), Or(m.speaker, Unknown)>>

KeyBefore(a, b) ==
    \E i \in 1..3 : a[i] < b[i] /\ \A j \in 1..i - 1 : a[j] = b[j]

SameGroup(i, j) == clusterKey(harvest[i]) = clusterKey(harvest[j])
\* The first memory of each text in a group; one without a text is like no other.
dedupeBySnippet ==
    {i \in DOMAIN harvest :
        harvest[i].quote = 0
        \/ \A j \in 1..i - 1 : SameGroup(i, j) => harvest[j].quote # harvest[i].quote}
\* Which part of its group a memory is in.
PartOf(i) ==
    Cardinality({j \in dedupeBySnippet : j < i /\ SameGroup(i, j)}) \div MaxClusterSize
PartBefore(i, j) ==
    \/ KeyBefore(clusterKey(harvest[i]), clusterKey(harvest[j]))
    \/ SameGroup(i, j) /\ PartOf(i) < PartOf(j)
Ungrouped == {i \in dedupeBySnippet : \A k \in DOMAIN clusters : i \notin clusters[k].points}

-----------------------------------------------------------------------------
Older(i, j) == harvest[i].time < harvest[j].time

\* The first three texts by time, in any order of those of one time (sort.Slice
\* promises none); no text stands for the sentence that says so.
clusterSummaries(points) ==
    LET said == {i \in points : harvest[i].line # 0}
        Leads(s) == {s[n] : n \in DOMAIN s}
        Opening(s) ==
            /\ Len(s) = 3 \/ Leads(s) = said
            /\ \A m, n \in DOMAIN s : m < n => s[m] # s[n] /\ ~Older(s[n], s[m])
            /\ \A i \in said \ Leads(s) : \A n \in DOMAIN s : ~Older(i, s[n])
    IN  {[of |-> "cluster", lines |-> [n \in DOMAIN s |-> harvest[s[n]].line]] :
            s \in {t \in UNION {[1..n -> said] : n \in 0..3} : Opening(t)}}

classifyKind(label) ==
    IF label[1] \in DecisionProjects \/ label[2] \in DecisionKinds THEN "decision" ELSE "pattern"
inferStatus(points) ==
    IF \E i \in points : harvest[i].speaker = User THEN "direct" ELSE "inferred"
inferConfidence(points) ==
    CASE Cardinality(points) >= 4 -> "high"
      [] Cardinality(points) \in {2, 3} -> "medium"
      [] OTHER -> "low"

Ids(points) == {harvest[i].id : i \in points}
Quotes(points) == {harvest[i].quote : i \in points} \ {0}

\* The project and the speaker are those of the first that was harvested.
Extracted(cluster, summary) ==
    LET first == CHOOSE i \in cluster.points : \A j \in cluster.points : i <= j
    IN  [summary |-> summary, kind |-> classifyKind(cluster.label),
         status |-> inferStatus(cluster.points), confidence |-> inferConfidence(cluster.points),
         sources |-> Ids(cluster.points), quotes |-> Quotes(cluster.points),
         project |-> harvest[first].project, speaker |-> harvest[first].speaker]

Dated(name, i, status) ==
    [summary |-> [of |-> name, lines |-> <<harvest[i].time>>], kind |-> "timeline",
     status |-> status, confidence |-> "medium", sources |-> Ids({i}),
     quotes |-> Quotes({i}), project |-> harvest[i].project, speaker |-> harvest[i].speaker]

-----------------------------------------------------------------------------
SameMatter(a, b) == a.project = b.project /\ a.kind = b.kind
Contradicting(c, existing) ==
    [c EXCEPT !.status = "review", !.kind = "contradiction", !.confidence = "medium",
              !.quotes = @ \cup existing.quotes, !.sources = @ \cup existing.sources]

\* dedupeKey
SameProposal(a, b) == SameMatter(a, b) /\ a.summary = b.summary
Curated(c) ==
    IF c.status = "direct" /\ c.speaker # User THEN [c EXCEPT !.status = "inferred"] ELSE c

-----------------------------------------------------------------------------
LoopInit ==
    /\ harvest \in Harvests /\ loopStage = "harvested" /\ passed = 0
    /\ clusters = << >> /\ candidates = << >> /\ checked = << >> /\ curated = << >>

\* Cluster: the next part of the groups, in the order of their keys.
Cluster ==
    /\ loopStage = "harvested"
    /\ \E i \in Ungrouped :
          /\ \A j \in Ungrouped : ~PartBefore(j, i)
          /\ clusters' = Append(clusters,
                [label |-> clusterKey(harvest[i]),
                 points |-> {j \in dedupeBySnippet : SameGroup(i, j) /\ PartOf(i) = PartOf(j)}])
    /\ UNCHANGED <<harvest, loopStage, passed, candidates, checked, curated>>
Extract ==
    /\ loopStage = "harvested" /\ Ungrouped = {} /\ Len(candidates) < Len(clusters)
    /\ LET cluster == clusters[Len(candidates) + 1]
       IN  \E summary \in clusterSummaries(cluster.points) :
              candidates' = Append(candidates, Extracted(cluster, summary))
    /\ UNCHANGED <<harvest, loopStage, passed, clusters, checked, curated>>
\* The two candidates of the timeline; none without a memory.
Build ==
    /\ loopStage = "harvested" /\ Ungrouped = {} /\ Len(candidates) = Len(clusters)
    /\ loopStage' = "proposed"
    /\ IF harvest = << >> THEN UNCHANGED candidates
       ELSE \E first, last \in DOMAIN harvest :
               /\ first # last \/ Len(harvest) = 1
               /\ \A i \in DOMAIN harvest : ~Older(i, first) /\ ~Older(last, i)
               /\ candidates' = candidates \o <<Dated("first", first, "inferred"),
                                                Dated("current", last, "review")>>
    /\ UNCHANGED <<harvest, passed, clusters, checked, curated>>

\* Check: of the candidates of one project and kind, each but the first
\* contradicts it, or is dropped if it says the same.
Check ==
    /\ loopStage = "proposed" /\ passed < Len(candidates)
    /\ passed' = passed + 1
    /\ LET c == candidates[passed + 1]
           alike == {j \in 1..passed : SameMatter(candidates[j], c)}
       IN  IF alike = {} THEN checked' = Append(checked, c)
           ELSE \E j \in alike :
                   /\ \A k \in alike : j <= k
                   /\ checked' = IF candidates[j].summary = c.summary THEN checked
                                 ELSE Append(checked, Contradicting(c, candidates[j]))
    /\ UNCHANGED <<harvest, loopStage, clusters, candidates, curated>>
\* The command names no canon to compare with.
StartCurating ==
    /\ loopStage = "proposed" /\ passed = Len(candidates)
    /\ loopStage' = "checked" /\ passed' = 0
    /\ UNCHANGED <<harvest, clusters, candidates, checked, curated>>
\* Nothing is proposed without a quote, and nothing twice.
Curate ==
    /\ loopStage = "checked" /\ passed < Len(checked)
    /\ passed' = passed + 1
    /\ LET c == checked[passed + 1]
       IN  curated' = IF c.quotes = {} \/ \E n \in DOMAIN curated : SameProposal(curated[n], c)
                      THEN curated
                      ELSE Append(curated, Curated(c))
    /\ UNCHANGED <<harvest, loopStage, clusters, candidates, checked>>
\* What is left goes to the queue.
Finish ==
    /\ loopStage = "checked" /\ passed = Len(checked)
    /\ loopStage' = "curated"
    /\ UNCHANGED <<harvest, passed, clusters, candidates, checked, curated>>

LoopNext == Cluster \/ Extract \/ Build \/ Check \/ StartCurating \/ Curate \/ Finish
LoopSpec == LoopInit /\ [][LoopNext]_loopVars

-----------------------------------------------------------------------------
Proposed == {curated[n] : n \in DOMAIN curated}
\* The memories a candidate names as its sources.
Behind(c) == {i \in DOMAIN harvest : harvest[i].id \in c.sources}

(* What the memories say is not lost on the way to the reviewer: each memory *)
(* that has a text is in a part of its group, or another of that text is; the*)
(* summary of each part that has a text is proposed for its project, also    *)
(* when the scout or the curator drops a candidate as a repetition or turns  *)
(* it into a contradiction; and every proposal rests on memories of the      *)
(* harvest, with the quotes of these and no others, those with its summary   *)
(* among them.                                                               *)
FactsSurvive ==
    loopStage = "curated" =>
        /\ \A i \in DOMAIN harvest :
              harvest[i].quote # 0 =>
                 \E k \in DOMAIN clusters : \E j \in clusters[k].points :
                    SameGroup(i, j) /\ harvest[j].quote = harvest[i].quote
        /\ \A k \in DOMAIN clusters :
              (\E i \in clusters[k].points : harvest[i].line # 0) =>
                 \E c \in Proposed : /\ c.summary = candidates[k].summary
                                     /\ c.project = candidates[k].project
                                     /\ c.summary.lines # << >>
        /\ \A c \in Proposed :
              /\ c.sources # {} /\ c.sources \subseteq Ids(DOMAIN harvest)
              /\ c.quotes = Quotes(Behind(c))
              /\ c.summary.of = "cluster" =>
                    \A n \in DOMAIN c.summary.lines :
                       \E i \in Behind(c) : harvest[i].line = c.summary.lines[n]

(* What is proposed as a statement of the user rests on memories of the user *)
(* alone (TestExtractorDoesNotMarkAssistantOnlyAsDirectUserStatement states  *)
(* it of one cluster), through grouping, contradictions and curation.        *)
DirectStatementsAreTheUsers ==
    \A c \in Proposed :
        c.status = "direct" => \A i \in Behind(c) : harvest[i].speaker = User
=============================================================================
