------------------------------ MODULE DeepDrill ------------------------------
(***************************************************************************)
(* The DeepDrill scheduler (internal/tools/deepdrill.go, deepdrill_plan.go *)
(* and deepdrill_execute.go): a branch of research over one collection,    *)
(* run by `minddrill deepdrill run`.                                       *)
(*                                                                         *)
(* Every invocation is a process of its own.  It loads the session from    *)
(* its file, then alternates planning (which saves the session) and        *)
(* executing (which stores thoughts in Qdrant as it goes and saves the     *)
(* session at the end) until the branch is frozen or the bound is reached. *)
(* An error or a crash loses what was not saved; thoughts are never lost.  *)
(* Sources may be imported at any time.                                    *)
(***************************************************************************)
EXTENDS DeepDrillModel

CONSTANTS
    Sources,         \* records that may be in the collection
    Relations,       \* deepDrillRelationConcepts
    Seeds,           \* the session's hypotheses, in order
    IdOrder,         \* the order of hypothesis ids
    Requests,        \* what an invocation may ask for
    Topics,          \* research questions
    FreezeAfter,     \* DEEPDRILL_FREEZE_LOW_GAIN_AFTER
    MaxIterations,   \* iterations of a run until stable
    Corpora,         \* what the collection may hold at first
    MaxRuns, MaxDisturbances   \* bounds on invocations, and on imports and failures

ASSUME SourcesAssumption ==
    /\ IsFiniteSet(Sources) /\ Corpora \subseteq SUBSET Sources
    /\ \A s \in Sources : s.kind \in Kinds
    /\ \A s, t \in Sources : s.id = t.id => s = t
\* Hypotheses get their ids by their place (normalizeHypothesesFromStrings).
ASSUME SeedsAssumption ==
    /\ Seeds \in Seq(Range(Seeds))
    /\ \A i \in DOMAIN Seeds : /\ Seeds[i] = SeedHypothesis(Seeds[i].id, Seeds[i].concepts)
                               /\ IdOrder[Seeds[i].id] \in Int
    /\ \A i, j \in DOMAIN Seeds : IdOrder[Seeds[i].id] = IdOrder[Seeds[j].id] => i = j
ASSUME LimitsAssumption ==
    /\ FreezeAfter \in Nat \ {0} /\ MaxIterations \in Nat \ {0}
    /\ MaxRuns \in Nat /\ MaxDisturbances \in Nat

VARIABLES
    corpus,    \* sources in the collection
    topic,     \* the research question of the session
    drill,     \* the session's DeepDrill state in the file
    prints,    \* fingerprints of the thoughts stored for the session
    request,   \* what the running invocation asked for
    left,      \* iterations it has left; 0 when none runs
    plan,      \* the plan being executed
    outcome,   \* how the last invocation ended
    runs, disturbances

environment == <<runs, disturbances>>
vars == <<corpus, topic, drill, prints, request, left, plan, outcome, environment>>

NoPlan == [strategy |-> "none"]
NoRequest == [blockers |-> <<>>, hvq |-> FALSE, force |-> FALSE, seeded |-> FALSE, steps |-> 0]

newDefaultDeepDrillState ==
    [status |-> "OPEN", uncertainty |-> "", question |-> "", hvq |-> FALSE,
     blockers |-> <<>>, hyps |-> <<>>, reclassified |-> "", lowGain |-> 0, tier |-> "",
     history |-> <<>>, exhausted |-> {}]

Init ==
    /\ corpus \in Corpora
    /\ topic \in Topics
    /\ drill = newDefaultDeepDrillState
    /\ prints = {}
    /\ request = NoRequest /\ left = 0 /\ plan = NoPlan /\ outcome = "none"
    /\ runs = 0 /\ disturbances = 0

-----------------------------------------------------------------------------
(* Planning.                                                                *)

\* As if the hypotheses were seeded again by every plan.
MutantPrepared(d, req) ==
    [d EXCEPT !.hyps = Seeds, !.blockers = IF req.blockers # <<>> THEN req.blockers ELSE @,
              !.hvq = @ \/ req.hvq, !.status = IF req.force THEN "OPEN" ELSE @]
Prepared(d, req) ==
    [d EXCEPT !.hyps = IF req.seeded \/ d.hyps = <<>> THEN Seeds ELSE @,
              !.blockers = IF req.blockers # <<>> THEN req.blockers ELSE @,
              !.hvq = @ \/ req.hvq,
              !.status = IF req.force THEN "OPEN" ELSE @]

identifyHighestValueUncertainty(d) ==
    IF d.status = "FROZEN" THEN "DIMINISHING_RETURNS"
    ELSE IF d.reclassified # "" THEN d.reclassified
    ELSE IF d.lowGain >= 1 THEN "DIMINISHING_RETURNS"
    ELSE IF d.blockers # <<>> THEN d.blockers[1]
    ELSE [chronology |-> "CHRONOLOGY_GAP", provenance |-> "PROVENANCE_GAP",
          unsearched |-> "EVIDENCE_GAP", plain |-> "AMBIGUOUS_CLASSIFICATION"][topic]

generateCompetingQuestions(d, uncertainty) ==
    CASE d.hvq -> <<"highest-value", "falsify-first", "source-relationship">>
      [] ~d.hvq /\ uncertainty = "CHRONOLOGY_GAP" ->
            <<"earliest-bridge", "sequence-before-after", "upstream-citation">>
      [] ~d.hvq /\ uncertainty = "PROVENANCE_GAP" ->
            <<"highest-tier", "trace-to-draft", "weakest-provenance">>
      [] ~d.hvq /\ uncertainty = "DIMINISHING_RETURNS" -> <<"should-freeze", "what-reopens">>
      [] OTHER -> <<"research-question", "counterevidence">>

questionScore(q, d) ==
    1 + (IF q = "highest-value" THEN 5 ELSE 0)
      + (IF \/ q \in {"falsify-first", "earliest-bridge", "upstream-citation"}
            \/ q = "research-question" /\ topic = "chronology" THEN 2 ELSE 0)
      + (IF q \in {"falsify-first", "counterevidence"} THEN 2 ELSE 0)
      + (IF q # d.question THEN 1 ELSE 0)

\* The first of the candidates with the highest score.
selectMostDiscriminatingQuestion(candidates, d) ==
    candidates[CHOOSE i \in DOMAIN candidates : \A j \in DOMAIN candidates :
        LET si == questionScore(candidates[i], d)
            sj == questionScore(candidates[j], d)
        IN  si > sj \/ (si = sj /\ i =< j)]

hasChronologyQuestion(q) ==
    \/ q \in {"falsify-first", "earliest-bridge", "sequence-before-after",
              "upstream-citation", "trace-to-draft"}
    \/ q = "research-question" /\ topic = "chronology"

strategyCandidates(uncertainty) ==
    CASE uncertainty = "EVIDENCE_GAP" ->
            <<"SEMANTIC_BROAD", "KEYWORD_TARGETED", "DOCUMENT_EXPANSION", "CROSS_DOCUMENT">>
      [] uncertainty = "RETRIEVAL_LIMIT" ->
            <<"BROAD_SCROLL", "COLLECTION_INSPECTION", "INSPECT_COLLECTION", "CROSS_DOCUMENT">>
      [] uncertainty = "AMBIGUOUS_CLASSIFICATION" ->
            <<"MARKER_PARTITION", "NEGATIVE_CONTROL", "PARTITION_TEST", "CROSS_DOCUMENT">>
      [] uncertainty = "GENERIC_SIMILARITY" ->
            <<"VOCABULARY_STRIP", "NEGATIVE_CONTROL", "KEYWORD_TARGETED", "CROSS_DOCUMENT">>
      [] uncertainty = "CHRONOLOGY_GAP" ->
            <<"PROVENANCE_TRACE", "SOURCE_SEQUENCE", "CHRONOLOGY_TRACE", "TIMESTAMP_TRACE",
              "DOCUMENT_EXPANSION">>
      [] uncertainty = "PROVENANCE_GAP" ->
            <<"PROVENANCE_TRACE", "PROVENANCE_PROFILE", "RAW_SOURCE_LOOKUP",
              "PROVENANCE_DOWNWEIGHT">>
      [] uncertainty = "CONTRADICTION" ->
            <<"COUNTEREVIDENCE_SEARCH", "SOURCE_COMPARISON", "COUNTEREVIDENCE_SCAN",
              "CROSS_DOCUMENT">>
      [] uncertainty = "SOURCE_QUALITY" ->
            <<"PROVENANCE_TRACE", "SOURCE_TYPE_PROFILE", "PROVENANCE_PROFILE",
              "PROVENANCE_DOWNWEIGHT">>
      [] uncertainty = "DIMINISHING_RETURNS" -> <<"FREEZE_BRANCH">>
      [] OTHER -> <<"SEMANTIC_BROAD", "KEYWORD_TARGETED">>

\* As if a strategy, once exhausted, could be selected again.
MutantIsStrategyExhausted(d, uncertainty, strategy) == FALSE
\* Exhaustion is scoped by the model key, and the key holds the tier.
isStrategyExhausted(d, uncertainty, strategy) ==
    <<uncertainty, strategy, deepDrillModelKey(d.tier, d.hyps)>> \in d.exhausted

\* The candidates that are not exhausted, by their place.
strategiesRemaining(d, uncertainty) ==
    {i \in DOMAIN strategyCandidates(uncertainty) :
        ~isStrategyExhausted(d, uncertainty, strategyCandidates(uncertainty)[i])}

\* Three points for every run that gained something, one less for every run;
\* a score below zero never beats the first candidate.
strategyScore(d, uncertainty, strategy) ==
    LET used == {i \in DOMAIN d.history : /\ d.history[i].uncertainty = uncertainty
                                          /\ d.history[i].strategy = strategy}
    IN  3 * Cardinality({i \in used : d.history[i].gain # "LOW"}) - Cardinality(used)

selectStrategy(d, uncertainty) ==
    LET available == strategiesRemaining(d, uncertainty)
        Score(i) == strategyScore(d, uncertainty, strategyCandidates(uncertainty)[i])
        best == {i \in available : Score(i) >= 0 /\ \A j \in available :
                    Score(i) > Score(j) \/ (Score(i) = Score(j) /\ i =< j)}
        first == {i \in available : \A j \in available : i =< j}
    IN  IF available = {} THEN "FREEZE_BRANCH"
        ELSE strategyCandidates(uncertainty)[
                CHOOSE i \in IF best = {} THEN first ELSE best : TRUE]

Invoke(req) ==
    /\ left = 0 /\ runs < MaxRuns
    /\ request' = req
    /\ left' = IF req.steps = 0 THEN MaxIterations ELSE req.steps
    /\ outcome' = "none"
    /\ runs' = runs + 1
    /\ UNCHANGED <<corpus, topic, drill, prints, plan, disturbances>>

DeepDrillPlan ==
    /\ left > 0 /\ plan = NoPlan
    /\ LET d == Prepared(drill, request)
           uncertainty == identifyHighestValueUncertainty(d)
           question == selectMostDiscriminatingQuestion(
                           generateCompetingQuestions(d, uncertainty), d)
       IN  /\ plan' = [uncertainty |-> uncertainty, question |-> question,
                       strategy |-> selectStrategy(d, uncertainty)]
           /\ drill' = [d EXCEPT !.uncertainty = uncertainty, !.question = question]
    /\ UNCHANGED <<corpus, topic, prints, request, left, outcome, environment>>

-----------------------------------------------------------------------------
(* Executing.                                                               *)

\* As if every plan reopened the branch.
MutantShouldReopen(d, question) == TRUE
\* The question of a frozen branch's plan is the one just saved, so only a
\* branch that never saw a source of known provenance is reopened here.
shouldReopenFrozenBranch(d, question) == question # d.question \/ d.tier = "UNKNOWN"

Mark(what) == [question |-> plan.question, strategy |-> plan.strategy, what |-> what]
StopPrint == [question |-> plan.question, strategy |-> "FREEZE_BRANCH", what |-> "stop"]

\* The thoughts of a step whose duplicates are looked at, in storing order: of
\* the evidence, at most three pieces.
StepPrints(evidence) ==
    <<{Mark("question")}, {Mark("run")},
      IF evidence = {} THEN {Mark("negative")} ELSE {Mark(s.id) : s \in sampleResults(evidence, 3)}>>
StoredUpTo(evidence, n) == UNION {StepPrints(evidence)[i] : i \in 1 .. n}

\* Some block of two or more runs is repeated at the end of the history.
detectStrategyCycle(history) ==
    LET n == Len(history)
        Signature(e) == <<e.uncertainty, e.strategy, e.question, e.evidence>>
    IN  \E length \in 2 .. n \div 2 : \A i \in n - length + 1 .. n :
            Signature(history[i]) = Signature(history[i - length])

\* The first signal that applies and names another class than the current one.
reclassifyUncertainty(current, question, evidence) ==
    LET weak == WeakScore(evidence) \/ isWeakProvenanceTier(TopTier(evidence))
        contradiction == \E s \in evidence : s.contradicts
        signals == <<
            <<"CONTRADICTION", contradiction>>,
            <<"RETRIEVAL_LIMIT", evidence = {}>>,
            <<"PROVENANCE_GAP", weak>>,
            <<"CHRONOLOGY_GAP", hasChronologyQuestion(question) /\ ~weak>>,
            <<"SOURCE_QUALITY", TopTier(evidence) = "UNKNOWN">>,
            <<"GENERIC_SIMILARITY", ~contradiction /\ evidence # {} /\ ~weak>>>>
        applicable == SelectSeq(signals, LAMBDA s : s[2] /\ s[1] # current)
    IN  IF applicable = <<>> THEN current ELSE applicable[1][1]

\* The same strategy asked the same question before, and found the same.
isRepeatStrategyFinding(d, evidence) ==
    \E i \in DOMAIN d.history :
        /\ d.history[i].strategy = plan.strategy
        /\ d.history[i].question = plan.question
        /\ d.history[i].evidence = {s.id : s \in evidence}

DuplicateEvidence(d, evidence) ==
    isRepeatStrategyFinding(d, evidence) \/ StoredUpTo(evidence, 3) \cap prints # {}

HypothesesAfter(d, evidence) ==
    IF plan.strategy = "FREEZE_BRANCH" \/ isRepeatStrategyFinding(d, evidence) THEN d.hyps
    ELSE applyModelUpdate(d.hyps, evidence, Relations, IdOrder)

GainOf(d, evidence) ==
    scoreInformationGain(plan.strategy = "FREEZE_BRANCH", DuplicateEvidence(d, evidence), evidence,
                         d.hyps, HypothesesAfter(d, evidence))

\* What the history keeps of the step (DeepDrillStrategyOutcome).
StrategyOutcome(d, evidence) ==
    [uncertainty |-> plan.uncertainty, strategy |-> plan.strategy, question |-> plan.question,
     gain |-> GainOf(d, evidence), evidence |-> {s.id : s \in evidence}]

\* The state after a step of the plan on d with this evidence.
Executed(d, evidence) ==
    LET freeze == plan.strategy = "FREEZE_BRANCH"
        diminishing == GainOf(d, evidence) = "LOW" \/ DuplicateEvidence(d, evidence)
        tier == IF d.tier = "" \/ TierRank(TopTier(evidence)) > TierRank(d.tier)
                THEN TopTier(evidence) ELSE d.tier
        hyps == HypothesesAfter(d, evidence)
        marked == [d EXCEPT !.hyps = hyps, !.tier = tier,
                            !.exhausted = IF diminishing /\ ~freeze
                                THEN @ \cup {<<plan.uncertainty, plan.strategy,
                                               deepDrillModelKey(tier, hyps)>>}
                                ELSE @]
        remaining == strategiesRemaining(marked, plan.uncertainty)
        new == reclassifyUncertainty(plan.uncertainty, plan.question, evidence)
        reclassified == /\ ~freeze /\ remaining = {} /\ new # plan.uncertainty
                        /\ strategiesRemaining(marked, new) # {}
        low == CASE ~diminishing \/ remaining # {} \/ reclassified -> 0
                 [] OTHER -> d.lowGain + 1
        history == Append(d.history, StrategyOutcome(d, evidence))
        frozen == \/ freeze \/ detectStrategyCycle(history)
                  \/ ~reclassified /\ (remaining = {} \/ low >= FreezeAfter)
    IN  [marked EXCEPT !.status = IF frozen THEN "FROZEN" ELSE "OPEN",
                       !.lowGain = low, !.history = history,
                       !.reclassified = IF reclassified THEN new ELSE @,
                       !.uncertainty = IF reclassified THEN new ELSE @]

Exits(how) == left' = 0 /\ plan' = NoPlan /\ outcome' = how

\* A frozen branch: nothing is run and nothing is stored.
Terminal ==
    /\ plan # NoPlan
    /\ drill.status = "FROZEN" /\ ~shouldReopenFrozenBranch(drill, plan.question)
    /\ Exits("terminal")
    /\ UNCHANGED <<corpus, topic, drill, prints, request, environment>>

executeDeepDrillStep ==
    /\ plan # NoPlan
    /\ drill.status = "FROZEN" => shouldReopenFrozenBranch(drill, plan.question)
    /\ \E evidence \in runDeepDrillStrategy(plan.strategy, corpus, drill.hyps) :
           /\ drill' = Executed(drill, evidence)
           /\ prints' = prints \cup StoredUpTo(evidence, 3)
                            \cup (IF drill'.status = "FROZEN" THEN {StopPrint} ELSE {})
    /\ IF drill'.status = "FROZEN" \/ left = 1
       THEN Exits(IF drill'.status = "FROZEN" THEN "frozen" ELSE "bound")
       ELSE left' = left - 1 /\ plan' = NoPlan /\ UNCHANGED outcome
    /\ UNCHANGED <<corpus, topic, request, environment>>

\* As if the session were saved before the thoughts are stored.
StepFailsSaved(n) ==
    /\ plan # NoPlan
    /\ drill.status = "FROZEN" => shouldReopenFrozenBranch(drill, plan.question)
    /\ disturbances < MaxDisturbances /\ disturbances' = disturbances + 1
    /\ \E evidence \in runDeepDrillStrategy(plan.strategy, corpus, drill.hyps) :
           /\ drill' = Executed(drill, evidence)
           /\ prints' = prints \cup StoredUpTo(evidence, IF n < 3 THEN n ELSE 3)
    /\ Exits("failed")
    /\ UNCHANGED <<corpus, topic, request, runs>>

\* A call of the step fails or the process dies: the first n kinds of
\* thoughts are stored (the fourth is the stop decision), the session is not saved.
StepFails(n) ==
    /\ plan # NoPlan
    /\ drill.status = "FROZEN" => shouldReopenFrozenBranch(drill, plan.question)
    /\ disturbances < MaxDisturbances /\ disturbances' = disturbances + 1
    /\ \E evidence \in runDeepDrillStrategy(plan.strategy, corpus, drill.hyps) :
           prints' = prints \cup StoredUpTo(evidence, IF n < 3 THEN n ELSE 3)
                \cup (IF n = 4 /\ Executed(drill, evidence).status = "FROZEN" THEN {StopPrint} ELSE {})
    /\ Exits("failed")
    /\ UNCHANGED <<corpus, topic, drill, request, runs>>

Import(s) ==
    /\ disturbances < MaxDisturbances /\ disturbances' = disturbances + 1
    /\ corpus' = corpus \cup {s}
    /\ UNCHANGED <<topic, drill, prints, request, left, plan, outcome, runs>>

Next ==
    \/ \E req \in Requests : Invoke(req)
    \/ DeepDrillPlan
    \/ Terminal
    \/ executeDeepDrillStep
    \/ \E n \in 0 .. 4 : StepFails(n)
    \/ \E s \in Sources \ corpus : Import(s)

Spec == Init /\ [][Next]_vars

-----------------------------------------------------------------------------
(* Properties.                                                              *)

\* The confidence of a hypothesis is what its evidence weighs, each piece of
\* evidence counted once, however often strategies, questions, retries after
\* a failure and later invocations retrieve it again.  Clamping to [0, 1] takes
\* away no more than all support together would have put above 1, and adds no
\* more than all counterevidence would have put below 0: where neither could
\* have, the confidence is exactly 4200 + 6 * (support - counter).
EvidenceCountedOnce ==
    \A i \in DOMAIN drill.hyps :
        LET h == drill.hyps[i]
            Of(ids) == {s \in Sources : s.id \in ids}
            support == 6 * SumWeight(Of(h.support))
            counter == 6 * SumWeight(Of(h.counter))
        IN  /\ h.confidence >= clamp01(4200 + support) - counter
            /\ h.confidence =< clamp01(4200 - counter) + support

\* A saved strategy run has its question and its run thought in Qdrant, and a
\* saved freeze its stop decision, whatever failed or died in between.
SavedIsOnRecord ==
    /\ \A i \in DOMAIN drill.history : LET e == drill.history[i] IN
        \A what \in {"question", "run"} :
            [question |-> e.question, strategy |-> e.strategy, what |-> what] \in prints
    /\ drill.status = "FROZEN" =>
        [question |-> Last(drill.history).question, strategy |-> "FREEZE_BRANCH",
         what |-> "stop"] \in prints

\* What the hypotheses were credited with: what supports and what contradicts them.
Credited(hyps) ==
    UNION {{hyps[i].id} \X ({"support"} \X hyps[i].support \cup {"counter"} \X hyps[i].counter) :
              i \in DOMAIN hyps}

\* Every run that gained nothing used something up: a strategy, for an
\* uncertainty and a model, or a piece of evidence that changed the model back.
\* So the scheduler cannot go round in circles: not when it reclassifies, not
\* when its model flips, not over invocations.
LowGainUsesUp ==
    Cardinality({i \in DOMAIN drill.history : drill.history[i].gain = "LOW"})
        =< Cardinality(drill.exhausted) + Cardinality(Credited(drill.hyps))

\* The scheduler implements the branch of DeepDrillBranch.
Branch == INSTANCE DeepDrillBranch WITH
    frozen <- drill.status = "FROZEN", work <- Len(drill.history), tier <- TierRank(drill.tier)
BranchSpec == Branch!Spec

\* Evidence a hypothesis has been credited with is not forgotten.
EvidenceKept ==
    [][drill.hyps # <<>> => \A i \in DOMAIN drill.hyps : \E j \in DOMAIN drill'.hyps :
            /\ drill'.hyps[j].id = drill.hyps[i].id
            /\ drill.hyps[i].support \subseteq drill'.hyps[j].support
            /\ drill.hyps[i].counter \subseteq drill'.hyps[j].counter]_vars
=============================================================================
