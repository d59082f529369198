--------------------------- MODULE DeepDrillProofs ---------------------------
(***************************************************************************)
(* Proofs about DeepDrill: what is saved of a branch is on record, the     *)
(* scheduler keeps what DeepDrillBranch promises, every piece of evidence  *)
(* weighs once and stays, and a run that gains nothing uses something up,  *)
(* for every collection, every list of hypotheses and of requests, and any *)
(* number of invocations, imports, failures and crashes.                   *)
(***************************************************************************)
EXTENDS DeepDrill, OrderLemmas

Fields == DOMAIN newDefaultDeepDrillState

\* A session's state has its fields, and its history is a sequence.
DrillTyped(d) ==
    /\ DOMAIN d = Fields
    /\ d.status \in {"OPEN", "FROZEN"}
    /\ \E Entries : d.history \in Seq(Entries)

\* A plan is about the question that was saved with it: a frozen branch is
\* not reopened for its question.
PlanIsSaved == plan # NoPlan => plan.question = drill.question

DrillInv ==
    /\ DrillTyped(drill)
    /\ PlanIsSaved
    /\ SavedIsOnRecord

-----------------------------------------------------------------------------
(* What planning and executing do to the state.                             *)

LEMMA RankIsNat == ASSUME NEW t PROVE TierRank(t) \in Nat
BY DEF TierRank

\* The better of two tiers is no worse than the first.
LEMMA RankRises ==
    ASSUME NEW old \in Nat, NEW seen \in Nat, NEW new,
           new = old \/ (new = seen /\ (old = 0 \/ seen > old))
    PROVE  new >= old
OBVIOUS

LEMMA TierRises ==
    ASSUME NEW old, NEW seen, NEW new,
           new = IF old = "" \/ TierRank(seen) > TierRank(old) THEN seen ELSE old
    PROVE  TierRank(new) >= TierRank(old)
<1>1. TierRank("") = 0
  BY DEF TierRank
<1>2. ASSUME old = "" PROVE TierRank(old) = 0
  BY <1>1, <1>2, Zenon
<1>3. /\ TierRank(old) \in Nat /\ TierRank(seen) \in Nat
      /\ \/ TierRank(new) = TierRank(old)
         \/ /\ TierRank(new) = TierRank(seen)
            /\ TierRank(old) = 0 \/ TierRank(seen) > TierRank(old)
  BY <1>2, RankIsNat, Zenon
<1> QED
  BY <1>3, RankRises, Zenon

\* A step records one run of the plan, and the tier only rises.
LEMMA ExecutedKeeps ==
    ASSUME NEW d, NEW evidence, DrillTyped(d)
    PROVE  /\ DrillTyped(Executed(d, evidence))
           /\ Executed(d, evidence).question = d.question
           /\ Executed(d, evidence).history = Append(d.history, StrategyOutcome(d, evidence))
           /\ TierRank(Executed(d, evidence).tier) >= TierRank(d.tier)
<1>1. DOMAIN d = Fields
  BY DEF DrillTyped
<1>2. DOMAIN Executed(d, evidence) = Fields
  BY <1>1 DEF Executed
<1>3. Executed(d, evidence).status \in {"OPEN", "FROZEN"}
  BY <1>1 DEF Executed, Fields, newDefaultDeepDrillState
<1>4. Executed(d, evidence).question = d.question
  BY <1>1 DEF Executed, Fields, newDefaultDeepDrillState
<1>5. TierRank(Executed(d, evidence).tier) >= TierRank(d.tier)
  <2>1. Executed(d, evidence).tier =
          IF d.tier = "" \/ TierRank(TopTier(evidence)) > TierRank(d.tier)
          THEN TopTier(evidence) ELSE d.tier
    BY <1>1 DEF Executed, Fields, newDefaultDeepDrillState
  <2> QED
    BY <2>1, TierRises, Zenon
<1>6. Executed(d, evidence).history = Append(d.history, StrategyOutcome(d, evidence))
  BY <1>1 DEF Executed, Fields, newDefaultDeepDrillState
<1>7. \E Entries : Executed(d, evidence).history \in Seq(Entries)
  <2>1. PICK Entries : d.history \in Seq(Entries)
    BY DEF DrillTyped
  <2>2. Append(d.history, StrategyOutcome(d, evidence))
          \in Seq(Entries \cup {StrategyOutcome(d, evidence)})
    BY <2>1
  <2> QED
    BY <1>6, <2>2
<1> QED
  BY <1>2, <1>3, <1>4, <1>5, <1>6, <1>7 DEF DrillTyped

-----------------------------------------------------------------------------
(* The record of what is saved.                                             *)

\* The thoughts of a step that were stored up to the end of its third kind
\* have those that its run is known by.
LEMMA RunOnRecord ==
    ASSUME NEW evidence
    PROVE  Mark("question") \in StoredUpTo(evidence, 3) /\ Mark("run") \in StoredUpTo(evidence, 3)
<1>1. StepPrints(evidence)[1] = {Mark("question")} /\ StepPrints(evidence)[2] = {Mark("run")}
  BY DEF StepPrints
<1>2. 1 \in 1..3 /\ 2 \in 1..3
  OBVIOUS
<1> QED
  BY <1>1, <1>2, Zenon DEF StoredUpTo

\* What is on record of a state stays so while thoughts are only added.
LEMMA RecordKept ==
    ASSUME SavedIsOnRecord, prints \subseteq prints',
           drill'.history = drill.history, drill'.status = drill.status \/ drill'.status = "OPEN"
    PROVE  SavedIsOnRecord'
BY DEF SavedIsOnRecord

LEMMA InitInv == Init => DrillInv
<1> SUFFICES ASSUME Init PROVE DrillInv
  OBVIOUS
<1>1. drill = newDefaultDeepDrillState /\ plan = NoPlan
  BY DEF Init
<1>2. drill.history = <<>> /\ drill.status = "OPEN" /\ DOMAIN drill = Fields
  BY <1>1 DEF newDefaultDeepDrillState, Fields
<1>3. <<>> \in Seq({})
  OBVIOUS
<1>4. DrillTyped(drill)
  BY <1>2, <1>3 DEF DrillTyped
<1>5. SavedIsOnRecord
  BY <1>2 DEF SavedIsOnRecord
<1> QED
  BY <1>1, <1>4, <1>5 DEF DrillInv, PlanIsSaved

LEMMA PlanKeeps ==
    ASSUME DrillInv, DeepDrillPlan
    PROVE  /\ DrillInv'
           /\ drill'.history = drill.history /\ drill'.tier = drill.tier
           /\ drill'.status = drill.status \/ drill'.status = "OPEN"
<1>1. PICK u, q : /\ drill' = [Prepared(drill, request) EXCEPT !.uncertainty = u, !.question = q]
                  /\ plan'.question = q
  BY Zenon DEF DeepDrillPlan
<1>2. DOMAIN drill = Fields /\ drill.status \in {"OPEN", "FROZEN"}
  BY DEF DrillInv, DrillTyped
<1>3. /\ DOMAIN drill' = Fields /\ drill'.question = q
      /\ drill'.history = drill.history /\ drill'.tier = drill.tier
      /\ drill'.status = drill.status \/ drill'.status = "OPEN"
  BY <1>1, <1>2 DEF Prepared, Fields, newDefaultDeepDrillState
<1>4. DrillTyped(drill')
  BY <1>2, <1>3 DEF DrillInv, DrillTyped
<1>5. PlanIsSaved'
  BY <1>1, <1>3 DEF PlanIsSaved
<1>6. SavedIsOnRecord'
  BY <1>3, RecordKept DEF DrillInv, DeepDrillPlan
<1> QED
  BY <1>3, <1>4, <1>5, <1>6 DEF DrillInv

LEMMA StepKeeps ==
    ASSUME DrillInv, executeDeepDrillStep
    PROVE  /\ DrillInv'
           /\ Len(drill'.history) = Len(drill.history) + 1
           /\ TierRank(drill'.tier) >= TierRank(drill.tier)
<1>1. PICK evidence : /\ drill' = Executed(drill, evidence)
                      /\ StoredUpTo(evidence, 3) \subseteq prints' /\ prints \subseteq prints'
                      /\ drill'.status = "FROZEN" => StopPrint \in prints'
  BY DEF executeDeepDrillStep
<1>2. plan' = plan \/ plan' = NoPlan
  BY DEF executeDeepDrillStep, Exits
<1> DEFINE run == StrategyOutcome(drill, evidence)
           n == Len(drill.history)
<1>4. /\ DrillTyped(drill') /\ drill'.question = drill.question
      /\ drill'.history = Append(drill.history, run)
      /\ TierRank(drill'.tier) >= TierRank(drill.tier)
  BY <1>1, ExecutedKeeps DEF DrillInv
<1>5. run.question = plan.question /\ run.strategy = plan.strategy
  BY DEF StrategyOutcome
<1> HIDE DEF run
<1>6. /\ n \in Nat /\ Len(drill'.history) = n + 1
      /\ DOMAIN drill.history = 1..n /\ DOMAIN drill'.history = 1..n + 1
      /\ drill'.history[n + 1] = run /\ \A i \in 1..n : drill'.history[i] = drill.history[i]
  <2>1. PICK Entries : drill.history \in Seq(Entries)
    BY DEF DrillInv, DrillTyped
  <2> DEFINE All == Entries \cup {run}
  <2>2. drill.history \in Seq(All) /\ run \in All
    BY <2>1
  <2> HIDE DEF All
  <2> QED
    BY <1>4, <2>2
<1>7. \A i \in DOMAIN drill'.history : \A what \in {"question", "run"} :
        [question |-> drill'.history[i].question, strategy |-> drill'.history[i].strategy,
         what |-> what] \in prints'
  <2> SUFFICES ASSUME NEW i \in 1..n + 1, NEW what \in {"question", "run"}
               PROVE  [question |-> drill'.history[i].question,
                       strategy |-> drill'.history[i].strategy, what |-> what] \in prints'
    BY <1>6
  <2>1. CASE i = n + 1
    BY <1>1, <1>5, <1>6, <2>1, RunOnRecord DEF Mark
  <2>2. CASE i # n + 1
    <3>1. i \in DOMAIN drill.history /\ drill'.history[i] = drill.history[i]
      BY <1>6, <2>2
    <3>2. [question |-> drill.history[i].question, strategy |-> drill.history[i].strategy,
           what |-> what] \in prints
      BY <3>1 DEF DrillInv, SavedIsOnRecord
    <3> QED
      BY <1>1, <3>1, <3>2
  <2> QED
    BY <2>1, <2>2
<1>8. drill'.status = "FROZEN" =>
        [question |-> Last(drill'.history).question, strategy |-> "FREEZE_BRANCH",
         what |-> "stop"] \in prints'
  BY <1>1, <1>5, <1>6 DEF Last, StopPrint
<1>9. SavedIsOnRecord'
  BY <1>7, <1>8 DEF SavedIsOnRecord
<1>10. PlanIsSaved'
  BY <1>2, <1>4 DEF DrillInv, PlanIsSaved
<1> QED
  BY <1>4, <1>6, <1>9, <1>10 DEF DrillInv

\* Everything else leaves the saved state alone, and plans nothing.
LEMMA OthersKeep ==
    ASSUME DrillInv, drill' = drill, prints \subseteq prints', plan' \in {plan, NoPlan}
    PROVE  DrillInv'
<1>1. SavedIsOnRecord'
  BY RecordKept DEF DrillInv
<1> QED
  BY <1>1 DEF DrillInv, PlanIsSaved

LEMMA NextInv == DrillInv /\ [Next]_vars => DrillInv'
<1> SUFFICES ASSUME DrillInv, [Next]_vars PROVE DrillInv'
  OBVIOUS
<1>1. CASE \E req \in Requests : Invoke(req)
  BY <1>1, OthersKeep DEF Invoke
<1>2. CASE DeepDrillPlan
  BY <1>2, PlanKeeps
<1>3. CASE Terminal
  BY <1>3, OthersKeep DEF Terminal, Exits
<1>4. CASE executeDeepDrillStep
  BY <1>4, StepKeeps
<1>5. CASE \E n \in 0..4 : StepFails(n)
  BY <1>5, OthersKeep DEF StepFails, Exits
<1>6. CASE \E s \in Sources \ corpus : Import(s)
  BY <1>6, OthersKeep DEF Import
<1>7. CASE UNCHANGED vars
  BY <1>7, OthersKeep DEF vars
<1> QED
  BY <1>1, <1>2, <1>3, <1>4, <1>5, <1>6, <1>7 DEF Next

\* Of every strategy run a session has saved (executeDeepDrillStep, which
\* stores thoughts as it goes and saves at its end), the question and the run
\* are in Qdrant, and of a freeze the stop decision, whatever failed or died.
THEOREM SavedSafety == Spec => []SavedIsOnRecord
<1>1. DrillInv => SavedIsOnRecord
  BY DEF DrillInv
<1> QED
  BY <1>1, InitInv, NextInv, PTL DEF Spec

-----------------------------------------------------------------------------
(* The branch of DeepDrillBranch.                                           *)

LEMMA BranchInit == Init => Branch!Init
<1> SUFFICES ASSUME Init PROVE Branch!Init
  OBVIOUS
<1>1. drill = newDefaultDeepDrillState
  BY DEF Init
<1>2. drill.history = <<>> /\ drill.status = "OPEN" /\ drill.tier = ""
  BY <1>1 DEF newDefaultDeepDrillState
<1>3. Len(drill.history) = 0 /\ TierRank(drill.tier) = 0
  BY <1>2 DEF TierRank
<1> QED
  BY <1>2, <1>3 DEF Branch!Init

LEMMA BranchStep == DrillInv /\ DrillInv' /\ [Next]_vars => [Branch!Next]_Branch!vars
<1> SUFFICES ASSUME DrillInv, DrillInv', [Next]_vars PROVE [Branch!Next]_Branch!vars
  OBVIOUS
<1>1. CASE DeepDrillPlan
  <2>1. /\ drill'.history = drill.history /\ drill'.tier = drill.tier
        /\ drill'.status = drill.status \/ drill'.status = "OPEN"
    BY <1>1, PlanKeeps
  <2> QED
    BY <2>1 DEF Branch!Next, Branch!Reopen, Branch!vars
<1>2. CASE executeDeepDrillStep
  <2>1. /\ Len(drill'.history) = Len(drill.history) + 1
        /\ TierRank(drill'.tier) >= TierRank(drill.tier)
        /\ TierRank(drill'.tier) \in Nat
    BY <1>2, StepKeeps, RankIsNat
  <2>2. drill.status = "FROZEN" => drill.tier = "UNKNOWN"
    BY <1>2 DEF executeDeepDrillStep, shouldReopenFrozenBranch, DrillInv, PlanIsSaved
  <2>3. drill.status # "FROZEN" \/ TierRank(drill.tier) = 0
    BY <2>2 DEF TierRank
  <2> QED
    BY <2>1, <2>3 DEF Branch!Next, Branch!Work
<1>3. CASE drill' = drill
  BY <1>3 DEF Branch!vars
<1>4. CASE \/ \E req \in Requests : Invoke(req)
           \/ Terminal
           \/ \E n \in 0..4 : StepFails(n)
           \/ \E s \in Sources \ corpus : Import(s)
           \/ UNCHANGED vars
  BY <1>3, <1>4 DEF Invoke, Terminal, StepFails, Import, vars
<1> QED
  BY <1>1, <1>2, <1>4 DEF Next

\* The scheduler implements the branch: an open branch is worked on, a frozen
\* one only while it has seen no source of known provenance or after a request
\* opened it, over invocations, failures and imports (shouldReopenFrozenBranch),
\* and the best tier a branch has seen never falls.
THEOREM BranchRefinement == Spec => BranchSpec
<1>1. Init => DrillInv /\ Branch!Init
  BY InitInv, BranchInit
<1>2. DrillInv /\ [Next]_vars => DrillInv' /\ [Branch!Next]_Branch!vars
  BY NextInv, BranchStep
<1> QED
  BY <1>1, <1>2, PTL DEF Spec, BranchSpec, Branch!Spec

-----------------------------------------------------------------------------
(***************************************************************************)
(* Sums of weights.                                                        *)
(***************************************************************************)
Weight(s) == provenanceTierWeight(provenanceTierForResult(s))
LEMMA WeightType == \A s : Weight(s) \in Nat /\ Weight(s) <= 100
BY DEF Weight, provenanceTierWeight

(* SumWeight is the sum of them.                                             *)
LEMMA SumIs ==
    ASSUME NEW S, IsFiniteSet(S), NEW w, \A x \in S : w[x] = Weight(x)
    PROVE  SumWeight(S) = SumOf(w, S)
<1> DEFINE Taken(f) == f = [T \in SUBSET S |-> IF T = {} THEN 0 ELSE Weight(Pick(T)) + f[T \ {Pick(T)}]]
           g == CHOOSE g : Taken(g)
<1>1. SumWeight(S) = g[S]
  BY DEF SumWeight, MapThenSumSet, MapThenFoldSet, Weight, Pick
<1>2. \A T \in SUBSET S : T # {} => w[Pick(T)] = Weight(Pick(T))
  BY DEF Pick
<1>3. \A f : Taken(f) <=> IsSum(f, S, w)
  BY <1>2 DEF IsSum
<1>4. \A x \in S : w[x] \in Nat
  BY WeightType
<1>5. \E f : Taken(f)
  <2> HIDE DEF Taken
  <2> QED BY <1>3, <1>4, SumExists
<1>6. IsSum(g, S, w)
  <2>1. Taken(g)
    <3> HIDE DEF Taken
    <3> QED BY <1>5
  <2> HIDE DEF g, Taken
  <2> QED BY <1>3, <2>1
<1> HIDE DEF g
<1> QED BY <1>1, <1>4, <1>6, SumIsAny

(* The sum, one element at a time.                                           *)
LEMMA WeightUnfolds ==
    ASSUME NEW T, IsFiniteSet(T)
    PROVE  SumWeight(T) = IF T = {} THEN 0 ELSE Weight(Pick(T)) + SumWeight(T \ {Pick(T)})
<1> DEFINE w == [x \in T |-> Weight(x)]
           U == T \ {Pick(T)}
<1>1. \A x \in T : w[x] = Weight(x) /\ w[x] \in Nat
  BY WeightType
<1>2. IsFiniteSet(U) /\ (T # {} => w[Pick(T)] = Weight(Pick(T)))
  BY <1>1, FS_RemoveElement, FS_Subset, SmallerPart
<1>3. SumWeight(T) = SumOf(w, T) /\ SumWeight(U) = SumOf(w, U)
  <2> HIDE DEF w
  <2> QED BY <1>1, <1>2, SumIs
<1>4. SumOf(w, T) = IF T = {} THEN 0 ELSE w[Pick(T)] + SumOf(w, U)
  <2> HIDE DEF w
  <2> QED BY <1>1, SumUnfolds
<1> HIDE DEF w
<1> QED BY <1>2, <1>3, <1>4

(* Its bounds.                                                               *)
LEMMA SumBounds ==
    ASSUME NEW S, IsFiniteSet(S)
    PROVE  SumWeight(S) \in Nat /\ SumWeight(S) <= 100 * Cardinality(S)
<1> DEFINE Good(T) == SumWeight(T) \in Nat /\ SumWeight(T) <= 100 * Cardinality(T)
           Bad == {T \in SUBSET S : ~Good(T)}
<1>1. Bad = {}
  <2> SUFFICES ASSUME Bad # {} PROVE FALSE
    OBVIOUS
  <2>1. \A T \in SUBSET S : IsFiniteSet(T) /\ Cardinality(T) \in Nat
    BY FS_Subset, FS_CardinalityType, Zenon
  <2>2. PICK T \in Bad : \A V \in Bad : Cardinality(T) <= Cardinality(V)
    <3>1. \A T \in Bad : IsFiniteSet(T)
      BY <2>1
    <3> HIDE DEF Bad
    <3> QED BY <3>1, SmallestSet, Zenon
  <2>3. T # {}
    <3>1. SumWeight({}) = 0 /\ Cardinality({}) = 0
      BY FS_EmptySet, WeightUnfolds
    <3>2. Good({})
      BY <3>1
    <3> HIDE DEF Good
    <3> QED BY <3>2
  <2> DEFINE U == T \ {Pick(T)}
  <2>4. U \in SUBSET S /\ Cardinality(U) = Cardinality(T) - 1 /\ Cardinality(T) \in Nat
    BY <2>1, <2>3, SmallerPart
  <2>5. Good(U)
    <3>1. U \notin Bad
      <4> HIDE DEF Bad, U
      <4> QED BY <2>2, <2>4
    <3> HIDE DEF Good, U
    <3> QED BY <2>4, <3>1
  <2>6. SumWeight(T) = Weight(Pick(T)) + SumWeight(U)
    BY <2>1, <2>3, WeightUnfolds
  <2>7. Good(T)
    <3> HIDE DEF U
    <3> QED BY <2>4, <2>5, <2>6, WeightType
  <2> QED BY <2>7
<1> QED BY <1>1

(* One element more adds its weight.                                         *)
LEMMA WeightAdds ==
    ASSUME NEW S, IsFiniteSet(S), NEW y, y \notin S
    PROVE  SumWeight(S \cup {y}) = SumWeight(S) + Weight(y)
<1> DEFINE w == [x \in S \cup {y} |-> Weight(x)]
<1>1. \A x \in S \cup {y} : w[x] = Weight(x) /\ w[x] \in Nat
  BY WeightType
<1>2. IsFiniteSet(S \cup {y})
  BY FS_AddElement
<1> HIDE DEF w
<1>3. SumWeight(S) = SumOf(w, S) /\ SumWeight(S \cup {y}) = SumOf(w, S \cup {y})
  BY <1>1, <1>2, SumIs
<1>4. SumOf(w, S \cup {y}) = SumOf(w, S) + w[y]
  BY <1>1, SumAdds
<1> QED BY <1>1, <1>3, <1>4

(* The sum of two sets without a common element.                             *)
LEMMA SumOfBoth ==
    ASSUME NEW A, IsFiniteSet(A), NEW B, IsFiniteSet(B), A \cap B = {}
    PROVE  SumWeight(A \cup B) = SumWeight(A) + SumWeight(B)
<1> DEFINE Good(T) == SumWeight(A \cup T) = SumWeight(A) + SumWeight(T)
           Bad == {T \in SUBSET B : ~Good(T)}
<1>1. Bad = {}
  <2> SUFFICES ASSUME Bad # {} PROVE FALSE
    OBVIOUS
  <2>1. \A T \in SUBSET B : IsFiniteSet(T) /\ Cardinality(T) \in Nat
    BY FS_Subset, FS_CardinalityType, Zenon
  <2>2. PICK T \in Bad : \A V \in Bad : Cardinality(T) <= Cardinality(V)
    <3>1. \A T \in Bad : IsFiniteSet(T)
      BY <2>1
    <3> HIDE DEF Bad
    <3> QED BY <3>1, SmallestSet, Zenon
  <2>3. T # {}
    <3>1. A \cup {} = A /\ SumWeight({}) = 0 /\ SumWeight(A) \in Nat
      BY FS_EmptySet, WeightUnfolds, SumBounds
    <3> QED BY <3>1
  <2> DEFINE x == Pick(T)
             U == T \ {x}
  <2>4. x \in T /\ U \in SUBSET B /\ Cardinality(U) = Cardinality(T) - 1 /\ Cardinality(T) \in Nat
    BY <2>1, <2>3, SmallerPart
  <2>5. Good(U)
    <3>1. U \notin Bad
      <4> HIDE DEF Bad, U
      <4> QED BY <2>2, <2>4
    <3> HIDE DEF Good, U
    <3> QED BY <2>4, <3>1
  <2>6. /\ x \notin U /\ U \cup {x} = T /\ x \notin A \cup U /\ (A \cup U) \cup {x} = A \cup T
        /\ IsFiniteSet(U) /\ IsFiniteSet(A \cup U)
    BY <2>1, <2>4, FS_Union
  <2>7. SumWeight(T) = SumWeight(U) + Weight(x) /\ SumWeight(A \cup T) = SumWeight(A \cup U) + Weight(x)
    <3> HIDE DEF U, x
    <3> QED BY <2>6, WeightAdds
  <2>8. SumWeight(U) \in Nat /\ SumWeight(A) \in Nat /\ Weight(x) \in Nat
    BY <2>6, SumBounds, WeightType
  <2>9. Good(T)
    <3> HIDE DEF U, x
    <3> QED BY <2>5, <2>7, <2>8
  <2> QED BY <2>9
<1> QED BY <1>1

-----------------------------------------------------------------------------
(***************************************************************************)
(* The hypotheses: what evidence they were credited with, and that a run   *)
(* that gains nothing uses something up.                                   *)
(***************************************************************************)
SourceIds == {s.id : s \in Sources}
SeedIds == {Seeds[i].id : i \in DOMAIN Seeds}
Of(ids) == {s \in Sources : s.id \in ids}

HypothesisFields == DOMAIN SeedHypothesis("", {})

\* A hypothesis: what it was credited with are sources, and nothing contests
\* one that no source contradicts.
IsHypothesis(h) ==
    /\ DOMAIN h = HypothesisFields
    /\ h.id \in SeedIds /\ h.confidence \in Int /\ h.strength \in Int
    /\ clamp01(h.confidence) = h.confidence /\ clamp01(h.strength) = h.strength
    /\ h.support \subseteq SourceIds /\ h.counter \subseteq SourceIds
    /\ h.counter = {} => h.status = "active"
\* Its confidence is what its evidence weighs, up to what the clamps cut off.
Weighed(h) ==
    LET support == 6 * SumWeight(Of(h.support))
        counter == 6 * SumWeight(Of(h.counter))
    IN  /\ h.confidence >= clamp01(4200 + support) - counter
        /\ h.confidence <= clamp01(4200 - counter) + support
HypothesesTyped(hyps) ==
    /\ \E n \in Nat : DOMAIN hyps = 1..n
    /\ \A i \in DOMAIN hyps : IsHypothesis(hyps[i]) /\ Weighed(hyps[i])
    /\ \A i, j \in DOMAIN hyps : hyps[i].id = hyps[j].id => i = j
Ranked(hyps) == \A i, j \in DOMAIN hyps : i < j => RankedBefore(hyps[i], hyps[j], IdOrder)

\* A session has the hypotheses of its seeds, once it was planned.
Seeded(d) == DOMAIN d.hyps = DOMAIN Seeds
HypothesesInv ==
    /\ corpus \subseteq Sources
    /\ HypothesesTyped(drill.hyps)
    /\ Seeded(drill) \/ (drill.hyps = <<>> /\ drill.exhausted = {} /\ drill.history = <<>>)
    /\ plan # NoPlan => Seeded(drill)

LowRuns(d) == {i \in DOMAIN d.history : d.history[i].gain = "LOW"}
\* The hypotheses are in the order of their ranks once a strategy was run.
RankedSince(d) ==
    Ranked(d.hyps) \/ (d.exhausted = {} /\ \A i \in DOMAIN d.history : d.history[i].strategy = "FREEZE_BRANCH")
\* What was exhausted was so for tiers that are not above the one reached.
TiersBelow(d) ==
    \A x \in d.exhausted : x[3][1] # "" /\ TierRank(x[3][1]) <= TierRank(d.tier) /\ d.tier # ""
LowInv ==
    /\ IsFiniteSet(drill.exhausted) /\ RankedSince(drill) /\ TiersBelow(drill)
    /\ plan # NoPlan => plan.strategy = "FREEZE_BRANCH"
                        \/ ~isStrategyExhausted(drill, plan.uncertainty, plan.strategy)
    /\ LowGainUsesUp

-----------------------------------------------------------------------------
(* Ranks: the sort keeps the hypotheses and puts them in order.              *)

LEMMA RankOrder ==
    ASSUME NEW hyps, HypothesesTyped(hyps)
    PROVE  LET S == Range(hyps)
               R == {p \in S \X S : RankedBefore(p[1], p[2], IdOrder)}
           IN  /\ StrictOrder(R, S) /\ IsFiniteSet(S)
               /\ \E n \in Nat : DOMAIN hyps = 1..n /\ Cardinality(S) = n
               /\ \A h \in S : {g \in S : RankedBefore(g, h, IdOrder)} = Preceding(R, S, h)
               /\ \A g, h \in S : <<g, h>> \in R <=> RankedBefore(g, h, IdOrder)
<1> DEFINE S == Range(hyps)
           R == {p \in S \X S : RankedBefore(p[1], p[2], IdOrder)}
<1>1. PICK n \in Nat : DOMAIN hyps = 1..n
  BY DEF HypothesesTyped
<1>2. \A i \in 1..n : hyps[i] \in S
  BY <1>1 DEF Range
<1>3. \A h \in S : \E i \in 1..n : h = hyps[i]
  BY <1>1 DEF Range
<1>4. \A i, j \in 1..n : hyps[i].id = hyps[j].id => i = j
  BY <1>1 DEF HypothesesTyped
<1>5. \A h \in S : h.id \in SeedIds /\ rankScore(h) \in Int
  <2>1. \A i \in 1..n : IsHypothesis(hyps[i])
    BY <1>1 DEF HypothesesTyped
  <2>2. ASSUME NEW h \in S PROVE h.id \in SeedIds /\ rankScore(h) \in Int
    <3>1. IsHypothesis(h)
      BY <1>3, <2>1
    <3>2. h.id \in SeedIds /\ h.confidence \in Int /\ h.strength \in Int
      BY <3>1 DEF IsHypothesis
    <3> QED BY <3>2 DEF rankScore
  <2> QED BY <2>2
<1>6. /\ \A a \in SeedIds : IdOrder[a] \in Int
      /\ \A a, b \in SeedIds : IdOrder[a] = IdOrder[b] => a = b
  BY SeedsAssumption DEF SeedIds
<1>7. \A g, h \in S : g.id = h.id => g = h
  BY <1>3, <1>4
<1>8. \A g, h \in S : <<g, h>> \in R <=> RankedBefore(g, h, IdOrder)
  OBVIOUS
<1>9. IsFiniteSet(S) /\ Cardinality(S) = n
  <2> DEFINE f == [i \in 1..n |-> hyps[i]]
  <2>1. f \in [1..n -> S] /\ \A i, j \in 1..n : f[i] = f[j] => i = j
    BY <1>2, <1>4
  <2>2. \A h \in S : \E i \in 1..n : f[i] = h
    BY <1>3
  <2> HIDE DEF f
  <2>3. f \in Bijection(1..n, S)
    BY <2>1, <2>2, Zenon DEF Bijection, Injection, Surjection, IsInjective
  <2>4. IsFiniteSet(1..n) /\ Cardinality(1..n) = n
    BY <1>1, FS_Interval
  <2>5. ExistsBijection(1..n, S)
    BY <2>3, Zenon DEF ExistsBijection
  <2> QED BY <2>4, <2>5, FS_Bijection
<1>10. \A g, h \in S : RankedBefore(g, h, IdOrder) <=>
          rankScore(g) > rankScore(h) \/ (rankScore(g) = rankScore(h) /\ IdOrder[g.id] < IdOrder[h.id])
  BY DEF RankedBefore
<1> HIDE DEF R
<1>11. StrictOrder(R, S)
  <2> HIDE DEF S
  <2>1. \A a \in S : IdOrder[a.id] \in Int
    BY <1>5, <1>6
  <2>2. \A a \in S : ~RankedBefore(a, a, IdOrder)
    BY <1>5, <1>10, <2>1
  <2>3. \A a, b \in S : a # b => RankedBefore(a, b, IdOrder) \/ RankedBefore(b, a, IdOrder)
    BY <1>5, <1>6, <1>7, <1>10, <2>1
  <2>4. \A a, b, c \in S : RankedBefore(a, b, IdOrder) /\ RankedBefore(b, c, IdOrder) => RankedBefore(a, c, IdOrder)
    BY <1>5, <1>10, <2>1
  <2> QED BY <1>8, <2>2, <2>3, <2>4 DEF StrictOrder
<1>12. \A h \in S : {g \in S : RankedBefore(g, h, IdOrder)} = Preceding(R, S, h)
  BY <1>8 DEF Preceding
<1> QED BY <1>1, <1>8, <1>9, <1>11, <1>12 DEF R

LEMMA RerankSorts ==
    ASSUME NEW hyps, HypothesesTyped(hyps)
    PROVE  LET new == rerankHypotheses(hyps, IdOrder)
           IN  /\ DOMAIN new = DOMAIN hyps /\ HypothesesTyped(new) /\ Ranked(new)
               /\ \A i \in DOMAIN hyps : \E j \in DOMAIN hyps : new[j] = hyps[i]
               /\ \A j \in DOMAIN hyps : \E i \in DOMAIN hyps : new[j] = hyps[i]
<1> DEFINE S == Range(hyps)
           R == {p \in S \X S : RankedBefore(p[1], p[2], IdOrder)}
           new == rerankHypotheses(hyps, IdOrder)
<1>1. /\ StrictOrder(R, S) /\ IsFiniteSet(S)
      /\ \A h \in S : {g \in S : RankedBefore(g, h, IdOrder)} = Preceding(R, S, h)
      /\ \A g, h \in S : <<g, h>> \in R <=> RankedBefore(g, h, IdOrder)
  BY RankOrder, Zenon
<1>2. PICK n \in Nat : DOMAIN hyps = 1..n /\ Cardinality(S) = n
  BY RankOrder, Zenon
<1> HIDE DEF R
<1>3. \A i \in 1..n : new[i] = CHOOSE h \in S : Place(R, S, h) = i - 1
  <2>1. \A i \in 1..n : new[i] = CHOOSE h \in S : Cardinality({g \in S : RankedBefore(g, h, IdOrder)}) = i - 1
    BY <1>2 DEF rerankHypotheses
  <2>2. \A h \in S : Cardinality({g \in S : RankedBefore(g, h, IdOrder)}) = Place(R, S, h)
    BY <1>1 DEF Place
  <2> HIDE DEF S, new
  <2> QED BY <2>1, <2>2
<1>4. DOMAIN new = 1..n
  BY <1>2 DEF rerankHypotheses
<1>5. \A i \in 1..n : new[i] \in S /\ Place(R, S, new[i]) = i - 1
  <2> HIDE DEF S, new
  <2> SUFFICES ASSUME NEW i \in 1..n PROVE new[i] \in S /\ Place(R, S, new[i]) = i - 1
    OBVIOUS
  <2>1. i - 1 \in Nat /\ i - 1 < Cardinality(S)
    BY <1>2
  <2>2. \E h \in S : Place(R, S, h) = i - 1
    BY <1>1, <2>1, PlaceTaken
  <2> QED BY <1>3, <2>2
<1>6. \A g, h \in S : Place(R, S, g) = Place(R, S, h) => g = h
  <2> HIDE DEF S, new
  <2> SUFFICES ASSUME NEW g \in S, NEW h \in S, Place(R, S, g) = Place(R, S, h) PROVE g = h
    OBVIOUS
  <2>1. Place(R, S, g) \in Nat
    BY <1>1, PlaceType
  <2>2. <<g, h>> \notin R /\ <<h, g>> \notin R
    BY <1>1, <2>1, PlacesFollow
  <2> QED BY <1>1, <2>2 DEF StrictOrder
<1>7. \A i \in 1..n : \E j \in 1..n : new[j] = hyps[i]
  <2> SUFFICES ASSUME NEW i \in 1..n PROVE \E j \in 1..n : new[j] = hyps[i]
    OBVIOUS
  <2>1. hyps[i] \in S
    BY <1>2 DEF Range
  <2> HIDE DEF S, new
  <2>2. Place(R, S, hyps[i]) \in Nat /\ Place(R, S, hyps[i]) < n
    BY <1>1, <1>2, <2>1, PlaceType
  <2>3. Place(R, S, hyps[i]) + 1 \in 1..n /\ (Place(R, S, hyps[i]) + 1) - 1 = Place(R, S, hyps[i])
    BY <1>2, <2>2
  <2> QED BY <1>5, <1>6, <2>1, <2>3
<1>8. \A j \in 1..n : \E i \in 1..n : new[j] = hyps[i]
  BY <1>2, <1>5 DEF Range
<1>9. Ranked(new)
  <2> HIDE DEF S, new
  <2> SUFFICES ASSUME NEW i \in 1..n, NEW j \in 1..n, i < j
               PROVE  RankedBefore(new[i], new[j], IdOrder)
    BY <1>4 DEF Ranked
  <2>1. Place(R, S, new[i]) < Place(R, S, new[j])
    BY <1>5
  <2> QED BY <1>1, <1>5, <2>1, PlacesFollow
<1>10. HypothesesTyped(new)
  <2> HIDE DEF S, new
  <2>1. \A i \in 1..n : IsHypothesis(new[i]) /\ Weighed(new[i])
    BY <1>2, <1>8 DEF HypothesesTyped
  <2>2. ASSUME NEW i \in 1..n, NEW j \in 1..n, new[i].id = new[j].id PROVE i = j
    <3>1. PICK k \in 1..n : new[i] = hyps[k]
      BY <1>8
    <3>2. PICK m \in 1..n : new[j] = hyps[m]
      BY <1>8
    <3>3. k = m
      BY <1>2, <2>2, <3>1, <3>2 DEF HypothesesTyped
    <3>4. i - 1 = j - 1
      BY <1>5, <3>1, <3>2, <3>3
    <3> QED BY <3>4
  <2> QED BY <1>2, <1>4, <2>1, <2>2 DEF HypothesesTyped
<1> HIDE DEF new
<1> QED BY <1>2, <1>4, <1>7, <1>8, <1>9, <1>10 DEF new

(* What is in order stays as it is.                                          *)
LEMMA RerankKeeps ==
    ASSUME NEW hyps, HypothesesTyped(hyps), Ranked(hyps)
    PROVE  \A i \in DOMAIN hyps : rerankHypotheses(hyps, IdOrder)[i] = hyps[i]
<1> DEFINE S == Range(hyps)
           R == {p \in S \X S : RankedBefore(p[1], p[2], IdOrder)}
           new == rerankHypotheses(hyps, IdOrder)
<1>1. /\ StrictOrder(R, S) /\ IsFiniteSet(S)
      /\ \A h \in S : {g \in S : RankedBefore(g, h, IdOrder)} = Preceding(R, S, h)
      /\ \A g, h \in S : <<g, h>> \in R <=> RankedBefore(g, h, IdOrder)
  BY RankOrder, Zenon
<1>2. PICK n \in Nat : DOMAIN hyps = 1..n /\ Cardinality(S) = n
  BY RankOrder, Zenon
<1> HIDE DEF R
<1> SUFFICES ASSUME NEW i \in 1..n PROVE new[i] = hyps[i]
  BY <1>2
<1>3. new[i] = CHOOSE h \in S : Place(R, S, h) = i - 1
  <2>1. new[i] = CHOOSE h \in S : Cardinality({g \in S : RankedBefore(g, h, IdOrder)}) = i - 1
    BY <1>2 DEF rerankHypotheses
  <2>2. \A h \in S : Cardinality({g \in S : RankedBefore(g, h, IdOrder)}) = Place(R, S, h)
    BY <1>1 DEF Place
  <2> HIDE DEF S, new
  <2> QED BY <2>1, <2>2
<1>4. hyps[i] \in S /\ \A j \in 1..n : hyps[j] \in S
  BY <1>2 DEF Range
<1>5. \A j, k \in 1..n : hyps[j] = hyps[k] => j = k
  BY <1>2 DEF HypothesesTyped
<1>6. Place(R, S, hyps[i]) = i - 1
  <2> DEFINE P == {g \in S : RankedBefore(g, hyps[i], IdOrder)}
             f == [j \in 1..i - 1 |-> hyps[j]]
  <2>1. \A j \in 1..i - 1 : j \in 1..n /\ j < i
    BY <1>2
  <2>2. \A j \in 1..i - 1 : hyps[j] \in P
    BY <1>2, <1>4, <2>1 DEF Ranked
  <2>3. \A g \in P : \E j \in 1..i - 1 : g = hyps[j]
    <3> SUFFICES ASSUME NEW g \in P PROVE \E j \in 1..i - 1 : g = hyps[j]
      OBVIOUS
    <3>1. PICK j \in 1..n : g = hyps[j]
      BY <1>2 DEF Range
    <3>2. ~(i < j) /\ i # j
      <4>1. RankedBefore(hyps[j], hyps[i], IdOrder)
        BY <3>1
      <4>2. <<hyps[j], hyps[i]>> \in R
        BY <1>1, <1>4, <4>1
      <4>3. <<hyps[i], hyps[j]>> \notin R /\ hyps[i] # hyps[j]
        <5> HIDE DEF S
        <5> QED BY <1>1, <1>4, <4>2 DEF StrictOrder
      <4>4. ~RankedBefore(hyps[i], hyps[j], IdOrder)
        BY <1>1, <1>4, <4>3
      <4> QED BY <1>2, <4>3, <4>4 DEF Ranked
    <3> QED BY <1>2, <3>1, <3>2
  <2>4. f \in [1..i - 1 -> P]
    <3> HIDE DEF P
    <3> QED BY <2>2
  <2>5. \A j, k \in 1..i - 1 : f[j] = f[k] => j = k
    BY <1>5, <2>1
  <2>6. \A g \in P : \E j \in 1..i - 1 : f[j] = g
    <3> HIDE DEF P
    <3> QED BY <2>3
  <2> HIDE DEF f, P
  <2>7. f \in Bijection(1..i - 1, P)
    BY <2>4, <2>5, <2>6, Zenon DEF Bijection, Injection, Surjection, IsInjective
  <2>8. IsFiniteSet(1..i - 1) /\ Cardinality(1..i - 1) = i - 1
    BY <1>2, FS_Interval
  <2>9. ExistsBijection(1..i - 1, P)
    BY <2>7, Zenon DEF ExistsBijection
  <2>10. Cardinality(P) = i - 1
    BY <2>8, <2>9, FS_Bijection
  <2> QED BY <1>1, <1>4, <2>10 DEF Place, P
<1> HIDE DEF S
<1>7. \A h \in S : Place(R, S, h) = i - 1 => h = hyps[i]
  <2>1. i - 1 \in Nat /\ i - 1 < Cardinality(S)
    BY <1>2
  <2>2. \E x \in S : Place(R, S, x) = i - 1 /\ \A y \in S : Place(R, S, y) = i - 1 => y = x
    BY <1>1, <2>1, PlaceTaken
  <2> QED BY <1>4, <1>6, <2>2
<1> QED BY <1>3, <1>4, <1>6, <1>7

-----------------------------------------------------------------------------
(* Evidence: what a strategy retrieves is in the collection, and what it     *)
(* changes of a hypothesis.                                                  *)

LEMMA EvidenceIsThere ==
    ASSUME NEW strategy, NEW at, NEW hyps, NEW evidence \in runDeepDrillStrategy(strategy, at, hyps)
    PROVE  evidence \subseteq at
<1> DEFINE matching == CASE strategy = "SEMANTIC_BROAD" -> OneOfEachDocument(at)
                         [] strategy = "DOCUMENT_EXPANSION" -> ExpandedDocuments(at, hyps)
                         [] OTHER -> {MatchingSources(strategy, at, hyps)}
<1>1. \A sources \in OneOfEachDocument(at) : sources \subseteq at
  BY DEF OneOfEachDocument
<1>2. \A query : keywordSearch(at, query) \subseteq at
  BY DEF keywordSearch
<1>3. MatchingSources(strategy, at, hyps) \subseteq at
  BY <1>2 DEF MatchingSources
<1>4. \A sources \in ExpandedDocuments(at, hyps) : sources \subseteq at
  BY DEF ExpandedDocuments, getDocumentChunks
<1>5. \A sources \in matching : sources \subseteq at
  BY <1>1, <1>3, <1>4
<1>6. runDeepDrillStrategy(strategy, at, hyps) =
        IF Cardinality(at) =< SearchLimit(strategy) THEN matching
        ELSE UNION {{results \in SUBSET sources : Cardinality(results) =< SearchLimit(strategy)} :
                       sources \in matching}
  BY DEF runDeepDrillStrategy
<1> HIDE DEF matching
<1>7. \E sources \in matching : evidence \subseteq sources
  BY <1>6
<1> QED BY <1>5, <1>7

LEMMA TopTierNamed ==
    ASSUME NEW evidence \in SUBSET Sources
    PROVE  TopTier(evidence) # ""
<1> DEFINE tiers == {provenanceTierForResult(s) : s \in evidence}
           Below == {8 - TierRank(t) : t \in tiers}
<1>1. CASE evidence = {}
  BY <1>1 DEF TopTier
<1>2. CASE evidence # {}
  <2>1. ASSUME NEW s \in Sources PROVE provenanceTierForResult(s) # ""
    <3>1. s.kind \in Kinds
      BY SourcesAssumption
    <3> DEFINE tierOf == [document |-> "RAW_SOURCE", transcript |-> "RAW_TRANSCRIPT",
                          draft |-> "VERSIONED_DRAFT", note |-> "DIRECT_NOTE",
                          audio_overview |-> "AUDIO_OVERVIEW", presentation |-> "PRESENTATION_SUMMARY",
                          summary |-> "DERIVED_SUMMARY", other |-> "UNKNOWN"]
    <3>2. \A k \in Kinds : tierOf[k] # ""
      <4>1. /\ tierOf["document"] = "RAW_SOURCE" /\ tierOf["transcript"] = "RAW_TRANSCRIPT"
            /\ tierOf["draft"] = "VERSIONED_DRAFT" /\ tierOf["note"] = "DIRECT_NOTE"
        OBVIOUS
      <4>2. /\ tierOf["audio_overview"] = "AUDIO_OVERVIEW" /\ tierOf["presentation"] = "PRESENTATION_SUMMARY"
            /\ tierOf["summary"] = "DERIVED_SUMMARY" /\ tierOf["other"] = "UNKNOWN"
        OBVIOUS
      <4> HIDE DEF tierOf
      <4> QED BY <4>1, <4>2 DEF Kinds
    <3>3. provenanceTierForResult(s) = IF s.filed THEN "RAW_SOURCE" ELSE tierOf[s.kind]
      BY DEF provenanceTierForResult
    <3> HIDE DEF tierOf
    <3> QED BY <3>1, <3>2, <3>3
  <2>2. \A t : TierRank(t) \in Nat /\ TierRank(t) <= 8
    BY DEF TierRank
  <2>3. Below \subseteq Nat /\ Below # {}
    <3> HIDE DEF tiers
    <3>1. tiers # {}
      BY <1>2 DEF tiers
    <3> QED BY <2>2, <3>1
  <2>4. PICK n \in Below : \A m \in Below : n <= m
    <3> HIDE DEF Below
    <3> QED BY <2>3, LeastNatural, Zenon
  <2> HIDE DEF tiers
  <2>5. \E t \in tiers : \A u \in tiers : TierRank(u) <= TierRank(t)
    <3>1. PICK t \in tiers : n = 8 - TierRank(t)
      OBVIOUS
    <3>2. \A u \in tiers : n <= 8 - TierRank(u)
      BY <2>4
    <3> QED BY <2>2, <3>1, <3>2
  <2>6. TopTier(evidence) = CHOOSE t \in tiers : \A u \in tiers : TierRank(u) <= TierRank(t)
    BY <1>2 DEF TopTier, tiers
  <2>7. TopTier(evidence) \in tiers
    BY <2>5, <2>6
  <2> QED BY <2>1, <2>7 DEF tiers
<1> QED BY <1>1, <1>2

LEMMA WeightOfSources ==
    ASSUME NEW T \in SUBSET Sources
    PROVE  IsFiniteSet(T) /\ SumWeight(T) \in Nat
<1>1. IsFiniteSet(T)
  BY SourcesAssumption, FS_Subset
<1> QED BY <1>1, SumBounds

(* Evidence that was not credited before weighs on top of what was.          *)
LEMMA CreditAdds ==
    ASSUME NEW ids \in SUBSET SourceIds, NEW new \in SUBSET Sources, \A s \in new : s.id \notin ids
    PROVE  SumWeight(Of(ids \cup {s.id : s \in new})) = SumWeight(Of(ids)) + SumWeight(new)
<1>1. Of(ids \cup {s.id : s \in new}) = Of(ids) \cup new /\ Of(ids) \cap new = {}
  BY SourcesAssumption DEF Of
<1>2. IsFiniteSet(Of(ids)) /\ IsFiniteSet(new)
  BY WeightOfSources DEF Of
<1> QED BY <1>1, <1>2, SumOfBoth

LEMMA ClampFacts == \A v \in Int : clamp01(v) \in Int /\ clamp01(clamp01(v)) = clamp01(v)
BY DEF clamp01

LEMMA UpdateFacts ==
    ASSUME NEW h, IsHypothesis(h), Weighed(h), NEW evidence \in SUBSET Sources
    PROVE  LET new == UpdateHypothesis(h, evidence, Relations)
           IN  /\ IsHypothesis(new) /\ Weighed(new) /\ new.id = h.id
               /\ h.support \subseteq new.support /\ h.counter \subseteq new.counter
               /\ new.support = h.support /\ new.counter = h.counter =>
                     new.status = h.status /\ new.confidence = h.confidence /\ new.strength = h.strength
<1> DEFINE Class(p) == {s \in evidence : classifyEvidence(h, s, Relations) = p}
           support == unseenEvidence(h.support, Class("support"))
           counter == unseenEvidence(h.counter, Class("counter"))
           Ids(items) == {s.id : s \in items}
           net == SumWeight(support) - SumWeight(counter)
           new == UpdateHypothesis(h, evidence, Relations)
<1>1. /\ support \in SUBSET Sources /\ \A s \in support : s.id \notin h.support
      /\ counter \in SUBSET Sources /\ \A s \in counter : s.id \notin h.counter
  BY DEF unseenEvidence
<1>2. /\ DOMAIN new = DOMAIN h /\ new.id = h.id
      /\ new.support = h.support \cup Ids(support) /\ new.counter = h.counter \cup Ids(counter)
      /\ new.confidence = clamp01(h.confidence + 6 * net)
      /\ new.strength = clamp01(h.strength + 8 * net)
      /\ new.status = IF counter # {} THEN "contested" ELSE IF h.counter = {} THEN "active" ELSE h.status
  <2>1. DOMAIN h = {"id", "concepts", "confidence", "strength", "status", "support", "counter", "ambiguous"}
    BY DEF IsHypothesis, HypothesisFields, SeedHypothesis
  <2> HIDE DEF support, counter, net
  <2>2. new = [h EXCEPT !.confidence = clamp01(h.confidence + 6 * net),
                  !.strength = clamp01(h.strength + 8 * net),
                  !.status = IF counter # {} THEN "contested"
                             ELSE IF h.counter = {} THEN "active" ELSE h.status,
                  !.support = h.support \cup Ids(support),
                  !.counter = h.counter \cup Ids(counter),
                  !.ambiguous = h.ambiguous \cup Ids(unseenEvidence(h.ambiguous, Class("ambiguous")))]
    BY DEF UpdateHypothesis, support, counter, net
  <2> HIDE DEF new
  <2> QED BY <2>1, <2>2
<1>3. /\ SumWeight(support) \in Nat /\ SumWeight(counter) \in Nat
      /\ h.confidence \in Int /\ h.strength \in Int
  BY <1>1, WeightOfSources DEF IsHypothesis
<1> HIDE DEF new, support, counter
<1>4. new.confidence \in Int /\ new.strength \in Int
      /\ clamp01(new.confidence) = new.confidence /\ clamp01(new.strength) = new.strength
  BY <1>2, <1>3, ClampFacts
<1>5. new.support \subseteq SourceIds /\ new.counter \subseteq SourceIds
  BY <1>1, <1>2 DEF IsHypothesis, SourceIds
<1>6. new.counter = {} => new.status = "active"
  BY <1>2
<1>7. IsHypothesis(new)
  BY <1>2, <1>4, <1>5, <1>6 DEF IsHypothesis
<1>8. Weighed(new)
  <2> DEFINE a == SumWeight(Of(h.support))
             b == SumWeight(Of(h.counter))
  <2>1. a \in Nat /\ b \in Nat
    BY WeightOfSources DEF Of
  <2>2. SumWeight(Of(new.support)) = a + SumWeight(support)
    BY <1>1, <1>2, CreditAdds DEF IsHypothesis
  <2>3. SumWeight(Of(new.counter)) = b + SumWeight(counter)
    BY <1>1, <1>2, CreditAdds DEF IsHypothesis
  <2>4. /\ h.confidence >= clamp01(4200 + 6 * a) - 6 * b
        /\ h.confidence <= clamp01(4200 - 6 * b) + 6 * a
    BY DEF Weighed
  <2> HIDE DEF a, b
  <2>5. /\ clamp01(h.confidence + 6 * net)
             >= clamp01(4200 + 6 * (a + SumWeight(support))) - 6 * (b + SumWeight(counter))
        /\ clamp01(h.confidence + 6 * net)
             <= clamp01(4200 - 6 * (b + SumWeight(counter))) + 6 * (a + SumWeight(support))
    <3>1. PICK c \in Int, s \in Nat, t \in Nat :
             c = h.confidence /\ s = SumWeight(support) /\ t = SumWeight(counter)
      BY <1>3
    <3>2. net = s - t
      BY <3>1
    <3> HIDE DEF net
    <3>3. /\ clamp01(c + 6 * (s - t)) >= clamp01(4200 + 6 * (a + s)) - 6 * (b + t)
          /\ clamp01(c + 6 * (s - t)) <= clamp01(4200 - 6 * (b + t)) + 6 * (a + s)
      <4>1. c >= clamp01(4200 + 6 * a) - 6 * b /\ c <= clamp01(4200 - 6 * b) + 6 * a
        BY <2>4, <3>1
      <4> QED BY <2>1, <4>1 DEF clamp01
    <3> QED BY <3>1, <3>2, <3>3
  <2> QED BY <1>2, <2>2, <2>3, <2>5 DEF Weighed
<1>9. ASSUME new.support = h.support, new.counter = h.counter
      PROVE  new.status = h.status /\ new.confidence = h.confidence /\ new.strength = h.strength
  <2>1. support = {} /\ counter = {}
    BY <1>1, <1>2, <1>9
  <2>2. net = 0
    <3>1. SumWeight(support) = SumWeight(counter)
      BY <2>1
    <3> QED BY <1>3, <3>1
  <2> HIDE DEF net
  <2>3. h.confidence + 6 * net = h.confidence /\ h.strength + 8 * net = h.strength
    BY <1>3, <2>2
  <2> QED BY <1>2, <2>1, <2>3 DEF IsHypothesis
<1>10. h.support \subseteq new.support /\ h.counter \subseteq new.counter /\ new.id = h.id
  BY <1>2
<1> QED BY <1>7, <1>8, <1>9, <1>10 DEF new

(* What the evidence of a step does to the model: everything it was credited *)
(* with stays, and the key changes only with new credit.                     *)
LEMMA ModelUpdate ==
    ASSUME NEW hyps, HypothesesTyped(hyps), NEW evidence \in SUBSET Sources
    PROVE  LET new == applyModelUpdate(hyps, evidence, Relations, IdOrder)
           IN  /\ DOMAIN new = DOMAIN hyps /\ HypothesesTyped(new) /\ Ranked(new)
               /\ \A i \in DOMAIN hyps : \E j \in DOMAIN new :
                     /\ new[j].id = hyps[i].id
                     /\ hyps[i].support \subseteq new[j].support
                     /\ hyps[i].counter \subseteq new[j].counter
               /\ Credited(hyps) \subseteq Credited(new)
               /\ Ranked(hyps) /\ Credited(new) = Credited(hyps) =>
                     \A i \in DOMAIN hyps : new[i].id = hyps[i].id /\ new[i].status = hyps[i].status
<1> DEFINE mid == [i \in DOMAIN hyps |-> UpdateHypothesis(hyps[i], evidence, Relations)]
           new == applyModelUpdate(hyps, evidence, Relations, IdOrder)
<1>1. new = rerankHypotheses(mid, IdOrder) /\ DOMAIN mid = DOMAIN hyps
  BY DEF applyModelUpdate
<1>2. \A i \in DOMAIN hyps :
          /\ IsHypothesis(mid[i]) /\ Weighed(mid[i]) /\ mid[i].id = hyps[i].id
          /\ hyps[i].support \subseteq mid[i].support /\ hyps[i].counter \subseteq mid[i].counter
          /\ mid[i].support = hyps[i].support /\ mid[i].counter = hyps[i].counter =>
                /\ mid[i].status = hyps[i].status /\ mid[i].confidence = hyps[i].confidence
                /\ mid[i].strength = hyps[i].strength
  <2> SUFFICES ASSUME NEW i \in DOMAIN hyps
               PROVE  /\ IsHypothesis(mid[i]) /\ Weighed(mid[i]) /\ mid[i].id = hyps[i].id
                      /\ hyps[i].support \subseteq mid[i].support /\ hyps[i].counter \subseteq mid[i].counter
                      /\ mid[i].support = hyps[i].support /\ mid[i].counter = hyps[i].counter =>
                            /\ mid[i].status = hyps[i].status /\ mid[i].confidence = hyps[i].confidence
                            /\ mid[i].strength = hyps[i].strength
    OBVIOUS
  <2>1. IsHypothesis(hyps[i]) /\ Weighed(hyps[i])
    BY DEF HypothesesTyped
  <2>2. mid[i] = UpdateHypothesis(hyps[i], evidence, Relations)
    OBVIOUS
  <2> HIDE DEF mid
  <2> QED BY <2>1, <2>2, UpdateFacts
<1> HIDE DEF mid, new
<1>3. HypothesesTyped(mid)
  BY <1>1, <1>2 DEF HypothesesTyped
<1>4. /\ DOMAIN new = DOMAIN hyps /\ HypothesesTyped(new) /\ Ranked(new)
      /\ \A i \in DOMAIN hyps : \E j \in DOMAIN hyps : new[j] = mid[i]
      /\ \A j \in DOMAIN hyps : \E i \in DOMAIN hyps : new[j] = mid[i]
  BY <1>1, <1>3, RerankSorts
<1>5. \A i \in DOMAIN hyps : \E j \in DOMAIN new :
         /\ new[j].id = hyps[i].id
         /\ hyps[i].support \subseteq new[j].support /\ hyps[i].counter \subseteq new[j].counter
  <2> SUFFICES ASSUME NEW i \in DOMAIN hyps
               PROVE  \E j \in DOMAIN new : /\ new[j].id = hyps[i].id
                         /\ hyps[i].support \subseteq new[j].support
                         /\ hyps[i].counter \subseteq new[j].counter
    OBVIOUS
  <2>1. PICK j \in DOMAIN new : new[j] = mid[i]
    BY <1>4
  <2>2. /\ mid[i].id = hyps[i].id
        /\ hyps[i].support \subseteq mid[i].support /\ hyps[i].counter \subseteq mid[i].counter
    BY <1>2
  <2> QED BY <2>1, <2>2
<1>6. Credited(hyps) \subseteq Credited(new)
  <2> SUFFICES ASSUME NEW c \in Credited(hyps) PROVE c \in Credited(new)
    OBVIOUS
  <2>1. PICK i \in DOMAIN hyps : c \in {hyps[i].id} \X ({"support"} \X hyps[i].support \cup {"counter"} \X hyps[i].counter)
    BY DEF Credited
  <2>2. PICK j \in DOMAIN new :
           /\ new[j].id = hyps[i].id
           /\ hyps[i].support \subseteq new[j].support /\ hyps[i].counter \subseteq new[j].counter
    BY <1>5
  <2>3. c \in {new[j].id} \X ({"support"} \X new[j].support \cup {"counter"} \X new[j].counter)
    BY <2>1, <2>2
  <2> QED BY <2>3 DEF Credited
<1>7. ASSUME Ranked(hyps), Credited(new) = Credited(hyps), NEW i \in DOMAIN hyps
      PROVE  new[i].id = hyps[i].id /\ new[i].status = hyps[i].status
  <2>1. ASSUME NEW k \in DOMAIN hyps
        PROVE  mid[k].support \subseteq hyps[k].support /\ mid[k].counter \subseteq hyps[k].counter
    <3>1. PICK j \in DOMAIN new : new[j] = mid[k]
      BY <1>4
    <3>2. ASSUME NEW side \in {"support", "counter"}, NEW e,
                 side = "support" => e \in mid[k].support, side = "counter" => e \in mid[k].counter
          PROVE  /\ side = "support" => e \in hyps[k].support
                 /\ side = "counter" => e \in hyps[k].counter
      <4>1. <<hyps[k].id, <<side, e>>>> \in {new[j].id} \X ({"support"} \X new[j].support \cup {"counter"} \X new[j].counter)
        BY <1>2, <3>1, <3>2
      <4>2. <<hyps[k].id, <<side, e>>>> \in Credited(hyps)
        BY <1>7, <4>1 DEF Credited
      <4>3. PICK m \in DOMAIN hyps : <<hyps[k].id, <<side, e>>>> \in
               {hyps[m].id} \X ({"support"} \X hyps[m].support \cup {"counter"} \X hyps[m].counter)
        BY <4>2 DEF Credited
      <4>4. m = k
        BY <4>3 DEF HypothesesTyped
      <4> QED BY <4>3, <4>4
    <3> QED BY <3>2
  <2>2. \A k \in DOMAIN hyps : mid[k].status = hyps[k].status /\ mid[k].confidence = hyps[k].confidence
                               /\ mid[k].strength = hyps[k].strength /\ mid[k].id = hyps[k].id
    BY <1>2, <2>1
  <2>3. Ranked(mid)
    <3>1. \A k \in DOMAIN hyps : rankScore(mid[k]) = rankScore(hyps[k])
      BY <2>2 DEF rankScore
    <3> QED BY <1>1, <1>7, <2>2, <3>1 DEF Ranked, RankedBefore
  <2>4. new[i] = mid[i]
    BY <1>1, <1>3, <2>3, RerankKeeps
  <2> QED BY <2>2, <2>4
<1> QED BY <1>4, <1>5, <1>6, <1>7 DEF new

-----------------------------------------------------------------------------
(* What planning and executing do to the hypotheses.                         *)

(* A hypothesis starts without evidence.                                     *)
LEMMA SeedFields ==
    ASSUME NEW h, NEW id, NEW concepts, h = SeedHypothesis(id, concepts)
    PROVE  /\ DOMAIN h = HypothesisFields /\ h.id = id
           /\ h.confidence = 4200 /\ h.strength = 2000 /\ h.status = "active"
           /\ h.support = {} /\ h.counter = {}
BY DEF SeedHypothesis, HypothesisFields

LEMMA SeedIsHypothesis ==
    ASSUME NEW h, NEW id \in SeedIds, NEW concepts, h = SeedHypothesis(id, concepts)
    PROVE  IsHypothesis(h) /\ Weighed(h)
<1>1. /\ DOMAIN h = HypothesisFields /\ h.id \in SeedIds
      /\ h.confidence = 4200 /\ h.strength = 2000 /\ h.status = "active"
      /\ h.support = {} /\ h.counter = {}
  BY SeedFields
<1>2. clamp01(h.confidence) = h.confidence /\ clamp01(h.strength) = h.strength /\ clamp01(4200) = 4200
  BY <1>1 DEF clamp01
<1>3. IsHypothesis(h)
  BY <1>1, <1>2 DEF IsHypothesis
<1>4. SumWeight(Of(h.support)) = 0 /\ SumWeight(Of(h.counter)) = 0
  <2>1. Of({}) = {} /\ SumWeight({}) = 0
    BY FS_EmptySet, WeightUnfolds DEF Of
  <2> QED BY <1>1, <2>1
<1>5. /\ 4200 + 6 * SumWeight(Of(h.support)) = 4200 /\ 4200 - 6 * SumWeight(Of(h.counter)) = 4200
      /\ 6 * SumWeight(Of(h.support)) = 0 /\ 6 * SumWeight(Of(h.counter)) = 0
  BY <1>4
<1>6. Weighed(h)
  BY <1>1, <1>2, <1>5 DEF Weighed
<1> QED BY <1>3, <1>6

LEMMA SeedsTyped == HypothesesTyped(Seeds)
<1>1. DOMAIN Seeds = 1..Len(Seeds) /\ Len(Seeds) \in Nat
  BY SeedsAssumption
<1>2. \A i \in DOMAIN Seeds : /\ Seeds[i] = SeedHypothesis(Seeds[i].id, Seeds[i].concepts)
                              /\ Seeds[i].id \in SeedIds
  BY SeedsAssumption DEF SeedIds
<1>3. \A i \in DOMAIN Seeds : IsHypothesis(Seeds[i]) /\ Weighed(Seeds[i])
  BY <1>2, SeedIsHypothesis, Zenon
<1>4. \A i, j \in DOMAIN Seeds : Seeds[i].id = Seeds[j].id => i = j
  BY SeedsAssumption
<1> QED BY <1>1, <1>3, <1>4 DEF HypothesesTyped

LEMMA ExecutedFields ==
    ASSUME NEW d, NEW evidence, DrillTyped(d)
    PROVE  LET new == Executed(d, evidence)
           IN  /\ new.hyps = HypothesesAfter(d, evidence)
               /\ new.tier = IF d.tier = "" \/ TierRank(TopTier(evidence)) > TierRank(d.tier)
                             THEN TopTier(evidence) ELSE d.tier
               /\ new.exhausted =
                    IF /\ GainOf(d, evidence) = "LOW" \/ DuplicateEvidence(d, evidence)
                       /\ plan.strategy # "FREEZE_BRANCH"
                    THEN d.exhausted \cup {<<plan.uncertainty, plan.strategy,
                                             deepDrillModelKey(new.tier, new.hyps)>>}
                    ELSE d.exhausted
<1>1. DOMAIN d = Fields
  BY DEF DrillTyped
<1> QED BY <1>1 DEF Executed, Fields, newDefaultDeepDrillState

LEMMA PlanFields ==
    ASSUME DrillInv, DeepDrillPlan
    PROVE  /\ drill'.hyps = IF request.seeded \/ drill.hyps = <<>> THEN Seeds ELSE drill.hyps
           /\ drill'.tier = drill.tier /\ drill'.exhausted = drill.exhausted
           /\ drill'.history = drill.history
           /\ plan' # NoPlan
           /\ \E u : /\ plan'.uncertainty = u
                     /\ plan'.strategy = selectStrategy(Prepared(drill, request), u)
<1> DEFINE d == Prepared(drill, request)
<1>1. PICK u, q : /\ drill' = [d EXCEPT !.uncertainty = u, !.question = q]
                  /\ plan' = [uncertainty |-> u, question |-> q, strategy |-> selectStrategy(d, u)]
  BY Zenon DEF DeepDrillPlan
<1>2. DOMAIN drill = Fields
  BY DEF DrillInv, DrillTyped
<1>3. /\ DOMAIN d = Fields
      /\ d.hyps = IF request.seeded \/ drill.hyps = <<>> THEN Seeds ELSE drill.hyps
      /\ d.tier = drill.tier /\ d.exhausted = drill.exhausted /\ d.history = drill.history
  BY <1>2 DEF Prepared, Fields, newDefaultDeepDrillState
<1> HIDE DEF d
<1>4. /\ drill'.hyps = d.hyps /\ drill'.tier = d.tier /\ drill'.exhausted = d.exhausted
      /\ drill'.history = d.history
  BY <1>1, <1>3 DEF Fields, newDefaultDeepDrillState
<1>5. plan'.uncertainty = u /\ plan'.strategy = selectStrategy(d, u) /\ plan' # NoPlan
  <2>1. "question" \in DOMAIN plan' /\ "question" \notin DOMAIN NoPlan
    BY <1>1 DEF NoPlan
  <2> QED BY <1>1, <2>1
<1> QED BY <1>3, <1>4, <1>5 DEF d

(* A step leaves the hypotheses alone or applies its evidence to them.       *)
LEMMA StepHypotheses ==
    ASSUME DrillInv, HypothesesInv, executeDeepDrillStep
    PROVE  \E evidence \in SUBSET Sources :
              /\ drill' = Executed(drill, evidence)
              /\ drill'.hyps = HypothesesAfter(drill, evidence)
              /\ HypothesesTyped(drill'.hyps) /\ DOMAIN drill'.hyps = DOMAIN drill.hyps
              /\ \A i \in DOMAIN drill.hyps : \E j \in DOMAIN drill'.hyps :
                    /\ drill'.hyps[j].id = drill.hyps[i].id
                    /\ drill.hyps[i].support \subseteq drill'.hyps[j].support
                    /\ drill.hyps[i].counter \subseteq drill'.hyps[j].counter
<1>1. PICK evidence \in runDeepDrillStrategy(plan.strategy, corpus, drill.hyps) :
          drill' = Executed(drill, evidence)
  BY DEF executeDeepDrillStep
<1>2. evidence \in SUBSET Sources
  BY EvidenceIsThere DEF HypothesesInv
<1>3. drill'.hyps = HypothesesAfter(drill, evidence)
  BY <1>1, ExecutedFields DEF DrillInv
<1>4. HypothesesTyped(drill.hyps)
  BY DEF HypothesesInv
<1>5. CASE HypothesesAfter(drill, evidence) = drill.hyps
  BY <1>1, <1>2, <1>3, <1>4, <1>5
<1>6. CASE HypothesesAfter(drill, evidence) = applyModelUpdate(drill.hyps, evidence, Relations, IdOrder)
  BY <1>1, <1>2, <1>3, <1>4, <1>6, ModelUpdate
<1> QED BY <1>5, <1>6 DEF HypothesesAfter

LEMMA HypothesesInit == Init => HypothesesInv
<1> SUFFICES ASSUME Init PROVE HypothesesInv
  OBVIOUS
<1>1. corpus \subseteq Sources /\ plan = NoPlan
  BY SourcesAssumption DEF Init
<1>2. drill.hyps = <<>> /\ drill.exhausted = {} /\ drill.history = <<>>
  BY DEF Init, newDefaultDeepDrillState
<1>3. HypothesesTyped(<<>>)
  BY DEF HypothesesTyped
<1> QED BY <1>1, <1>2, <1>3 DEF HypothesesInv

LEMMA HypothesesPlan ==
    ASSUME DrillInv, HypothesesInv, DeepDrillPlan
    PROVE  HypothesesInv'
<1>1. drill'.hyps = IF request.seeded \/ drill.hyps = <<>> THEN Seeds ELSE drill.hyps
  BY PlanFields
<1>2. corpus' = corpus
  BY DEF DeepDrillPlan
<1>3. drill'.hyps = Seeds \/ (drill'.hyps = drill.hyps /\ Seeded(drill))
  BY <1>1 DEF HypothesesInv
<1>4. HypothesesTyped(drill'.hyps)
  BY <1>3, SeedsTyped DEF HypothesesInv
<1>5. DOMAIN drill'.hyps = DOMAIN Seeds
  BY <1>3 DEF Seeded
<1> QED BY <1>2, <1>4, <1>5 DEF HypothesesInv, Seeded

LEMMA HypothesesStep ==
    ASSUME DrillInv, HypothesesInv, executeDeepDrillStep
    PROVE  HypothesesInv'
<1>1. HypothesesTyped(drill'.hyps) /\ DOMAIN drill'.hyps = DOMAIN drill.hyps
  BY StepHypotheses
<1>2. plan # NoPlan /\ corpus' = corpus
  BY DEF executeDeepDrillStep
<1> QED BY <1>1, <1>2 DEF HypothesesInv, Seeded

LEMMA HypothesesOthers ==
    ASSUME HypothesesInv, drill' = drill, corpus' \subseteq Sources, plan' \in {plan, NoPlan}
    PROVE  HypothesesInv'
BY DEF HypothesesInv, Seeded

LEMMA HypothesesNext == DrillInv /\ HypothesesInv /\ [Next]_vars => HypothesesInv'
<1> SUFFICES ASSUME DrillInv, HypothesesInv, [Next]_vars PROVE HypothesesInv'
  OBVIOUS
<1>1. corpus \subseteq Sources
  BY DEF HypothesesInv
<1>2. CASE \E req \in Requests : Invoke(req)
  BY <1>1, <1>2, HypothesesOthers DEF Invoke
<1>3. CASE DeepDrillPlan
  BY <1>3, HypothesesPlan
<1>4. CASE Terminal
  BY <1>1, <1>4, HypothesesOthers DEF Terminal, Exits
<1>5. CASE executeDeepDrillStep
  BY <1>5, HypothesesStep
<1>6. CASE \E n \in 0..4 : StepFails(n)
  BY <1>1, <1>6, HypothesesOthers DEF StepFails, Exits
<1>7. CASE \E s \in Sources \ corpus : Import(s)
  BY <1>1, <1>7, HypothesesOthers DEF Import
<1>8. CASE UNCHANGED vars
  BY <1>1, <1>8, HypothesesOthers DEF vars
<1> QED
  BY <1>2, <1>3, <1>4, <1>5, <1>6, <1>7, <1>8 DEF Next

\* Every piece of evidence weighs on the confidence of a hypothesis once
\* (unseenEvidence in UpdateHypothesis), however often strategies, retries and
\* later invocations retrieve it again, and although the hypotheses change
\* places with every update (rerankHypotheses): its confidence is what the
\* evidence weighs, within what the clamps (clamp01) can cut off, for every
\* collection and whatever part of it a retrieval brings.
THEOREM EvidenceSafety == Spec => []EvidenceCountedOnce
<1>1. HypothesesInv => EvidenceCountedOnce
  <2> SUFFICES ASSUME HypothesesInv, NEW i \in DOMAIN drill.hyps
               PROVE  LET h == drill.hyps[i]
                          support == 6 * SumWeight(Of(h.support))
                          counter == 6 * SumWeight(Of(h.counter))
                      IN  /\ h.confidence >= clamp01(4200 + support) - counter
                          /\ h.confidence <= clamp01(4200 - counter) + support
    BY DEF EvidenceCountedOnce, Of
  <2>1. Weighed(drill.hyps[i])
    BY DEF HypothesesInv, HypothesesTyped
  <2> QED BY <2>1 DEF Weighed
<1> QED
  BY <1>1, InitInv, NextInv, HypothesesInit, HypothesesNext, PTL DEF Spec

(* Hypotheses that no request seeds again.                                   *)
Unseeded == \A req \in Requests : ~req.seeded
NotSeeding == ~request.seeded

LEMMA NotSeedingInit == Init => NotSeeding
BY DEF Init, NoRequest, NotSeeding

LEMMA NotSeedingNext ==
    ASSUME Unseeded
    PROVE  NotSeeding /\ [Next]_vars => NotSeeding'
BY DEF Unseeded, NotSeeding, Next, Invoke, DeepDrillPlan, Terminal, executeDeepDrillStep,
       StepFails, Import, vars

LEMMA CreditStays ==
    DrillInv /\ HypothesesInv /\ NotSeeding /\ [Next]_vars =>
        [drill.hyps # <<>> => \A i \in DOMAIN drill.hyps : \E j \in DOMAIN drill'.hyps :
            /\ drill'.hyps[j].id = drill.hyps[i].id
            /\ drill.hyps[i].support \subseteq drill'.hyps[j].support
            /\ drill.hyps[i].counter \subseteq drill'.hyps[j].counter]_vars
<1> DEFINE Kept == \A i \in DOMAIN drill.hyps : \E j \in DOMAIN drill'.hyps :
            /\ drill'.hyps[j].id = drill.hyps[i].id
            /\ drill.hyps[i].support \subseteq drill'.hyps[j].support
            /\ drill.hyps[i].counter \subseteq drill'.hyps[j].counter
<1> SUFFICES ASSUME DrillInv, HypothesesInv, NotSeeding, [Next]_vars, drill.hyps # <<>> PROVE Kept
  OBVIOUS
<1>1. CASE drill'.hyps = drill.hyps
  BY <1>1
<1>2. CASE DeepDrillPlan
  BY <1>1, <1>2, PlanFields DEF NotSeeding
<1>3. CASE executeDeepDrillStep
  BY <1>3, StepHypotheses
<1>4. CASE \/ \E req \in Requests : Invoke(req)
           \/ Terminal
           \/ \E n \in 0..4 : StepFails(n)
           \/ \E s \in Sources \ corpus : Import(s)
           \/ UNCHANGED vars
  BY <1>1, <1>4 DEF Invoke, Terminal, StepFails, Import, vars
<1> QED BY <1>2, <1>3, <1>4 DEF Next

\* What a hypothesis was credited with is never forgotten, wherever the sort
\* puts it, as long as no invocation names the hypotheses anew: with the flag
\* that does (Prepared), the session starts from its seeds again.
THEOREM EvidenceStays ==
    ASSUME Unseeded
    PROVE  Spec => EvidenceKept
<1>1. NotSeeding /\ [Next]_vars => NotSeeding'
  BY NotSeedingNext
<1> QED
  BY <1>1, InitInv, NextInv, HypothesesInit, HypothesesNext, NotSeedingInit, CreditStays, PTL
     DEF Spec, EvidenceKept

-----------------------------------------------------------------------------
(* A run that gains nothing uses something up.                               *)

LEMMA CandidatesPlaced == \A u : DOMAIN strategyCandidates(u) \subseteq Nat
BY DEF strategyCandidates

LEMMA SelectedIsFresh ==
    ASSUME NEW d, NEW u
    PROVE  \/ selectStrategy(d, u) = "FREEZE_BRANCH"
           \/ ~isStrategyExhausted(d, u, selectStrategy(d, u))
<1> DEFINE available == strategiesRemaining(d, u)
           Score(i) == strategyScore(d, u, strategyCandidates(u)[i])
           best == {i \in available : Score(i) >= 0 /\ \A j \in available :
                       Score(i) > Score(j) \/ (Score(i) = Score(j) /\ i =< j)}
           first == {i \in available : \A j \in available : i =< j}
           chosen == CHOOSE i \in IF best = {} THEN first ELSE best : TRUE
<1>1. CASE available = {}
  BY <1>1 DEF selectStrategy
<1>2. CASE available # {}
  <2>1. selectStrategy(d, u) = strategyCandidates(u)[chosen]
    BY <1>2 DEF selectStrategy
  <2>2. available \subseteq Nat
    BY CandidatesPlaced DEF strategiesRemaining
  <2>3. first # {} /\ first \subseteq available /\ best \subseteq available
    <3>1. \E i \in available : \A j \in available : i <= j
      <4> HIDE DEF available
      <4> QED BY <1>2, <2>2, LeastNatural, Zenon
    <3> QED BY <3>1
  <2> HIDE DEF first, best
  <2>4. chosen \in available
    BY <2>3
  <2>5. ~isStrategyExhausted(d, u, strategyCandidates(u)[chosen])
    <3> HIDE DEF chosen
    <3> QED BY <2>4 DEF strategiesRemaining
  <2> HIDE DEF chosen
  <2> QED BY <2>1, <2>5
<1> QED BY <1>1, <1>2

LEMMA ImageIsFinite ==
    ASSUME NEW S, IsFiniteSet(S), NEW f, DOMAIN f = S, f = [x \in S |-> f[x]]
    PROVE  IsFiniteSet({f[x] : x \in S})
<1>1. f \in Surjection(S, {f[x] : x \in S})
  <2>1. f \in [S -> {f[x] : x \in S}]
    OBVIOUS
  <2>2. \A t \in {f[x] : x \in S} : \E x \in S : f[x] = t
    OBVIOUS
  <2> QED BY <2>1, <2>2, Zenon DEF Surjection
<1> QED BY <1>1, FS_Surjection, Zenon

LEMMA CreditIsFinite ==
    ASSUME NEW hyps, HypothesesTyped(hyps)
    PROVE  IsFiniteSet(Credited(hyps))
<1> DEFINE All == SeedIds \X ({"support", "counter"} \X SourceIds)
<1>1. IsFiniteSet(SourceIds)
  <2> DEFINE f == [s \in Sources |-> s.id]
  <2>1. SourceIds = {f[s] : s \in Sources}
    BY DEF SourceIds
  <2>2. DOMAIN f = Sources /\ f = [s \in Sources |-> f[s]]
    OBVIOUS
  <2> HIDE DEF f
  <2>3. IsFiniteSet({f[s] : s \in Sources})
    <3>1. IsFiniteSet(Sources)
      BY SourcesAssumption
    <3> QED BY <2>2, <3>1, ImageIsFinite
  <2> QED BY <2>1, <2>3
<1>2. IsFiniteSet(SeedIds)
  <2>1. DOMAIN Seeds = 1..Len(Seeds) /\ Len(Seeds) \in Nat
    BY SeedsAssumption
  <2>2. IsFiniteSet(DOMAIN Seeds)
    BY <2>1, FS_Interval
  <2> DEFINE f == [i \in DOMAIN Seeds |-> Seeds[i].id]
  <2>3. SeedIds = {f[i] : i \in DOMAIN Seeds}
    BY DEF SeedIds
  <2>4. DOMAIN f = DOMAIN Seeds /\ f = [i \in DOMAIN Seeds |-> f[i]]
    OBVIOUS
  <2> HIDE DEF f
  <2>5. IsFiniteSet({f[i] : i \in DOMAIN Seeds})
    BY <2>2, <2>4, ImageIsFinite, Zenon
  <2> QED BY <2>3, <2>5
<1>3. IsFiniteSet({"support", "counter"})
  <2>1. {"support", "counter"} = {"support"} \cup {"counter"}
    OBVIOUS
  <2>2. IsFiniteSet({"support"}) /\ IsFiniteSet({"counter"})
    BY FS_Singleton
  <2> QED BY <2>1, <2>2, FS_Union
<1>4. IsFiniteSet(All)
  BY <1>1, <1>2, <1>3, FS_Product, Zenon
<1>5. Credited(hyps) \subseteq All
  BY DEF Credited, HypothesesTyped, IsHypothesis
<1> QED BY <1>4, <1>5, FS_Subset, Zenon

LEMMA StepCredits ==
    ASSUME DrillInv, HypothesesInv, executeDeepDrillStep
    PROVE  \E evidence \in SUBSET Sources :
              /\ drill' = Executed(drill, evidence)
              /\ Credited(drill.hyps) \subseteq Credited(drill'.hyps)
              /\ Ranked(drill.hyps) => Ranked(drill'.hyps)
              /\ plan.strategy # "FREEZE_BRANCH" /\ ~isRepeatStrategyFinding(drill, evidence) => Ranked(drill'.hyps)
              /\ Ranked(drill.hyps) /\ Credited(drill'.hyps) = Credited(drill.hyps) =>
                    \A i \in DOMAIN drill.hyps : /\ drill'.hyps[i].id = drill.hyps[i].id
                                                 /\ drill'.hyps[i].status = drill.hyps[i].status
<1>1. PICK evidence \in SUBSET Sources :
         drill' = Executed(drill, evidence) /\ drill'.hyps = HypothesesAfter(drill, evidence)
  BY StepHypotheses
<1>2. HypothesesTyped(drill.hyps)
  BY DEF HypothesesInv
<1>3. CASE plan.strategy = "FREEZE_BRANCH" \/ isRepeatStrategyFinding(drill, evidence)
  <2>1. drill'.hyps = drill.hyps
    BY <1>1, <1>3 DEF HypothesesAfter
  <2> QED BY <1>1, <1>3, <2>1
<1>4. CASE ~(plan.strategy = "FREEZE_BRANCH" \/ isRepeatStrategyFinding(drill, evidence))
  <2>1. drill'.hyps = applyModelUpdate(drill.hyps, evidence, Relations, IdOrder)
    BY <1>1, <1>4 DEF HypothesesAfter
  <2> QED BY <1>1, <1>2, <2>1, ModelUpdate
<1> QED BY <1>3, <1>4

LEMMA LowRunsCount ==
    ASSUME NEW d, DrillTyped(d)
    PROVE  IsFiniteSet(LowRuns(d)) /\ Cardinality(LowRuns(d)) \in Nat
<1>1. PICK Entries : d.history \in Seq(Entries)
  BY DEF DrillTyped
<1>2. IsFiniteSet(1..Len(d.history)) /\ LowRuns(d) \subseteq 1..Len(d.history)
  BY <1>1, FS_Interval DEF LowRuns
<1>3. IsFiniteSet(LowRuns(d))
  BY <1>2, FS_Subset, Zenon
<1> QED BY <1>3, FS_CardinalityType

(* The number of runs that gained nothing grows with those runs only.        *)
LEMMA LowRunsGrow ==
    ASSUME NEW d, DrillTyped(d), NEW new, NEW run, new.history = Append(d.history, run)
    PROVE  Cardinality(LowRuns(new)) = Cardinality(LowRuns(d)) + (IF run.gain = "LOW" THEN 1 ELSE 0)
<1> DEFINE n == Len(d.history)
<1>1. PICK Entries : d.history \in Seq(Entries)
  BY DEF DrillTyped
<1> DEFINE All == Entries \cup {run}
<1>2. d.history \in Seq(All) /\ run \in All
  BY <1>1
<1> HIDE DEF All
<1>3. /\ n \in Nat /\ DOMAIN d.history = 1..n /\ DOMAIN new.history = 1..n + 1
      /\ new.history[n + 1] = run /\ \A i \in 1..n : new.history[i] = d.history[i]
  BY <1>2
<1> HIDE DEF n
<1>4. IsFiniteSet(LowRuns(d)) /\ Cardinality(LowRuns(d)) \in Nat
  BY LowRunsCount
<1>5. LowRuns(new) = LowRuns(d) \cup (IF run.gain = "LOW" THEN {n + 1} ELSE {})
  BY <1>3 DEF LowRuns
<1>6. n + 1 \notin LowRuns(d)
  BY <1>3 DEF LowRuns
<1>7. CASE run.gain = "LOW"
  <2>1. LowRuns(new) = LowRuns(d) \cup {n + 1}
    BY <1>5, <1>7
  <2>2. Cardinality(LowRuns(new)) = Cardinality(LowRuns(d)) + 1
    BY <1>4, <1>6, <2>1, FS_AddElement
  <2> QED BY <1>4, <1>7, <2>2
<1>8. CASE run.gain # "LOW"
  <2>1. LowRuns(new) = LowRuns(d)
    BY <1>5, <1>8
  <2> QED BY <1>4, <1>8, <2>1
<1> QED BY <1>7, <1>8

LEMMA LowInit == Init => LowInv
<1> SUFFICES ASSUME Init PROVE LowInv
  OBVIOUS
<1>1. /\ drill.hyps = <<>> /\ drill.exhausted = {} /\ drill.history = <<>> /\ plan = NoPlan
  BY DEF Init, newDefaultDeepDrillState
<1>2. IsFiniteSet({}) /\ Cardinality({}) = 0
  BY FS_EmptySet
<1>3. {i \in DOMAIN drill.history : drill.history[i].gain = "LOW"} = {} /\ Credited(drill.hyps) = {}
  BY <1>1 DEF Credited
<1>4. LowGainUsesUp
  <2>1. /\ Cardinality({i \in DOMAIN drill.history : drill.history[i].gain = "LOW"}) = 0
        /\ Cardinality(drill.exhausted) = 0 /\ Cardinality(Credited(drill.hyps)) = 0
    BY <1>1, <1>2, <1>3
  <2>2. 0 <= 0 + 0
    OBVIOUS
  <2> QED BY <2>1, <2>2 DEF LowGainUsesUp
<1>5. RankedSince(drill) /\ TiersBelow(drill)
  BY <1>1 DEF RankedSince, TiersBelow, Ranked
<1> QED BY <1>1, <1>2, <1>4, <1>5 DEF LowInv

LEMMA LowPlan ==
    ASSUME DrillInv, HypothesesInv, NotSeeding, LowInv, DeepDrillPlan
    PROVE  LowInv'
<1>1. /\ drill'.hyps = IF drill.hyps = <<>> THEN Seeds ELSE drill.hyps
      /\ drill'.tier = drill.tier /\ drill'.exhausted = drill.exhausted
      /\ drill'.history = drill.history /\ plan' # NoPlan
  BY PlanFields DEF NotSeeding
<1>2. PICK u : /\ plan'.uncertainty = u
               /\ plan'.strategy = selectStrategy(Prepared(drill, request), u)
  BY PlanFields
<1>3. DOMAIN drill = Fields
  BY DEF DrillInv, DrillTyped
<1>4. LET d == Prepared(drill, request)
      IN  d.hyps = drill'.hyps /\ d.tier = drill'.tier /\ d.exhausted = drill'.exhausted
  BY <1>1, <1>3 DEF Prepared, Fields, newDefaultDeepDrillState, NotSeeding
<1>5. \/ plan'.strategy = "FREEZE_BRANCH"
      \/ ~isStrategyExhausted(drill', plan'.uncertainty, plan'.strategy)
  BY <1>2, <1>4, SelectedIsFresh DEF isStrategyExhausted
<1>6. IsFiniteSet(drill'.exhausted) /\ TiersBelow(drill')
  BY <1>1 DEF LowInv, TiersBelow
<1>7. drill.hyps = <<>> => Cardinality(Credited(drill.hyps)) = 0
  <2>1. Credited(<<>>) = {} /\ Cardinality({}) = 0
    BY FS_EmptySet DEF Credited
  <2> QED BY <2>1
<1>8. /\ Cardinality(Credited(drill.hyps)) \in Nat /\ Cardinality(Credited(drill'.hyps)) \in Nat
      /\ Cardinality(Credited(drill.hyps)) <= Cardinality(Credited(drill'.hyps))
  <2>1. HypothesesTyped(drill.hyps) /\ HypothesesTyped(drill'.hyps)
    BY <1>1, SeedsTyped DEF HypothesesInv
  <2>2. Cardinality(Credited(drill.hyps)) \in Nat /\ Cardinality(Credited(drill'.hyps)) \in Nat
    BY <2>1, CreditIsFinite, FS_CardinalityType
  <2>3. CASE drill.hyps = <<>>
    BY <1>7, <2>2, <2>3
  <2>4. CASE drill.hyps # <<>>
    <3>1. drill'.hyps = drill.hyps
      BY <1>1, <2>4
    <3> QED BY <2>2, <3>1
  <2> QED BY <2>2, <2>3, <2>4
<1>9. LowGainUsesUp'
  <2>1. Cardinality(drill.exhausted) \in Nat /\ Cardinality(LowRuns(drill)) \in Nat
    <3>1. IsFiniteSet(drill.exhausted) /\ DrillTyped(drill)
      BY DEF LowInv, DrillInv
    <3>2. Cardinality(drill.exhausted) \in Nat
      BY <3>1, FS_CardinalityType
    <3>3. Cardinality(LowRuns(drill)) \in Nat
      BY <3>1, LowRunsCount
    <3> QED BY <3>2, <3>3
  <2>2. Cardinality(LowRuns(drill)) <= Cardinality(drill.exhausted) + Cardinality(Credited(drill.hyps))
    BY DEF LowInv, LowGainUsesUp, LowRuns
  <2>3. Cardinality(LowRuns(drill)) <= Cardinality(drill.exhausted) + Cardinality(Credited(drill'.hyps))
    BY <1>8, <2>1, <2>2
  <2> QED BY <1>1, <2>3 DEF LowGainUsesUp, LowRuns
<1>10. RankedSince(drill')
  <2>1. CASE drill'.hyps = drill.hyps
    BY <1>1, <2>1 DEF LowInv, RankedSince
  <2>2. CASE drill.hyps = <<>> /\ Seeded(drill)
    <3>1. DOMAIN drill'.hyps = {}
      BY <1>1, <2>2 DEF Seeded
    <3> QED BY <3>1 DEF RankedSince, Ranked
  <2>3. CASE drill.exhausted = {} /\ drill.history = <<>>
    BY <1>1, <2>3 DEF RankedSince
  <2> QED BY <1>1, <2>1, <2>2, <2>3 DEF HypothesesInv
<1> QED BY <1>5, <1>6, <1>9, <1>10 DEF LowInv

LEMMA RanksFollow ==
    ASSUME NEW a \in Nat, NEW b \in Nat, NEW c \in Nat, a <= b, c >= b
    PROVE  a <= c
OBVIOUS

LEMMA AboveIsNotBelow ==
    ASSUME NEW a \in Nat, NEW b \in Nat, a > b
    PROVE  ~(a <= b)
OBVIOUS

(* A step without gain, credit or another tier exhausts a strategy for a     *)
(* model it was not exhausted for.                                           *)
LEMMA NothingTwice ==
    ASSUME DrillInv, HypothesesInv, LowInv, executeDeepDrillStep,
           NEW tier, plan.strategy # "FREEZE_BRANCH",
           tier = drill.tier \/ drill.tier = "" \/ TierRank(tier) > TierRank(drill.tier),
           DOMAIN drill'.hyps = DOMAIN drill.hyps,
           Ranked(drill.hyps) => \A i \in DOMAIN drill.hyps : /\ drill'.hyps[i].id = drill.hyps[i].id
                                                              /\ drill'.hyps[i].status = drill.hyps[i].status
    PROVE  <<plan.uncertainty, plan.strategy, deepDrillModelKey(tier, drill'.hyps)>> \notin drill.exhausted
<1> DEFINE key == deepDrillModelKey(tier, drill'.hyps)
<1>1. key[1] = tier
  BY DEF deepDrillModelKey
<1>2. plan # NoPlan
  BY DEF executeDeepDrillStep
<1>3. CASE drill.tier = ""
  BY <1>3 DEF LowInv, TiersBelow
<1>4. CASE TierRank(tier) > TierRank(drill.tier)
  <2>1. \A x \in drill.exhausted : TierRank(x[3][1]) <= TierRank(drill.tier)
    BY DEF LowInv, TiersBelow
  <2>2. ~(TierRank(tier) <= TierRank(drill.tier))
    <3>1. TierRank(tier) \in Nat /\ TierRank(drill.tier) \in Nat
      BY RankIsNat
    <3> QED BY <1>4, <3>1, AboveIsNotBelow, Zenon
  <2> HIDE DEF key
  <2> SUFFICES ASSUME <<plan.uncertainty, plan.strategy, key>> \in drill.exhausted PROVE FALSE
    BY DEF key
  <2>3. TierRank(<<plan.uncertainty, plan.strategy, key>>[3][1]) <= TierRank(drill.tier)
    BY <2>1
  <2> QED BY <1>1, <2>2, <2>3
<1>5. CASE tier = drill.tier
  <2>1. CASE drill.exhausted = {}
    BY <2>1
  <2>2. CASE drill.exhausted # {}
    <3>1. Ranked(drill.hyps)
      BY <2>2 DEF LowInv, RankedSince
    <3>2. key = deepDrillModelKey(drill.tier, drill.hyps)
      BY <1>5, <3>1 DEF deepDrillModelKey
    <3>3. ~isStrategyExhausted(drill, plan.uncertainty, plan.strategy)
      BY <1>2 DEF LowInv
    <3> HIDE DEF key
    <3>4. <<plan.uncertainty, plan.strategy, key>> \notin drill.exhausted
      BY <3>2, <3>3 DEF isStrategyExhausted
    <3> QED BY <3>4 DEF key
  <2> QED BY <2>1, <2>2
<1> QED BY <1>3, <1>4, <1>5

LEMMA LowStep ==
    ASSUME DrillInv, HypothesesInv, LowInv, executeDeepDrillStep, HypothesesInv'
    PROVE  LowInv'
<1>1. PICK evidence \in SUBSET Sources :
              /\ drill' = Executed(drill, evidence)
              /\ Credited(drill.hyps) \subseteq Credited(drill'.hyps)
              /\ Ranked(drill.hyps) => Ranked(drill'.hyps)
              /\ plan.strategy # "FREEZE_BRANCH" /\ ~isRepeatStrategyFinding(drill, evidence) => Ranked(drill'.hyps)
              /\ Ranked(drill.hyps) /\ Credited(drill'.hyps) = Credited(drill.hyps) =>
                    \A i \in DOMAIN drill.hyps : /\ drill'.hyps[i].id = drill.hyps[i].id
                                                 /\ drill'.hyps[i].status = drill.hyps[i].status
  BY StepCredits
<1> DEFINE gain == GainOf(drill, evidence)
           run == StrategyOutcome(drill, evidence)
           top == TopTier(evidence)
           tier == drill'.tier
           used == <<plan.uncertainty, plan.strategy, deepDrillModelKey(tier, drill'.hyps)>>
<1>2. /\ tier = IF drill.tier = "" \/ TierRank(top) > TierRank(drill.tier) THEN top ELSE drill.tier
      /\ drill'.exhausted = IF /\ gain = "LOW" \/ DuplicateEvidence(drill, evidence)
                               /\ plan.strategy # "FREEZE_BRANCH"
                            THEN drill.exhausted \cup {used} ELSE drill.exhausted
  BY <1>1, ExecutedFields DEF DrillInv
<1>3. drill'.history = Append(drill.history, run) /\ TierRank(tier) >= TierRank(drill.tier)
  BY <1>1, ExecutedKeeps DEF DrillInv
<1>4. run.gain = gain /\ run.strategy = plan.strategy
  BY DEF StrategyOutcome
<1>5. top # ""
  BY TopTierNamed
<1>6. plan' = NoPlan /\ plan # NoPlan
  BY DEF executeDeepDrillStep, Exits
<1>7. gain = "LOW" => plan.strategy # "FREEZE_BRANCH"
  BY DEF GainOf, scoreInformationGain
<1>8. DOMAIN drill'.hyps = DOMAIN drill.hyps
  BY <1>6, StepHypotheses
<1> HIDE DEF gain, run, top, used
<1>9. tier # "" /\ (tier = drill.tier \/ drill.tier = "" \/ TierRank(tier) > TierRank(drill.tier))
  BY <1>2, <1>5
<1> HIDE DEF tier
<1>10. used[3][1] = tier
  BY DEF used, deepDrillModelKey
<1>11. drill'.exhausted = drill.exhausted \/ (drill'.exhausted = drill.exhausted \cup {used} /\ plan.strategy # "FREEZE_BRANCH")
  BY <1>2
<1>12. IsFiniteSet(drill.exhausted) /\ IsFiniteSet(drill.exhausted \cup {used})
  BY FS_AddElement DEF LowInv
<1>13. TiersBelow(drill')
  <2>1. TierRank(drill.tier) \in Nat /\ TierRank(tier) \in Nat
    BY RankIsNat
  <2> SUFFICES ASSUME NEW x \in drill'.exhausted
               PROVE  x[3][1] # "" /\ TierRank(x[3][1]) <= TierRank(tier)
    BY <1>9 DEF TiersBelow, tier
  <2>2. CASE x = used
    <3>1. x[3][1] = tier
      BY <1>10, <2>2
    <3>2. TierRank(tier) <= TierRank(tier)
      BY <2>1
    <3> QED BY <1>9, <3>1, <3>2, Zenon
  <2>3. CASE x \in drill.exhausted
    <3>1. x[3][1] # "" /\ TierRank(x[3][1]) <= TierRank(drill.tier) /\ TierRank(x[3][1]) \in Nat
      BY <2>3, RankIsNat DEF LowInv, TiersBelow
    <3>2. TierRank(x[3][1]) <= TierRank(tier)
      BY <1>3, <2>1, <3>1, RanksFollow, Zenon DEF tier
    <3> QED BY <3>1, <3>2
  <2> QED BY <1>11, <2>2, <2>3
<1>14. RankedSince(drill')
  <2>1. CASE Ranked(drill.hyps)
    BY <1>1, <2>1 DEF RankedSince
  <2>2. CASE ~Ranked(drill.hyps)
    <3>1. drill.exhausted = {} /\ \A i \in DOMAIN drill.history : drill.history[i].strategy = "FREEZE_BRANCH"
      BY <2>2 DEF LowInv, RankedSince
    <3>2. CASE plan.strategy = "FREEZE_BRANCH"
      <4>1. drill'.exhausted = {}
        BY <1>11, <3>1, <3>2
      <4>2. \A i \in DOMAIN drill'.history :
              \/ i \in DOMAIN drill.history /\ drill'.history[i] = drill.history[i]
              \/ drill'.history[i] = run
        <5>1. PICK Entries : drill.history \in Seq(Entries)
          BY DEF DrillInv, DrillTyped
        <5> DEFINE All == Entries \cup {run}
        <5>2. drill.history \in Seq(All) /\ run \in All
          BY <5>1
        <5> HIDE DEF All
        <5> QED BY <1>3, <5>2
      <4>3. \A i \in DOMAIN drill'.history : drill'.history[i].strategy = "FREEZE_BRANCH"
        BY <1>4, <3>1, <3>2, <4>2
      <4> QED BY <4>1, <4>3 DEF RankedSince
    <3>3. CASE plan.strategy # "FREEZE_BRANCH"
      <4>1. ~isRepeatStrategyFinding(drill, evidence)
        BY <3>1, <3>3 DEF isRepeatStrategyFinding
      <4> QED BY <1>1, <3>3, <4>1 DEF RankedSince
    <3> QED BY <3>2, <3>3
  <2> QED BY <2>1, <2>2
<1>15. LowGainUsesUp'
  <2> DEFINE l == Cardinality(LowRuns(drill))
             e == Cardinality(drill.exhausted)
             f == Cardinality(drill'.exhausted)
             c == Cardinality(Credited(drill.hyps))
             k == Cardinality(Credited(drill'.hyps))
  <2>1. l \in Nat /\ Cardinality(LowRuns(drill')) = l + (IF gain = "LOW" THEN 1 ELSE 0)
    BY <1>3, <1>4, LowRunsCount, LowRunsGrow DEF DrillInv
  <2>2. e \in Nat /\ f \in Nat /\ e <= f
    <3>1. IsFiniteSet(drill'.exhausted) /\ drill.exhausted \subseteq drill'.exhausted
      BY <1>11, <1>12
    <3> QED BY <1>12, <3>1, FS_CardinalityType, FS_Subset
  <2>3. IsFiniteSet(Credited(drill.hyps)) /\ IsFiniteSet(Credited(drill'.hyps))
    BY CreditIsFinite DEF HypothesesInv
  <2>4. c \in Nat /\ k \in Nat /\ c <= k /\ (c = k => Credited(drill.hyps) = Credited(drill'.hyps))
    BY <1>1, <2>3, FS_CardinalityType, FS_Subset
  <2>5. l <= e + c
    BY DEF LowInv, LowGainUsesUp, LowRuns
  <2>6. ASSUME gain = "LOW", Credited(drill.hyps) = Credited(drill'.hyps) PROVE f = e + 1
    <3>1. plan.strategy # "FREEZE_BRANCH"
      BY <1>7, <2>6
    <3>2. used \notin drill.exhausted
      BY <1>1, <1>8, <1>9, <2>6, <3>1, NothingTwice DEF used
    <3>3. drill'.exhausted = drill.exhausted \cup {used}
      BY <1>2, <2>6, <3>1
    <3> QED BY <1>12, <3>2, <3>3, FS_AddElement
  <2> HIDE DEF l, e, f, c, k
  <2>7. gain = "LOW" => f = e + 1 \/ c + 1 <= k
    BY <2>4, <2>6
  <2>8. Cardinality(LowRuns(drill')) <= f + k
    BY <2>1, <2>2, <2>4, <2>5, <2>7
  <2> QED BY <2>8 DEF LowGainUsesUp, LowRuns, f, k
<1>16. IsFiniteSet(drill'.exhausted)
  BY <1>11, <1>12
<1> QED BY <1>6, <1>13, <1>14, <1>15, <1>16 DEF LowInv

LEMMA LowOthers ==
    ASSUME LowInv, drill' = drill, plan' \in {plan, NoPlan}
    PROVE  LowInv'
<1>1. RankedSince(drill') /\ TiersBelow(drill') /\ IsFiniteSet(drill'.exhausted)
  BY DEF LowInv
<1>2. LowGainUsesUp'
  BY DEF LowInv, LowGainUsesUp
<1>3. plan' # NoPlan => \/ plan'.strategy = "FREEZE_BRANCH"
                        \/ ~isStrategyExhausted(drill', plan'.uncertainty, plan'.strategy)
  BY DEF LowInv
<1> QED BY <1>1, <1>2, <1>3 DEF LowInv

LEMMA LowNext ==
    DrillInv /\ HypothesesInv /\ HypothesesInv' /\ NotSeeding /\ LowInv /\ [Next]_vars => LowInv'
<1> SUFFICES ASSUME DrillInv, HypothesesInv, HypothesesInv', NotSeeding, LowInv, [Next]_vars PROVE LowInv'
  OBVIOUS
<1>1. CASE \E req \in Requests : Invoke(req)
  BY <1>1, LowOthers DEF Invoke
<1>2. CASE DeepDrillPlan
  BY <1>2, LowPlan
<1>3. CASE Terminal
  BY <1>3, LowOthers DEF Terminal, Exits
<1>4. CASE executeDeepDrillStep
  BY <1>4, LowStep
<1>5. CASE \E n \in 0..4 : StepFails(n)
  BY <1>5, LowOthers DEF StepFails, Exits
<1>6. CASE \E s \in Sources \ corpus : Import(s)
  BY <1>6, LowOthers DEF Import
<1>7. CASE UNCHANGED vars
  BY <1>7, LowOthers DEF vars
<1> QED
  BY <1>1, <1>2, <1>3, <1>4, <1>5, <1>6, <1>7 DEF Next

\* A run that gains nothing (executeDeepDrillStep with LOW gain) exhausts a
\* strategy for a model it was not exhausted for, or credits evidence that
\* changed the model: reclassified uncertainties, models that flip back, later
\* invocations, failures and imports never let the scheduler go round in
\* circles, as long as no invocation names the hypotheses anew.
THEOREM NoCircles ==
    ASSUME Unseeded
    PROVE  Spec => []LowGainUsesUp
<1>1. NotSeeding /\ [Next]_vars => NotSeeding'
  BY NotSeedingNext
<1>2. LowInv => LowGainUsesUp
  BY DEF LowInv
<1> QED
  BY <1>1, <1>2, InitInv, NextInv, HypothesesInit, HypothesesNext, NotSeedingInit, LowInit, LowNext, PTL
     DEF Spec
=============================================================================
