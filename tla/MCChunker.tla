----------------------------- MODULE MCChunker -----------------------------
(* Texts and conversations for Chunker. *)
EXTENDS Chunker

Job(turns, windowed, turnsPerWindow, turnsShared, size, overlap, minSize) ==
    [turns |-> turns, windowed |-> windowed, turnsPerWindow |-> turnsPerWindow,
     turnsShared |-> turnsShared, size |-> size, overlap |-> overlap, minSize |-> minSize]

\* Every text of three and of six characters, space at the ends apart, and texts of twelve with
\* spaces about the last fifth of ten.
TextsOf(n) == {t \in [1..n -> {"word", "stop", "space", "line"}] : t[1] = "word" /\ t[n] \in {"word", "stop"}}
Spaced == {[i \in 1..12 |-> IF i \in S THEN "space" ELSE "word"] : S \in SUBSET (7..11)}
TextJobs ==
    {Job(<<t>>, FALSE, 1, 0, size, overlap, minSize) :
        t \in {<< >>} \cup TextsOf(3) \cup TextsOf(6), size \in 0..4, overlap \in {0, 1, 2, 4}, minSize \in {0, 2}}
    \cup {Job(<<t>>, FALSE, 1, 0, 10, overlap, minSize) :
             t \in Spaced, overlap \in {-1, 3, 10}, minSize \in {1, 4}}

SomeTurns == {<< >>, <<"word">>, <<"word", "stop", "space", "word">>}
ConversationJobs ==
    {Job(turns, TRUE, turnsPerWindow, turnsShared, size, 1, 2) :
        turns \in UNION {[1..n -> SomeTurns] : n \in 0..4},
        turnsPerWindow \in 0..3, turnsShared \in -1..3, size \in {0, 5}}
SomeJobs == TextJobs \cup ConversationJobs
=============================================================================
