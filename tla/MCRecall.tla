------------------------------ MODULE MCRecall ------------------------------
(* Memories, proposals and queries for Recall. *)
EXTENDS Recall

Mem(id, conversation, key, dense, words, lexical, canonical, status, time) ==
    [id |-> id, conversation |-> conversation, key |-> key, dense |-> dense, words |-> words,
     lexical |-> lexical, canonical |-> canonical, status |-> status, time |-> time,
     size |-> 2 * dense, quote |-> 1]

\* The first two have one text, of which the second is canon; the fourth and
\* fifth are in no share of a conversation, or have words but no likeness.
SomeMemories ==
    {Mem(1, 1, 1, 9, 1, 1, FALSE, "", 1), Mem(2, 1, 1, 8, 1, 2, TRUE, "approved_by_user", 3),
     Mem(3, 1, 2, 7, 0, 0, FALSE, "", 2), Mem(4, 2, 3, 6, 2, 2, FALSE, "rejected", 2),
     Mem(5, 0, 0, 5, 2, 2, FALSE, "needs_review", 5), Mem(6, 2, 2, 4, 1, 1, FALSE, "deleted", 4)}
SomeArchives == {a \in SUBSET SomeMemories : Cardinality(a) # 3}
SomeProposals ==
    <<Mem(8, 9, 4, 3, 1, 1, FALSE, "needs_review", 6),
      Mem(9, 9, 5, 3, 2, 2, FALSE, "direct_user_statement", 6)>>

SomeQueries ==
    {q \in [limit : 1..3, hybrid : BOOLEAN, dedupe : BOOLEAN, perConversation : {0, 1},
            minScore : {0, 60}, rejected : BOOLEAN, canonicalFirst : BOOLEAN,
            proposed : BOOLEAN, budget : {0, 15}, quoteOnly : BOOLEAN, chronological : BOOLEAN] :
        /\ q.rejected = q.canonicalFirst
        /\ q.quoteOnly = q.proposed
        /\ q.chronological = (q.minScore = 0)
        /\ q.budget = 0 => q.limit = 2}
=============================================================================
