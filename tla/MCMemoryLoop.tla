---------------------------- MODULE MCMemoryLoop ----------------------------
(* Harvests for MemoryLoop. *)
EXTENDS MemoryLoop

Noted(id, project, kind, speaker, text, time) ==
    [id |-> id, project |-> project, kind |-> kind, speaker |-> speaker,
     quote |-> text, line |-> text, time |-> time]

\* Two of no project and of the general one, the user's and an assistant's, of
\* one text (five of one group differ) and of none, a decision by its kind and one by its project.
SomeNotes ==
    <<Noted(1, 0, 0, 2, 11, 5), Noted(2, 1, 1, 2, 12, 4), Noted(3, 1, 1, 3, 11, 3),
      Noted(4, 1, 1, 2, 13, 2), Noted(5, 1, 4, 3, 14, 1), Noted(6, 3, 1, 0, 15, 6),
      Noted(7, 1, 2, 2, 0, 7), Noted(8, 1, 1, 2, 12, 9),
      Noted(9, 1, 1, 2, 16, 8), Noted(10, 0, 1, 2, 17, 0),
      Noted(11, 1, 2, 3, 18, 8)>>
SomeHarvests ==
    {SelectSeq(SomeNotes, LAMBDA m : m.id \in S) : S \in SUBSET DOMAIN SomeNotes}
=============================================================================
