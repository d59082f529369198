------------------------------ MODULE MCIngest ------------------------------
(***************************************************************************)
(* Small archives for Ingest.  Conversations A and C carry message ids, B  *)
(* does not (Claude project files, API records).                           *)
(***************************************************************************)
EXTENDS Ingest

Rec(conversation, message, stable, chunks) ==
    [conversation |-> conversation, message |-> message, stable |-> stable,
     accepted |-> TRUE, chunks |-> chunks]

Rejected(r) == [r EXCEPT !.accepted = FALSE]

OldPoint(conversation, position, message) ==
    [id |-> [conversation |-> conversation, message |-> NoMessage,
             position |-> position, chunk |-> 1],
     message |-> message]

\* Two records of a conversation with ids, one of them of two chunks; one of
\* a speaker that is not stored; two records without ids; two more with ids.
FullArchive ==
    [all |-> << Rec("A", "a1", TRUE, 2),
                Rec("A", "a2", TRUE, 1),
                Rejected(Rec("A", "a3", TRUE, 1)),
                Rec("B", "b1", FALSE, 1),
                Rec("B", "b2", FALSE, 2),
                Rec("C", "c1", TRUE, 1),
                Rec("C", "c2", TRUE, 1) >>]

\* C was imported by a binary that keyed points by position.
LegacyC == {OldPoint("C", 5, "c1"), OldPoint("C", 6, "c2")}
LegacyA == {OldPoint("A", 1, "a1"), OldPoint("A", 2, "a2")}

NoPoints == {}

\* The archive grows: a message is found before the ones already imported.
UpdatedArchive ==
    [old |-> << Rec("A", "a1", TRUE, 1), Rec("A", "a2", TRUE, 2),
                Rec("C", "c1", TRUE, 1) >>,
     new |-> << Rec("A", "a0", TRUE, 1), Rec("A", "a1", TRUE, 1),
                Rec("A", "a2", TRUE, 2), Rec("C", "c0", TRUE, 1),
                Rec("C", "c1", TRUE, 1) >>]

\* --since leaves out a1, which an earlier import had stored.
SinceArchive == [recent |-> << Rec("A", "a2", TRUE, 1) >>]
=============================================================================
