---------------------------- MODULE MCReflection ----------------------------
(* Memories and commands for Reflection. *)
EXTENDS Reflection

RawMemory(id, slot, safe, long) ==
    [id |-> id, slot |-> [n \in 1..2 |-> IF n = 1 THEN 0 ELSE slot], safe |-> safe, long |-> long]
SomeReflected ==
    {RawMemory(1, 0, TRUE, TRUE), RawMemory(2, 1, TRUE, TRUE), RawMemory(3, 0, FALSE, TRUE),
     RawMemory(4, 1, TRUE, FALSE), RawMemory(5, 1, TRUE, TRUE)}
SomeStarts ==
    {[source |-> SomeReflected \ gone, target |-> target0] :
        gone \in {{}, {m \in SomeReflected : m.id = 2}}, target0 \in {NoCollection, {1}}}
Command(workers, limit, rounds, scratch, review, raw) ==
    [workers |-> workers, limit |-> limit, rounds |-> rounds, scratch |-> scratch,
     review |-> review, raw |-> raw]
SomeCommands ==
    {Command(1, limit, 2, scratch, FALSE, FALSE) : limit \in {1, 3}, scratch \in {{}, {0}}}
    \cup {Command(2, 3, 1, scratch, FALSE, FALSE) : scratch \in {{0}, {0, 1}}}
    \cup {Command(2, 3, 2, {}, FALSE, FALSE), Command(2, 3, 1, {}, FALSE, TRUE),
          Command(1, 3, 2, {}, TRUE, FALSE)}
=============================================================================
