--------------------------- MODULE ClaudeThreads ---------------------------
(***************************************************************************)
(* The order in which `frontpocket ingest claude` stores the messages of a *)
(* conversation (claude_import.go).  The export is a list of messages that *)
(* name their parents; ids may be missing or repeated, parents may be      *)
(* missing, and name each other in a circle.                               *)
(***************************************************************************)
EXTENDS Integers, Sequences

CONSTANTS
    Threads,     \* conversations: sequences of [uuid, parent, time, role, text]
    ClaudeRoles  \* the roles the speaker rules store

Root == -1       \* claudeRootParentUUID
Blank == 0       \* no id, no parent, no time

ASSUME ThreadAssumption ==
    Threads \subseteq Seq([uuid : Nat, parent : Nat \cup {Root}, time : Nat,
                           role : STRING, text : BOOLEAN])

VARIABLES
    messages,    \* the conversation that is imported
    trail,       \* the ids whose answers are being walked, the outermost first
    order,       \* what orderClaudeMessages returns, as far as it has come
    handled,     \* how many of these the import has been through
    accepted     \* those of them that became records

claudeVars == <<messages, trail, order, handled, accepted>>

-----------------------------------------------------------------------------
\* By time and, at the same time, by id; undated messages last.  The message
\* time is its creation, its update, or the first time stamp in its content.
Sooner(a, b) ==
    IF a.time = b.time THEN a.uuid < b.uuid
    ELSE a.time # Blank /\ (b.time = Blank \/ a.time < b.time)

\* Positions in the export, in place of messages: an id may be there twice.
Named == {i \in DOMAIN messages : messages[i].uuid # Blank}
ParentOf(i) == IF messages[i].parent = Blank THEN Root ELSE messages[i].parent
Stable(i, j) ==
    \/ Sooner(messages[i], messages[j])
    \/ ~Sooner(messages[j], messages[i]) /\ i < j
Visited == {messages[order[k]].uuid : k \in DOMAIN order}
\* What childrenByParent has of a parent and the walk has not met.
Answers(parent) == {i \in Named : ParentOf(i) = parent /\ messages[i].uuid \notin Visited}
\* byID keeps the last message of each id.
byID == {i \in Named : \A j \in Named : messages[j].uuid = messages[i].uuid => j <= i}
Unmet == {i \in byID : messages[i].uuid \notin Visited}

ClaudeInit ==
    /\ messages \in Threads /\ trail = <<Root>>
    /\ order = << >> /\ handled = 0 /\ accepted = << >>

\* Mutant: the answers to a message wait behind the others.
WalkLevels ==
    /\ trail # << >>
    /\ \E i \in Answers(trail[Len(trail)]) :
          /\ \A j \in Answers(trail[Len(trail)]) : j # i => Stable(i, j)
          /\ order' = Append(order, i)
          /\ trail' = <<messages[i].uuid>> \o trail
    /\ UNCHANGED <<messages, handled, accepted>>
\* walk: the first answer to the innermost message, then the answers to it.
Walk ==
    /\ trail # << >>
    /\ \E i \in Answers(trail[Len(trail)]) :
          /\ \A j \in Answers(trail[Len(trail)]) : j # i => Stable(i, j)
          /\ order' = Append(order, i)
          /\ trail' = Append(trail, messages[i].uuid)
    /\ UNCHANGED <<messages, handled, accepted>>
Return ==
    /\ trail # << >> /\ Answers(trail[Len(trail)]) = {}
    /\ trail' = SubSeq(trail, 1, Len(trail) - 1)
    /\ UNCHANGED <<messages, order, handled, accepted>>
\* Those the walk has not met follow.
Remainder ==
    /\ trail = << >>
    /\ \E i \in Unmet : /\ \A j \in Unmet : j # i => Stable(i, j)
                        /\ order' = Append(order, i)
    /\ UNCHANGED <<messages, trail, handled, accepted>>

\* The loop over the ordered messages: no record without a stored role or a text.
Storable(i) == messages[i].role \in ClaudeRoles /\ messages[i].text
ParseClaudeExport ==
    /\ trail = << >> /\ Unmet = {} /\ handled < Len(order)
    /\ handled' = handled + 1
    /\ accepted' = IF Storable(order[handled + 1]) THEN Append(accepted, order[handled + 1])
                   ELSE accepted
    /\ UNCHANGED <<messages, trail, order>>

ClaudeNext == Walk \/ Return \/ Remainder \/ ParseClaudeExport
ClaudeSpec == ClaudeInit /\ [][ClaudeNext]_claudeVars

-----------------------------------------------------------------------------
Parsed == trail = << >> /\ Unmet = {} /\ handled = Len(order)
Id(k) == messages[accepted[k]].uuid
Parent(k) == ParentOf(accepted[k])
AllStored == \A i \in Named : Storable(i)
\* The ids that a thread leads to: those in every set that has the answers to
\* the root and to its members.
NamedIds == {messages[i].uuid : i \in Named}
Closed(ids) == \A i \in Named : ParentOf(i) \in ids \cup {Root} => messages[i].uuid \in ids
Reachable == {id \in NamedIds : \A ids \in SUBSET NamedIds : Closed(ids) => id \in ids}

(* The records are those of the messages that have an id, a stored role and  *)
(* a text, one for each id; a thread is stored as it was written: an answer  *)
(* comes after what it answers, no other branch comes between the two, and   *)
(* of two answers to one message the earlier comes first; what no thread     *)
(* leads to comes after all of them.  So it is in spite of ids that occur    *)
(* twice, parents that are not in the export, and circles.                   *)
ThreadOrder ==
    LET reachable == Reachable
    IN  /\ \A k \in DOMAIN accepted : accepted[k] \in Named /\ Storable(accepted[k])
        /\ \A j, k \in DOMAIN accepted : j # k => Id(j) # Id(k)
        /\ Parsed =>
              \A i \in Named :
                 (\A j \in Named : messages[j].uuid = messages[i].uuid => Storable(j))
                    => \E k \in DOMAIN accepted : Id(k) = messages[i].uuid
        /\ \A j, k \in DOMAIN accepted :
              /\ j < k /\ Id(k) \in reachable => Id(j) \in reachable
              /\ Id(k) \in reachable /\ Id(j) = Parent(k) => j < k
              /\ j < k /\ Parent(j) = Parent(k) /\ (Id(j) \in reachable <=> Id(k) \in reachable)
                    => ~Sooner(messages[accepted[k]], messages[accepted[j]])
        /\ AllStored =>
              \A i, j, k \in DOMAIN accepted :
                 Id(k) \in reachable /\ Id(i) = Parent(k) /\ i < j /\ j < k
                    => \E p \in DOMAIN accepted : i <= p /\ p < j /\ Id(p) = Parent(j)
=============================================================================
