----------------------------- MODULE MCImports -----------------------------
(* An export and its scopes for ExportImport, and threads for ClaudeThreads. *)
EXTENDS ExportImport, ClaudeThreads

Mention(form, file) == [form |-> form, file |-> file]
Message(node, role, type, lines, mentions, marked, created) ==
    [node |-> node, role |-> role, type |-> type, lines |-> lines, mentions |-> mentions,
     marked |-> marked, created |-> created, updated |-> 0]

\* Images that are described (1, 3), one that is not named (4), a file that is
\* no image (2), one that is missing (5); messages undated, blank, of a tool,
\* and of a type without a text; a file without conversations; one without id.
Picnic ==
    [id |-> 7, created |-> 1,
     nodes |-> {Message(1, "user", "text", TRUE, <<Mention(2, 1), Mention(1, 2)>>, FALSE, 3),
                Message(2, "assistant", "text", TRUE, << >>, FALSE, 2),
                Message(3, "user", "image", FALSE, <<Mention(1, 1)>>, FALSE, 0),
                Message(4, "tool", "text", TRUE, << >>, FALSE, 2)}]
Letter ==
    [id |-> 8, created |-> 0,
     nodes |-> {Message(1, "user", "text", FALSE, << >>, FALSE, 4),
                Message(2, "user", "image", FALSE, <<Mention(1, 4), Mention(2, 3)>>, FALSE, 5),
                Message(3, "assistant", "code", FALSE, << >>, FALSE, 6),
                Message(4, "user", "code", FALSE, << >>, TRUE, 0)}]
Nameless ==
    [id |-> 0, created |-> 2,
     nodes |-> {Message(1, "user", "text", TRUE, <<Mention(1, 3), Mention(1, 3)>>, FALSE, 2),
                Message(2, "assistant", "text", TRUE, <<Mention(1, 5)>>, FALSE, 3)}]
SomeFiles == <<<<Picnic, Letter>>, << >>, <<[Letter EXCEPT !.id = 9], Nameless>>>>

Scope(only, from, limit, captioned, dry) ==
    [only |-> only, since |-> from, limit |-> limit, captions |-> captioned, dry |-> dry]
SomeScopes ==
    {Scope({}, 0, 0, TRUE, FALSE), Scope({}, 2, 3, FALSE, FALSE), Scope({-2, 9}, 0, 0, TRUE, TRUE),
     Scope({-2, 9}, 0, 0, FALSE, FALSE)}

\* Three messages in every shape: a reply to a later one, to itself, to one that
\* is not there; and two, of which one may have no id, or both the same.
Written == [uuid : 1..3, parent : {-1, 1, 2, 3, 9}, time : {0, 1}, role : {"user"}, text : {TRUE}]
Short == [uuid : 0..2, parent : {-1, 0, 1, 2}, time : {0, 1}, role : {"user", "tool"}, text : BOOLEAN]
SomeThreads ==
    {t \in [1..3 -> Written] : t[1].uuid = 2 /\ t[3].time = 1}
        \cup {t \in [1..2 -> Short] : t[1].text}
=============================================================================
