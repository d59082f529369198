---------------------------- MODULE ExportImport ----------------------------
(***************************************************************************)
(* `frontpocket ingest chatgpt` up to the records it hands to the ingest   *)
(* pipeline (chatgpt_import.go, assets.go), with the two files it keeps    *)
(* for the next attempt: the parse checkpoint (chatgpt_parse_checkpoint.go)*)
(* and the caption cache (caption_cache.go).  One process imports, and may *)
(* die anywhere; another one is started in its place.                      *)
(*                                                                         *)
(* A parse reads every conversation again, whatever the checkpoint says:   *)
(* what it saves is the captions, which the cache has.                     *)
(***************************************************************************)
EXTENDS Integers, Sequences, FiniteSets, SequencesExt

CONSTANTS
    Files,       \* the JSON files, by name: the conversations in each, none if it is no such file
    Scopes,      \* [only, since, limit, captions, dry]: what imports are started with
    StoredRoles, \* the roles the speaker rules store
    Mapped,      \* references that asset_file_names.json or library_files.json names
    OnDisk,      \* references whose file is in the export
    Images,      \* references whose file is an image
    MaxCaptions, \* bound: captions asked of the vision model
    MaxBreaks    \* bound: crashes and calls that fail

\* The messages of a conversation are the values of a mapping: each has a key.
IsConversation(c) ==
    /\ DOMAIN c = {"id", "created", "nodes"} /\ {c.id, c.created} \subseteq Nat
    /\ IsFiniteSet(c.nodes)
    /\ \A n \in c.nodes : {n.node, n.created, n.updated} \subseteq Nat
    /\ \A m, n \in c.nodes : m.node = n.node => m = n

ASSUME ExportAssumption ==
    /\ MaxCaptions \in Nat /\ MaxBreaks \in Nat /\ Images \subseteq Nat
    /\ Files \in Seq(Seq(UNION {Range(Files[f]) : f \in DOMAIN Files}))
    /\ \A f \in DOMAIN Files : \A c \in Range(Files[f]) : IsConversation(c)
    /\ Scopes \subseteq [only : SUBSET Int, since : Nat, limit : Nat,
                         captions : BOOLEAN, dry : BOOLEAN]

VARIABLES
    checkpoint,  \* the checkpoint file: [scope, done], or Missing
    captions,    \* the cache file: reference -> the number of the caption
    import,      \* the import under way, or NoImport
    answers,     \* captions the model has given
    failed,      \* references a caption or its saving has failed for
    exportFaults

exportVars == <<checkpoint, captions, import, answers, failed, exportFaults>>

Missing == [done |-> {}]
NoImport == [at |-> "none"]
NoTime == 0
NoID == 0

-----------------------------------------------------------------------------
\* The conversations in the order they are read.  One without an id gets one
\* of its place in its file: two files may give the same.
ConversationID(c, idx) == IF c.id = NoID THEN -idx ELSE c.id
Conversations ==
    FlattenSeq([f \in DOMAIN Files |->
        [idx \in DOMAIN Files[f] |->
            [Files[f][idx] EXCEPT !.id = ConversationID(Files[f][idx], idx)]]])

MessageTime(n, c) ==
    IF n.created # NoTime THEN n.created
    ELSE IF n.updated # NoTime THEN n.updated
    ELSE c.created

\* Messages by time, the undated ones last; the mapping they come from has no order.
\* The j-th of them is the one that j - 1 others come before.
NodeBefore(c, a, b) ==
    LET s == MessageTime(a, c) t == MessageTime(b, c)
    IN  IF s = t THEN a.node < b.node ELSE s # NoTime /\ (t = NoTime \/ s < t)
collectMessageNodes(c, j) ==
    CHOOSE n \in c.nodes : Cardinality({m \in c.nodes : NodeBefore(c, m, n)}) = j - 1

\* One reference for each file that is mentioned, in the form it is met first in
\* (bare, or with a scheme); they are sorted by their form.
extractAttachmentRefs(n) ==
    LET first == {i \in DOMAIN n.mentions :
                    \A j \in 1..i - 1 : n.mentions[j].file # n.mentions[i].file}
    IN  SetToSortSeq({n.mentions[i] : i \in first}, LAMBDA a, b : a.form < b.form)
hasAttachment(n) == n.mentions # << >> \/ n.marked

\* What is stored of a message: its text, a stub for its attachments, nothing,
\* or it is of a type that is not supported.
extractMessageText(n) ==
    CASE n.type = "text" /\ n.lines -> "text"
      [] n.type = "text" /\ ~hasAttachment(n) -> "blank"
      [] n.type # "text" /\ n.type # "image" /\ ~hasAttachment(n) -> "unsupported"
      [] OTHER -> "stub"

Accepted(n, c, scope) ==
    /\ extractMessageText(n) \in {"text", "stub"}
    /\ n.role \in StoredRoles
    /\ ~(scope.since # NoTime /\ MessageTime(n, c) # NoTime /\ MessageTime(n, c) < scope.since)

\* The first reference that resolves: named in a mapping file, and on disk.
ResolveAttachment(ref) == ref.file \in Mapped /\ ref.file \in OnDisk
NoFile == -1
Chosen(n) ==
    LET resolved == SelectSeq(extractAttachmentRefs(n), ResolveAttachment)
    IN  IF resolved = << >> THEN NoFile ELSE resolved[1].file

Selects(c, scope) == scope.only = {} \/ c.id \in scope.only

-----------------------------------------------------------------------------
ExportFault == exportFaults < MaxBreaks /\ exportFaults' = exportFaults + 1
Conversation == Conversations[import.next]
Node == collectMessageNodes(Conversation, import.node)

Text(kind) == [kind |-> kind, caption |-> 0]
Caption(number) == [kind |-> "caption", caption |-> number]
Record(text) == [place |-> import.next, node |-> Node.node, text |-> text]

\* The import with the record of this message, or without one.
Stored(text) == [import EXCEPT !.records = Append(@, Record(text)), !.node = @ + 1,
                               !.at = "reading"]
Skipped == [import EXCEPT !.node = @ + 1]

ExportInit ==
    /\ checkpoint = Missing /\ captions = [f \in {} |-> 0]
    /\ import = NoImport /\ answers = 0 /\ failed = {} /\ exportFaults = 0

\* OpenCaptionCache and OpenChatGPTParseCheckpoint, which refuses a checkpoint
\* of another scope.
NoCaptions == [f \in {} |-> 0]   \* Mutant: a new cache.
OpenCaptionCache == captions

\* normalizeChatGPTParseCheckpointMeta: a dry run describes no images.
CheckpointMeta(scope) ==
    [only |-> scope.only, since |-> scope.since, limit |-> scope.limit,
     captions |-> scope.captions /\ ~scope.dry]
StartImport(scope) ==
    /\ import = NoImport
    /\ checkpoint # Missing => checkpoint.scope = CheckpointMeta(scope)
    /\ import' = [at |-> "between", scope |-> scope, done |-> checkpoint.done,
                  cache |-> OpenCaptionCache, next |-> 1, node |-> 1, found |-> 0,
                  records |-> << >>]
    /\ UNCHANGED <<checkpoint, captions, answers, failed, exportFaults>>

LimitReached == import.scope.limit > 0 /\ import.found >= import.scope.limit
Advance(selects) ==
    /\ import.at = "between"
    /\ import' =
          IF LimitReached \/ import.next > Len(Conversations)
          THEN [import EXCEPT !.at = "parsed"]
          ELSE IF selects
          THEN [import EXCEPT !.at = "reading", !.node = 1, !.found = @ + 1]
          ELSE [import EXCEPT !.next = @ + 1]

\* Mutant: what the checkpoint calls done is not read again.
SkipDone ==
    /\ Advance(Selects(Conversation, import.scope) /\ Conversation.id \notin import.done)
    /\ UNCHANGED <<checkpoint, captions, answers, failed, exportFaults>>

\* Mutant: a conversation is marked when it is begun.
MarkFirst ==
    /\ Advance(Selects(Conversation, import.scope))
    /\ checkpoint' = IF import'.at = "reading"
                     THEN [scope |-> CheckpointMeta(import.scope), done |-> import.done \cup {Conversation.id}]
                     ELSE checkpoint
    /\ UNCHANGED <<captions, answers, failed, exportFaults>>

NextConversation ==
    /\ Advance(Selects(Conversation, import.scope))
    /\ UNCHANGED <<checkpoint, captions, answers, failed, exportFaults>>

\* A message that needs no answer of the vision model.
ReadMessage ==
    /\ import.at = "reading" /\ import.node <= Cardinality(Conversation.nodes)
    /\ LET file == Chosen(Node)
           describes == import.scope.captions /\ ~import.scope.dry /\ file # NoFile
       IN  import' =
             IF ~Accepted(Node, Conversation, import.scope) THEN Skipped
             ELSE IF ~describes THEN Stored(Text(extractMessageText(Node)))
             ELSE IF file \notin Images THEN Stored(Text("name"))
             ELSE IF file \in DOMAIN import.cache THEN Stored(Caption(import.cache[file]))
             ELSE [import EXCEPT !.at = "asking"]
    /\ UNCHANGED <<checkpoint, captions, answers, failed, exportFaults>>

\* The model answers (external), and the caption is in the cache in memory.
Captioned ==
    /\ import.at = "asking" /\ answers < MaxCaptions
    /\ answers' = answers + 1
    /\ import' = [import EXCEPT !.at = "saving",
                     !.cache = [f \in DOMAIN @ \cup {Chosen(Node)} |->
                                   IF f = Chosen(Node) THEN answers' ELSE @[f]]]
    /\ UNCHANGED <<checkpoint, captions, failed, exportFaults>>

\* persistLocked: the whole cache to a second file, and the rename.
SaveCaption ==
    /\ import.at = "saving"
    /\ captions' = import.cache
    /\ import' = Stored(Caption(import.cache[Chosen(Node)]))
    /\ UNCHANGED <<checkpoint, answers, failed, exportFaults>>

\* The model or the saving fails: the message is stored as it is.  A caption
\* that was not saved stays in memory, for the next message with the image.
CaptionFails ==
    /\ import.at \in {"asking", "saving"} /\ ExportFault
    /\ failed' = failed \cup {Chosen(Node)}
    /\ import' = Stored(Text(extractMessageText(Node)))
    /\ UNCHANGED <<checkpoint, captions, answers>>

\* MarkDone, once all messages of the conversation were read: the checkpoint
\* is written aside and renamed.
MarkDone ==
    /\ import.at = "reading" /\ import.node > Cardinality(Conversation.nodes)
    /\ LET done == import.done \cup {Conversation.id}
       IN  /\ checkpoint' = IF done = import.done THEN checkpoint
                            ELSE [scope |-> CheckpointMeta(import.scope), done |-> done]
           /\ import' = [import EXCEPT !.done = done, !.next = @ + 1, !.at = "between"]
    /\ UNCHANGED <<captions, answers, failed, exportFaults>>

\* The ingest of the records (the module Ingest) was a success and its count
\* right: the checkpoint is removed.  An import that finds nothing, stores
\* nothing or is a dry run leaves it.
FinishImport ==
    /\ import.at = "parsed"
    /\ checkpoint' = IF import.scope.dry \/ import.records = << >> THEN checkpoint ELSE Missing
    /\ import' = NoImport
    /\ UNCHANGED <<captions, answers, failed, exportFaults>>

\* The process dies, MarkDone fails, or the ingest does: the files are left.
StopImport ==
    /\ import # NoImport /\ ExportFault
    /\ import' = NoImport
    /\ UNCHANGED <<checkpoint, captions, answers, failed>>

\* The user deletes the checkpoint, as the message of a refused one says.
DeleteCheckpoint ==
    /\ import = NoImport /\ checkpoint # Missing
    /\ checkpoint' = Missing
    /\ UNCHANGED <<captions, import, answers, failed, exportFaults>>

ExportNext ==
    \/ \E scope \in Scopes : StartImport(scope)
    \/ NextConversation \/ ReadMessage \/ Captioned \/ SaveCaption \/ CaptionFails
    \/ MarkDone \/ FinishImport \/ StopImport \/ DeleteCheckpoint
ExportSpec == ExportInit /\ [][ExportNext]_exportVars

-----------------------------------------------------------------------------
\* The conversations of a scope, each with the messages it is to yield.
Selected(scope) ==
    LET matching == {k \in DOMAIN Conversations : Selects(Conversations[k], scope)}
    IN  {k \in matching :
           scope.limit = 0 \/ Cardinality({j \in matching : j < k}) < scope.limit}
Expected(scope) ==
    UNION {{[place |-> k, node |-> n.node] :
              n \in {m \in Conversations[k].nodes : Accepted(m, Conversations[k], scope)}} :
              k \in Selected(scope)}
At(r) == [place |-> r.place, node |-> r.node]
NodeAt(r) == CHOOSE n \in Conversations[r.place].nodes : n.node = r.node
RecordBefore(q, r) ==
    \/ q.place < r.place
    \/ q.place = r.place /\ NodeBefore(Conversations[q.place], NodeAt(q), NodeAt(r))

(* A parse that came to its end has a record of every message of its scope,  *)
(* each once and in the order of conversations and times, however many       *)
(* attempts were broken off before and whatever their checkpoint says; and   *)
(* the caption of an image is the saved one in all of them.                  *)
ParsedIsWhole ==
    import.at = "parsed" =>
        LET records == import.records
        IN  /\ {At(records[i]) : i \in DOMAIN records} = Expected(import.scope)
            /\ \A i, j \in DOMAIN records : i < j => RecordBefore(records[i], records[j])
            /\ \A i \in DOMAIN records :
                 LET file == Chosen(NodeAt(records[i]))
                 IN  records[i].text.kind = "caption" /\ file \notin failed =>
                        /\ file \in DOMAIN captions
                        /\ records[i].text.caption = captions[file]

(* The checkpoint is never ahead of the cache: the images of a conversation  *)
(* it calls done (the first one of that id) have their captions saved,       *)
(* except those that failed, so an attempt that resumes pays for none again. *)
DoneIsCaptioned ==
    checkpoint # Missing /\ checkpoint.scope.captions =>
        \A id \in checkpoint.done :
            LET of == {k \in Selected(checkpoint.scope) : Conversations[k].id = id}
                first == CHOOSE k \in of : \A j \in of : k <= j
            IN  \A n \in Conversations[first].nodes :
                   Accepted(n, Conversations[first], checkpoint.scope)
                     /\ Chosen(n) \in Images \ failed => Chosen(n) \in DOMAIN captions

(* A caption that was saved stays and is never paid for again: no import     *)
(* replaces or drops it (caption_cache.go, one process at a time).           *)
CaptionsStay ==
    [][\A f \in DOMAIN captions : f \in DOMAIN captions' /\ captions'[f] = captions[f]]_exportVars
=============================================================================
