----------------------------- MODULE MCServices -----------------------------
(***************************************************************************)
(* The services around the memories: paged reads, the statistics and their *)
(* caches, the rate limiter, chat sessions and research sessions, the      *)
(* imports before their records are ingested, what a search makes of its   *)
(* matches, the memory loop before the review queue, the cutting of texts, *)
(* and the reflection loop.  They share no state, so a behaviour is one of *)
(* a single part.                                                          *)
(***************************************************************************)
EXTENDS CollectionScan, MCStats, RateLimiter, ChatSession, ResearchSessions,
    MCImports, MCRecall, MCMemoryLoop, MCChunker, MCReflection

VARIABLE part

\* A document of four chunks, one of which has the index of another, two more
\* points, one with a value that was there before.
Point(id, doc, index, filed, wanted, value) ==
    [id |-> id, doc |-> doc, index |-> index, filed |-> filed, asked |-> wanted, value |-> value]
SomePoints ==
    {Point(1, "d", 2, TRUE, FALSE, "x"), Point(2, "d", 1, TRUE, TRUE, "y"),
     Point(3, "e", 1, FALSE, TRUE, ""), Point(4, "d", 1, TRUE, TRUE, "x"),
     Point(5, "d", 4, TRUE, TRUE, "z"), Point(6, "d", 3, FALSE, TRUE, "z")}
Scan(kind, limit, anchor, window) ==
    [kind |-> kind, limit |-> limit, doc |-> "d", anchor |-> anchor, window |-> window]
AnyPoint == Point(6, "d", 3, FALSE, TRUE, "z")
SomeScans ==
    {Scan(kind, limit, AnyPoint, 1) : limit \in {2, 9},
        kind \in {"keyword", "document", "sample", "thoughts", "harvest", "distinct", "aggregate"}}
    \cup {Scan("neighbors", 1, p, w) : p \in {q \in SomePoints : q.id \in {1, 2, 6}}, w \in {1, 2}}

\* "a b" and "a_b" become one in the ids of points.
SafeIds == [s \in Sessions |-> IF s = "c" THEN "c" ELSE "a_b"]
SomeFinds == {{}, {"s1"}, {"s2"}}

NoQuery == [limit |-> 0]
Services == {"scan", "stats", "rate", "chat", "research", "export", "claude", "recall", "loop", "chunk", "reflection"}
ServicesInit ==
    /\ part \in Services
    /\ IF part = "recall" THEN RecallInit
       ELSE /\ archive = {} /\ query = NoQuery /\ store = "" /\ stage = "" /\ visited = 0
            /\ pool = << >> /\ ranked = << >> /\ distinct = << >> /\ shared = << >>
            /\ found = NoQuery /\ ordered = << >> /\ pack = NoQuery
    /\ IF part = "claude" THEN ClaudeInit
       ELSE messages = << >> /\ trail = << >> /\ order = << >> /\ handled = 0 /\ accepted = << >>
    /\ IF part = "loop" THEN LoopInit
       ELSE /\ harvest = << >> /\ loopStage = "" /\ passed = 0
            /\ clusters = << >> /\ candidates = << >> /\ checked = << >> /\ curated = << >>
    /\ IF part = "chunk" THEN ChunkInit
       ELSE /\ job = NoQuery /\ cut = "" /\ windowStart = 0 /\ turn = 0 /\ indices = << >>
            /\ windowText = << >> /\ start = 0
            /\ chunks = << >> /\ windows = << >>
    /\ IF part = "reflection" THEN ReflectionInit
       ELSE /\ command = NoQuery /\ source = {} /\ target = {} /\ flagged = {}
            /\ worker = <<NewWorker>> /\ reflections = [m \in Memories |-> 0] /\ drops = 0 /\ mishaps = 0 /\ arrivals = 0
    /\ IF part = "scan" THEN TRUE ELSE stored = {}
    /\ IF part = "rate" THEN TRUE ELSE since = 0
    /\ ScanInit /\ StatsInit /\ RateInit /\ ChatInit /\ ResearchInit
    /\ ExportInit
ServicesNext ==
    /\ UNCHANGED part
    /\ IF part = "scan" THEN ScanNext ELSE UNCHANGED scanVars
    /\ IF part = "stats" THEN StatsNext ELSE UNCHANGED statsVars
    /\ IF part = "rate" THEN RateNext ELSE UNCHANGED rateVars
    /\ IF part = "chat" THEN ChatNext ELSE UNCHANGED chatVars
    /\ IF part = "research" THEN ResearchNext ELSE UNCHANGED researchVars
    /\ IF part = "export" THEN ExportNext ELSE UNCHANGED exportVars
    /\ IF part = "claude" THEN ClaudeNext ELSE UNCHANGED claudeVars
    /\ IF part = "recall" THEN RecallNext ELSE UNCHANGED recallVars
    /\ IF part = "loop" THEN LoopNext ELSE UNCHANGED loopVars
    /\ IF part = "chunk" THEN ChunkNext ELSE UNCHANGED chunkVars
    /\ IF part = "reflection" THEN ReflectionNext ELSE UNCHANGED reflectionVars
servicesVars ==
    <<part, scanVars, statsVars, rateVars, chatVars, researchVars,
      exportVars, claudeVars, recallVars, loopVars, chunkVars, reflectionVars>>
ServicesSpec == ServicesInit /\ [][ServicesNext]_servicesVars
=============================================================================
