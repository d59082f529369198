------------------------------ MODULE Chunker ------------------------------
(***************************************************************************)
(* How a text is cut into the chunks that are embedded (memory/chunker.go) *)
(* and how the turns of a conversation are grouped into windows before     *)
(* that (memory/chunker_v2.go).                                            *)
(*                                                                         *)
(* A text is a sequence of classes of characters: part of a word, the end  *)
(* of a sentence, space, or the end of a line, which is space as well.  A  *)
(* chunk is the sequence of stretches of the text it was put together from.*)
(* Positions count from zero, as in the code, and texts come with their    *)
(* ends trimmed.                                                           *)
(***************************************************************************)
EXTENDS Integers, Sequences, FiniteSets, FiniteSetsExt

CONSTANT
    ChunkJobs    \* [turns, windowed, turnsPerWindow, turnsShared, size, overlap, minSize]:
                 \*   a text (not windowed: one turn) or a conversation, with its limits

Prose == Seq({"word", "stop", "space", "line"})
ASSUME ChunkAssumption ==
    \A j \in ChunkJobs :
        /\ j \in [turns : Seq(Prose), windowed : BOOLEAN, turnsPerWindow : Int, turnsShared : Int,
                 size : Int, overlap : Int, minSize : Int]
        /\ ~j.windowed => Len(j.turns) = 1

VARIABLES
    job,
    cut,         \* "open", "asked", "cutting", "closing" or "done"
    windowStart, \* turns before the window under way
    turn,        \* turns that were passed or are in it
    indices,     \* those that are in it
    windowText,  \* its text
    start,       \* where the next chunk begins
    chunks,      \* the chunks of this text
    windows      \* what was returned so far: [text, indices, chunks]

chunkVars == <<job, cut, windowStart, turn, indices, windowText, start, chunks, windows>>

-----------------------------------------------------------------------------
Char(i) == windowText[i + 1]
Space(i) == Char(i) \in {"space", "line"}

\* TrimSpace of a stretch: no stretch, or the one without the space around it.
Trimmed(from, to) ==
    LET ink == {i \in from..to - 1 : ~Space(i)}
    IN  IF ink = {} THEN << >> ELSE <<[from |-> Min(ink), to |-> Max(ink) + 1]>>
Length(piece) == piece[1].to - piece[1].from

\* The overlap in force.
Overlap == IF job.overlap < 0 THEN 0
           ELSE IF job.overlap >= job.size THEN job.size \div 2 ELSE job.overlap

\* After the last empty line before the end, or else after the last sentence,
\* or else before a space of the last fifth, or else at the end.  All of these
\* are behind `from`, so the cut that ChunkText has for others is not needed.
findBreakPoint(from, end) ==
    LET inside == from + 1..end - 1
        lines == {i \in inside : Char(i) = "line" /\ Char(i - 1) = "line"}
        sentences == {i \in inside : Char(i) = "stop" /\ i + 1 < Len(windowText) /\ Space(i + 1)}
        spaces == {i \in end - (end - from) \div 5 + 1..end - 1 : Space(i)}
    IN  CASE lines # {} -> Max(lines) + 1
          [] lines = {} /\ sentences # {} -> Max(sentences) + 1
          [] lines = {} /\ sentences = {} /\ spaces # {} -> Max(spaces)
          [] OTHER -> end
EndOf(from) ==
    IF from + job.size >= Len(windowText) THEN Len(windowText)
    ELSE findBreakPoint(from, from + job.size)

\* Mutant: what is too short for a chunk is left out.
DropShort(out, piece) ==
    CASE piece = << >> -> out
      [] piece # << >> /\ Length(piece) < job.minSize /\ out # << >> -> out
      [] OTHER -> Append(out, piece)
\* What is too short for a chunk of its own goes to the one before.
AddPiece(out, piece) ==
    CASE piece = << >> -> out
      [] piece # << >> /\ Length(piece) < job.minSize /\ out # << >> ->
            [out EXCEPT ![Len(out)] = @ \o piece]
      [] OTHER -> Append(out, piece)

-----------------------------------------------------------------------------
\* The window size and the overlap of windows that are in force.
WindowSize == IF job.turnsPerWindow < 1 THEN 1 ELSE job.turnsPerWindow
Shared == IF job.turnsShared < 0 THEN 0
          ELSE IF job.turnsShared >= WindowSize THEN WindowSize - 1 ELSE job.turnsShared
WindowEnd == IF windowStart + WindowSize > Len(job.turns) THEN Len(job.turns)
             ELSE windowStart + WindowSize

ChunkInit ==
    /\ job \in ChunkJobs
    /\ cut = IF job.windowed THEN "open" ELSE "asked"
    /\ windowText = IF job.windowed THEN << >> ELSE job.turns[1]
    /\ indices = IF job.windowed \/ job.turns[1] = << >> THEN << >> ELSE <<1>>
    /\ turn = IF job.windowed THEN 0 ELSE 1
    /\ windowStart = 0 /\ start = 0 /\ chunks = << >> /\ windows = << >>

\* A turn that says anything goes in with its speaker, behind an empty line.
Heading == IF windowText = << >> THEN <<"word", "space">> ELSE <<"line", "line", "word", "space">>
assembleWindow ==
    /\ cut = "open" /\ turn < WindowEnd
    /\ turn' = turn + 1
    /\ IF job.turns[turn + 1] = << >> THEN UNCHANGED <<windowText, indices>>
       ELSE /\ windowText' = windowText \o Heading \o job.turns[turn + 1]
            /\ indices' = Append(indices, turn + 1)
    /\ UNCHANGED <<job, cut, windowStart, start, chunks, windows>>
\* On to the next window, unless this one reached the last turn.
NextWindow ==
    /\ cut' = IF WindowEnd >= Len(job.turns) THEN "done" ELSE "open"
    /\ windowStart' = IF WindowEnd >= Len(job.turns) THEN windowStart
                      ELSE windowStart + WindowSize - Shared
    /\ turn' = windowStart' /\ indices' = << >> /\ windowText' = << >>
SkipBlankWindow ==
    /\ cut = "open" /\ turn >= WindowEnd /\ windowText = << >>
    /\ NextWindow
    /\ UNCHANGED <<job, start, chunks, windows>>
OpenWindow ==
    /\ cut = "open" /\ turn >= WindowEnd /\ windowText # << >>
    /\ cut' = "asked"
    /\ UNCHANGED <<job, windowStart, turn, indices, windowText, start, chunks, windows>>

\* A text that fits is one chunk, and a blank one none.
KeepWhole ==
    /\ cut = "asked" /\ (job.size <= 0 \/ Len(windowText) <= job.size)
    /\ chunks' = AddPiece(<< >>, Trimmed(0, Len(windowText)))
    /\ cut' = "closing"
    /\ UNCHANGED <<job, windowStart, turn, indices, windowText, start, windows>>
BeginCut ==
    /\ cut = "asked" /\ job.size > 0 /\ Len(windowText) > job.size
    /\ start' = 0 /\ cut' = "cutting"
    /\ UNCHANGED <<job, windowStart, turn, indices, windowText, chunks, windows>>
\* One round of the loop of ChunkText.
ChunkText ==
    /\ cut = "cutting"
    /\ LET end == EndOf(start)
       IN  /\ chunks' = AddPiece(chunks, Trimmed(start, end))
           /\ cut' = IF end >= Len(windowText) THEN "closing" ELSE "cutting"
           /\ start' = IF end - Overlap <= start THEN end ELSE end - Overlap
    /\ UNCHANGED <<job, windowStart, turn, indices, windowText, windows>>

\* Every chunk of a window has all its turns.
ChunkConversation ==
    /\ cut = "closing"
    /\ windows' = Append(windows, [text |-> windowText, indices |-> indices, chunks |-> chunks])
    /\ chunks' = << >> /\ start' = 0
    /\ NextWindow
    /\ UNCHANGED job

ChunkNext == \/ assembleWindow \/ SkipBlankWindow \/ OpenWindow \/ KeepWhole \/ BeginCut
             \/ ChunkText \/ ChunkConversation
ChunkSpec == ChunkInit /\ [][ChunkNext]_chunkVars

-----------------------------------------------------------------------------
Ink(t) == {i \in 0..Len(t) - 1 : t[i + 1] \notin {"space", "line"}}
\* A turn is somewhere in a text, word for word.
SaysTurn(t, turnText) ==
    \E at \in 0..Len(t) : /\ at + Len(turnText) <= Len(t)
                          /\ \A q \in 1..Len(turnText) : t[at + q] = turnText[q]
\* Of two stretches of some chunks, the one that was cut first.
CutBefore(c, j, d, k) == c < d \/ (c = d /\ j < k)
ChunksFollow(t, cs) ==
    /\ \A i \in Ink(t) : \E c \in DOMAIN cs : \E k \in DOMAIN cs[c] :
          cs[c][k].from <= i /\ i < cs[c][k].to
    /\ \A c, d \in DOMAIN cs : \A j \in DOMAIN cs[c], k \in DOMAIN cs[d] :
          CutBefore(c, j, d, k) => /\ cs[c][j].from <= cs[d][k].from
                                   /\ cs[c][j].to <= cs[d][k].to
    /\ job.size > 0 =>
          \A c \in DOMAIN cs : \A k \in DOMAIN cs[c] :
             /\ cs[c][k].to - cs[c][k].from <= job.size
             /\ k > 1 => cs[c][k].to - cs[c][k].from < job.minSize

(* Nothing that was written is lost between the windows or between the       *)
(* chunks: every turn that says anything is in a window, word for word; every*)
(* character of a window's text that is not space is in a chunk, and the     *)
(* chunks follow the text.  And no stretch is longer than the size asked for,*)
(* nor one that was added to a chunk as long as a chunk has to be.           *)
NothingIsCutAway ==
    /\ cut = "done" =>
          \A i \in DOMAIN job.turns :
             job.turns[i] # << >> =>
                \E n \in DOMAIN windows : \E k \in DOMAIN windows[n].indices :
                   windows[n].indices[k] = i /\ SaysTurn(windows[n].text, job.turns[i])
    /\ \A n \in DOMAIN windows : ChunksFollow(windows[n].text, windows[n].chunks)
=============================================================================
