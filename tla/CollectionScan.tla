--------------------------- MODULE CollectionScan ---------------------------
(***************************************************************************)
(* The paged reads of a Qdrant collection: keyword search, the chunks of a *)
(* document, the neighbours of a chunk and the sample of an inspection     *)
(* (minddrill_research.go), the research thoughts (deepdrill_store.go),    *)
(* the harvest of the memory loop (harvester.go over qdrant_scroll.go) and *)
(* the two samples behind the statistics (qdrant.go).                      *)
(*                                                                         *)
(* Each page is a request of its own, and other processes write to the     *)
(* collection in between.  A page is the first points, in the order of     *)
(* their ids, from an offset on; the answer to it carries the id of the    *)
(* point after it.  A scan gathers a set: what its caller sorts by is the  *)
(* data of the points, never the order in which they were read.            *)
(***************************************************************************)
EXTENDS Integers, FiniteSets

CONSTANTS
    Points,      \* [id, doc, index, filed, asked, value]: all that can be stored
    PageSize,    \* points a page asks for (256, or the batch of a harvest)
    ScanCap,     \* points a capped scan reads (1024 to 5000)
    ScanRequests,\* [kind, limit, doc, anchor, window]
    MaxWrites    \* writes of other processes during a scan

ASSUME ScanAssumption ==
    /\ IsFiniteSet(Points)
    /\ \A p \in Points : p.id \in Nat /\ p.index \in Int
    /\ \A p, q \in Points : p.id = q.id => p = q
    /\ PageSize \in Nat \ {0} /\ ScanCap \in Nat \ {0}
    /\ \A r \in ScanRequests : r.limit \in Nat \ {0} /\ r.window \in Nat

NoId == -1

VARIABLES
    stored,      \* the points of the collection
    kept,        \* those that were there when the scan began, and since
    scan,        \* the scan: request, where it is, what it has gathered
    writes       \* writes so far

scanVars == <<stored, kept, scan, writes>>

-----------------------------------------------------------------------------
Earlier(p, S) == {q \in S : q.id < p.id}
First(n, S) == {p \in S : Cardinality(Earlier(p, S)) < n}

Limited(kind) == kind \notin {"neighbors", "aggregate"}
Capped(kind) == kind \in {"keyword", "document", "neighbors", "aggregate", "distinct"}
\* The scan for the values of a field looks at its cap between pages only.
CapsWithinPage(kind) == kind \in {"keyword", "document", "neighbors", "aggregate"}
\* These two ask for no more than they still want.
PageLimit == IF scan.request.kind \in {"sample", "harvest"}
                  /\ scan.request.limit - Cardinality(scan.out) < PageSize
             THEN scan.request.limit - Cardinality(scan.out)
             ELSE PageSize

\* The filter that goes with the request: keyword filters, the type of the
\* thoughts, the project, speaker and kind of a harvest.
Filed(kind, p) == kind \in {"keyword", "thoughts", "harvest"} => p.filed

\* What the loop body keeps of the points it reads.  A harvest drops canonical
\* points and those outside its dates here, after they were paged.
Keeps(r, out, read, p) ==
    CASE r.kind \in {"keyword", "thoughts", "harvest"} -> p.asked
      [] r.kind = "document" -> p.doc = r.doc
      [] r.kind = "distinct" -> /\ p.value # ""
                                /\ \A q \in out \cup Earlier(p, read) : q.value # p.value
      [] OTHER -> TRUE

ScrollPage(kind, offset) ==
    First(PageLimit, {p \in stored : p.id >= offset /\ Filed(kind, p)})
NextOffset(kind, offset, page) ==
    LET rest == {p \in stored : p.id >= offset /\ Filed(kind, p)} \ page
    IN  IF rest = {} THEN NoId ELSE (CHOOSE p \in rest : Earlier(p, rest) = {}).id

NoScan == [at |-> "none"]
ScanInit ==
    /\ stored \in SUBSET Points
    /\ kept = stored
    /\ scan = NoScan
    /\ writes = 0

BeginScan(r) ==
    /\ scan = NoScan
    /\ scan' = [at |-> "reading", request |-> r, offset |-> 0, scanned |-> 0, out |-> {}]
    /\ kept' = stored
    /\ UNCHANGED <<stored, writes>>

\* Mutant: a page with nothing to keep is taken for the last one.
EndsAtBlank(r, page, next, fresh, out, scanned) ==
    IF Limited(r.kind) /\ Cardinality(out) >= r.limit THEN "limit"
    ELSE IF Capped(r.kind) /\ scanned >= ScanCap THEN "cap"
    ELSE IF next = NoId \/ fresh = {} THEN "end"
    ELSE ""
\* Why the loop ends after this page, "" when it goes on.
Ends(r, page, next, fresh, out, scanned) ==
    IF Limited(r.kind) /\ Cardinality(out) >= r.limit THEN "limit"
    ELSE IF Capped(r.kind) /\ scanned >= ScanCap THEN "cap"
    ELSE IF next = NoId THEN "end"
    ELSE IF r.kind = "harvest" /\ fresh = {} THEN "blank"
    ELSE ""

\* One request for a page, and the loop body over what it returned.
ReadPage ==
    LET r == scan.request
        page == ScrollPage(r.kind, scan.offset)
        next == NextOffset(r.kind, scan.offset, page)
        read == IF CapsWithinPage(r.kind) THEN First(ScanCap - scan.scanned, page) ELSE page
        passing == {p \in read : Keeps(r, scan.out, read, p)}
        fresh == IF Limited(r.kind) THEN First(r.limit - Cardinality(scan.out), passing)
                 ELSE passing
        out == scan.out \cup fresh
        scanned == scan.scanned + Cardinality(read)
        why == Ends(r, page, next, fresh, out, scanned)
    IN  /\ scan' = [scan EXCEPT !.out = out, !.scanned = scanned,
                                !.offset = IF why = "" THEN next ELSE @,
                                !.at = IF why = "" THEN "reading" ELSE why]
        /\ UNCHANGED <<stored, kept, writes>>

\* A request that fails ends the scan: the caller gets the error and no points
\* (a harvest has handed over the batches before it).  A collection that is not
\* found answers with an empty page, which ends it like the last one.
PageFails ==
    /\ scan.at = "reading"
    /\ scan' = [scan EXCEPT !.at = "failed"]
    /\ UNCHANGED <<stored, kept, writes>>

\* Other processes insert and delete points (external to the scan).
Write ==
    /\ scan.at = "reading" /\ writes < MaxWrites
    /\ writes' = writes + 1
    /\ \E p \in Points : stored' = IF p \in stored THEN stored \ {p} ELSE stored \cup {p}
    /\ kept' = kept \cap stored'
    /\ UNCHANGED scan

\* The loops, each with the limits and the filter of its kind.
Reads(kind) == scan.at = "reading" /\ scan.request.kind = kind /\ ReadPage
KeywordPage == Reads("keyword")
DocumentPage == Reads("document")
NeighborsPage == Reads("neighbors")
SamplePage == Reads("sample")
ThoughtsPage == Reads("thoughts")
HarvestPage == Reads("harvest")
DistinctPage == Reads("distinct")
AggregatePage == Reads("aggregate")

ScanNext ==
    \/ \E r \in ScanRequests : BeginScan(r)
    \/ KeywordPage \/ DocumentPage \/ NeighborsPage \/ SamplePage
    \/ ThoughtsPage \/ HarvestPage \/ DistinctPage \/ AggregatePage
    \/ PageFails \/ Write
ScanSpec == ScanInit /\ [][ScanNext]_scanVars

-----------------------------------------------------------------------------
\* Mutant: the chunks are left in the order in which they were read.
AsRead(p, S) == Cardinality({q \in S : q.id < p.id})
\* The order getNeighborChunks sorts a document by, and its answer.
Position(p, S) ==
    Cardinality({q \in S : q.index < p.index \/ (q.index = p.index /\ q.id < p.id)})
Distance(m, n) == IF m < n THEN n - m ELSE m - n
Neighbors(r, out) ==
    LET same == {p \in out : p.doc = r.anchor.doc}
    IN  {p \in same : Distance(Position(p, same), Position(r.anchor, same)) <= r.window}
AnchorFound == scan.request.kind = "neighbors" /\ scan.request.anchor \in scan.out

-----------------------------------------------------------------------------
ScanTypeOK ==
    /\ stored \subseteq Points /\ kept \subseteq stored
    /\ writes \in Nat
    /\ scan = NoScan \/
         (/\ scan.at \in {"reading", "limit", "cap", "end", "blank", "failed"}
          /\ scan.request \in ScanRequests
          /\ scan.out \subseteq Points /\ scan.offset \in Nat /\ scan.scanned \in Nat)

Wanted(r, p) ==
    /\ Filed(r.kind, p)
    /\ CASE r.kind \in {"keyword", "thoughts", "harvest"} -> p.asked
         [] r.kind = "document" -> p.doc = r.doc
         [] r.kind = "distinct" -> p.value # ""
         [] OTHER -> TRUE
\* A point stands for itself, in a scan for values for every point with its value.
Gathered(r, p) == \E q \in scan.out : q = p \/ (r.kind = "distinct" /\ q.value = p.value)

(* A scan that came to the end of the collection has every point its caller  *)
(* asked for that was stored all the while, whatever was inserted or deleted *)
(* between its pages.  What it may miss without saying is left to the limit, *)
(* to the cap, and to a harvest that met a page with nothing to keep.        *)
ScanFindsAll ==
    scan.at = "end" =>
        \A p \in kept : Wanted(scan.request, p) => Gathered(scan.request, p)

(* The neighbours of a chunk are a stretch of its document: it is in it, and *)
(* no chunk that was stored all the while lies between two of them and is    *)
(* left out (getNeighborChunks, of a scan that was not capped).              *)
NeighborsHaveNoHole ==
    scan.at = "end" /\ AnchorFound =>
        LET near == Neighbors(scan.request, scan.out)
        IN  /\ scan.request.anchor \in near
            /\ \A a, b \in near, p \in kept :
                  p.doc = a.doc /\ a.index < p.index /\ p.index < b.index => p \in near

\* The reading position of a scan under way: everything wanted before it is in.
ReadSoFar ==
    scan.at = "reading" =>
        \A p \in kept : p.id < scan.offset /\ Wanted(scan.request, p) => Gathered(scan.request, p)
=============================================================================
