--------------------------- MODULE RetrievalProofs ----------------------------
(***************************************************************************)
(* Proofs about what is read from the store: a page at a time while it     *)
(* changes (CollectionScan, Reflection), and by a search (Recall).         *)
(***************************************************************************)
EXTENDS CollectionScan, Reflection, Recall, OrderLemmas

-----------------------------------------------------------------------------
(***************************************************************************)
(* CollectionScan: whatever is stored, inserted and deleted between the    *)
(* pages, and whatever the sizes of page, cap and limit, a scan that comes *)
(* to the end of the collection has missed nothing, and the neighbours it  *)
(* gives of a chunk have no hole.                                          *)
(***************************************************************************)
(* Some point of a set that is not empty has no other before it: where the   *)
(* next page begins, and which point first shows a value.                    *)
LEMMA LeastPoint ==
    ASSUME NEW S, S \subseteq Points, S # {}
    PROVE  \E p \in S : Earlier(p, S) = {}
<1> DEFINE Ids == {p.id : p \in S}
<1>1. Ids \subseteq Nat
  BY ScanAssumption
<1>2. Ids # {}
  OBVIOUS
<1>3. PICK n \in Ids : \A m \in Ids : n <= m
  <2> HIDE DEF Ids
  <2> QED
    BY <1>1, <1>2, LeastNatural, Zenon
<1>4. PICK p \in S : p.id = n
  OBVIOUS
<1>5. \A q \in S : ~(q.id < p.id)
  BY <1>1, <1>3, <1>4
<1> QED
  BY <1>5 DEF Earlier

(* Sets of points are finite, and so are the points before one.              *)
LEMMA PointsFinite ==
    ASSUME NEW S, S \subseteq Points
    PROVE  IsFiniteSet(S) /\ Cardinality(S) \in Nat
BY ScanAssumption, FS_Subset, FS_CardinalityType, Zenon

(* What a page leaves out comes after everything it holds.                   *)
LEMMA FirstComesFirst ==
    ASSUME NEW n \in Int, NEW S, S \subseteq Points,
           NEW p \in First(n, S), NEW q \in S, q \notin First(n, S)
    PROVE  p.id < q.id
<1>1. p \in S /\ Cardinality(Earlier(p, S)) < n /\ ~(Cardinality(Earlier(q, S)) < n)
  BY DEF First
<1>2. p.id \in Nat /\ q.id \in Nat
  BY <1>1, ScanAssumption
<1>3. SUFFICES ASSUME q.id <= p.id PROVE FALSE
  BY <1>2
<1>4. Earlier(q, S) \in SUBSET Earlier(p, S)
  BY <1>1, <1>2, <1>3, ScanAssumption DEF Earlier
<1>5. IsFiniteSet(Earlier(p, S)) /\ Cardinality(Earlier(p, S)) \in Nat
  BY PointsFinite DEF Earlier
<1>6. Cardinality(Earlier(q, S)) \in Nat
  BY PointsFinite DEF Earlier
<1>7. Cardinality(Earlier(q, S)) <= Cardinality(Earlier(p, S))
  BY <1>4, <1>5, FS_Subset, Zenon
<1> QED
  BY <1>1, <1>5, <1>6, <1>7

(* Cutting at n takes everything, or leaves at least n.                      *)
LEMMA FirstAllOrEnough ==
    ASSUME NEW n \in Int, NEW S, S \subseteq Points
    PROVE  /\ First(n, S) \subseteq S
           /\ First(n, S) = S \/ Cardinality(First(n, S)) >= n
<1>1. First(n, S) \subseteq S
  BY DEF First
<1>2. SUFFICES ASSUME First(n, S) # S PROVE Cardinality(First(n, S)) >= n
  BY <1>1
<1> DEFINE Rest == S \ First(n, S)
<1>3. PICK q \in Rest : Earlier(q, Rest) = {}
  BY <1>1, <1>2, LeastPoint
<1>4. Earlier(q, S) \in SUBSET First(n, S)
  BY <1>3 DEF Earlier
<1>5. IsFiniteSet(First(n, S)) /\ Cardinality(First(n, S)) \in Nat
  BY <1>1, PointsFinite
<1>6. Cardinality(Earlier(q, S)) <= Cardinality(First(n, S))
  BY <1>4, <1>5, FS_Subset, Zenon
<1>7. Cardinality(Earlier(q, S)) \in Nat
  BY PointsFinite DEF Earlier
<1>8. ~(Cardinality(Earlier(q, S)) < n)
  BY <1>3 DEF First
<1> QED
  BY <1>5, <1>6, <1>7, <1>8

-----------------------------------------------------------------------------
(* One page, part by part, as ReadPage computes it.                          *)
Request == scan.request
ThisPage == ScrollPage(Request.kind, scan.offset)
After == NextOffset(Request.kind, scan.offset, ThisPage)
Read == IF CapsWithinPage(Request.kind) THEN First(ScanCap - scan.scanned, ThisPage) ELSE ThisPage
Passing == {p \in Read : Keeps(Request, scan.out, Read, p)}
Fresh == IF Limited(Request.kind)
         THEN First(Request.limit - Cardinality(scan.out), Passing) ELSE Passing
Out == scan.out \cup Fresh
Scanned == scan.scanned + Cardinality(Read)
Why == Ends(Request, ThisPage, After, Fresh, Out, Scanned)
\* Everything from the offset on that the filter lets through.
StillAhead == {p \in stored : p.id >= scan.offset /\ Filed(Request.kind, p)}

Scanning ==
    [at : {"reading", "limit", "cap", "end", "blank", "failed"},
     request : ScanRequests, offset : Nat, scanned : Nat, out : SUBSET Points]
\* The inductive invariant: the types, what is gathered lies before the offset,
\* everything wanted before the offset is gathered, and the property itself.
ScanTyped ==
    /\ stored \subseteq Points /\ kept \subseteq stored
    /\ writes \in Nat
    /\ scan = NoScan \/ scan \in Scanning
GatheredBefore == scan.at = "reading" => \A p \in scan.out : p.id < scan.offset
ScanInv ==
    /\ ScanTyped
    /\ GatheredBefore
    /\ ReadSoFar
    /\ ScanFindsAll

LEMMA ReadingIsScanning ==
    ASSUME ScanTyped, scan.at = "reading"
    PROVE  scan \in Scanning
BY DEF ScanTyped, NoScan

LEMMA PageTypes ==
    ASSUME ScanTyped, scan.at = "reading"
    PROVE  /\ Request \in ScanRequests /\ Request.limit \in Nat
           /\ scan.offset \in Nat /\ scan.scanned \in Nat
           /\ scan.out \subseteq Points /\ Cardinality(scan.out) \in Nat
           /\ StillAhead \subseteq Points /\ ThisPage = First(PageLimit, StillAhead)
           /\ PageLimit \in Int /\ ThisPage \subseteq StillAhead
           /\ Read \subseteq ThisPage /\ Passing \subseteq Read /\ Fresh \subseteq Passing
<1>1. /\ scan.request \in ScanRequests /\ scan.offset \in Nat /\ scan.scanned \in Nat
      /\ scan.out \subseteq Points
  BY ReadingIsScanning DEF Scanning
<1>2. Cardinality(scan.out) \in Nat
  BY <1>1, PointsFinite
<1>3. scan.request.limit \in Nat
  BY <1>1, ScanAssumption
<1>4. PageLimit \in Int
  BY <1>2, <1>3, ScanAssumption DEF PageLimit
<1>5. StillAhead \subseteq Points
  BY DEF StillAhead, ScanTyped
<1>6. ThisPage = First(PageLimit, StillAhead)
  BY DEF ThisPage, ScrollPage, StillAhead, Request
<1>7. ThisPage \subseteq StillAhead
  BY <1>6 DEF First
<1>8. Read \subseteq ThisPage
  BY DEF Read, First
<1>9. Passing \subseteq Read
  BY DEF Passing
<1>10. Fresh \subseteq Passing
  BY DEF Fresh, First
<1> QED
  BY <1>1, <1>2, <1>3, <1>4, <1>5, <1>6, <1>7, <1>8, <1>9, <1>10 DEF Request

(* The next offset is past the page and at nothing but what it left out; only *)
(* a page that left nothing out has none.                                     *)
LEMMA NextOffsetFollows ==
    ASSUME ScanTyped, scan.at = "reading"
    PROVE  \/ After = NoId /\ ThisPage = StillAhead
           \/ /\ After \in Nat /\ scan.offset <= After
              /\ \A p \in ThisPage : p.id < After
              /\ \A p \in StillAhead : p.id < After => p \in ThisPage
<1> DEFINE Rest == StillAhead \ ThisPage
<1>1. After = IF Rest = {} THEN NoId ELSE (CHOOSE p \in Rest : Earlier(p, Rest) = {}).id
  BY DEF After, NextOffset, StillAhead
<1>2. CASE Rest = {}
  BY <1>1, <1>2, PageTypes
<1>3. CASE Rest # {}
  <2> DEFINE least == CHOOSE p \in Rest : Earlier(p, Rest) = {}
  <2>1. least \in Rest /\ Earlier(least, Rest) = {}
    <3>1. Rest \subseteq Points
      BY PageTypes
    <3>2. \E p \in Rest : Earlier(p, Rest) = {}
      <4> HIDE DEF Rest
      <4> QED BY <1>3, <3>1, LeastPoint, Zenon
    <3> QED
      <4> HIDE DEF Rest
      <4> QED BY <3>2, Zenon
  <2>2. After = least.id
    BY <1>1, <1>3
  <2> HIDE DEF least
  <2>3. least \in StillAhead /\ least \notin ThisPage /\ least.id \in Nat /\ least.id >= scan.offset
    BY <2>1, PageTypes, ScanAssumption DEF StillAhead
  <2>4. ASSUME NEW p \in ThisPage PROVE p.id < least.id
    BY <2>3, PageTypes, FirstComesFirst
  <2>5. ASSUME NEW p \in StillAhead, p.id < least.id PROVE p \in ThisPage
    BY <2>1, <2>5 DEF Earlier
  <2> QED
    BY <2>2, <2>3, <2>4, <2>5, PageTypes
<1> QED
  BY <1>2, <1>3

(* A scan that was not stopped by its cap or its limit looked at the whole    *)
(* page, and kept all that passed.                                           *)
LEMMA NothingCutOff ==
    ASSUME ScanTyped, GatheredBefore, scan.at = "reading", Why \notin {"limit", "cap"}
    PROVE  Read = ThisPage /\ Fresh = Passing
<1>1. /\ Cardinality(Read) \in Nat /\ Cardinality(Fresh) \in Nat
      /\ IsFiniteSet(scan.out) /\ IsFiniteSet(Fresh)
      /\ Read \subseteq Points /\ Fresh \subseteq Points /\ Passing \subseteq Points
      /\ ThisPage \subseteq Points
  BY PageTypes, PointsFinite
<1>2. /\ ~(Limited(Request.kind) /\ Cardinality(Out) >= Request.limit)
      /\ ~(Capped(Request.kind) /\ Scanned >= ScanCap)
  <2>1. Limited(Request.kind) /\ Cardinality(Out) >= Request.limit => Why = "limit"
    BY DEF Why, Ends
  <2>2. Capped(Request.kind) /\ Scanned >= ScanCap => Why \in {"limit", "cap"}
    BY DEF Why, Ends
  <2> QED
    BY <2>1, <2>2
<1>3. Read = ThisPage
  <2>1. CASE CapsWithinPage(Request.kind)
    <3>1. Capped(Request.kind)
      BY <2>1 DEF Capped, CapsWithinPage
    <3>2. ScanCap - scan.scanned \in Int /\ scan.scanned \in Nat
      BY PageTypes, ScanAssumption
    <3>3. Read = ThisPage \/ Cardinality(Read) >= ScanCap - scan.scanned
      BY <1>1, <2>1, <3>2, FirstAllOrEnough DEF Read
    <3> QED
      BY <1>1, <1>2, <3>1, <3>2, <3>3, ScanAssumption DEF Scanned
  <2>2. CASE ~CapsWithinPage(Request.kind)
    BY <2>2 DEF Read
  <2> QED
    BY <2>1, <2>2
<1>4. Fresh = Passing
  <2>1. CASE Limited(Request.kind)
    <3>1. scan.out \cap Fresh = {}
      <4>1. ASSUME NEW p \in Fresh PROVE p.id >= scan.offset
        BY PageTypes DEF StillAhead
      <4> QED
        BY <4>1, PageTypes, ScanAssumption DEF GatheredBefore
    <3>2. Cardinality(scan.out \cap Fresh) = 0
      BY <3>1, FS_EmptySet
    <3>3. Cardinality(Out) = Cardinality(scan.out) + Cardinality(Fresh) - Cardinality(scan.out \cap Fresh)
      BY <1>1, FS_Union, Zenon DEF Out
    <3>4. Request.limit - Cardinality(scan.out) \in Int
      BY PageTypes
    <3>5. Fresh = Passing \/ Cardinality(Fresh) >= Request.limit - Cardinality(scan.out)
      BY <1>1, <2>1, <3>4, FirstAllOrEnough DEF Fresh
    <3> QED
      BY <1>1, <1>2, <2>1, <3>2, <3>3, <3>5, PageTypes
  <2>2. CASE ~Limited(Request.kind)
    BY <2>2 DEF Fresh
  <2> QED
    BY <2>1, <2>2
<1> QED
  BY <1>3, <1>4

(* Of such a page every wanted point is gathered: itself, or in a scan for    *)
(* the values of a field the first point with its value.                     *)
LEMMA PageGathered ==
    ASSUME ScanTyped, GatheredBefore, scan.at = "reading", Why \notin {"limit", "cap"},
           NEW p \in ThisPage, Wanted(Request, p)
    PROVE  \E q \in Out : q = p \/ (Request.kind = "distinct" /\ q.value = p.value)
<1>1. Read = ThisPage /\ Fresh = Passing
  BY NothingCutOff
<1>2. CASE Request.kind # "distinct"
  <2>1. Keeps(Request, scan.out, Read, p)
    BY <1>2 DEF Wanted, Keeps
  <2> QED
    BY <1>1, <2>1 DEF Passing, Out
<1>3. CASE Request.kind = "distinct"
  <2>1. p.value # ""
    BY <1>3 DEF Wanted
  <2>2. CASE \E q \in scan.out : q.value = p.value
    BY <1>3, <2>2 DEF Out
  <2>3. CASE ~ \E q \in scan.out : q.value = p.value
    <3> DEFINE Showing == {q \in Read : q.value = p.value}
    <3>1. Showing \subseteq Points /\ p \in Showing
      BY <1>1, PageTypes
    <3>2. PICK q \in Showing : Earlier(q, Showing) = {}
      <4> HIDE DEF Showing
      <4> QED BY <3>1, LeastPoint
    <3>3. q \in Read /\ q.value = p.value
      BY <3>2
    <3>4. \A other \in Earlier(q, Read) : other.value # q.value
      BY <3>2 DEF Earlier
    <3>5. Keeps(Request, scan.out, Read, q)
      BY <1>3, <2>1, <2>3, <3>3, <3>4 DEF Keeps
    <3> QED
      BY <1>1, <1>3, <3>3, <3>5 DEF Passing, Out
  <2> QED
    BY <2>2, <2>3
<1> QED
  BY <1>2, <1>3

-----------------------------------------------------------------------------
LEMMA ScanInitInv == ScanInit => ScanInv
BY DEF ScanInit, ScanInv, ScanTyped, NoScan, GatheredBefore, ReadSoFar, ScanFindsAll

LEMMA ReadPageScan ==
    ASSUME ReadPage
    PROVE  /\ scan' = [scan EXCEPT !.out = Out, !.scanned = Scanned,
                                   !.offset = IF Why = "" THEN After ELSE @,
                                   !.at = IF Why = "" THEN "reading" ELSE Why]
           /\ UNCHANGED <<stored, kept, writes>>
BY DEF ReadPage, Out, Scanned, Why, After, ThisPage, Fresh, Passing, Read, Request

(* The loop goes on only if there is a next page, and says "end" only if     *)
(* there is none.                                                            *)
LEMMA ReasonsToEnd ==
    /\ Why \in {"", "limit", "cap", "end", "blank"}
    /\ Why = "" => After # NoId
    /\ Why = "end" => After = NoId
BY DEF Why, Ends

LEMMA ReadPageInv ==
    ASSUME ScanInv, scan.at = "reading", ReadPage
    PROVE  ScanInv'
<1> USE DEF ScanInv
<1>1. scan \in Scanning
  BY ReadingIsScanning
<1>2. /\ stored' = stored /\ kept' = kept /\ writes' = writes
      /\ scan'.out = Out /\ scan'.scanned = Scanned /\ scan'.request = Request
      /\ scan'.offset = (IF Why = "" THEN After ELSE scan.offset)
      /\ scan'.at = (IF Why = "" THEN "reading" ELSE Why)
  BY <1>1, ReadPageScan DEF Scanning, Request
<1>3. Out \subseteq Points /\ Scanned \in Nat
  <2>1. Cardinality(Read) \in Nat
    BY PageTypes, PointsFinite
  <2> QED
    BY <2>1, PageTypes DEF Out, Scanned
<1>4. ScanTyped'
  <2>1. Why = "" => After \in Nat
    BY NextOffsetFollows, ReasonsToEnd
  <2>2. scan' \in Scanning
    BY <1>1, <1>3, <2>1, ReadPageScan, ReasonsToEnd, PageTypes DEF Scanning
  <2> QED
    BY <1>2, <2>2 DEF ScanTyped
<1>5. GatheredBefore'
  <2>1. SUFFICES ASSUME Why = "", NEW p \in Out PROVE p.id < After
    BY <1>2, ReasonsToEnd DEF GatheredBefore
  <2>2. After \in Nat /\ scan.offset <= After /\ \A q \in ThisPage : q.id < After
    BY <2>1, NextOffsetFollows, ReasonsToEnd
  <2>3. CASE p \in scan.out
    BY <2>2, <2>3, PageTypes, ScanAssumption DEF GatheredBefore
  <2>4. CASE p \in Fresh
    BY <2>2, <2>4, PageTypes
  <2> QED
    BY <2>1, <2>3, <2>4 DEF Out
\* What was wanted before the offset, and of this page what is before the next.
<1>6. ASSUME NEW p \in kept, Wanted(Request, p), Why \in {"", "end"},
             Why = "" => p.id < After
      PROVE  \E q \in Out : q = p \/ (Request.kind = "distinct" /\ q.value = p.value)
  <2>1. p \in stored /\ p.id \in Nat /\ Filed(Request.kind, p)
    BY <1>6, ScanAssumption DEF ScanTyped, Wanted
  <2>2. CASE p.id < scan.offset
    <3>1. Gathered(Request, p)
      BY <1>6, <2>2 DEF ReadSoFar, Request
    <3> QED
      BY <3>1 DEF Gathered, Out
  <2>3. CASE ~(p.id < scan.offset)
    <3>1. p \in StillAhead
      BY <2>1, <2>3, PageTypes DEF StillAhead
    <3>2. ASSUME After \in Nat PROVE Why = "" /\ p.id < After
      <4>1. After # NoId
        BY <3>2 DEF NoId
      <4>2. Why # "end"
        BY <4>1, ReasonsToEnd
      <4> QED
        BY <1>6, <4>2
    <3>3. p \in ThisPage
      BY <3>1, <3>2, NextOffsetFollows
    <3> QED
      BY <1>6, <3>3, PageGathered
  <2> QED
    BY <2>2, <2>3
<1>7. ReadSoFar'
  BY <1>2, <1>6, ReasonsToEnd DEF ReadSoFar, Gathered, Wanted, Filed
<1>8. ScanFindsAll'
  BY <1>2, <1>6 DEF ScanFindsAll, Gathered, Wanted, Filed
<1> QED
  BY <1>4, <1>5, <1>7, <1>8

LEMMA ScanStepInv ==
    ASSUME ScanInv, [ScanNext]_scanVars
    PROVE  ScanInv'
<1> USE DEF ScanInv
<1>1. ASSUME NEW r \in ScanRequests, BeginScan(r) PROVE ScanInv'
  <2>1. /\ scan'.at = "reading" /\ scan'.offset = 0 /\ scan'.out = {}
        /\ scan' \in Scanning /\ stored' = stored /\ kept' = stored /\ writes' = writes
    BY <1>1 DEF BeginScan, Scanning
  <2>2. ScanTyped' /\ GatheredBefore' /\ ScanFindsAll'
    BY <2>1 DEF ScanTyped, GatheredBefore, ScanFindsAll
  <2>3. \A p \in kept' : ~(p.id < 0)
    BY <2>1, ScanAssumption DEF ScanTyped
  <2>4. ReadSoFar'
    BY <2>1, <2>3 DEF ReadSoFar
  <2> QED
    BY <2>2, <2>4
<1>2. CASE scan.at = "reading" /\ ReadPage
  BY <1>2, ReadPageInv
<1>3. CASE PageFails
  BY <1>3, ReadingIsScanning
     DEF PageFails, ScanTyped, Scanning, GatheredBefore, ReadSoFar, ScanFindsAll
<1>4. CASE Write
  <2>1. /\ stored' \subseteq Points /\ kept' \subseteq stored' /\ kept' \subseteq kept
        /\ writes' \in Nat /\ scan' = scan
    BY <1>4 DEF Write, ScanTyped
  <2> QED
    BY <2>1 DEF ScanTyped, GatheredBefore, ReadSoFar, ScanFindsAll, Gathered, Wanted, Filed
<1>5. CASE UNCHANGED scanVars
  BY <1>5 DEF scanVars, ScanTyped, GatheredBefore, ReadSoFar, ScanFindsAll, Gathered, Wanted, Filed
<1> QED
  BY <1>1, <1>2, <1>3, <1>4, <1>5
     DEF ScanNext, Reads, KeywordPage, DocumentPage, NeighborsPage, SamplePage,
         ThoughtsPage, HarvestPage, DistinctPage, AggregatePage

(* A paged read keeps its types: its offset and counts are naturals, and     *)
(* what it gathers are points that can be stored.                            *)
THEOREM ScanTypeCorrect == ScanSpec => []ScanTypeOK
<1>1. ScanInv => ScanTypeOK
  BY DEF ScanInv, ScanTyped, ScanTypeOK, Scanning
<1> QED
  BY <1>1, ScanInitInv, ScanStepInv, PTL DEF ScanSpec

(* A scan that came to the end of the collection has gathered every point    *)
(* its caller asked for that was stored all the while (the scroll loops of   *)
(* minddrill_research.go, deepdrill_store.go, harvester.go and qdrant.go),   *)
(* for every collection, page size, cap and limit, and any number of writes. *)
THEOREM ScanComplete == ScanSpec => []ScanFindsAll
<1>1. ScanInv => ScanFindsAll
  BY DEF ScanInv
<1> QED
  BY <1>1, ScanInitInv, ScanStepInv, PTL DEF ScanSpec

-----------------------------------------------------------------------------
(* The neighbours of a chunk                                                 *)

(* A chunk with a smaller index has a place no later in its document.        *)
LEMMA PositionFollowsIndex ==
    ASSUME NEW S, S \subseteq Points, NEW p \in S, NEW q \in S, p.index < q.index
    PROVE  /\ Position(p, S) \in Nat /\ Position(q, S) \in Nat
           /\ Position(p, S) <= Position(q, S)
<1> DEFINE Before(x) == {y \in S : y.index < x.index \/ (y.index = x.index /\ y.id < x.id)}
<1>1. Position(p, S) = Cardinality(Before(p)) /\ Position(q, S) = Cardinality(Before(q))
  BY DEF Position
<1>2. \A y \in S : y.index \in Int
  BY ScanAssumption
<1>3. Before(p) \in SUBSET Before(q)
  BY <1>2
<1>4. Before(p) \subseteq Points /\ Before(q) \subseteq Points
  OBVIOUS
<1> HIDE DEF Before
<1>5. IsFiniteSet(Before(q)) /\ Cardinality(Before(p)) \in Nat /\ Cardinality(Before(q)) \in Nat
  BY <1>4, PointsFinite
<1>6. Cardinality(Before(p)) <= Cardinality(Before(q))
  BY <1>3, <1>5, FS_Subset, Zenon
<1> QED
  BY <1>1, <1>5, <1>6

LEMMA PositionType ==
    ASSUME NEW S, S \subseteq Points, NEW p
    PROVE  Position(p, S) \in Nat
<1>1. {q \in S : q.index < p.index \/ (q.index = p.index /\ q.id < p.id)} \subseteq Points
  OBVIOUS
<1> QED
  BY <1>1, PointsFinite DEF Position

(* What lies between two neighbours is as near as one of them.               *)
LEMMA DistanceBetween ==
    ASSUME NEW w \in Nat, NEW k \in Nat, NEW l \in Nat, NEW m \in Nat, NEW n \in Nat,
           l <= m, m <= n, Distance(l, k) <= w, Distance(n, k) <= w
    PROVE  Distance(m, k) <= w
BY DEF Distance

LEMMA NoHole == ScanInv => NeighborsHaveNoHole
<1> SUFFICES ASSUME ScanInv, scan.at = "end", AnchorFound PROVE
      /\ scan.request.anchor \in Neighbors(scan.request, scan.out)
      /\ \A a, b \in Neighbors(scan.request, scan.out), p \in kept :
            p.doc = a.doc /\ a.index < p.index /\ p.index < b.index
            => p \in Neighbors(scan.request, scan.out)
  BY DEF NeighborsHaveNoHole
<1> DEFINE r == scan.request
           same == {p \in scan.out : p.doc = r.anchor.doc}
           place == Position(r.anchor, same)
<1>1. scan \in Scanning
  BY DEF ScanInv, ScanTyped, NoScan
<1>2. same \subseteq Points /\ r.window \in Nat /\ kept \subseteq Points
  BY <1>1, ScanAssumption DEF Scanning, ScanInv, ScanTyped
<1>3. place \in Nat
  BY <1>2, PositionType
<1>4. \A p : p \in Neighbors(r, scan.out) <=>
               p \in same /\ Distance(Position(p, same), place) <= r.window
  BY DEF Neighbors
<1>5. r.anchor \in Neighbors(r, scan.out)
  BY <1>2, <1>3, <1>4 DEF AnchorFound, Distance
<1>6. ASSUME NEW a \in Neighbors(r, scan.out), NEW b \in Neighbors(r, scan.out), NEW p \in kept,
             p.doc = a.doc, a.index < p.index, p.index < b.index
      PROVE  p \in Neighbors(r, scan.out)
  <2>1. a \in same /\ b \in same
    BY <1>4, <1>6
  <2>2. p \in scan.out
    <3>1. Wanted(r, p) /\ r.kind # "distinct"
      BY DEF AnchorFound, Wanted, Filed
    <3> QED
      BY <1>6, <3>1 DEF ScanInv, ScanFindsAll, Gathered
  <2>3. p \in same
    BY <1>6, <2>1, <2>2
  <2> HIDE DEF same, r
  <2>4. /\ Position(a, same) <= Position(p, same) /\ Position(p, same) <= Position(b, same)
        /\ Position(a, same) \in Nat /\ Position(p, same) \in Nat /\ Position(b, same) \in Nat
    BY <1>2, <1>6, <2>1, <2>3, PositionFollowsIndex
  <2>5. Distance(Position(a, same), place) <= r.window /\ Distance(Position(b, same), place) <= r.window
    BY <1>4, <1>6
  <2>6. Distance(Position(p, same), place) <= r.window
    <3> HIDE DEF place
    <3> QED
      BY <1>2, <1>3, <2>4, <2>5, DistanceBetween
  <2> QED
    BY <1>4, <2>3, <2>6
<1> QED
  BY <1>5, <1>6

(* The neighbours of a chunk are a stretch of its document without a hole    *)
(* (getNeighborChunks), whatever is stored and deleted while its chunks are  *)
(* read, however often an index occurs in it, and for every window.          *)
THEOREM NeighborsSafety == ScanSpec => []NeighborsHaveNoHole
BY NoHole, ScanInitInv, ScanStepInv, PTL DEF ScanSpec

-----------------------------------------------------------------------------
(***************************************************************************)
(* Reflection: every memory is reflected, and once, for every set of       *)
(* memories, number of workers, limit, and size of a page, whatever fails, *)
(* dies, is started again or arrives.                                      *)
(***************************************************************************)
Worker ==
    [at : {"idle", "checking", "creating", "scanning", "reading", "picking", "reflecting",
           "ended", "dead"},
     round : Int, skip : SUBSET Int, offset : Nat, page : SUBSET Memories, more : BOOLEAN,
     processed : Nat, errors : Nat, dropsSeen : Nat, kept : SUBSET Memories]
ReflectionTyped ==
    /\ command \in Commands
    /\ source \subseteq Memories
    /\ target \subseteq Int /\ (target = NoCollection \/ 0 \notin target)
    /\ worker \in [0..command.workers - 1 -> Worker]
    /\ reflections \in [Memories -> Nat]
    /\ drops \in Nat

\* Nobody is reflected more often than the collection was dropped, and once
\* more only by what is in it now.
Counted ==
    \A m \in Memories :
        /\ reflections[m] <= drops + 1
        /\ m.id \notin target => reflections[m] <= drops
        /\ m.id \in flagged => reflections[m] > 0

\* What a worker still has before it, and where it stands to the collections.
Working(r) == r.at \in {"reading", "picking", "reflecting"}
Paging(r) == Working(r) \/ r.at = "ended"
ToDo(r, m) == m \in r.page \/ (r.more = TRUE /\ m.id >= r.offset)
StandsWith(w, r) ==
    /\ r.dropsSeen <= drops
    /\ r.dropsSeen = drops => target # NoCollection /\ r.skip \subseteq target
    /\ r.kept \subseteq source
HasYet(w, r) ==
    \A m \in Memories :
        worker_slot(w, m) /\ ToDo(r, m) /\ m.id \notin r.skip => reflections[m] <= r.dropsSeen
LeavesNone(w, r) ==
    r.dropsSeen = drops /\ r.errors = 0 =>
        \A m \in r.kept :
            Offered(m) /\ Worthy(m) /\ worker_slot(w, m) => m.id \in target \/ ToDo(r, m)
Placed(w, r) ==
    /\ r.more = TRUE => \A m \in r.page : m.id < r.offset
    /\ \A m \in r.page : m.id \notin r.skip
    /\ r.at = "reading" => r.page = {}
    /\ r.at = "reflecting" => r.page # {} /\ worker_slot(w, Smallest(r.page))
\* A worker that has yet to page begins at the first page.
AtFirstPage(r) == r.page = {} /\ r.more = TRUE /\ r.offset = 0
WorkerHolds(w, r) ==
    /\ r.at \in {"checking", "creating", "scanning"} => AtFirstPage(r)
    /\ Paging(r) => StandsWith(w, r) /\ LeavesNone(w, r)
    /\ Working(r) => HasYet(w, r) /\ Placed(w, r)
    /\ r.at = "ended" /\ r.processed < command.limit => r.page = {} /\ r.more = FALSE

ReflectionInv ==
    /\ ReflectionTyped
    /\ Counted
    /\ \A w \in DOMAIN worker : WorkerHolds(w, worker[w])

-----------------------------------------------------------------------------
(* The smallest id of what is left on a page, or after it.                   *)
LEMMA SmallestIs ==
    ASSUME NEW S, S \subseteq Memories, S # {}
    PROVE  Smallest(S) \in S /\ \A k \in S : Smallest(S).id <= k.id
<1> DEFINE Ids == {m.id : m \in S}
<1>1. Ids \subseteq Nat /\ Ids # {}
  BY ReflectionAssumption
<1>2. PICK n \in Ids : \A k \in Ids : n <= k
  <2> HIDE DEF Ids
  <2> QED
    BY <1>1, LeastNatural, Zenon
<1>3. \E m \in S : \A k \in S : m.id <= k.id
  BY <1>2
<1> QED
  BY <1>3, Zenon DEF Smallest

(* What a page leaves out comes after everything it holds.                   *)
LEMMA PageComesFirst ==
    ASSUME NEW n \in Nat, NEW S, S \subseteq Memories,
           NEW m \in SoMany(n, S), NEW k \in S, k \notin SoMany(n, S)
    PROVE  m.id < k.id
<1> DEFINE Before(x) == {y \in S : y.id < x.id}
<1>1. m \in S /\ Cardinality(Before(m)) < n /\ ~(Cardinality(Before(k)) < n)
  BY DEF SoMany
<1>2. m.id \in Nat /\ k.id \in Nat
  BY <1>1, ReflectionAssumption
<1>3. SUFFICES ASSUME k.id <= m.id PROVE FALSE
  BY <1>2
<1>4. Before(k) \in SUBSET Before(m)
  BY <1>2, <1>3, ReflectionAssumption
<1>5. IsFiniteSet(Before(m)) /\ IsFiniteSet(Before(k))
  <2>1. Before(m) \in SUBSET Memories /\ Before(k) \in SUBSET Memories
    OBVIOUS
  <2> HIDE DEF Before
  <2> QED
    BY <2>1, ReflectionAssumption, FS_Subset, Zenon
<1> HIDE DEF Before
<1>6. Cardinality(Before(m)) \in Nat /\ Cardinality(Before(k)) \in Nat
  BY <1>5, FS_CardinalityType, Zenon
<1>7. Cardinality(Before(k)) <= Cardinality(Before(m))
  BY <1>4, <1>5, FS_Subset, Zenon
<1> QED
  BY <1>1, <1>6, <1>7

(* The commands and the memories, as the assumption has them.                *)
LEMMA CommandTypes ==
    ASSUME ReflectionTyped
    PROVE  /\ command.workers \in Nat /\ command.workers >= 1 /\ command.limit \in Nat
           /\ \A m \in Memories : m.slot[command.workers] \in 0..command.workers - 1
           /\ \A m \in Memories : m.id \in Nat /\ m.id # 0
BY ReflectionAssumption DEF ReflectionTyped

LEMMA ReflectionInitInv == ReflectionInit => ReflectionInv
<1> SUFFICES ASSUME ReflectionInit PROVE ReflectionInv
  OBVIOUS
<1>1. NewWorker \in Worker /\ NewWorker.at = "idle"
  BY DEF NewWorker, Worker
<1>2. PICK s \in Starts : source = s.source /\ target = s.target
  BY DEF ReflectionInit
<1>3. source \subseteq Memories /\ (target = {0} \/ 0 \notin target)
  BY <1>2, ReflectionAssumption
<1>4. target \subseteq Int
  BY <1>2, ReflectionAssumption
<1>5. ReflectionTyped
  BY <1>1, <1>3, <1>4 DEF ReflectionInit, ReflectionTyped, NoCollection
<1>6. Counted
  BY DEF ReflectionInit, Counted
<1>7. \A w \in DOMAIN worker : worker[w] = NewWorker
  BY DEF ReflectionInit
<1> QED
  BY <1>1, <1>5, <1>6, <1>7 DEF ReflectionInv, WorkerHolds, Working, Paging

-----------------------------------------------------------------------------
(* What a step of one worker may do to the collections leaves the others      *)
(* where they stood: the target grows, or is dropped and counted; only the    *)
(* worker whose memory it is reflects on it.                                 *)
LEMMA OthersHold ==
    ASSUME ReflectionInv, NEW w \in DOMAIN worker,
           DOMAIN worker' = DOMAIN worker, worker'[w] \in Worker,
           worker' = [v \in DOMAIN worker |-> worker'[v]],
           \A v \in DOMAIN worker : v # w => worker'[v] = worker[v],
           command' = command, source' = source,
           target' \subseteq Int, target' = NoCollection \/ 0 \notin target',
           reflections' \in [Memories -> Nat],
           \/ /\ drops' = drops
              /\ target # NoCollection => target' # NoCollection /\ target \subseteq target'
           \/ drops' = drops + 1,
           \A m \in Memories : reflections'[m] # reflections[m] => worker_slot(w, m),
           Counted', WorkerHolds(w, worker[w])'
    PROVE  ReflectionInv'
<1> USE DEF ReflectionInv
<1>1. ReflectionTyped'
  BY DEF ReflectionTyped
<1>2. ASSUME NEW v \in DOMAIN worker, v # w PROVE WorkerHolds(v, worker[v])'
  <2>1. WorkerHolds(v, worker[v]) /\ worker'[v] = worker[v] /\ worker[v] \in Worker
    BY <1>2 DEF ReflectionTyped
  <2>2. \A m \in Memories : worker_slot(v, m) => reflections'[m] = reflections[m]
    BY <1>2 DEF worker_slot
  <2>3. drops \in Nat /\ worker[v].dropsSeen \in Nat /\ worker[v].kept \subseteq Memories
    BY <2>1 DEF ReflectionTyped, Worker
  <2>4. Paging(worker[v]) => StandsWith(v, worker[v])'
    BY <2>1, <2>3 DEF WorkerHolds, StandsWith
  <2>5. Paging(worker[v]) => LeavesNone(v, worker[v])'
    <3>1. SUFFICES ASSUME Paging(worker[v]), worker[v].dropsSeen = drops', worker[v].errors = 0,
                          NEW m \in worker[v].kept,
                          Offered(m)', Worthy(m), worker_slot(v, m)'
                   PROVE  m.id \in target' \/ ToDo(worker[v], m)
      BY <2>1 DEF LeavesNone, Worthy, ToDo
    <3>2. StandsWith(v, worker[v]) /\ LeavesNone(v, worker[v])
      BY <2>1, <3>1 DEF WorkerHolds
    <3>3. worker[v].dropsSeen = drops /\ target \subseteq target'
      BY <2>3, <3>1, <3>2 DEF StandsWith
    <3>4. Offered(m) /\ worker_slot(v, m)
      BY <3>1 DEF Offered, worker_slot
    <3> QED
      BY <3>1, <3>2, <3>3, <3>4 DEF LeavesNone
  <2>6. Working(worker[v]) => HasYet(v, worker[v])'
    BY <2>1, <2>2 DEF WorkerHolds, HasYet, worker_slot, ToDo
  <2>7. Working(worker[v]) => Placed(v, worker[v])'
    BY <2>1 DEF WorkerHolds, Placed, worker_slot, Smallest
  <2> QED
    BY <2>1, <2>4, <2>5, <2>6, <2>7 DEF WorkerHolds, Paging, Working
<1> QED
  BY <1>1, <1>2

-----------------------------------------------------------------------------
LEMMA NextRoundTypes ==
    ASSUME NEW r \in Worker, NEW n \in Int, AtFirstPage(r)
    PROVE  LET next == [r EXCEPT !.at = "checking", !.round = n]
           IN  next \in Worker /\ next.at = "checking" /\ AtFirstPage(next)
BY DEF Worker, AtFirstPage

\* Before a worker has paged there is nothing to keep of what it holds.
LEMMA BeginRoundInv ==
    ASSUME ReflectionInv, NEW w \in DOMAIN worker, BeginRound(w)
    PROVE  ReflectionInv'
<1> USE DEF ReflectionInv
<1>1. /\ worker' = [worker EXCEPT ![w] =
             [NewWorker EXCEPT !.at = "checking", !.round = worker[w].round + 1]]
      /\ UNCHANGED <<command, source, arrivals, flagged, reflections>>
      /\ \/ target' = NoCollection /\ drops' = drops + 1
         \/ target' = target /\ drops' = drops
  BY DEF BeginRound, given
<1>2. worker[w] \in Worker /\ worker[w].round \in Int
  BY DEF ReflectionTyped, Worker
<1>3. worker'[w] \in Worker /\ worker'[w].at = "checking" /\ AtFirstPage(worker'[w])
  <2> DEFINE next == [NewWorker EXCEPT !.at = "checking", !.round = worker[w].round + 1]
  <2>1. next \in Worker /\ next.at = "checking" /\ AtFirstPage(next)
    <3>1. NewWorker \in Worker /\ AtFirstPage(NewWorker)
      BY DEF NewWorker, Worker, AtFirstPage
    <3>2. worker[w].round + 1 \in Int
      BY <1>2
    <3> QED
      BY <3>1, <3>2, NextRoundTypes, Zenon
  <2>2. worker'[w] = next
    BY <1>1 DEF ReflectionTyped
  <2> QED
    BY <2>1, <2>2
<1>4. Counted'
  BY <1>1, CommandTypes DEF Counted, ReflectionTyped, NoCollection
<1>5. WorkerHolds(w, worker[w])'
  BY <1>3 DEF WorkerHolds, Paging, Working
<1>6. NoCollection \subseteq Int
  BY DEF NoCollection
<1> QED
  BY <1>1, <1>3, <1>4, <1>5, <1>6, OthersHold DEF ReflectionTyped

LEMMA FindTargetInv ==
    ASSUME ReflectionInv, NEW w \in DOMAIN worker, FindTarget(w)
    PROVE  ReflectionInv'
<1> USE DEF ReflectionInv
<1>1. /\ worker' = [worker EXCEPT ![w].at = IF target = NoCollection THEN "creating" ELSE "scanning"]
      /\ UNCHANGED collections
  BY DEF FindTarget, Goes
<1>2. worker'[w] \in Worker /\ worker'[w].at \in {"creating", "scanning"} /\ AtFirstPage(worker'[w])
  <2>1. worker[w] \in Worker /\ AtFirstPage(worker[w])
    BY DEF FindTarget, Goes, ReflectionTyped, WorkerHolds
  <2>2. worker'[w] = [worker[w] EXCEPT !.at = IF target = NoCollection THEN "creating" ELSE "scanning"]
    BY <1>1 DEF ReflectionTyped
  <2> QED
    BY <2>1, <2>2 DEF Worker, AtFirstPage
<1>3. WorkerHolds(w, worker[w])'
  BY <1>2 DEF WorkerHolds, Paging, Working
<1>4. Counted'
  BY <1>1 DEF Counted, collections
<1> QED
  BY <1>1, <1>2, <1>3, <1>4, OthersHold DEF ReflectionTyped, collections

LEMMA CreateTargetInv ==
    ASSUME ReflectionInv, NEW w \in DOMAIN worker, CreateTarget(w)
    PROVE  ReflectionInv'
<1> USE DEF ReflectionInv
<1>1. /\ worker' = [worker EXCEPT ![w].at = IF target = NoCollection THEN "scanning" ELSE "dead"]
      /\ target' = IF target = NoCollection THEN {} ELSE target
      /\ UNCHANGED <<command, source, arrivals, flagged, reflections, drops, mishaps>>
  BY DEF CreateTarget, Goes, given
<1>2. worker'[w] \in Worker /\ worker'[w].at \in {"dead", "scanning"} /\ AtFirstPage(worker'[w])
  <2>1. worker[w] \in Worker /\ AtFirstPage(worker[w])
    BY DEF CreateTarget, Goes, ReflectionTyped, WorkerHolds
  <2>2. worker'[w] = [worker[w] EXCEPT !.at = IF target = NoCollection THEN "scanning" ELSE "dead"]
    BY <1>1 DEF ReflectionTyped
  <2> QED
    BY <2>1, <2>2 DEF Worker, AtFirstPage
<1>3. WorkerHolds(w, worker[w])'
  BY <1>2 DEF WorkerHolds, Paging, Working
<1>4. Counted'
  BY <1>1, CommandTypes DEF Counted, NoCollection
<1> QED
  BY <1>1, <1>2, <1>3, <1>4, OthersHold DEF ReflectionTyped

\* What has no reflection yet was reflected no oftener than the drops seen.
LEMMA AlreadyReflectedInv ==
    ASSUME ReflectionInv, NEW w \in DOMAIN worker, get_already_reflected(w)
    PROVE  ReflectionInv'
<1> USE DEF ReflectionInv
<1> DEFINE reading == [worker[w] EXCEPT !.at = "reading", !.skip = target, !.dropsSeen = drops,
                                        !.kept = source]
           dead == [worker[w] EXCEPT !.at = "dead"]
<1>1. /\ worker' = [worker EXCEPT ![w] = IF target = NoCollection THEN dead ELSE reading]
      /\ UNCHANGED collections /\ worker[w].at = "scanning"
  BY DEF get_already_reflected
<1>2. /\ worker[w] \in Worker /\ AtFirstPage(worker[w])
      /\ worker'[w] = IF target = NoCollection THEN dead ELSE reading
  BY <1>1 DEF ReflectionTyped, WorkerHolds
<1>3. /\ reading \in Worker /\ dead \in Worker /\ dead.at = "dead"
      /\ reading.at = "reading" /\ reading.skip = target /\ reading.dropsSeen = drops
      /\ reading.kept = source /\ AtFirstPage(reading)
  BY <1>2 DEF ReflectionTyped, Worker, AtFirstPage
<1> HIDE DEF reading, dead
<1>4. WorkerHolds(w, worker[w])'
  <2>1. CASE target = NoCollection
    BY <1>2, <1>3, <2>1 DEF WorkerHolds, Paging, Working
  <2>2. CASE target # NoCollection
    <3>1. worker'[w] = reading /\ target' = target /\ drops' = drops /\ source' = source
          /\ reflections' = reflections /\ command' = command
      BY <1>1, <1>2, <2>2 DEF collections
    <3>2. StandsWith(w, worker[w])'
      BY <1>3, <2>2, <3>1 DEF StandsWith, ReflectionTyped
    <3>3. LeavesNone(w, worker[w])'
      BY <1>3, <3>1, CommandTypes DEF LeavesNone, ToDo, AtFirstPage, ReflectionTyped
    <3>4. HasYet(w, worker[w])'
      BY <1>3, <3>1 DEF HasYet, Counted
    <3>5. Placed(w, worker[w])'
      BY <1>3, <3>1 DEF Placed, AtFirstPage
    <3> QED
      BY <1>3, <3>1, <3>2, <3>3, <3>4, <3>5 DEF WorkerHolds
  <2> QED
    BY <2>1, <2>2
<1>5. Counted'
  BY <1>1 DEF Counted, collections
<1>6. worker'[w] \in Worker
  BY <1>2, <1>3
<1> QED
  BY <1>1, <1>4, <1>5, <1>6, OthersHold DEF ReflectionTyped, collections

\* A page is what comes first of the rest; what is in it was done before or is
\* still to do, and the rest is behind the next offset.
LEMMA ReadSourceInv ==
    ASSUME ReflectionInv, NEW w \in DOMAIN worker, ReadSource(w)
    PROVE  ReflectionInv'
<1> USE DEF ReflectionInv
<1> DEFINE r == worker[w]
           rest == {m \in source : m.id >= r.offset /\ Offered(m)}
           page == SoMany(SourcePage, rest)
           next == [r EXCEPT !.at = "picking", !.page = {m \in page : m.id \notin r.skip},
                             !.more = rest # page,
                             !.offset = IF rest = page THEN r.offset ELSE Smallest(rest \ page).id]
<1>1. /\ r.at = "reading" /\ r.more /\ worker' = [worker EXCEPT ![w] = next]
      /\ UNCHANGED collections
  BY DEF ReadSource
<1>2. r \in Worker /\ worker'[w] = next
  BY <1>1 DEF ReflectionTyped
<1>3. /\ WorkerHolds(w, r) /\ r.page = {} /\ r.more = TRUE
      /\ r.offset \in Nat /\ r.skip \subseteq Int /\ r.kept \subseteq Memories
  BY <1>1, <1>2 DEF WorkerHolds, Working, Placed, Worker
<1>4. page \subseteq rest /\ rest \subseteq source /\ source \subseteq Memories
  BY DEF SoMany, ReflectionTyped
<1>5. rest # page => /\ Smallest(rest \ page) \in rest \ page
                     /\ \A m \in rest \ page : Smallest(rest \ page).id <= m.id
                     /\ \A m \in page : m.id < Smallest(rest \ page).id
  <2>1. SUFFICES ASSUME rest # page
                 PROVE  /\ Smallest(rest \ page) \in rest \ page
                        /\ \A m \in rest \ page : Smallest(rest \ page).id <= m.id
                        /\ \A m \in page : m.id < Smallest(rest \ page).id
    OBVIOUS
  <2>2. rest \ page \subseteq Memories /\ rest \ page # {}
    BY <1>4, <2>1
  <2>3. /\ Smallest(rest \ page) \in rest \ page
        /\ \A m \in rest \ page : Smallest(rest \ page).id <= m.id
    <3> HIDE DEF page, rest
    <3> QED
      BY <2>2, SmallestIs
  <2>4. \A m \in page : m.id < Smallest(rest \ page).id
    <3>1. SourcePage \in Nat /\ rest \subseteq Memories
      BY <1>4, ReflectionAssumption
    <3> HIDE DEF rest
    <3> QED
      BY <2>3, <3>1, PageComesFirst
  <2> QED
    BY <2>3, <2>4
<1>6. \A m \in rest : m \in Memories /\ m.id >= r.offset /\ m.id \in Nat
  BY <1>4, CommandTypes
<1>7. /\ next.at = "picking" /\ next.page = {m \in page : m.id \notin r.skip}
      /\ (next.more = TRUE) <=> (rest # page)
      /\ rest # page => next.offset = Smallest(rest \ page).id
      /\ next.skip = r.skip /\ next.dropsSeen = r.dropsSeen /\ next.kept = r.kept
      /\ next.errors = r.errors /\ next.processed = r.processed
      /\ next \in Worker
  <2>1. /\ next.at = "picking" /\ next.page = {m \in page : m.id \notin r.skip}
        /\ next.more = (rest # page)
        /\ next.offset = IF rest = page THEN r.offset ELSE Smallest(rest \ page).id
        /\ next.skip = r.skip /\ next.dropsSeen = r.dropsSeen /\ next.kept = r.kept
        /\ next.errors = r.errors /\ next.processed = r.processed
    BY <1>2 DEF Worker
  <2>2. next.offset \in Nat /\ next.page \subseteq Memories
    BY <1>3, <1>4, <1>5, <1>6, <2>1
  <2>3. next \in Worker
    <3>1. (rest # page) \in BOOLEAN
      OBVIOUS
    <3> HIDE DEF rest, page
    <3> QED
      BY <1>2, <2>1, <2>2, <3>1 DEF Worker
  <2> QED
    BY <2>1, <2>3
<1> HIDE DEF next, rest, page
<1>8. UNCHANGED <<command, source, target, reflections, drops>>
  BY <1>1 DEF collections
<1>9. WorkerHolds(w, worker[w])'
  <2>1. StandsWith(w, worker[w])'
    BY <1>1, <1>2, <1>3, <1>7, <1>8 DEF WorkerHolds, Paging, Working, StandsWith
  <2>2. LeavesNone(w, worker[w])'
    <3>1. SUFFICES ASSUME r.dropsSeen = drops, r.errors = 0, NEW m \in r.kept,
                          Offered(m), Worthy(m), worker_slot(w, m)
                   PROVE  m.id \in target \/ ToDo(next, m)
      BY <1>2, <1>7, <1>8 DEF LeavesNone, Offered, worker_slot
    <3>2. m \in source /\ m.id \in Nat /\ r.skip \subseteq target
      BY <1>1, <1>3, <3>1, CommandTypes DEF WorkerHolds, Paging, Working, StandsWith
    <3>3. m.id \in target \/ m.id >= r.offset
      BY <1>1, <1>3, <3>1 DEF WorkerHolds, Paging, Working, LeavesNone, ToDo
    <3>4. CASE m.id >= r.offset
      <4>1. m \in rest
        BY <3>1, <3>2, <3>4 DEF rest
      <4>2. CASE m \in page
        BY <1>7, <3>2, <4>2 DEF ToDo
      <4>3. CASE m \notin page
        BY <1>5, <1>7, <4>1, <4>3 DEF ToDo
      <4> QED
        BY <4>2, <4>3
    <3> QED
      BY <3>3, <3>4
  <2>3. HasYet(w, worker[w])'
    <3>1. SUFFICES ASSUME NEW m \in Memories, worker_slot(w, m), ToDo(next, m), m.id \notin r.skip
                   PROVE  reflections[m] <= r.dropsSeen
      BY <1>2, <1>7, <1>8 DEF HasYet, worker_slot
    <3>2. m.id >= r.offset
      <4>1. CASE m \in next.page
        BY <1>4, <1>6, <1>7, <4>1
      <4>2. CASE m \notin next.page
        <5>1. rest # page /\ m.id >= Smallest(rest \ page).id
          BY <1>7, <3>1, <4>2 DEF ToDo
        <5>2. Smallest(rest \ page).id \in Nat /\ Smallest(rest \ page).id >= r.offset
          BY <1>5, <1>6, <5>1
        <5> QED
          BY <1>3, <5>1, <5>2, CommandTypes
      <4> QED
        BY <4>1, <4>2
    <3> QED
      BY <1>1, <1>3, <3>1, <3>2 DEF WorkerHolds, Working, HasYet, ToDo
  <2>4. Placed(w, worker[w])'
    BY <1>2, <1>5, <1>7 DEF Placed
  <2> QED
    BY <1>2, <1>7, <2>1, <2>2, <2>3, <2>4 DEF WorkerHolds
<1>10. Counted'
  BY <1>1 DEF Counted, collections
<1> QED
  BY <1>1, <1>2, <1>7, <1>8, <1>9, <1>10, OthersHold DEF ReflectionTyped

\* The smallest of the page is taken up, or left behind; past the limit the
\* round ends.
LEMMA PickMemoryInv ==
    ASSUME ReflectionInv, NEW w \in DOMAIN worker, PickMemory(w)
    PROVE  ReflectionInv'
<1> USE DEF ReflectionInv
<1> DEFINE r == worker[w]
           m == Smallest(r.page)
           ended == [r EXCEPT !.at = "ended"]
           left == [r EXCEPT !.page = r.page \ {m}]
           taken == [r EXCEPT !.at = "reflecting"]
<1>1. /\ r.at = "picking" /\ r.page # {} /\ UNCHANGED collections
      /\ worker' = [worker EXCEPT ![w] = IF r.processed >= command.limit THEN ended
                                         ELSE IF ~worker_slot(w, m) \/ ~Worthy(m) THEN left
                                         ELSE taken]
  BY DEF PickMemory
<1>2. /\ r \in Worker /\ WorkerHolds(w, r)
      /\ worker'[w] = IF r.processed >= command.limit THEN ended
                      ELSE IF ~worker_slot(w, m) \/ ~Worthy(m) THEN left ELSE taken
  BY <1>1 DEF ReflectionTyped
<1>3. StandsWith(w, r) /\ LeavesNone(w, r) /\ HasYet(w, r) /\ Placed(w, r)
  BY <1>1, <1>2 DEF WorkerHolds, Paging, Working
<1>4. UNCHANGED <<command, source, target, reflections, drops>>
  BY <1>1 DEF collections
<1>5. /\ \A x \in {ended, left, taken} :
            /\ x \in Worker /\ x.skip = r.skip /\ x.offset = r.offset /\ x.more = r.more
            /\ x.dropsSeen = r.dropsSeen /\ x.errors = r.errors /\ x.kept = r.kept
            /\ x.processed = r.processed
      /\ ended.at = "ended" /\ ended.page = r.page
      /\ left.at = "picking" /\ left.page = r.page \ {m}
      /\ taken.at = "reflecting" /\ taken.page = r.page
  BY <1>1, <1>2 DEF Worker
<1> HIDE DEF ended, left, taken
<1>6. m \in r.page
  <2>1. r.page \subseteq Memories /\ r.page # {}
    BY <1>1, <1>2 DEF Worker
  <2> QED
    BY <2>1, SmallestIs
<1>7. StandsWith(w, worker[w])'
  BY <1>2, <1>3, <1>4, <1>5 DEF StandsWith
<1>8. WorkerHolds(w, worker[w])'
  <2>1. CASE r.processed >= command.limit
    <3>1. worker'[w] = ended /\ ~(r.processed < command.limit)
      BY <1>2, <2>1, CommandTypes DEF Worker
    <3>2. LeavesNone(w, worker[w])'
      BY <1>3, <1>4, <1>5, <3>1 DEF LeavesNone, ToDo, Offered, worker_slot
    <3> QED
      BY <1>4, <1>5, <1>7, <3>1, <3>2 DEF WorkerHolds, Working
  <2>2. CASE ~(r.processed >= command.limit) /\ (~worker_slot(w, m) \/ ~Worthy(m))
    <3>1. worker'[w] = left
      BY <1>2, <2>2
    <3>2. LeavesNone(w, worker[w])'
      BY <1>3, <1>4, <1>5, <2>2, <3>1 DEF LeavesNone, ToDo, Offered, worker_slot
    <3>3. HasYet(w, worker[w])'
      BY <1>3, <1>4, <1>5, <3>1 DEF HasYet, ToDo, worker_slot
    <3>4. Placed(w, worker[w])'
      BY <1>3, <1>5, <3>1 DEF Placed
    <3> QED
      BY <1>5, <1>7, <3>1, <3>2, <3>3, <3>4 DEF WorkerHolds
  <2>3. CASE ~(r.processed >= command.limit) /\ ~(~worker_slot(w, m) \/ ~Worthy(m))
    <3>1. worker'[w] = taken
      BY <1>2, <2>3
    <3>2. LeavesNone(w, worker[w])'
      BY <1>3, <1>4, <1>5, <3>1 DEF LeavesNone, ToDo, Offered, worker_slot
    <3>3. HasYet(w, worker[w])'
      BY <1>3, <1>4, <1>5, <3>1 DEF HasYet, ToDo, worker_slot
    <3>4. Placed(w, worker[w])'
      BY <1>3, <1>4, <1>5, <1>6, <2>3, <3>1 DEF Placed, worker_slot
    <3> QED
      BY <1>5, <1>7, <3>1, <3>2, <3>3, <3>4 DEF WorkerHolds
  <2> QED
    BY <2>1, <2>2, <2>3
<1>9. Counted'
  BY <1>1 DEF Counted, collections
<1>10. worker'[w] \in Worker
  BY <1>2, <1>5
<1> QED
  BY <1>1, <1>4, <1>8, <1>9, <1>10, OthersHold DEF ReflectionTyped

LEMMA NextPageInv ==
    ASSUME ReflectionInv, NEW w \in DOMAIN worker, NextPage(w)
    PROVE  ReflectionInv'
<1> USE DEF ReflectionInv
<1> DEFINE r == worker[w]
           next == [r EXCEPT !.at = IF r.more THEN "reading" ELSE "ended"]
<1>1. /\ r.at = "picking" /\ r.page = {} /\ UNCHANGED collections
      /\ worker' = [worker EXCEPT ![w] = next]
  BY DEF NextPage, Goes
<1>2. r \in Worker /\ WorkerHolds(w, r) /\ worker'[w] = next
  BY <1>1 DEF ReflectionTyped
<1>3. StandsWith(w, r) /\ LeavesNone(w, r) /\ HasYet(w, r) /\ Placed(w, r)
  BY <1>1, <1>2 DEF WorkerHolds, Paging, Working
<1>4. UNCHANGED <<command, source, target, reflections, drops>>
  BY <1>1 DEF collections
<1>5. /\ next \in Worker /\ next.skip = r.skip /\ next.offset = r.offset /\ next.more = r.more
      /\ next.dropsSeen = r.dropsSeen /\ next.errors = r.errors /\ next.kept = r.kept
      /\ next.page = {}
      /\ \/ next.at = "reading"
         \/ next.at = "ended" /\ r.more = FALSE
  BY <1>1, <1>2 DEF Worker
<1> HIDE DEF next
<1>6. StandsWith(w, worker[w])'
  BY <1>2, <1>3, <1>4, <1>5 DEF StandsWith
<1>7. LeavesNone(w, worker[w])'
  BY <1>1, <1>2, <1>3, <1>4, <1>5 DEF LeavesNone, ToDo, Offered, worker_slot
<1>8. HasYet(w, worker[w])'
  BY <1>1, <1>2, <1>3, <1>4, <1>5 DEF HasYet, ToDo, worker_slot
<1>9. next.at = "reading" => Placed(w, worker[w])'
  BY <1>2, <1>5 DEF Placed
<1>10. WorkerHolds(w, worker[w])'
  BY <1>2, <1>5, <1>6, <1>7, <1>8, <1>9 DEF WorkerHolds, Working
<1>11. Counted'
  BY <1>1 DEF Counted, collections
<1> QED
  BY <1>1, <1>2, <1>4, <1>5, <1>10, <1>11, OthersHold DEF ReflectionTyped

\* A memory that is done with: reflected or not, it is no longer before the
\* worker.  Reflected, it is in the target, and for it the worker has counted
\* one more than the drops it has seen.
LEMMA FinishedInv ==
    ASSUME ReflectionInv, NEW w \in DOMAIN worker, worker[w].at = "reflecting",
           NEW key \in {"processed", "errors"}, Finished(w, key),
           UNCHANGED <<command, source, drops>>,
           \/ /\ key = "errors" /\ UNCHANGED <<target, reflections, flagged>>
           \/ /\ target # NoCollection
              /\ target' = target \cup {Smallest(worker[w].page).id}
              /\ reflections' = [reflections EXCEPT ![Smallest(worker[w].page)] = @ + 1]
              /\ flagged' \subseteq flagged \cup {Smallest(worker[w].page).id}
    PROVE  ReflectionInv'
<1> USE DEF ReflectionInv
<1> DEFINE r == worker[w]
           m == Smallest(r.page)
           next == [r EXCEPT !.at = "picking", !.page = r.page \ {m}, ![key] = r[key] + 1]
<1>1. r \in Worker /\ WorkerHolds(w, r) /\ worker'[w] = next
      /\ worker' = [worker EXCEPT ![w] = next]
  BY DEF ReflectionTyped, Finished
<1>2. StandsWith(w, r) /\ LeavesNone(w, r) /\ HasYet(w, r) /\ Placed(w, r)
  BY <1>1 DEF WorkerHolds, Paging, Working
<1>3. m \in r.page /\ r.page \subseteq Memories /\ m \in Memories /\ worker_slot(w, m)
  <2>1. r.page \subseteq Memories /\ r.page # {} /\ worker_slot(w, m)
    BY <1>1, <1>2 DEF Worker, Placed
  <2> QED
    BY <2>1, SmallestIs
<1>4. /\ next \in Worker /\ next.skip = r.skip /\ next.offset = r.offset /\ next.more = r.more
      /\ next.dropsSeen = r.dropsSeen /\ next.kept = r.kept /\ next.at = "picking"
      /\ next.page = r.page \ {m}
      /\ key = "errors" => next.errors = r.errors + 1
      /\ key = "processed" => next.errors = r.errors
  <2>1. CASE key = "errors"
    <3>1. next = [r EXCEPT !.at = "picking", !.page = r.page \ {m}, !.errors = r.errors + 1]
      BY <2>1
    <3>2. r.page \ {m} \subseteq Memories /\ r.errors + 1 \in Nat
      BY <1>1 DEF Worker
    <3>3. next.errors = r.errors + 1
      BY <1>1, <3>1 DEF Worker
    <3> HIDE DEF next, r, m
    <3>4. /\ next \in Worker /\ next.skip = r.skip /\ next.offset = r.offset
          /\ next.more = r.more /\ next.dropsSeen = r.dropsSeen /\ next.kept = r.kept
          /\ next.at = "picking" /\ next.page = r.page \ {m}
      BY <3>1, <1>1, <3>2 DEF Worker
    <3> QED
      BY <2>1, <3>3, <3>4
  <2>2. CASE key = "processed"
    <3>1. next = [r EXCEPT !.at = "picking", !.page = r.page \ {m}, !.processed = r.processed + 1]
      BY <2>2
    <3>2. r.page \ {m} \subseteq Memories /\ r.processed + 1 \in Nat
      BY <1>1 DEF Worker
    <3>3. next.errors = r.errors
      BY <1>1, <3>1 DEF Worker
    <3> HIDE DEF next, r, m
    <3>4. /\ next \in Worker /\ next.skip = r.skip /\ next.offset = r.offset
          /\ next.more = r.more /\ next.dropsSeen = r.dropsSeen /\ next.kept = r.kept
          /\ next.at = "picking" /\ next.page = r.page \ {m}
      BY <3>1, <1>1, <3>2 DEF Worker
    <3> QED
      BY <2>2, <3>3, <3>4
  <2> QED
    BY <2>1, <2>2
<1> HIDE DEF next
<1>5. /\ r.dropsSeen \in Nat /\ drops \in Nat /\ r.errors \in Nat /\ r.offset \in Nat
      /\ r.dropsSeen <= drops /\ reflections \in [Memories -> Nat]
      /\ m.id \in Nat /\ m.id # 0
      /\ reflections[m] <= r.dropsSeen
  BY <1>1, <1>2, <1>3, CommandTypes
     DEF Worker, StandsWith, ReflectionTyped, HasYet, ToDo, Placed
<1>6. /\ target' \subseteq Int /\ (target' = NoCollection \/ 0 \notin target')
      /\ target # NoCollection => target' # NoCollection /\ target \subseteq target'
      /\ reflections' \in [Memories -> Nat]
      /\ \A k \in Memories : k # m => reflections'[k] = reflections[k]
  <2>1. CASE UNCHANGED <<target, reflections, flagged>>
    BY <1>5, <2>1 DEF ReflectionTyped
  <2>2. CASE ~UNCHANGED <<target, reflections, flagged>>
    <3>1. /\ target # NoCollection /\ target' = target \cup {m.id}
          /\ reflections' = [reflections EXCEPT ![m] = reflections[m] + 1]
      BY <2>2
    <3>2. target' \subseteq Int /\ 0 \notin target' /\ target \subseteq target'
      <4>1. m.id \in Int /\ m.id # 0 /\ target \subseteq Int /\ 0 \notin target
        BY <1>5, <3>1 DEF ReflectionTyped
      <4> HIDE DEF m
      <4> QED
        BY <3>1, <4>1
    <3>3. target' # NoCollection
      BY <3>2 DEF NoCollection
    <3> QED
      BY <1>3, <1>5, <3>1, <3>2, <3>3
  <2> QED
    BY <2>1, <2>2
<1>7. Counted'
  <2>1. CASE UNCHANGED <<target, reflections, flagged>>
    BY <2>1 DEF Counted
  <2>2. CASE ~UNCHANGED <<target, reflections, flagged>>
    <3>1. /\ target' = target \cup {m.id}
          /\ reflections' = [reflections EXCEPT ![m] = reflections[m] + 1]
          /\ flagged' \subseteq flagged \cup {m.id}
      BY <2>2
    <3>2. reflections'[m] = reflections[m] + 1
      BY <1>3, <1>5, <3>1
    <3>3. SUFFICES ASSUME NEW k \in Memories
                   PROVE  /\ reflections'[k] <= drops + 1
                          /\ k.id \notin target' => reflections'[k] <= drops
                          /\ k.id \in flagged' => reflections'[k] > 0
      BY DEF Counted
    <3>4. CASE k = m
      BY <1>5, <3>1, <3>2, <3>4
    <3>5. CASE k # m
      <4>1. k.id # m.id
        BY <1>3, <3>5, ReflectionAssumption
      <4> QED
        BY <1>6, <3>1, <3>5, <4>1 DEF Counted
    <3> QED
      BY <3>4, <3>5
  <2> QED
    BY <2>1, <2>2
<1>8. StandsWith(w, worker[w])'
  BY <1>1, <1>2, <1>4, <1>6 DEF StandsWith
<1>9. LeavesNone(w, worker[w])'
  <2>1. CASE key = "errors"
    BY <1>1, <1>4, <1>5, <2>1 DEF LeavesNone
  <2>2. CASE key = "processed"
    <3>1. target' = target \cup {m.id}
      BY <2>2
    <3>2. SUFFICES ASSUME r.dropsSeen = drops, r.errors = 0, NEW k \in r.kept,
                          Offered(k), Worthy(k), worker_slot(w, k)
                   PROVE  k.id \in target' \/ ToDo(next, k)
      BY <1>1, <1>4, <2>2 DEF LeavesNone, Offered, worker_slot
    <3>3. k.id \in target \/ ToDo(r, k)
      BY <1>2, <3>2 DEF LeavesNone
    <3> QED
      BY <1>4, <3>1, <3>3 DEF ToDo
  <2> QED
    BY <2>1, <2>2
<1>10. HasYet(w, worker[w])'
  <2>1. SUFFICES ASSUME NEW k \in Memories, worker_slot(w, k), ToDo(next, k), k.id \notin r.skip
                 PROVE  reflections'[k] <= r.dropsSeen
    BY <1>1, <1>4 DEF HasYet, worker_slot
  <2>2. k # m
    <3>1. r.more = TRUE => m.id < r.offset
      BY <1>2, <1>3 DEF Placed
    <3> QED
      BY <1>4, <1>5, <2>1, <3>1 DEF ToDo
  <2>3. ToDo(r, k)
    BY <1>4, <2>1 DEF ToDo
  <2> QED
    BY <1>2, <1>6, <2>1, <2>2, <2>3 DEF HasYet
<1>11. Placed(w, worker[w])'
  BY <1>1, <1>2, <1>4 DEF Placed
<1>12. WorkerHolds(w, worker[w])'
  BY <1>1, <1>4, <1>8, <1>9, <1>10, <1>11 DEF WorkerHolds
<1>13. \A k \in Memories : reflections'[k] # reflections[k] => worker_slot(w, k)
  BY <1>3, <1>6
<1> QED
  BY <1>1, <1>4, <1>6, <1>7, <1>12, <1>13, OthersHold DEF ReflectionTyped

LEMMA ReflectInv ==
    ASSUME ReflectionInv, NEW w \in DOMAIN worker,
           Reflect(w) \/ ReflectFails(w) \/ AnswerLost(w)
    PROVE  ReflectionInv'
<1>1. CASE Reflect(w)
  BY <1>1, FinishedInv DEF Reflect, given
<1>2. CASE ReflectFails(w)
  BY <1>2, FinishedInv DEF ReflectFails, collections
<1>3. CASE AnswerLost(w)
  BY <1>3, FinishedInv DEF AnswerLost, given
<1> QED
  BY <1>1, <1>2, <1>3

\* A worker between two rounds, or dead, holds nothing.
LEMMA RestInv ==
    ASSUME ReflectionInv, NEW w \in DOMAIN worker, EndRound(w) \/ Die(w) \/ StartAgain(w)
    PROVE  ReflectionInv'
<1> USE DEF ReflectionInv
<1>1. NewWorker \in Worker /\ NewWorker.at = "idle"
  BY DEF NewWorker, Worker
<1>2. /\ \/ worker' = [worker EXCEPT ![w].at = "idle"]
         \/ worker' = [worker EXCEPT ![w].at = "dead"]
         \/ worker' = [worker EXCEPT ![w] = NewWorker]
      /\ UNCHANGED collections
  BY DEF EndRound, Die, StartAgain, Goes
<1>3. /\ worker'[w] \in Worker /\ worker'[w].at \in {"idle", "dead"}
      /\ DOMAIN worker' = DOMAIN worker
      /\ worker' = [v \in DOMAIN worker |-> worker'[v]]
      /\ \A v \in DOMAIN worker : v # w => worker'[v] = worker[v]
  <2>1. worker \in [0..command.workers - 1 -> Worker] /\ worker[w] \in Worker
    BY DEF ReflectionTyped
  <2>2. \E r \in Worker : r.at \in {"idle", "dead"} /\ worker' = [worker EXCEPT ![w] = r]
    <3>1. CASE worker' = [worker EXCEPT ![w] = NewWorker]
      BY <1>1, <3>1
    <3>2. ASSUME NEW at \in {"idle", "dead"}, worker' = [worker EXCEPT ![w].at = at]
          PROVE  \E r \in Worker : r.at \in {"idle", "dead"} /\ worker' = [worker EXCEPT ![w] = r]
      <4> DEFINE r == [worker[w] EXCEPT !.at = at]
      <4>1. r \in Worker /\ r.at = at
        BY <2>1 DEF Worker
      <4>2. worker' = [worker EXCEPT ![w] = r]
        BY <3>2
      <4> HIDE DEF r
      <4> QED
        BY <4>1, <4>2
    <3> QED
      BY <1>2, <3>1, <3>2
  <2>3. PICK r \in Worker : r.at \in {"idle", "dead"} /\ worker' = [worker EXCEPT ![w] = r]
    BY <2>2
  <2> QED
    BY <2>1, <2>3
<1>4. WorkerHolds(w, worker[w])'
  BY <1>3 DEF WorkerHolds, Paging, Working
<1>5. Counted'
  BY <1>2 DEF Counted, collections
<1> QED
  BY <1>2, <1>3, <1>4, <1>5, OthersHold DEF ReflectionTyped, collections

LEMMA MemoryArrivesInv ==
    ASSUME ReflectionInv, MemoryArrives
    PROVE  ReflectionInv'
<1> USE DEF ReflectionInv
<1>1. /\ source \subseteq source' /\ source' \subseteq Memories
      /\ UNCHANGED <<command, target, flagged, worker, reflections, drops>>
  BY DEF MemoryArrives, ReflectionTyped
<1>2. ReflectionTyped' /\ Counted'
  BY <1>1 DEF ReflectionTyped, Counted
<1>3. ASSUME NEW v \in DOMAIN worker PROVE WorkerHolds(v, worker[v])'
  <2>1. WorkerHolds(v, worker[v])
    OBVIOUS
  <2>2. Paging(worker[v]) => StandsWith(v, worker[v])' /\ LeavesNone(v, worker[v])'
    BY <1>1, <2>1 DEF WorkerHolds, StandsWith, LeavesNone, Offered, Worthy, worker_slot, ToDo
  <2>3. Working(worker[v]) => HasYet(v, worker[v])' /\ Placed(v, worker[v])'
    BY <1>1, <2>1 DEF WorkerHolds, HasYet, Placed, worker_slot, ToDo, Smallest
  <2> QED
    BY <1>1, <2>1, <2>2, <2>3 DEF WorkerHolds, Paging, Working, AtFirstPage
<1> QED
  BY <1>1, <1>2, <1>3

LEMMA ReflectionStepInv ==
    ASSUME ReflectionInv, [ReflectionNext]_reflectionVars
    PROVE  ReflectionInv'
<1>1. CASE UNCHANGED reflectionVars
  <2>1. ReflectionTyped' /\ Counted'
    BY <1>1 DEF ReflectionInv, reflectionVars, ReflectionTyped, Counted
  <2>2. ASSUME NEW w \in DOMAIN worker PROVE WorkerHolds(w, worker[w])'
    <3>1. WorkerHolds(w, worker[w])
      BY DEF ReflectionInv
    <3> QED
      BY <1>1, <3>1
         DEF reflectionVars, WorkerHolds, Paging, Working, StandsWith, LeavesNone, HasYet, Placed,
             ToDo, Offered, Worthy, worker_slot, Smallest, AtFirstPage
  <2> QED
    BY <1>1, <2>1, <2>2 DEF ReflectionInv, reflectionVars
<1> QED
  BY <1>1, BeginRoundInv, FindTargetInv, CreateTargetInv, AlreadyReflectedInv, ReadSourceInv,
     PickMemoryInv, NextPageInv, ReflectInv, RestInv, MemoryArrivesInv DEF ReflectionNext

(* Every memory is reflected, and once (reflection_loop.py): what was there   *)
(* when all workers began, safe and worth it, is reflected once all have come *)
(* through whole; no memory is reflected twice without a drop in between; and *)
(* only what was reflected is marked.                                        *)
THEOREM ReflectedOnce == ReflectionSpec => []EachReflectedOnce
<1>1. ASSUME ReflectionInv PROVE EachReflectedOnce
  <2>1. \A m \in Memories :
           reflections[m] <= drops + 1 /\ (m.id \in flagged => reflections[m] > 0)
    BY <1>1 DEF ReflectionInv, Counted
  <2>2. ASSUME \A w \in DOMAIN worker : Whole(w), NEW m \in Memories,
               \A w \in DOMAIN worker : m \in worker[w].kept, Offered(m), Worthy(m)
        PROVE  m.id \in target
    <3>1. PICK w \in DOMAIN worker : worker_slot(w, m)
      BY <1>1, CommandTypes DEF ReflectionInv, ReflectionTyped, worker_slot
    <3>2. /\ worker[w].at = "ended" /\ worker[w].errors = 0
          /\ worker[w].processed < command.limit /\ worker[w].dropsSeen = drops
      BY <2>2, <3>1 DEF Whole
    <3>3. /\ LeavesNone(w, worker[w])
          /\ worker[w].page = {} /\ worker[w].more = FALSE
      BY <1>1, <3>1, <3>2 DEF ReflectionInv, WorkerHolds, Paging
    <3> QED
      BY <2>2, <3>1, <3>2, <3>3 DEF LeavesNone, ToDo
  <2> QED
    BY <2>1, <2>2 DEF EachReflectedOnce
<1> QED
  BY <1>1, ReflectionInitInv, ReflectionStepInv, PTL DEF ReflectionSpec


-----------------------------------------------------------------------------
(***************************************************************************)
(* Recall: whatever is stored, proposed and asked, every memory that a     *)
(* search matched is accounted for.                                        *)
(*                                                                         *)
(* A set in an order: what it lists, and when a stable sort is one.        *)
(***************************************************************************)
Lists(L, S, R) ==
    /\ L \in [1..Cardinality(S) -> S]
    /\ \A x \in S : \E k \in 1..Cardinality(S) : L[k] = x
    /\ \A j, k \in 1..Cardinality(S) : (j < k <=> <<L[j], L[k]>> \in R) /\ (L[j] = L[k] => j = k)

LEMMA ListedIs ==
    ASSUME NEW S, IsFiniteSet(S), NEW R, StrictOrder(R, S)
    PROVE  Lists(Listed(S, R), S, R) /\ Cardinality(S) \in Nat
<1> DEFINE L == Listed(S, R)
           n == Cardinality(S)
<1>1. n \in Nat
  BY FS_CardinalityType, Zenon
<1>2. \A k \in 1..n : L[k] \in S /\ Place(R, S, L[k]) = k - 1
  <2> TAKE k \in 1..n
  <2>1. k - 1 \in Nat /\ k - 1 < n
    BY <1>1
  <2>2. \E x \in S : Place(R, S, x) = k - 1
    BY <2>1, PlaceTaken
  <2>3. L[k] = CHOOSE x \in S : Place(R, S, x) = k - 1
    BY DEF Listed, Place, Preceding
  <2> QED BY <2>2, <2>3
<1>3. L \in [1..n -> S]
  BY <1>2 DEF Listed
<1>4. \A x \in S : \E k \in 1..n : L[k] = x
  <2> TAKE x \in S
  <2>1. Place(R, S, x) \in Nat /\ Place(R, S, x) < n
    BY PlaceType
  <2>2. PICK k \in 1..n : k = Place(R, S, x) + 1
    BY <1>1, <2>1
  <2>3. L[k] \in S /\ Place(R, S, L[k]) = Place(R, S, x)
    BY <1>2, <2>1, <2>2
  <2>4. L[k] = x
    <3> HIDE DEF L
    <3> QED BY <2>1, <2>3, PlacesFollow DEF StrictOrder
  <2> QED BY <2>4
<1> HIDE DEF L
<1>5. \A j, k \in 1..n : (j < k <=> <<L[j], L[k]>> \in R) /\ (L[j] = L[k] => j = k)
  <2> TAKE j, k \in 1..n
  <2>1. <<L[j], L[k]>> \in R <=> Place(R, S, L[j]) < Place(R, S, L[k])
    BY <1>2, PlacesFollow
  <2> QED BY <1>2, <2>1
<1> QED BY <1>1, <1>3, <1>4, <1>5 DEF Lists, L

\* What a stable sort compares by: B is neither both ways nor does it lose an
\* element in between.
WeakOrder(B, D) ==
    /\ \A i, j \in D : <<i, j>> \in B => <<j, i>> \notin B
    /\ \A i, j, k \in D : <<i, k>> \in B => <<i, j>> \in B \/ <<j, k>> \in B
Stable(B, D) == {p \in D \X D : p \in B \/ (<<p[2], p[1]>> \notin B /\ p[1] < p[2])}

LEMMA StableOrder ==
    ASSUME NEW D, D \subseteq Nat, NEW B, WeakOrder(B, D)
    PROVE  StrictOrder(Stable(B, D), D)
<1>1. \A i, j \in D : <<i, j>> \in Stable(B, D) <=> <<i, j>> \in B \/ (<<j, i>> \notin B /\ i < j)
  BY DEF Stable
<1>2. \A i \in D : <<i, i>> \notin Stable(B, D)
  BY <1>1 DEF WeakOrder
<1>3. \A i, j \in D : i # j => <<i, j>> \in Stable(B, D) \/ <<j, i>> \in Stable(B, D)
  BY <1>1
<1>4. ASSUME NEW i \in D, NEW j \in D, NEW k \in D, <<i, j>> \in Stable(B, D), <<j, k>> \in Stable(B, D)
      PROVE  <<i, k>> \in Stable(B, D)
  <2>1. <<j, i>> \notin B /\ <<k, j>> \notin B
    BY <1>1, <1>4 DEF WeakOrder
  <2>2. <<k, i>> \notin B
    BY <2>1 DEF WeakOrder
  <2>3. <<i, k>> \notin B => <<i, j>> \notin B /\ <<j, k>> \notin B
    BY <2>1 DEF WeakOrder
  <2>4. <<i, k>> \notin B => i < j /\ j < k
    BY <1>1, <1>4, <2>3
  <2> QED BY <1>1, <2>2, <2>4
<1> QED BY <1>2, <1>3, <1>4, Zenon DEF StrictOrder

LEMMA InTurnOrder ==
    ASSUME NEW I, I \subseteq Nat
    PROVE  StrictOrder(InTurn(I), I)
<1>1. \A i, j \in I : <<i, j>> \in InTurn(I) <=> i < j
  BY DEF InTurn
<1> QED BY <1>1 DEF StrictOrder

\* The members of s at the places of I, one after another: f says which.
Picks(t, s, f, I) ==
    /\ t = [k \in DOMAIN f |-> s[f[k]]]
    /\ f \in Seq(I) /\ Len(f) = Cardinality(I)
    /\ \A i \in I : \E k \in DOMAIN f : f[k] = i
    /\ \A j, k \in DOMAIN f : f[j] = f[k] => j = k

LEMMA ArrangeIs ==
    ASSUME NEW X, NEW s \in Seq(X), NEW I, I \subseteq DOMAIN s, NEW R, StrictOrder(R, I)
    PROVE  /\ Arrange(s, I, R) \in Seq(X) /\ Len(Arrange(s, I, R)) = Cardinality(I)
           /\ Cardinality(I) \in Nat
           /\ Picks(Arrange(s, I, R), s, Listed(I, R), I)
           /\ \A j, k \in DOMAIN Listed(I, R) :
                 j < k => <<Listed(I, R)[j], Listed(I, R)[k]>> \in R
<1> DEFINE f == Listed(I, R)
           n == Cardinality(I)
<1>1. IsFiniteSet(I)
  <2>1. DOMAIN s = 1..Len(s) /\ Len(s) \in Nat
    OBVIOUS
  <2>2. IsFiniteSet(1..Len(s))
    BY <2>1, FS_Interval
  <2> QED BY <2>1, <2>2, FS_Subset
<1>2. Lists(f, I, R) /\ n \in Nat
  BY <1>1, ListedIs
<1> HIDE DEF f
<1>3. f \in [1..n -> I] /\ DOMAIN f = 1..n
  BY <1>2 DEF Lists
<1>4. f \in Seq(I) /\ Len(f) = n
  BY <1>2, <1>3
<1>5. Arrange(s, I, R) = [k \in 1..n |-> s[f[k]]]
  BY <1>3 DEF Arrange, f
<1>6. \A k \in 1..n : s[f[k]] \in X
  BY <1>3
<1>7. Arrange(s, I, R) \in Seq(X) /\ Len(Arrange(s, I, R)) = n
  BY <1>2, <1>5, <1>6
<1>8. Picks(Arrange(s, I, R), s, f, I)
  BY <1>2, <1>3, <1>4, <1>5 DEF Picks, Lists
<1>9. \A j, k \in DOMAIN f : j < k => <<f[j], f[k]>> \in R
  BY <1>2, <1>3 DEF Lists
<1> QED BY <1>2, <1>7, <1>8, <1>9 DEF f

-----------------------------------------------------------------------------
(* Scores are fractions: how they and the sorts by them compare.             *)
AnyResult == [memory : Memory, score : Nat, one : Nat \ {0}, duplicates : Seq(Nat)]

LEMMA ResultTypes ==
    ASSUME NEW r \in AnyResult
    PROVE  /\ r.memory \in Memory /\ r.score \in Nat /\ r.one \in Nat \ {0}
           /\ r.duplicates \in Seq(Nat)
           /\ r.memory.id \in Nat /\ r.memory.conversation \in Nat /\ r.memory.key \in Nat
           /\ r.memory.lexical \in Nat /\ r.memory.time \in Int /\ r.memory.canonical \in BOOLEAN
           /\ r.memory.size \in Nat /\ r.memory.quote \in Nat
BY DEF AnyResult, Memory

LEMMA TimesLess ==
    ASSUME NEW x \in Nat, NEW y \in Nat, NEW z \in Nat \ {0}
    PROVE  x * z <= y * z <=> x <= y
OBVIOUS

LEMMA ScoresBetween ==
    ASSUME NEW a \in AnyResult, NEW b \in AnyResult, NEW c \in AnyResult, Exceeds(a, c)
    PROVE  Exceeds(a, b) \/ Exceeds(b, c)
<1> DEFINE p == a.score  q == a.one  r == b.score  t == b.one  u == c.score  v == c.one
<1>1. p \in Nat /\ r \in Nat /\ u \in Nat /\ q \in Nat \ {0} /\ t \in Nat \ {0} /\ v \in Nat \ {0}
  BY DEF AnyResult
<1>2. p * v > u * q
  BY DEF Exceeds
<1>3. ASSUME p * t <= r * q, r * v <= u * t PROVE FALSE
  <2> HIDE DEF p, q, r, t, u, v
  <2>1. (p * t) * v <= (r * q) * v
    BY <1>1, <1>3, TimesLess
  <2>2. (r * v) * q <= (u * t) * q
    BY <1>1, <1>3, TimesLess
  <2>3. (p * t) * v = (p * v) * t /\ (r * q) * v = (r * v) * q /\ (u * t) * q = (u * q) * t
    BY <1>1
  <2>4. (p * v) * t <= (u * q) * t
    BY <1>1, <2>1, <2>2, <2>3
  <2>5. p * v <= u * q
    BY <1>1, <2>4, TimesLess
  <2> QED BY <1>1, <1>2, <2>5
<1>4. p * t > r * q \/ r * v > u * t
  BY <1>1, <1>3
<1> QED BY <1>4 DEF Exceeds

LEMMA ScoresDiffer ==
    ASSUME NEW a \in AnyResult, NEW b \in AnyResult
    PROVE  Exceeds(a, b) => ~Exceeds(b, a)
BY DEF Exceeds, AnyResult

LEMMA BetterBetween ==
    ASSUME NEW a \in AnyResult, NEW b \in AnyResult, NEW c \in AnyResult
    PROVE  /\ Better(a, b) => ~Better(b, a)
           /\ Better(a, c) => Better(a, b) \/ Better(b, c)
<1>1. /\ a.memory.time \in Int /\ b.memory.time \in Int /\ c.memory.time \in Int
  BY DEF AnyResult, Memory
<1>2. Better(a, b) => ~Better(b, a)
  BY <1>1, ScoresDiffer DEF Better
<1>3. /\ Exceeds(a, c) => Exceeds(a, b) \/ Exceeds(b, c)
      /\ Exceeds(b, a) => Exceeds(b, c) \/ Exceeds(c, a)
      /\ Exceeds(c, b) => Exceeds(c, a) \/ Exceeds(a, b)
  BY ScoresBetween
<1>4. Better(a, c) => Better(a, b) \/ Better(b, c)
  BY <1>1, <1>3 DEF Better
<1> QED BY <1>2, <1>4

LEMMA CanonBetween ==
    ASSUME NEW a \in AnyResult, NEW b \in AnyResult, NEW c \in AnyResult
    PROVE  /\ CanonFirst(a, b) => ~CanonFirst(b, a)
           /\ CanonFirst(a, c) => CanonFirst(a, b) \/ CanonFirst(b, c)
<1>1. /\ a.memory.canonical \in BOOLEAN /\ b.memory.canonical \in BOOLEAN
      /\ c.memory.canonical \in BOOLEAN
  BY DEF AnyResult, Memory
<1> QED BY <1>1, BetterBetween DEF CanonFirst

LEMMA ByScoreOrder ==
    ASSUME NEW s \in Seq(AnyResult)
    PROVE  StrictOrder(ByScore(s), DOMAIN s)
<1> DEFINE D == DOMAIN s
           B == {p \in D \X D : Better(s[p[1]], s[p[2]])}
<1>1. D \subseteq Nat /\ \A i \in D : s[i] \in AnyResult
  OBVIOUS
<1>2. \A i, j \in D : <<i, j>> \in B <=> Better(s[i], s[j])
  OBVIOUS
<1>3. WeakOrder(B, D)
  BY <1>1, <1>2, BetterBetween DEF WeakOrder
<1>4. ByScore(s) = Stable(B, D)
  BY <1>2 DEF ByScore, Stable
<1> QED BY <1>1, <1>3, <1>4, StableOrder

LEMMA ByCanonOrder ==
    ASSUME NEW s \in Seq(AnyResult)
    PROVE  StrictOrder(ByCanon(s), DOMAIN s)
<1> DEFINE D == DOMAIN s
           B == {p \in D \X D : CanonFirst(s[p[1]], s[p[2]])}
<1>1. D \subseteq Nat /\ \A i \in D : s[i] \in AnyResult
  OBVIOUS
<1>2. \A i, j \in D : <<i, j>> \in B <=> CanonFirst(s[i], s[j])
  OBVIOUS
<1>3. WeakOrder(B, D)
  BY <1>1, <1>2, CanonBetween DEF WeakOrder
<1>4. ByCanon(s) = Stable(B, D)
  BY <1>2 DEF ByCanon, Stable
<1> QED BY <1>1, <1>3, <1>4, StableOrder

LEMMA ByTimeOrder ==
    ASSUME NEW s \in Seq(AnyResult)
    PROVE  StrictOrder(ByTime(s), DOMAIN s)
<1>1. DOMAIN s \subseteq Nat /\ \A i \in DOMAIN s : s[i].memory.time \in Int
  <2>1. DOMAIN s \subseteq Nat /\ \A i \in DOMAIN s : s[i] \in AnyResult
    OBVIOUS
  <2> QED BY <2>1, ResultTypes
<1>2. \A i, j \in DOMAIN s : <<i, j>> \in ByTime(s) <=>
          \/ s[i].memory.time < s[j].memory.time
          \/ s[i].memory.time = s[j].memory.time /\ i < j
  BY DEF ByTime
<1>3. \A i \in DOMAIN s : <<i, i>> \notin ByTime(s)
  BY <1>1, <1>2
<1>4. \A i, j \in DOMAIN s : i # j => <<i, j>> \in ByTime(s) \/ <<j, i>> \in ByTime(s)
  BY <1>1, <1>2
<1>5. \A i, j, k \in DOMAIN s :
          <<i, j>> \in ByTime(s) /\ <<j, k>> \in ByTime(s) => <<i, k>> \in ByTime(s)
  <2> TAKE i, j, k \in DOMAIN s
  <2>1. /\ s[i].memory.time \in Int /\ s[j].memory.time \in Int /\ s[k].memory.time \in Int
        /\ i \in Nat /\ j \in Nat /\ k \in Nat
    BY <1>1
  <2>2. HAVE <<i, j>> \in ByTime(s) /\ <<j, k>> \in ByTime(s)
  <2>3. /\ s[i].memory.time < s[j].memory.time \/ (s[i].memory.time = s[j].memory.time /\ i < j)
        /\ s[j].memory.time < s[k].memory.time \/ (s[j].memory.time = s[k].memory.time /\ j < k)
    BY <1>2, <2>2
  <2>4. s[i].memory.time < s[k].memory.time \/ (s[i].memory.time = s[k].memory.time /\ i < k)
    BY <2>1, <2>3
  <2> QED BY <1>2, <2>4
<1> QED BY <1>3, <1>4, <1>5, Zenon DEF StrictOrder

-----------------------------------------------------------------------------
(* What is fetched and ranked.                                               *)
\* Every memory once, and none has gone with another yet.
Once(s) ==
    /\ \A i, j \in DOMAIN s : s[i].memory = s[j].memory => i = j
    /\ \A i \in DOMAIN s : s[i].duplicates = << >>
Within(s, A) == \A i \in DOMAIN s : s[i].memory \in A

LEMMA TakeIs ==
    ASSUME NEW X, NEW s \in Seq(X), NEW n \in Nat
    PROVE  /\ Take(n, s) \in Seq(X) /\ Len(Take(n, s)) = (IF n < Len(s) THEN n ELSE Len(s))
           /\ \A k \in DOMAIN Take(n, s) : k \in DOMAIN s /\ Take(n, s)[k] = s[k]
           /\ \A k \in DOMAIN s : k <= n => k \in DOMAIN Take(n, s)
<1> DEFINE m == IF n < Len(s) THEN n ELSE Len(s)
<1>1. m \in Nat /\ m <= Len(s)
  OBVIOUS
<1>2. Take(n, s) = [k \in 1..m |-> s[k]]
  <2>1. SubSeq(s, 1, m) = [k \in 1..m |-> s[k]]
    <3> HIDE DEF m
    <3> QED BY <1>1
  <2> QED BY <2>1 DEF Take
<1>3. \A k \in 1..m : s[k] \in X
  BY <1>1
<1>4. DOMAIN s = 1..Len(s)
  OBVIOUS
<1> QED BY <1>1, <1>2, <1>3, <1>4

\* t is s in the order R: the same members, each once.
Arranged(s, R, t) ==
    /\ t \in Seq(AnyResult) /\ Len(t) = Len(s)
    /\ \A i \in DOMAIN s : \E k \in DOMAIN t : t[k] = s[i]
    /\ \A k \in DOMAIN t : \E i \in DOMAIN s : t[k] = s[i]
    /\ \A j, k \in DOMAIN t : j < k =>
          \E i, l \in DOMAIN s : t[j] = s[i] /\ t[k] = s[l] /\ <<i, l>> \in R
    /\ Once(s) => Once(t)

LEMMA ArrangeAll ==
    ASSUME NEW s \in Seq(AnyResult), NEW R, StrictOrder(R, DOMAIN s)
    PROVE  Arranged(s, R, Arrange(s, DOMAIN s, R))
<1> DEFINE t == Arrange(s, DOMAIN s, R)
           f == Listed(DOMAIN s, R)
<1>1. DOMAIN s \subseteq DOMAIN s /\ DOMAIN s = 1..Len(s) /\ Len(s) \in Nat
  OBVIOUS
<1>2. Cardinality(DOMAIN s) = Len(s)
  BY <1>1, FS_Interval
<1>3. /\ t \in Seq(AnyResult) /\ Len(t) = Len(s)
      /\ Picks(t, s, f, DOMAIN s)
      /\ \A j, k \in DOMAIN f : j < k => <<f[j], f[k]>> \in R
  BY <1>1, <1>2, ArrangeIs
<1> HIDE DEF f, t
<1>4. /\ DOMAIN t = DOMAIN f /\ \A k \in DOMAIN f : t[k] = s[f[k]] /\ f[k] \in DOMAIN s
      /\ \A i \in DOMAIN s : \E k \in DOMAIN f : f[k] = i
      /\ \A j, k \in DOMAIN f : f[j] = f[k] => j = k
  BY <1>3 DEF Picks
<1>5. \A i \in DOMAIN s : \E k \in DOMAIN t : t[k] = s[i]
  BY <1>4
<1>6. \A k \in DOMAIN t : \E i \in DOMAIN s : t[k] = s[i]
  BY <1>4
<1>7. \A j, k \in DOMAIN t : j < k =>
          \E i, l \in DOMAIN s : t[j] = s[i] /\ t[k] = s[l] /\ <<i, l>> \in R
  BY <1>3, <1>4
<1>8. Once(s) => Once(t)
  BY <1>4 DEF Once
<1> QED BY <1>3, <1>5, <1>6, <1>7, <1>8 DEF Arranged, t

LEMMA DampedType ==
    ASSUME NEW values \in Seq(Nat), NEW i \in DOMAIN values
    PROVE  /\ Damped(values, i) \in Nat
           /\ RankConstant + 1 <= Damped(values, i) /\ Damped(values, i) <= RankConstant + Len(values)
<1> DEFINE n == Len(values)
           Others == 1..n \ {i}
           Above == {j \in DOMAIN values : values[j] > values[i] \/ (values[j] = values[i] /\ j < i)}
<1>1. n \in Nat /\ DOMAIN values = 1..n /\ i \in 1..n /\ \A j \in 1..n : values[j] \in Nat
  OBVIOUS
<1>2. IsFiniteSet(1..n) /\ Cardinality(1..n) = n
  <2>1. n \in Int /\ 1 \in Int /\ n \in Nat
    BY <1>1
  <2> HIDE DEF n
  <2>2. IsFiniteSet(1..n) /\ Cardinality(1..n) = IF 1 > n THEN 0 ELSE n - 1 + 1
    BY <2>1, FS_Interval, Zenon
  <2> QED BY <2>1, <2>2
<1>3. IsFiniteSet(Others) /\ Cardinality(Others) = n - 1
  <2>1. IsFiniteSet(Others) /\ Cardinality(Others) = Cardinality(1..n) - 1
    <3> HIDE DEF n
    <3> QED BY <1>1, <1>2, FS_RemoveElement
  <2> QED BY <1>2, <2>1
<1>4. Above \in SUBSET Others
  <2> SUFFICES ASSUME NEW j \in Above PROVE j \in Others
    OBVIOUS
  <2>1. j \in 1..n /\ (values[j] > values[i] \/ (values[j] = values[i] /\ j < i))
    BY <1>1
  <2>2. values[i] \in Nat /\ i \in Nat
    BY <1>1
  <2>3. j # i
    BY <2>1, <2>2
  <2> QED BY <2>1, <2>3
<1>5. Cardinality(Above) \in Nat /\ Cardinality(Above) <= n - 1
  <2> HIDE DEF Above, Others
  <2>1. IsFiniteSet(Above) /\ Cardinality(Above) <= Cardinality(Others)
    BY <1>3, <1>4, FS_Subset, Zenon
  <2>2. Cardinality(Above) \in Nat
    BY <2>1, FS_CardinalityType, Zenon
  <2> QED BY <1>1, <1>3, <2>1, <2>2
<1>6. Damped(values, i) = RankConstant + Cardinality(Above) + 1
  BY DEF Damped, RankBy
<1> HIDE DEF Above
<1> QED BY <1>1, <1>5, <1>6, RecallAssumption

(* Two reciprocal ranks are more than one, when the ranks are bounded.       *)
LEMMA TwoRanks ==
    ASSUME NEW a \in Nat \ {0}, NEW b \in Nat \ {0}, NEW d \in Nat, NEW m \in Nat \ {0},
           m <= d, a < 2 * m, b < 2 * m
    PROVE  (a + b) * d > 1 * (a * b)
<1>1. a * b < a * (2 * m) /\ b * a < b * (2 * m)
  OBVIOUS
<1>2. a * (2 * m) = 2 * (a * m) /\ b * (2 * m) = 2 * (b * m) /\ b * a = a * b
  OBVIOUS
<1>3. a * m <= a * d /\ b * m <= b * d
  OBVIOUS
<1>4. (a + b) * d = a * d + b * d
  OBVIOUS
<1>5. a * b \in Nat /\ a * m \in Nat /\ b * m \in Nat /\ a * d \in Nat /\ b * d \in Nat
  OBVIOUS
<1>6. a * b < a * m + b * m
  BY <1>1, <1>2, <1>5
<1>7. a * b < a * d + b * d
  BY <1>3, <1>5, <1>6
<1> QED BY <1>4, <1>5, <1>7

LEMMA FusedType ==
    ASSUME NEW s \in Seq(AnyResult), NEW i \in DOMAIN s
    PROVE  /\ Fused(s, i) \in AnyResult /\ Fused(s, i).memory = s[i].memory
           /\ Fused(s, i).score > 0 /\ Fused(s, i).duplicates = << >>
           /\ Damped(Scores(s), i) \in Nat \ {0} /\ Damped(Lexical(s), i) \in Nat \ {0}
           /\ RankConstant + 1 <= Damped(Scores(s), i)
           /\ Damped(Scores(s), i) <= RankConstant + Len(s)
           /\ Damped(Lexical(s), i) <= RankConstant + Len(s)
<1>1. \A j \in DOMAIN s : s[j] \in AnyResult
  OBVIOUS
<1>2. \A j \in DOMAIN s : s[j].score \in Nat /\ s[j].memory.lexical \in Nat
  BY <1>1, ResultTypes
<1>3. DOMAIN s = 1..Len(s) /\ Len(s) \in Nat
  OBVIOUS
<1>4. Scores(s) \in Seq(Nat) /\ Len(Scores(s)) = Len(s) /\ i \in DOMAIN Scores(s)
  BY <1>2, <1>3 DEF Scores
<1>5. Lexical(s) \in Seq(Nat) /\ Len(Lexical(s)) = Len(s) /\ i \in DOMAIN Lexical(s)
  BY <1>2, <1>3 DEF Lexical
<1> DEFINE a == Damped(Scores(s), i)
           b == Damped(Lexical(s), i)
<1>6. /\ a \in Nat /\ RankConstant + 1 <= a /\ a <= RankConstant + Len(s)
      /\ b \in Nat /\ RankConstant + 1 <= b /\ b <= RankConstant + Len(s)
  BY <1>4, <1>5, DampedType
<1>7. a \in Nat \ {0} /\ b \in Nat \ {0}
  BY <1>6, RecallAssumption
<1>8. Fused(s, i) = IF s[i].memory.lexical = 0 THEN Result(s[i].memory, 1, a)
                    ELSE Result(s[i].memory, a + b, a * b)
  BY DEF Fused
<1> HIDE DEF a, b
<1>9. a + b \in Nat /\ a + b > 0 /\ a * b \in Nat \ {0} /\ s[i].memory \in Memory
  BY <1>1, <1>7, ResultTypes
<1>10. /\ Fused(s, i) \in AnyResult /\ Fused(s, i).memory = s[i].memory
       /\ Fused(s, i).score > 0 /\ Fused(s, i).duplicates = << >>
  BY <1>7, <1>8, <1>9 DEF Result, AnyResult
<1> QED BY <1>6, <1>7, <1>10 DEF a, b

(* A result with a word of the query beats one without.                      *)
LEMMA OverlapWins ==
    ASSUME NEW s \in Seq(AnyResult), Len(s) <= RankConstant + 1,
           NEW i \in DOMAIN s, NEW j \in DOMAIN s,
           s[i].memory.lexical > 0, s[j].memory.lexical = 0
    PROVE  Better(Fused(s, i), Fused(s, j))
<1> DEFINE a == Damped(Scores(s), i)
           b == Damped(Lexical(s), i)
           d == Damped(Scores(s), j)
           m == RankConstant + 1
<1>1. a \in Nat \ {0} /\ b \in Nat \ {0} /\ d \in Nat /\ m \in Nat \ {0}
  BY FusedType, RecallAssumption
<1>2. m <= d /\ a <= RankConstant + Len(s) /\ b <= RankConstant + Len(s)
  BY FusedType
<1>3. a < 2 * m /\ b < 2 * m
  <2>1. Len(s) \in Nat /\ RankConstant \in Nat
    BY RecallAssumption
  <2> HIDE DEF a, b
  <2> QED BY <1>1, <1>2, <2>1
<1>4. (a + b) * d > 1 * (a * b)
  <2> HIDE DEF a, b, d, m
  <2> QED BY <1>1, <1>2, <1>3, TwoRanks
<1>5. Fused(s, j).score = 1 /\ Fused(s, j).one = d
  BY DEF Fused, Result
<1>6. Fused(s, i).score = a + b /\ Fused(s, i).one = a * b
  BY DEF Fused, Result
<1> HIDE DEF a, b, d
<1>7. Exceeds(Fused(s, i), Fused(s, j))
  BY <1>4, <1>5, <1>6 DEF Exceeds
<1> QED BY <1>7 DEF Better

\* What the ranking r of the pool p is, for a query q over the memories of A.
RankedFrom(q, A, p, r) ==
    /\ r \in Seq(AnyResult) /\ Once(r) /\ Within(r, A)
    /\ \A i \in DOMAIN p : Has(r, p[i]) \/ (q.hybrid /\ Len(r) >= q.limit)
    /\ q.hybrid /\ Len(p) <= RankConstant + 1 =>
          \A i, j \in DOMAIN r : i < j /\ r[j].memory.lexical > 0 => r[i].memory.lexical > 0

\* s in another order.
Same(s, t) ==
    /\ t \in Seq(AnyResult) /\ Len(t) = Len(s) /\ (Once(s) => Once(t))
    /\ \A i \in DOMAIN s : Has(t, s[i])
    /\ \A k \in DOMAIN t : Has(s, t[k])

LEMMA SortedIsSame ==
    ASSUME NEW s \in Seq(AnyResult)
    PROVE  Same(s, Arrange(s, DOMAIN s, ByScore(s)))
<1> DEFINE t == Arrange(s, DOMAIN s, ByScore(s))
<1>1. StrictOrder(ByScore(s), DOMAIN s)
  BY ByScoreOrder
<1>2. Arranged(s, ByScore(s), t)
  BY <1>1, ArrangeAll
<1> HIDE DEF t
<1>3. \A i \in DOMAIN s : Has(t, s[i])
  BY <1>2 DEF Has, Arranged
<1>4. \A k \in DOMAIN t : Has(s, t[k])
  BY <1>2 DEF Has, Arranged
<1> QED BY <1>2, <1>3, <1>4 DEF Same, Arranged, t

LEMMA FusedIsSame ==
    ASSUME NEW s \in Seq(AnyResult)
    PROVE  /\ Same(s, FuseHybridResults(s))
           /\ Len(s) <= RankConstant + 1 =>
                 LET t == FuseHybridResults(s)
                 IN  \A i, j \in DOMAIN t :
                        i < j /\ t[j].memory.lexical > 0 => t[i].memory.lexical > 0
<1> DEFINE fused == [i \in DOMAIN s |-> Fused(s, i)]
           R == ByScore(fused)
           sorted == Arrange(fused, DOMAIN fused, R)
           t == FuseHybridResults(s)
<1>1. /\ fused \in Seq(AnyResult) /\ Len(fused) = Len(s) /\ DOMAIN fused = DOMAIN s
      /\ \A i \in DOMAIN s : /\ fused[i].memory = s[i].memory /\ fused[i].score > 0
                             /\ fused[i].duplicates = << >>
  <2>1. \A i \in DOMAIN s : /\ Fused(s, i) \in AnyResult /\ Fused(s, i).memory = s[i].memory
                            /\ Fused(s, i).score > 0 /\ Fused(s, i).duplicates = << >>
    BY FusedType
  <2>2. DOMAIN s = 1..Len(s) /\ Len(s) \in Nat
    OBVIOUS
  <2> QED BY <2>1, <2>2
<1>2. \A i \in DOMAIN fused : fused[i] = Fused(s, i)
  BY <1>1
<1>3. t = [i \in DOMAIN sorted |-> [sorted[i] EXCEPT !.score = @ * sorted[1].one, !.one = @ * sorted[1].score]]
  BY DEF FuseHybridResults
<1> HIDE DEF fused
<1>4. StrictOrder(R, DOMAIN fused)
  BY <1>1, ByScoreOrder
<1>5. Arranged(fused, R, sorted)
  BY <1>1, <1>4, ArrangeAll
<1> HIDE DEF R
<1> HIDE DEF sorted, t
<1>6. DOMAIN sorted = 1..Len(s) /\ DOMAIN t = 1..Len(s) /\ Len(s) \in Nat
  <2>1. sorted \in Seq(AnyResult) /\ Len(sorted) = Len(s)
    BY <1>1, <1>5 DEF Arranged
  <2>2. DOMAIN sorted = 1..Len(s) /\ Len(s) \in Nat
    BY <2>1
  <2>3. DOMAIN t = DOMAIN sorted
    BY <1>3, Zenon
  <2> QED BY <2>2, <2>3
<1>7. \A k \in DOMAIN sorted : sorted[k].score > 0 /\ sorted[k] \in AnyResult
  BY <1>1, <1>5 DEF Arranged
<1>8. \A k \in DOMAIN t : /\ t[k] \in AnyResult /\ t[k].memory = sorted[k].memory
                         /\ t[k].duplicates = sorted[k].duplicates
  <2> TAKE k \in DOMAIN t
  <2>1. 1 \in DOMAIN sorted /\ k \in DOMAIN sorted
    BY <1>6
  <2> DEFINE a == sorted[k]  b == sorted[1]
  <2>2. a \in AnyResult /\ b \in AnyResult /\ b.score > 0
    BY <1>7, <2>1
  <2>3. t[k] = [a EXCEPT !.score = @ * b.one, !.one = @ * b.score]
    BY <1>3, <2>1
  <2> HIDE DEF a, b
  <2>4. /\ a.score \in Nat /\ b.one \in Nat \ {0} /\ a.one \in Nat \ {0} /\ b.score \in Nat \ {0}
    BY <2>2, ResultTypes
  <2>5. a.score * b.one \in Nat /\ a.one * b.score \in Nat \ {0}
    BY <2>4
  <2>6. t[k] \in AnyResult /\ t[k].memory = a.memory /\ t[k].duplicates = a.duplicates
    BY <2>2, <2>3, <2>5 DEF AnyResult
  <2> QED BY <2>6 DEF a
<1>9. t \in Seq(AnyResult) /\ Len(t) = Len(s)
  <2>1. t \in [1..Len(s) -> AnyResult]
    BY <1>3, <1>6, <1>8
  <2> QED BY <1>6, <2>1
<1>10. Once(s) => Once(t)
  <2>1. Once(s) => Once(fused)
    BY <1>1 DEF Once
  <2>2. Once(sorted) => Once(t)
    BY <1>6, <1>8 DEF Once
  <2> QED BY <1>5, <2>1, <2>2 DEF Arranged
<1>11. \A i \in DOMAIN s : \E k \in DOMAIN t : t[k].memory = s[i].memory
  <2> TAKE i \in DOMAIN s
  <2>1. PICK k \in DOMAIN sorted : sorted[k] = fused[i]
    BY <1>1, <1>5 DEF Arranged
  <2>2. k \in DOMAIN t /\ t[k].memory = s[i].memory
    BY <1>1, <1>6, <1>8, <2>1
  <2> QED BY <2>2
<1>12. \A k \in DOMAIN t : \E i \in DOMAIN s : s[i].memory = t[k].memory
  <2> TAKE k \in DOMAIN t
  <2>1. k \in DOMAIN sorted /\ t[k].memory = sorted[k].memory
    BY <1>6, <1>8
  <2>2. PICK i \in DOMAIN fused : sorted[k] = fused[i]
    BY <1>5, <2>1 DEF Arranged
  <2> QED BY <1>1, <2>1, <2>2
<1>13. Same(s, t)
  BY <1>9, <1>10, <1>11, <1>12 DEF Same, Has
<1>14. ASSUME Len(s) <= RankConstant + 1, NEW j \in DOMAIN t, NEW k \in DOMAIN t,
              j < k, t[k].memory.lexical > 0
       PROVE  t[j].memory.lexical > 0
  <2>0. j \in DOMAIN sorted /\ k \in DOMAIN sorted
    BY <1>6
  <2>1. PICK i, l \in DOMAIN fused : sorted[j] = fused[i] /\ sorted[k] = fused[l] /\ <<i, l>> \in R
    BY <1>5, <1>14, <2>0, Zenon DEF Arranged
  <2>2. ~Better(fused[l], fused[i])
    <3>1. fused[i] \in AnyResult /\ fused[l] \in AnyResult
      BY <1>1
    <3>2. Better(fused[i], fused[l]) \/ ~Better(fused[l], fused[i])
      BY <2>1 DEF ByScore, R
    <3> QED BY <3>1, <3>2, BetterBetween
  <2>3. t[j].memory = s[i].memory /\ t[k].memory = s[l].memory /\ i \in DOMAIN s /\ l \in DOMAIN s
    BY <1>1, <1>6, <1>8, <2>1
  <2>4. s[i].memory.lexical \in Nat
    <3>1. s[i] \in AnyResult
      BY <2>3
    <3> QED BY <3>1, ResultTypes
  <2>5. s[i].memory.lexical # 0
    BY <1>2, <1>14, <2>1, <2>2, <2>3, OverlapWins
  <2> QED BY <2>3, <2>4, <2>5
<1> QED BY <1>13, <1>14 DEF t

LEMMA RankedIs ==
    ASSUME NEW q \in Query, NEW A, NEW p \in Seq(AnyResult), Once(p), Within(p, A),
           NEW s, s = p \/ s = Arrange(p, DOMAIN p, ByScore(p)),
           NEW r, r = IF q.hybrid THEN Take(q.limit, FuseHybridResults(s)) ELSE s
    PROVE  RankedFrom(q, A, p, r)
<1>1. Same(p, s) /\ s \in Seq(AnyResult) /\ Len(s) = Len(p)
  <2>1. Same(p, p)
    BY DEF Same, Has
  <2> QED BY <2>1, SortedIsSame DEF Same
<1>2. Once(s) /\ Within(s, A)
  BY <1>1 DEF Same, Within, Has
<1>3. CASE ~q.hybrid
  BY <1>1, <1>2, <1>3 DEF RankedFrom, Same
<1>4. CASE q.hybrid
  <2> DEFINE t == FuseHybridResults(s)
  <2>1. Same(s, t) /\ (Len(s) <= RankConstant + 1 =>
            \A i, j \in DOMAIN t : i < j /\ t[j].memory.lexical > 0 => t[i].memory.lexical > 0)
    BY <1>1, FusedIsSame
  <2>2. q.limit \in Nat
    BY DEF Query
  <2> HIDE DEF t
  <2>3. t \in Seq(AnyResult) /\ Once(t) /\ Within(t, A)
    BY <1>2, <2>1 DEF Same, Within, Has
  <2>4. /\ r \in Seq(AnyResult) /\ Len(r) = (IF q.limit < Len(t) THEN q.limit ELSE Len(t))
        /\ \A k \in DOMAIN r : k \in DOMAIN t /\ r[k] = t[k]
        /\ \A k \in DOMAIN t : k <= q.limit => k \in DOMAIN r
    BY <1>4, <2>2, <2>3, TakeIs DEF t
  <2>5. Once(r) /\ Within(r, A)
    BY <2>3, <2>4 DEF Once, Within
  <2>6. \A i \in DOMAIN p : Has(r, p[i]) \/ Len(r) >= q.limit
    <3> TAKE i \in DOMAIN p
    <3>1. PICK k \in DOMAIN t : t[k].memory = p[i].memory
      BY <1>1, <2>1 DEF Same, Has
    <3>2. CASE k \in DOMAIN r
      BY <2>4, <3>1, <3>2 DEF Has
    <3>3. CASE k \notin DOMAIN r
      <4>1. k > q.limit /\ k <= Len(t) /\ k \in Nat /\ Len(t) \in Nat
        BY <2>2, <2>3, <2>4, <3>3
      <4> QED BY <2>2, <2>4, <4>1
    <3> QED BY <3>2, <3>3
  <2>7. Len(p) <= RankConstant + 1 =>
          \A i, j \in DOMAIN r : i < j /\ r[j].memory.lexical > 0 => r[i].memory.lexical > 0
    BY <1>1, <2>1, <2>4
  <2> QED BY <1>4, <2>4, <2>5, <2>6, <2>7 DEF RankedFrom
<1> QED BY <1>3, <1>4

-----------------------------------------------------------------------------
(* The collapse of duplicates.                                               *)
Increasing(f, m, n) ==
    /\ f \in [1..m -> 1..n]
    /\ \A j, k \in 1..m : j < k => f[j] < f[k]

LEMMA IncreasingOn ==
    ASSUME NEW m \in Nat, NEW n \in Nat, NEW f, Increasing(f, m, n)
    PROVE  /\ Increasing(f, m, n + 1)
           /\ Increasing([k \in 1..m + 1 |-> IF k <= m THEN f[k] ELSE n + 1], m + 1, n + 1)
<1> DEFINE g == [k \in 1..m + 1 |-> IF k <= m THEN f[k] ELSE n + 1]
<1>1. f \in [1..m -> 1..n] /\ \A j, k \in 1..m : j < k => f[j] < f[k]
  BY DEF Increasing
<1>2. f \in [1..m -> 1..n + 1]
  BY <1>1
<1>3. \A k \in 1..m + 1 : g[k] \in 1..n + 1
  BY <1>1
<1>4. ASSUME NEW j \in 1..m + 1, NEW k \in 1..m + 1, j < k PROVE g[j] < g[k]
  <2>1. j \in 1..m /\ g[j] = f[j] /\ f[j] \in 1..n
    BY <1>1, <1>4
  <2>2. CASE k \in 1..m
    BY <1>1, <1>4, <2>1, <2>2
  <2>3. CASE k \notin 1..m
    BY <2>1, <2>3
  <2> QED BY <2>2, <2>3
<1>5. g \in [1..m + 1 -> 1..n + 1]
  BY <1>3
<1> HIDE DEF g
<1>6. Increasing(g, m + 1, n + 1)
  BY <1>4, <1>5 DEF Increasing
<1> QED BY <1>1, <1>2, <1>6 DEF Increasing, g

LEMMA IncreasingTwice ==
    ASSUME NEW l \in Nat, NEW m \in Nat, NEW n \in Nat,
           NEW f, Increasing(f, m, n), NEW g, Increasing(g, l, m)
    PROVE  Increasing([k \in 1..l |-> f[g[k]]], l, n)
BY DEF Increasing

LEMMA IncreasingOnce ==
    ASSUME NEW m \in Nat, NEW n \in Nat, NEW f, Increasing(f, m, n)
    PROVE  \A j, k \in 1..m : f[j] = f[k] => j = k
<1>1. \A j \in 1..m : f[j] \in 1..n
  BY DEF Increasing
<1>2. \A j, k \in 1..m : j < k => f[j] < f[k]
  BY DEF Increasing
<1> QED BY <1>1, <1>2

\* Alike but for the ids that went with it.
SameAs(a, b) == a.memory = b.memory /\ a.score = b.score /\ a.one = b.one
Precedes(t, r, i) == \E j \in 1..i - 1 : t[j].memory = r.memory
Drawn(d, t, n) ==
    \E f : Increasing(f, Len(d), n) /\ \A k \in DOMAIN d : SameAs(d[k], t[f[k]])
StandsFor(t, r, i) ==
    Precedes(t, r, i) /\ SameText(r, t[i]) /\ t[i].memory.id \in ToSet(r.duplicates)
\* An id that went with a result is that of a result that has gone.
WentWith(t, n, d, r, id) ==
    \E i \in 1..n : /\ t[i].memory.id = id /\ t[i].memory.key = r.memory.key /\ ~Has(d, t[i])

\* What d is after the first n results of t: one for a text.
CollapsedFrom(deduping, t, n, d) ==
    /\ d \in Seq(AnyResult) /\ Drawn(d, t, n)
    /\ \A i \in 1..n : Has(d, t[i]) \/ (deduping /\ \E k \in DOMAIN d : StandsFor(t, d[k], i))
    /\ deduping => \A k, l \in DOMAIN d : k # l => ~SameText(d[k], d[l])
    /\ \A k \in DOMAIN d : \A id \in ToSet(d[k].duplicates) : WentWith(t, n, d, d[k], id)

LEMMA DrawnFrom ==
    ASSUME NEW d \in Seq(AnyResult), NEW t \in Seq(AnyResult), Once(t),
           NEW n \in Nat, n < Len(t), Drawn(d, t, n)
    PROVE  /\ \A k \in DOMAIN d : \E i \in 1..n : SameAs(d[k], t[i])
           /\ \A k \in DOMAIN d : Precedes(t, d[k], n + 1)
           /\ ~Has(d, t[n + 1])
<1>1. PICK f : Increasing(f, Len(d), n) /\ \A k \in DOMAIN d : SameAs(d[k], t[f[k]])
  BY DEF Drawn
<1>2. DOMAIN d = 1..Len(d) /\ Len(d) \in Nat
  OBVIOUS
<1>3. \A k \in DOMAIN d : f[k] \in 1..n
  BY <1>1, <1>2 DEF Increasing
<1>4. \A k \in DOMAIN d : \E i \in 1..n : SameAs(d[k], t[i])
  BY <1>1, <1>3
<1>5. \A k \in DOMAIN d : Precedes(t, d[k], n + 1)
  BY <1>4 DEF Precedes, SameAs
<1>6. ~Has(d, t[n + 1])
  <2>1. DOMAIN t = 1..Len(t) /\ Len(t) \in Nat
    OBVIOUS
  <2>2. \A i \in 1..n : i \in DOMAIN t /\ n + 1 \in DOMAIN t /\ i # n + 1
    BY <2>1
  <2>3. \A i \in 1..n : t[i].memory # t[n + 1].memory
    BY <2>2 DEF Once
  <2> QED BY <1>4, <2>3 DEF Has, SameAs
<1> QED BY <1>4, <1>5, <1>6

LEMMA SetOfAppended ==
    ASSUME NEW X, NEW s \in Seq(X), NEW x \in X
    PROVE  ToSet(Append(s, x)) = ToSet(s) \cup {x}
<1>1. DOMAIN Append(s, x) = DOMAIN s \cup {Len(s) + 1}
  OBVIOUS
<1>2. \A k \in DOMAIN s : Append(s, x)[k] = s[k]
  OBVIOUS
<1>3. Append(s, x)[Len(s) + 1] = x
  OBVIOUS
<1> QED BY <1>1, <1>2, <1>3 DEF ToSet

LEMMA CollapseNew ==
    ASSUME NEW deduping \in BOOLEAN, NEW t \in Seq(AnyResult), Once(t),
           NEW n \in Nat, n < Len(t), NEW d, CollapsedFrom(deduping, t, n, d),
           {i \in DOMAIN d : deduping /\ SameText(d[i], t[n + 1])} = {}
    PROVE  CollapsedFrom(deduping, t, n + 1, Append(d, t[n + 1]))
<1> DEFINE r == t[n + 1]
           e == Append(d, r)
<1>1. d \in Seq(AnyResult) /\ r \in AnyResult /\ r.duplicates = << >>
  BY DEF CollapsedFrom, Once
<1>2. /\ e \in Seq(AnyResult) /\ Len(e) = Len(d) + 1 /\ DOMAIN d = 1..Len(d) /\ Len(d) \in Nat
      /\ DOMAIN e = 1..Len(d) + 1
      /\ \A k \in DOMAIN d : k \in DOMAIN e /\ e[k] = d[k]
      /\ e[Len(d) + 1] = r
  BY <1>1
<1>3. /\ \A i \in 1..n : i \in DOMAIN t /\ i \in 1..n + 1 /\ t[i].memory # r.memory
      /\ n + 1 \in DOMAIN t
  BY DEF Once
<1> HIDE DEF e, r
<1>4. Drawn(e, t, n + 1)
  <2>1. PICK f : Increasing(f, Len(d), n) /\ \A k \in DOMAIN d : SameAs(d[k], t[f[k]])
    BY DEF CollapsedFrom, Drawn
  <2> DEFINE g == [k \in 1..Len(d) + 1 |-> IF k <= Len(d) THEN f[k] ELSE n + 1]
  <2>2. Increasing(g, Len(e), n + 1)
    BY <1>2, <2>1, IncreasingOn
  <2>3. \A k \in DOMAIN e : SameAs(e[k], t[g[k]])
    <3> TAKE k \in DOMAIN e
    <3>1. CASE k \in DOMAIN d
      BY <1>2, <2>1, <3>1
    <3>2. CASE k \notin DOMAIN d
      <4>1. k = Len(d) + 1 /\ g[k] = n + 1
        BY <1>2, <3>2
      <4> QED BY <1>2, <4>1 DEF SameAs, r
    <3> QED BY <3>1, <3>2
  <2> QED BY <2>2, <2>3 DEF Drawn
<1>5. \A k \in DOMAIN d : ~(deduping /\ SameText(d[k], r))
  BY DEF r
<1>6. ASSUME NEW i \in 1..n + 1
      PROVE  Has(e, t[i]) \/ (deduping /\ \E k \in DOMAIN e : StandsFor(t, e[k], i))
  <2>1. CASE i \in 1..n
    <3>1. Has(d, t[i]) \/ (deduping /\ \E k \in DOMAIN d : StandsFor(t, d[k], i))
      BY <2>1 DEF CollapsedFrom
    <3>2. Has(d, t[i]) => Has(e, t[i])
      BY <1>2 DEF Has
    <3> QED BY <1>2, <3>1, <3>2
  <2>2. CASE i = n + 1
    BY <1>2, <2>2 DEF Has, r
  <2> QED BY <2>1, <2>2
<1>7. ASSUME deduping, NEW k \in DOMAIN e, NEW l \in DOMAIN e, k # l
      PROVE  ~SameText(e[k], e[l])
  <2>1. CASE k \in DOMAIN d /\ l \in DOMAIN d
    BY <1>2, <1>7, <2>1 DEF CollapsedFrom
  <2>2. CASE k \in DOMAIN d /\ l \notin DOMAIN d
    <3>1. e[l] = r /\ e[k] = d[k]
      BY <1>2, <2>2
    <3> QED BY <1>5, <1>7, <2>2, <3>1
  <2>3. CASE k \notin DOMAIN d /\ l \in DOMAIN d
    <3>1. e[k] = r /\ e[l] = d[l]
      BY <1>2, <2>3
    <3>2. ~SameText(d[l], r)
      BY <1>5, <1>7, <2>3
    <3> QED BY <3>1, <3>2 DEF SameText
  <2>4. CASE k \notin DOMAIN d /\ l \notin DOMAIN d
    BY <1>2, <1>7, <2>4
  <2> QED BY <2>1, <2>2, <2>3, <2>4
<1>8. ASSUME NEW k \in DOMAIN e, NEW id \in ToSet(e[k].duplicates)
      PROVE  WentWith(t, n + 1, e, e[k], id)
  <2>1. CASE k \in DOMAIN d
    <3>1. e[k] = d[k]
      BY <1>2, <2>1
    <3>2. PICK i \in 1..n : t[i].memory.id = id /\ t[i].memory.key = d[k].memory.key /\ ~Has(d, t[i])
      BY <1>8, <2>1, <3>1 DEF CollapsedFrom, WentWith
    <3>3. ~Has(e, t[i])
      <4> SUFFICES ASSUME NEW l \in DOMAIN e, e[l].memory = t[i].memory PROVE FALSE
        BY DEF Has
      <4>1. l \notin DOMAIN d
        BY <1>2, <3>2 DEF Has
      <4>2. e[l] = r
        BY <1>2, <4>1
      <4> QED BY <1>3, <4>2
    <3> QED BY <1>3, <3>1, <3>2, <3>3 DEF WentWith
  <2>2. CASE k \notin DOMAIN d
    <3>1. e[k] = r
      BY <1>2, <2>2
    <3> QED BY <1>1, <1>8, <3>1 DEF ToSet
  <2> QED BY <2>1, <2>2
<1>9. CollapsedFrom(deduping, t, n + 1, e)
  BY <1>2, <1>4, <1>6, <1>7, <1>8 DEF CollapsedFrom
<1> QED BY <1>9 DEF e, r

LEMMA CollapseOld ==
    ASSUME NEW deduping \in BOOLEAN, NEW t \in Seq(AnyResult), Once(t),
           NEW n \in Nat, n < Len(t), NEW d, CollapsedFrom(deduping, t, n, d),
           NEW p \in DOMAIN d, deduping, SameText(d[p], t[n + 1])
    PROVE  CollapsedFrom(deduping, t, n + 1,
                         [d EXCEPT ![p].duplicates = Append(@, t[n + 1].memory.id)])
<1> DEFINE r == t[n + 1]
           e == [d EXCEPT ![p].duplicates = Append(@, r.memory.id)]
<1>1. d \in Seq(AnyResult) /\ r \in AnyResult /\ d[p] \in AnyResult
  BY DEF CollapsedFrom
<1>2. d[p].duplicates \in Seq(Nat) /\ r.memory.id \in Nat
  BY <1>1, ResultTypes
<1>3. /\ e \in Seq(AnyResult) /\ Len(e) = Len(d) /\ DOMAIN e = DOMAIN d
      /\ DOMAIN d = 1..Len(d) /\ Len(d) \in Nat
      /\ \A k \in DOMAIN d : SameAs(e[k], d[k]) /\ (k # p => e[k] = d[k])
      /\ e[p].duplicates = Append(d[p].duplicates, r.memory.id)
  <2> DEFINE x == [d[p] EXCEPT !.duplicates = Append(@, r.memory.id)]
  <2>1. x \in AnyResult /\ SameAs(x, d[p]) /\ x.duplicates = Append(d[p].duplicates, r.memory.id)
    <3>1. Append(d[p].duplicates, r.memory.id) \in Seq(Nat)
      BY <1>2
    <3> QED BY <1>1, <3>1 DEF AnyResult, SameAs
  <2>2. e = [d EXCEPT ![p] = x]
    OBVIOUS
  <2> HIDE DEF x, e
  <2>3. e \in Seq(AnyResult) /\ Len(e) = Len(d) /\ e[p] = x
    BY <1>1, <2>1, <2>2
  <2>4. \A k \in DOMAIN d : k # p => e[k] = d[k]
    BY <2>2
  <2>5. DOMAIN e = DOMAIN d /\ DOMAIN d = 1..Len(d) /\ Len(d) \in Nat
    BY <1>1, <2>2
  <2> QED BY <2>1, <2>3, <2>4, <2>5 DEF SameAs
<1>4. ToSet(e[p].duplicates) = ToSet(d[p].duplicates) \cup {r.memory.id}
  <2> DEFINE ids == d[p].duplicates
             x == r.memory.id
  <2>1. ids \in Seq(Nat) /\ x \in Nat /\ e[p].duplicates = Append(ids, x)
    BY <1>2, <1>3
  <2> HIDE DEF ids, x, e
  <2>2. ToSet(e[p].duplicates) = ToSet(ids) \cup {x}
    BY <2>1, SetOfAppended
  <2> QED BY <2>2 DEF ids, x
<1>5. /\ \A i \in 1..n : i \in DOMAIN t /\ i \in 1..n + 1
      /\ n + 1 \in DOMAIN t
  OBVIOUS
<1> HIDE DEF e, r
<1>6. \A x : Has(e, x) <=> Has(d, x)
  BY <1>3 DEF Has, SameAs
<1>7. /\ \A k \in DOMAIN d : Precedes(t, d[k], n + 1)
      /\ ~Has(d, r)
  BY <1>1, DrawnFrom DEF CollapsedFrom, r
<1>8. Drawn(e, t, n + 1)
  <2>1. PICK f : Increasing(f, Len(d), n) /\ \A k \in DOMAIN d : SameAs(d[k], t[f[k]])
    BY DEF CollapsedFrom, Drawn
  <2>2. Increasing(f, Len(e), n + 1)
    BY <1>3, <2>1, IncreasingOn
  <2>3. \A k \in DOMAIN e : SameAs(e[k], t[f[k]])
    BY <1>3, <2>1 DEF SameAs
  <2> QED BY <2>2, <2>3 DEF Drawn
<1>9. ASSUME NEW i \in 1..n + 1
      PROVE  Has(e, t[i]) \/ \E k \in DOMAIN e : StandsFor(t, e[k], i)
  <2>1. CASE i \in 1..n
    <3>1. Has(d, t[i]) \/ \E k \in DOMAIN d : StandsFor(t, d[k], i)
      BY <2>1 DEF CollapsedFrom
    <3>2. \A k \in DOMAIN d : StandsFor(t, d[k], i) => StandsFor(t, e[k], i)
      <4> TAKE k \in DOMAIN d
      <4>1. ToSet(d[k].duplicates) \subseteq ToSet(e[k].duplicates)
        BY <1>3, <1>4
      <4>2. e[k].memory = d[k].memory
        BY <1>3 DEF SameAs
      <4> QED BY <4>1, <4>2 DEF StandsFor, Precedes, SameText
    <3> QED BY <1>3, <1>6, <3>1, <3>2
  <2>2. CASE i = n + 1
    <3>1. e[p].memory = d[p].memory
      BY <1>3 DEF SameAs
    <3>2. StandsFor(t, e[p], i)
      BY <1>4, <1>7, <2>2, <3>1 DEF StandsFor, Precedes, SameText, r
    <3> QED BY <1>3, <3>2
  <2> QED BY <2>1, <2>2
<1>10. \A k, l \in DOMAIN e : k # l => ~SameText(e[k], e[l])
  <2>1. \A k, l \in DOMAIN d : k # l => ~SameText(d[k], d[l])
    BY DEF CollapsedFrom
  <2> QED BY <1>3, <2>1 DEF SameAs, SameText
<1>11. ASSUME NEW k \in DOMAIN e, NEW id \in ToSet(e[k].duplicates)
       PROVE  WentWith(t, n + 1, e, e[k], id)
  <2>1. e[k].memory = d[k].memory /\ k \in DOMAIN d
    BY <1>3 DEF SameAs
  <2>2. CASE id \in ToSet(d[k].duplicates)
    <3>1. PICK i \in 1..n : t[i].memory.id = id /\ t[i].memory.key = d[k].memory.key /\ ~Has(d, t[i])
      BY <2>1, <2>2 DEF CollapsedFrom, WentWith
    <3> QED BY <1>5, <1>6, <2>1, <3>1 DEF WentWith
  <2>3. CASE id \notin ToSet(d[k].duplicates)
    <3>1. k = p /\ id = r.memory.id
      BY <1>3, <1>4, <1>11, <2>3
    <3>2. r.memory.key = d[p].memory.key
      BY DEF SameText, r
    <3>3. n + 1 \in 1..n + 1 /\ t[n + 1] = r /\ ~Has(e, r)
      BY <1>6, <1>7 DEF r
    <3>4. t[n + 1].memory.id = id /\ t[n + 1].memory.key = e[k].memory.key
      BY <2>1, <3>1, <3>2, <3>3
    <3> QED BY <3>3, <3>4 DEF WentWith
  <2> QED BY <2>2, <2>3
<1>12. CollapsedFrom(deduping, t, n + 1, e)
  BY <1>3, <1>8, <1>9, <1>10, <1>11 DEF CollapsedFrom
<1> QED BY <1>12 DEF e, r

-----------------------------------------------------------------------------
(* The shares of the conversations.                                          *)
OfConversation(s, c) == {k \in DOMAIN s : s[k].memory.conversation = c}
ShareOf(t, s, i) ==
    {k \in DOMAIN s : /\ Precedes(t, s[k], i)
                      /\ s[k].memory.conversation = t[i].memory.conversation}
HadShare(q, t, s, i) ==
    /\ q.perConversation > 0 /\ t[i].memory.conversation # 0
    /\ Cardinality(ShareOf(t, s, i)) >= q.perConversation
Chosen(s, d, n) ==
    \E f : Increasing(f, Len(s), n) /\ \A k \in DOMAIN s : s[k] = d[f[k]]

\* What s is after the first n results of d, which were drawn from t.
SharedFrom(q, t, d, n, s) ==
    /\ s \in Seq(AnyResult) /\ Chosen(s, d, n)
    /\ \A i \in DOMAIN t : \A k \in 1..n :
          d[k].memory = t[i].memory => Has(s, t[i]) \/ HadShare(q, t, s, i)
    /\ q.perConversation > 0 =>
          \A c \in Nat \ {0} : Cardinality(OfConversation(s, c)) <= q.perConversation

LEMMA PlacesFinite ==
    ASSUME NEW s \in Seq(AnyResult), NEW I, I \subseteq DOMAIN s
    PROVE  IsFiniteSet(I) /\ Cardinality(I) \in Nat /\ Cardinality(I) <= Len(s)
<1>1. DOMAIN s = 1..Len(s) /\ Len(s) \in Nat
  OBVIOUS
<1> DEFINE n == Len(s)
<1>2. IsFiniteSet(1..n) /\ Cardinality(1..n) = n
  <2> HIDE DEF n
  <2>1. n \in Nat
    BY <1>1 DEF n
  <2> QED BY <2>1, FS_Interval
<1>3. I \in SUBSET (1..n)
  BY <1>1
<1> HIDE DEF n
<1>4. IsFiniteSet(I) /\ Cardinality(I) <= Cardinality(1..n)
  BY <1>2, <1>3, FS_Subset, Zenon
<1> QED BY <1>2, <1>4, FS_CardinalityType DEF n

(* The places of what was drawn follow each other.                           *)
LEMMA DrawnInTurn ==
    ASSUME NEW d \in Seq(AnyResult), NEW t \in Seq(AnyResult), Once(t),
           NEW n \in Nat, n <= Len(t), Drawn(d, t, n),
           NEW j \in DOMAIN d, NEW k \in DOMAIN d, j < k, NEW i \in DOMAIN t,
           d[k].memory = t[i].memory
    PROVE  Precedes(t, d[j], i)
<1>1. PICK f : Increasing(f, Len(d), n) /\ \A l \in DOMAIN d : SameAs(d[l], t[f[l]])
  BY DEF Drawn
<1>2. DOMAIN d = 1..Len(d) /\ Len(d) \in Nat /\ DOMAIN t = 1..Len(t) /\ Len(t) \in Nat
  OBVIOUS
<1>3. f[j] \in 1..n /\ f[k] \in 1..n /\ f[j] < f[k]
  BY <1>1, <1>2 DEF Increasing
<1>4. f[k] = i
  BY <1>1, <1>2, <1>3 DEF Once, SameAs
<1>5. f[j] \in 1..i - 1 /\ t[f[j]].memory = d[j].memory
  BY <1>1, <1>2, <1>3, <1>4 DEF SameAs
<1> QED BY <1>5 DEF Precedes

LEMMA ShareFull ==
    ASSUME NEW q \in Query, NEW t \in Seq(AnyResult), Once(t),
           NEW d \in Seq(AnyResult), Drawn(d, t, Len(t)),
           NEW n \in Nat, n < Len(d), NEW s, SharedFrom(q, t, d, n, s),
           q.perConversation > 0, d[n + 1].memory.conversation # 0,
           Cardinality(OfConversation(s, d[n + 1].memory.conversation)) >= q.perConversation
    PROVE  SharedFrom(q, t, d, n + 1, s)
<1>1. s \in Seq(AnyResult) /\ DOMAIN d = 1..Len(d) /\ DOMAIN s = 1..Len(s) /\ Len(s) \in Nat /\ Len(d) \in Nat
  BY DEF SharedFrom
<1>2. PICK f : Increasing(f, Len(s), n) /\ \A k \in DOMAIN s : s[k] = d[f[k]]
  BY DEF SharedFrom, Chosen
<1>3. Chosen(s, d, n + 1)
  BY <1>1, <1>2, IncreasingOn DEF Chosen
<1>4. ASSUME NEW i \in DOMAIN t, d[n + 1].memory = t[i].memory
      PROVE  HadShare(q, t, s, i)
  <2>1. \A k \in DOMAIN s : Precedes(t, s[k], i)
    <3> TAKE k \in DOMAIN s
    <3>1. f[k] \in DOMAIN d /\ n + 1 \in DOMAIN d /\ f[k] < n + 1 /\ s[k] = d[f[k]]
      BY <1>1, <1>2 DEF Increasing
    <3>2. Len(t) \in Nat
      OBVIOUS
    <3> QED BY <1>4, <3>1, <3>2, DrawnInTurn
  <2>2. ShareOf(t, s, i) = OfConversation(s, d[n + 1].memory.conversation)
    BY <1>4, <2>1 DEF ShareOf, OfConversation
  <2> QED BY <1>4, <2>2 DEF HadShare
<1>5. \A i \in DOMAIN t : \A k \in 1..n + 1 :
          d[k].memory = t[i].memory => Has(s, t[i]) \/ HadShare(q, t, s, i)
  <2> TAKE i \in DOMAIN t
  <2> TAKE k \in 1..n + 1
  <2>1. CASE k \in 1..n
    BY <2>1 DEF SharedFrom
  <2>2. CASE k = n + 1
    BY <1>4, <2>2
  <2> QED BY <2>1, <2>2
<1> QED BY <1>1, <1>3, <1>5 DEF SharedFrom

LEMMA ShareTaken ==
    ASSUME NEW q \in Query, NEW t \in Seq(AnyResult),
           NEW d \in Seq(AnyResult),
           NEW n \in Nat, n < Len(d), NEW s, SharedFrom(q, t, d, n, s),
           ~(/\ q.perConversation > 0 /\ d[n + 1].memory.conversation # 0
             /\ Cardinality(OfConversation(s, d[n + 1].memory.conversation)) >= q.perConversation)
    PROVE  SharedFrom(q, t, d, n + 1, Append(s, d[n + 1]))
<1> DEFINE r == d[n + 1]
           e == Append(s, r)
           m == Len(s) + 1
<1>1. s \in Seq(AnyResult) /\ r \in AnyResult
  BY DEF SharedFrom
<1>2. /\ e \in Seq(AnyResult) /\ Len(e) = Len(s) + 1 /\ DOMAIN s = 1..Len(s) /\ Len(s) \in Nat
      /\ DOMAIN e = 1..Len(s) + 1 /\ m \in DOMAIN e /\ m \notin DOMAIN s
      /\ \A k \in DOMAIN s : k \in DOMAIN e /\ e[k] = s[k]
      /\ \A k \in DOMAIN e : k \in DOMAIN s \/ k = m
      /\ e[m] = r
  BY <1>1
<1> HIDE DEF e
<1>3. PICK f : Increasing(f, Len(s), n) /\ \A k \in DOMAIN s : s[k] = d[f[k]]
  BY DEF SharedFrom, Chosen
<1>4. Chosen(e, d, n + 1)
  <2> DEFINE g == [k \in 1..Len(s) + 1 |-> IF k <= Len(s) THEN f[k] ELSE n + 1]
  <2>1. Increasing(g, Len(e), n + 1)
    BY <1>2, <1>3, IncreasingOn, ZenonT(30)
  <2>2. \A k \in DOMAIN e : e[k] = d[g[k]]
    <3> TAKE k \in DOMAIN e
    <3>1. CASE k \in DOMAIN s
      BY <1>2, <1>3, <3>1
    <3>2. CASE k = m
      BY <1>2, <3>2
    <3> QED BY <1>2, <3>1, <3>2
  <2> QED BY <2>1, <2>2 DEF Chosen
<1> HIDE DEF r, m
<1>5. ASSUME NEW i \in DOMAIN t, HadShare(q, t, s, i) PROVE HadShare(q, t, e, i)
  <2>1. ShareOf(t, s, i) \in SUBSET ShareOf(t, e, i)
    BY <1>2 DEF ShareOf
  <2>2. IsFiniteSet(ShareOf(t, e, i)) /\ Cardinality(ShareOf(t, e, i)) \in Nat
    <3>1. ShareOf(t, e, i) \subseteq DOMAIN e
      BY DEF ShareOf
    <3> QED BY <1>2, <3>1, PlacesFinite
  <2>3. Cardinality(ShareOf(t, s, i)) \in Nat
    <3>1. ShareOf(t, s, i) \subseteq DOMAIN s
      BY DEF ShareOf
    <3> QED BY <1>1, <3>1, PlacesFinite
  <2>4. Cardinality(ShareOf(t, s, i)) <= Cardinality(ShareOf(t, e, i))
    BY <2>1, <2>2, FS_Subset, Zenon
  <2>5. q.perConversation \in Nat
    BY DEF Query
  <2> QED BY <1>5, <2>2, <2>3, <2>4, <2>5 DEF HadShare
<1>6. \A i \in DOMAIN t : \A k \in 1..n + 1 :
          d[k].memory = t[i].memory => Has(e, t[i]) \/ HadShare(q, t, e, i)
  <2> TAKE i \in DOMAIN t
  <2> TAKE k \in 1..n + 1
  <2> HAVE d[k].memory = t[i].memory
  <2>1. CASE k \in 1..n
    <3>1. Has(s, t[i]) \/ HadShare(q, t, s, i)
      BY <2>1 DEF SharedFrom
    <3>2. Has(s, t[i]) => Has(e, t[i])
      BY <1>2 DEF Has
    <3> QED BY <1>5, <3>1, <3>2
  <2>2. CASE k = n + 1
    <3>1. e[m].memory = t[i].memory
      BY <1>2, <2>2 DEF r
    <3> QED BY <1>2, <3>1 DEF Has
  <2> QED BY <2>1, <2>2
<1>7. ASSUME q.perConversation > 0, NEW c \in Nat \ {0}
      PROVE  Cardinality(OfConversation(e, c)) <= q.perConversation
  <2>1. Cardinality(OfConversation(s, c)) <= q.perConversation
    BY <1>7 DEF SharedFrom
  <2>2. IsFiniteSet(OfConversation(s, c)) /\ Cardinality(OfConversation(s, c)) \in Nat
    <3>1. OfConversation(s, c) \subseteq DOMAIN s
      BY DEF OfConversation
    <3> QED BY <1>1, <3>1, PlacesFinite
  <2>3. CASE r.memory.conversation # c
    <3>1. OfConversation(e, c) = OfConversation(s, c)
      BY <1>2, <2>3 DEF OfConversation
    <3> QED BY <2>1, <3>1
  <2>4. CASE r.memory.conversation = c
    <3>1. OfConversation(e, c) = OfConversation(s, c) \cup {m} /\ m \notin OfConversation(s, c)
      BY <1>2, <2>4 DEF OfConversation
    <3>2. Cardinality(OfConversation(e, c)) = Cardinality(OfConversation(s, c)) + 1
      BY <2>2, <3>1, FS_AddElement
    <3>3. ~(Cardinality(OfConversation(s, c)) >= q.perConversation) /\ q.perConversation \in Nat
      BY <1>7, <2>4 DEF r, Query
    <3> QED BY <2>2, <3>2, <3>3
  <2> QED BY <2>3, <2>4
<1>8. SharedFrom(q, t, d, n + 1, e)
  BY <1>2, <1>4, <1>6, <1>7 DEF SharedFrom
<1> QED BY <1>8 DEF e, r

-----------------------------------------------------------------------------
(* The page: the floor and the limit.                                        *)
Retains(f, t, s, I) ==
    /\ Increasing(f, Len(t), Len(s))
    /\ \A k \in DOMAIN t : t[k] = s[f[k]] /\ f[k] \in I
    /\ \A i \in I : \E k \in DOMAIN t : f[k] = i

LEMMA KeepingIs ==
    ASSUME NEW X, NEW s \in Seq(X), NEW I, I \subseteq DOMAIN s
    PROVE  /\ Keeping(s, I) \in Seq(X) /\ Len(Keeping(s, I)) <= Len(s)
           /\ \E f : Retains(f, Keeping(s, I), s, I)
<1> DEFINE t == Keeping(s, I)
           R == InTurn(I)
           f == Listed(I, R)
<1>1. DOMAIN s = 1..Len(s) /\ Len(s) \in Nat /\ I \subseteq Nat
  OBVIOUS
<1>2. StrictOrder(R, I)
  BY <1>1, InTurnOrder
<1>3. /\ t \in Seq(X) /\ Len(t) = Cardinality(I) /\ Cardinality(I) \in Nat
      /\ Picks(t, s, f, I)
      /\ \A j, k \in DOMAIN f : j < k => <<f[j], f[k]>> \in R
  <2>1. t = Arrange(s, I, R)
    BY DEF Keeping
  <2> HIDE DEF t, R
  <2> QED BY <1>2, <2>1, ArrangeIs
<1> HIDE DEF t, f
<1>4. /\ DOMAIN t = DOMAIN f /\ DOMAIN t = 1..Len(t) /\ Len(t) \in Nat
      /\ \A k \in DOMAIN t : t[k] = s[f[k]] /\ f[k] \in I
      /\ \A i \in I : \E k \in DOMAIN t : f[k] = i
  BY <1>3 DEF Picks
<1>5. \A j, k \in DOMAIN t : j < k => f[j] < f[k]
  BY <1>3, <1>4 DEF InTurn
<1>6. f \in [1..Len(t) -> 1..Len(s)]
  <2>1. f \in Seq(I) /\ Len(f) = Len(t)
    BY <1>3, <1>4 DEF Picks
  <2> QED BY <1>1, <1>4, <2>1
<1>7. Retains(f, t, s, I)
  BY <1>4, <1>5, <1>6 DEF Retains, Increasing
<1>8. Len(t) <= Len(s)
  <2> DEFINE n == Len(s)
  <2>1. IsFiniteSet(1..n) /\ Cardinality(1..n) = n
    <3>1. n \in Nat
      BY <1>1
    <3> HIDE DEF n
    <3> QED BY <3>1, FS_Interval
  <2>2. I \in SUBSET (1..n)
    BY <1>1
  <2> HIDE DEF n
  <2>3. Cardinality(I) <= Cardinality(1..n)
    BY <2>1, <2>2, FS_Subset, Zenon
  <2> QED BY <1>3, <2>1, <2>3 DEF n
<1> QED BY <1>3, <1>7, <1>8 DEF t

Under(q, r) == r.score * 100 < q.minScore * r.one
\* Why the result at place i of the ranking is not on the page, if it is not.
Reason(q, deduping, t, d, s, paged, i) ==
    \/ Has(paged, t[i])
    \/ deduping /\ \E k \in DOMAIN d : StandsFor(t, d[k], i)
    \/ HadShare(q, t, s, i)
    \/ Under(q, t[i])
    \/ Len(paged) >= q.limit /\ \A k \in DOMAIN paged : Precedes(t, paged[k], i)
PageFrom(q, deduping, A, t, d, s, paged) ==
    /\ paged \in Seq(AnyResult)
    /\ \A i \in DOMAIN t : Reason(q, deduping, t, d, s, paged, i)
    /\ \A i, j \in DOMAIN paged :
          i # j => /\ paged[i].memory.id # paged[j].memory.id
                   /\ deduping => ~SameText(paged[i], paged[j])
    /\ \A i \in DOMAIN paged : ~Under(q, paged[i]) /\ \A id \in ToSet(paged[i].duplicates) :
          /\ \A j \in DOMAIN paged : paged[j].memory.id # id
          /\ \E m \in A : m.id = id /\ m.key = paged[i].memory.key
    /\ q.perConversation > 0 =>
          \A c \in Nat \ {0} : Cardinality(OfConversation(paged, c)) <= q.perConversation

LEMMA PageIs ==
    ASSUME NEW q \in Query, NEW deduping, NEW A, \A m, n \in A : m.id = n.id => m = n,
           NEW t \in Seq(AnyResult), Once(t), Within(t, A),
           NEW d, CollapsedFrom(deduping, t, Len(t), d),
           NEW s, SharedFrom(q, t, d, Len(d), s)
    PROVE  PageFrom(q, deduping, A, t, d, s,
                    Take(q.limit, Keeping(s, {i \in DOMAIN s : ~Under(q, s[i])})))
<1> DEFINE I == {i \in DOMAIN s : ~Under(q, s[i])}
           u == Keeping(s, I)
           paged == Take(q.limit, u)
<1>1. d \in Seq(AnyResult) /\ s \in Seq(AnyResult) /\ q.limit \in Nat
  BY DEF CollapsedFrom, SharedFrom, Query
<1>2. /\ DOMAIN t = 1..Len(t) /\ Len(t) \in Nat
      /\ DOMAIN d = 1..Len(d) /\ Len(d) \in Nat
      /\ DOMAIN s = 1..Len(s) /\ Len(s) \in Nat
  BY <1>1
<1>3. u \in Seq(AnyResult) /\ \E h : Retains(h, u, s, I)
  <2>1. I \subseteq DOMAIN s
    OBVIOUS
  <2> HIDE DEF I
  <2> QED BY <1>1, <2>1, KeepingIs
<1> HIDE DEF u
<1>4. PICK h : Retains(h, u, s, I)
  BY <1>3
<1>5. /\ paged \in Seq(AnyResult) /\ Len(paged) = (IF q.limit < Len(u) THEN q.limit ELSE Len(u))
      /\ \A k \in DOMAIN paged : k \in DOMAIN u /\ paged[k] = u[k]
      /\ \A k \in DOMAIN u : k <= q.limit => k \in DOMAIN paged
  BY <1>1, <1>3, TakeIs
<1> HIDE DEF paged
<1>6. PICK f : Increasing(f, Len(s), Len(d)) /\ \A k \in DOMAIN s : s[k] = d[f[k]]
  BY DEF SharedFrom, Chosen
<1>7. Drawn(d, t, Len(t))
  BY DEF CollapsedFrom
<1>8. \A k \in DOMAIN s : f[k] \in DOMAIN d /\ \A j \in DOMAIN s : j < k => f[j] < f[k]
  BY <1>2, <1>6 DEF Increasing
<1>9. \A k \in DOMAIN u : h[k] \in DOMAIN s /\ h[k] \in I /\ u[k] = s[h[k]]
                          /\ \A j \in DOMAIN u : j < k => h[j] < h[k]
  <2>1. DOMAIN u = 1..Len(u)
    BY <1>3
  <2> QED BY <1>2, <1>4, <2>1 DEF Retains, Increasing
<1> DEFINE p(k) == f[h[k]]
<1>10. \A k \in DOMAIN paged : /\ p(k) \in DOMAIN d /\ paged[k] = d[p(k)] /\ ~Under(q, paged[k])
                              /\ paged[k] \in AnyResult
  BY <1>1, <1>5, <1>6, <1>8, <1>9
<1>11. \A j, k \in DOMAIN paged : j < k => p(j) < p(k)
  BY <1>5, <1>8, <1>9
<1>12. \A j, k \in DOMAIN paged : j # k => p(j) # p(k)
  <2>1. \A k \in DOMAIN paged : k \in Nat /\ p(k) \in Nat
    BY <1>2, <1>5, <1>10
  <2> QED BY <1>11, <2>1
<1>13. \A k \in DOMAIN d : \E i \in DOMAIN t : SameAs(d[k], t[i])
  <2>1. PICK g : Increasing(g, Len(d), Len(t)) /\ \A k \in DOMAIN d : SameAs(d[k], t[g[k]])
    BY <1>7 DEF Drawn
  <2>2. \A k \in DOMAIN d : g[k] \in DOMAIN t
    BY <1>2, <2>1 DEF Increasing
  <2> QED BY <2>1, <2>2
<1>14. ASSUME NEW j \in DOMAIN d, NEW k \in DOMAIN d, d[j].memory.id = d[k].memory.id
       PROVE  j = k
  <2>1. d[j].memory \in A /\ d[k].memory \in A
    BY <1>13 DEF SameAs, Within
  <2>2. d[j].memory = d[k].memory
    BY <1>14, <2>1
  <2>3. PICK g : Increasing(g, Len(d), Len(t)) /\ \A l \in DOMAIN d : SameAs(d[l], t[g[l]])
    BY <1>7 DEF Drawn
  <2>4. g[j] \in DOMAIN t /\ g[k] \in DOMAIN t /\ t[g[j]].memory = t[g[k]].memory
    BY <1>2, <2>2, <2>3 DEF Increasing, SameAs
  <2>5. g[j] = g[k]
    BY <2>4 DEF Once
  <2> QED BY <1>2, <2>3, <2>5, IncreasingOnce
<1>15. ASSUME NEW i \in DOMAIN t PROVE Reason(q, deduping, t, d, s, paged, i)
  <2>1. Has(d, t[i]) \/ (deduping /\ \E k \in DOMAIN d : StandsFor(t, d[k], i))
    BY <1>2 DEF CollapsedFrom
  <2>2. CASE ~Has(d, t[i])
    BY <2>1, <2>2 DEF Reason
  <2>3. CASE Has(d, t[i])
    <3>1. PICK k \in DOMAIN d : d[k].memory = t[i].memory
      BY <2>3 DEF Has
    <3>2. Has(s, t[i]) \/ HadShare(q, t, s, i)
      BY <1>2, <3>1 DEF SharedFrom
    <3>3. CASE ~Has(s, t[i])
      BY <3>2, <3>3 DEF Reason
    <3>4. CASE Has(s, t[i])
      <4>1. PICK l \in DOMAIN s : s[l].memory = t[i].memory
        BY <3>4 DEF Has
      <4>2. SameAs(s[l], t[i])
        <5>1. f[l] \in DOMAIN d /\ s[l] = d[f[l]]
          BY <1>6, <1>8
        <5>2. PICK j \in DOMAIN t : SameAs(s[l], t[j])
          BY <1>13, <5>1
        <5>3. j = i
          BY <4>1, <5>2 DEF SameAs, Once
        <5> QED BY <5>2, <5>3
      <4>3. CASE Under(q, s[l])
        <5>1. Under(q, t[i])
          BY <4>2, <4>3 DEF Under, SameAs
        <5> QED BY <5>1 DEF Reason
      <4>4. CASE ~Under(q, s[l])
        <5>1. l \in I
          BY <4>4
        <5>2. PICK z \in DOMAIN u : h[z] = l
          BY <1>4, <5>1 DEF Retains
        <5>3. u[z].memory = t[i].memory
          BY <1>9, <4>1, <5>2
        <5>4. CASE z \in DOMAIN paged
          <6>1. Has(paged, t[i])
            BY <1>5, <5>3, <5>4 DEF Has
          <6> QED BY <6>1 DEF Reason
        <5>5. CASE z \notin DOMAIN paged
          <6>1. z > q.limit /\ z \in 1..Len(u) /\ Len(u) \in Nat
            BY <1>1, <1>3, <1>5, <5>5
          <6>2. Len(paged) = q.limit
            BY <1>1, <1>5, <6>1
          <6>3. ASSUME NEW x \in DOMAIN paged PROVE Precedes(t, paged[x], i)
            <7>1. x < z /\ x \in DOMAIN u
              BY <1>1, <1>5, <6>1, <6>2
            <7>2. h[x] < l /\ h[x] \in DOMAIN s
              BY <1>9, <5>2, <7>1
            <7>3. f[h[x]] < f[l] /\ f[l] \in DOMAIN d
              BY <1>8, <7>2
            <7>4. d[f[l]].memory = t[i].memory
              BY <1>6, <4>1
            <7>5. Precedes(t, d[f[h[x]]], i)
              <8>1. f[h[x]] \in DOMAIN d /\ i \in DOMAIN t
                BY <1>10
              <8>2. Len(t) \in Nat /\ Len(t) <= Len(t)
                BY <1>2
              <8> QED BY <1>1, <1>2, <1>7, <7>3, <7>4, <8>1, <8>2, DrawnInTurn
            <7> QED BY <1>10, <7>5
          <6>4. Len(paged) >= q.limit
            BY <1>1, <6>2
          <6> QED BY <6>3, <6>4 DEF Reason
        <5> QED BY <5>4, <5>5
      <4> QED BY <4>3, <4>4
    <3> QED BY <3>3, <3>4
  <2> QED BY <2>2, <2>3
<1>16. ASSUME NEW i \in DOMAIN paged, NEW j \in DOMAIN paged, i # j
       PROVE  /\ paged[i].memory.id # paged[j].memory.id
              /\ deduping => ~SameText(paged[i], paged[j])
  <2>1. p(i) # p(j) /\ p(i) \in DOMAIN d /\ p(j) \in DOMAIN d /\ paged[i] = d[p(i)] /\ paged[j] = d[p(j)]
    BY <1>10, <1>12, <1>16
  <2> HIDE DEF p
  <2>2. deduping => ~SameText(d[p(i)], d[p(j)])
    BY <2>1 DEF CollapsedFrom
  <2> QED BY <1>14, <2>1, <2>2
<1>17. ASSUME NEW i \in DOMAIN paged, NEW id \in ToSet(paged[i].duplicates)
       PROVE  /\ \A j \in DOMAIN paged : paged[j].memory.id # id
              /\ \E m \in A : m.id = id /\ m.key = paged[i].memory.key
  <2>1. p(i) \in DOMAIN d /\ paged[i] = d[p(i)]
    BY <1>10
  <2> HIDE DEF p
  <2>2. PICK x \in 1..Len(t) : t[x].memory.id = id /\ t[x].memory.key = paged[i].memory.key /\ ~Has(d, t[x])
    BY <1>17, <2>1 DEF CollapsedFrom, WentWith
  <2>3. t[x].memory \in A
    BY <1>2 DEF Within
  <2>4. ASSUME NEW j \in DOMAIN paged, paged[j].memory.id = id PROVE FALSE
    <3>1. p(j) \in DOMAIN d /\ paged[j] = d[p(j)]
      BY <1>10 DEF p
    <3>2. d[p(j)].memory \in A
      BY <1>13, <3>1 DEF SameAs, Within
    <3>3. d[p(j)].memory = t[x].memory
      BY <2>2, <2>3, <2>4, <3>1, <3>2
    <3> QED BY <2>2, <3>1, <3>3 DEF Has
  <2> QED BY <2>2, <2>3, <2>4
<1>18. ASSUME q.perConversation > 0, NEW c \in Nat \ {0}
       PROVE  Cardinality(OfConversation(paged, c)) <= q.perConversation
  <2> DEFINE K == OfConversation(paged, c)
             S == OfConversation(s, c)
             z == [k \in K |-> h[k]]
  <2>1. \A k \in K : h[k] \in S
    BY <1>5, <1>9 DEF OfConversation
  <2>2. \A j, k \in K : h[j] = h[k] => j = k
    BY <1>12 DEF OfConversation
  <2>3. z \in [K -> S] /\ \A j, k \in K : z[j] = z[k] => j = k
    BY <2>1, <2>2
  <2>4. IsFiniteSet(S) /\ Cardinality(S) \in Nat
    <3>1. S \subseteq DOMAIN s
      BY DEF OfConversation
    <3> QED BY <1>1, <3>1, PlacesFinite
  <2>5. IsFiniteSet(K) /\ Cardinality(K) \in Nat
    <3>1. K \subseteq DOMAIN paged
      BY DEF OfConversation
    <3> QED BY <1>5, <3>1, PlacesFinite
  <2> HIDE DEF K, S, z
  <2>6. z \in Injection(K, S)
    BY <2>3, Zenon DEF Injection, IsInjective
  <2>7. Cardinality(K) <= Cardinality(S)
    BY <2>4, <2>6, FS_Injection, Zenon
  <2>8. Cardinality(S) <= q.perConversation /\ q.perConversation \in Nat
    BY <1>18 DEF SharedFrom, S, Query
  <2> QED BY <2>4, <2>5, <2>7, <2>8 DEF K
<1>19. PageFrom(q, deduping, A, t, d, s, paged)
  BY <1>5, <1>10, <1>15, <1>16, <1>17, <1>18 DEF PageFrom
<1> QED BY <1>19 DEF paged, u

-----------------------------------------------------------------------------
(* What is fetched, and the results of the server.                           *)
LEMMA ScoredType ==
    ASSUME NEW m \in Memory, NEW score \in Nat, NEW full \in Nat \ {0}
    PROVE  /\ Scored(m, score, full) \in AnyResult
           /\ Scored(m, score, full).memory = m /\ Scored(m, score, full).duplicates = << >>
<1> DEFINE boost == StatusBoost(m)
           canon == IF m.canonical THEN 5 ELSE 4
           points == applyCanonicalBoost(m, score)
           one == full * 200
<1>1. boost \in Nat
  BY DEF StatusBoost
<1>2. points = score * canon * boost
  BY DEF applyCanonicalBoost
<1> HIDE DEF boost, points
<1>3. canon \in Nat
  OBVIOUS
<1> HIDE DEF canon
<1>4. points \in Nat /\ one \in Nat \ {0}
  BY <1>1, <1>2, <1>3
<1>5. Scored(m, score, full) = [memory |-> m, score |-> points, one |-> one, duplicates |-> << >>]
  BY DEF Scored, Result, points
<1> HIDE DEF one
<1> QED BY <1>4, <1>5 DEF AnyResult

LEMMA ArchiveOrders ==
    ASSUME archive \in Archives
    PROVE  /\ IsFiniteSet(archive) /\ archive \subseteq Memory
           /\ \A m, n \in archive : m.id = n.id => m = n
           /\ StrictOrder(Nearest, archive) /\ StrictOrder(ById, archive)
<1>1. /\ IsFiniteSet(archive) /\ archive \subseteq Memory
      /\ \A m, n \in archive : m.id = n.id => m = n
  BY RecallAssumption
<1>2. \A m \in archive : m.id \in Nat /\ m.dense \in Nat
  BY <1>1 DEF Memory
<1>3. \A m, n \in archive :
          /\ <<m, n>> \in ById <=> m.id < n.id
          /\ <<m, n>> \in Nearest <=> m.dense > n.dense \/ (m.dense = n.dense /\ m.id < n.id)
  BY DEF ById, Nearest
<1>4. StrictOrder(ById, archive)
  BY <1>1, <1>2, <1>3 DEF StrictOrder
<1>5. StrictOrder(Nearest, archive)
  BY <1>1, <1>2, <1>3 DEF StrictOrder
<1> QED BY <1>1, <1>4, <1>5

LEMMA PointsAre ==
    ASSUME archive \in Archives, query \in Query
    PROVE  /\ LookedAt \in Seq(archive)
           /\ \A j, k \in DOMAIN LookedAt : LookedAt[j] = LookedAt[k] => j = k
<1>1. IsFiniteSet(archive) /\ StrictOrder(Nearest, archive) /\ StrictOrder(ById, archive)
  BY ArchiveOrders
<1> DEFINE near == Listed(archive, Nearest)
           every == Listed(archive, ById)
<1>2. Lists(near, archive, Nearest) /\ Lists(every, archive, ById) /\ Cardinality(archive) \in Nat
  BY <1>1, ListedIs
<1> HIDE DEF near, every
<1>3. /\ near \in Seq(archive) /\ every \in Seq(archive)
      /\ \A j, k \in DOMAIN near : near[j] = near[k] => j = k
      /\ \A j, k \in DOMAIN every : every[j] = every[k] => j = k
  <2> DEFINE n == Cardinality(archive)
  <2>1. near \in [1..n -> archive] /\ every \in [1..n -> archive] /\ n \in Nat
    BY <1>2 DEF Lists
  <2>2. /\ \A j, k \in 1..n : near[j] = near[k] => j = k
        /\ \A j, k \in 1..n : every[j] = every[k] => j = k
    BY <1>2 DEF Lists
  <2> HIDE DEF n
  <2> QED BY <2>1, <2>2
<1>4. candidateLimit \in Nat
  BY RecallAssumption DEF candidateLimit, Query
<1>5. CASE store = "qdrant"
  <2>1. LookedAt = Take(candidateLimit, near)
    BY <1>5 DEF LookedAt, near
  <2> HIDE DEF LookedAt
  <2>2. /\ LookedAt \in Seq(archive)
        /\ \A k \in DOMAIN LookedAt : k \in DOMAIN near /\ LookedAt[k] = near[k]
    BY <1>3, <1>4, <2>1, TakeIs
  <2> QED BY <1>3, <2>2
<1>6. CASE store # "qdrant"
  <2>1. LookedAt = every
    BY <1>6 DEF LookedAt, every
  <2> QED BY <1>3, <2>1
<1> QED BY <1>5, <1>6

LEMMA MatchedType ==
    ASSUME NEW m \in Memory
    PROVE  Matched(m) \in AnyResult /\ Matched(m).memory = m /\ Matched(m).duplicates = << >>
<1>1. Similarity \in Nat \ {0} /\ QueryWords \in Nat \ {0} /\ m.dense \in Nat /\ m.words \in Nat
  BY RecallAssumption DEF Memory
<1> QED BY <1>1, ScoredType DEF Matched

\* The first n points that match, each once.
Fetched(points, n, p) ==
    /\ p \in Seq(AnyResult) /\ Once(p)
    /\ \A i \in DOMAIN p : \E k \in 1..n : p[i].memory = points[k]

LEMMA FetchedOn ==
    ASSUME NEW points \in Seq(Memory), \A j, k \in DOMAIN points : points[j] = points[k] => j = k,
           NEW n \in Nat, n < Len(points), NEW p, Fetched(points, n, p),
           NEW r \in AnyResult, r.memory = points[n + 1], r.duplicates = << >>
    PROVE  Fetched(points, n + 1, p) /\ Fetched(points, n + 1, Append(p, r))
<1> DEFINE e == Append(p, r)
<1>1. p \in Seq(AnyResult) /\ DOMAIN points = 1..Len(points) /\ Len(points) \in Nat
  BY DEF Fetched
<1>2. /\ e \in Seq(AnyResult) /\ DOMAIN p = 1..Len(p) /\ Len(p) \in Nat /\ DOMAIN e = 1..Len(p) + 1
      /\ \A k \in DOMAIN p : e[k] = p[k]
      /\ e[Len(p) + 1] = r
  BY <1>1
<1> HIDE DEF e
<1>3. \A i \in DOMAIN p : \E k \in 1..n + 1 : p[i].memory = points[k]
  BY DEF Fetched
<1>4. \A i \in DOMAIN p : p[i].memory # r.memory
  <2> TAKE i \in DOMAIN p
  <2>1. PICK k \in 1..n : p[i].memory = points[k]
    BY DEF Fetched
  <2>2. k \in DOMAIN points /\ n + 1 \in DOMAIN points /\ k # n + 1
    BY <1>1
  <2> QED BY <2>1, <2>2
<1>5. ASSUME NEW i \in DOMAIN e
      PROVE  (i \in DOMAIN p /\ e[i] = p[i]) \/ (i = Len(p) + 1 /\ e[i] = r)
  BY <1>2
<1>6. Once(e)
  <2>1. \A i \in DOMAIN e : e[i].duplicates = << >>
    BY <1>5 DEF Fetched, Once
  <2>2. \A i, j \in DOMAIN e : e[i].memory = e[j].memory => i = j
    BY <1>4, <1>5 DEF Fetched, Once
  <2> QED BY <2>1, <2>2 DEF Once
<1>7. \A i \in DOMAIN e : \E k \in 1..n + 1 : e[i].memory = points[k]
  BY <1>3, <1>5
<1>8. Fetched(points, n + 1, e)
  BY <1>2, <1>6, <1>7 DEF Fetched
<1> QED BY <1>1, <1>3, <1>8 DEF Fetched, e

LEMMA ProposedType ==
    proposedCandidatesToResults \in Seq(AnyResult)
<1> DEFINE I == {i \in DOMAIN Proposals : ~Excluded(Proposals[i], Hidden) /\ Proposals[i].words > 0}
           proposals == Proposals
           shown == Keeping(Proposals, I)
           made(m) == Scored([m EXCEPT !.canonical = FALSE], m.words, QueryWords)
<1>1. shown \in Seq(Memory)
  <2>1. I \subseteq DOMAIN Proposals /\ Proposals \in Seq(Memory)
    BY RecallAssumption
  <2> HIDE DEF I
  <2> QED BY <2>1, KeepingIs
<1>2. proposedCandidatesToResults = [i \in DOMAIN shown |-> made(shown[i])]
  BY DEF proposedCandidatesToResults
<1> HIDE DEF shown
<1>3. ASSUME NEW m \in Memory PROVE made(m) \in AnyResult
  <2>1. [m EXCEPT !.canonical = FALSE] \in Memory /\ m.words \in Nat
    BY DEF Memory
  <2>2. QueryWords \in Nat \ {0}
    BY RecallAssumption
  <2> QED BY <2>1, <2>2, ScoredType
<1> HIDE DEF made
<1>4. \A i \in DOMAIN shown : made(shown[i]) \in AnyResult
  BY <1>1, <1>3
<1>5. DOMAIN shown = 1..Len(shown) /\ Len(shown) \in Nat
  BY <1>1
<1> QED BY <1>2, <1>4, <1>5

LEMMA FloorType ==
    ASSUME NEW s \in Seq(AnyResult)
    PROVE  /\ ApplyMinScore(s) \in Seq(AnyResult) /\ Len(ApplyMinScore(s)) <= Len(s)
           /\ ApplyMinScore(s) = Keeping(s, {i \in DOMAIN s : ~Under(query, s[i])})
<1> DEFINE I == {i \in DOMAIN s : ~Below(s[i])}
<1>1. ApplyMinScore(s) = Keeping(s, I)
  BY DEF ApplyMinScore
<1>2. I = {i \in DOMAIN s : ~Under(query, s[i])}
  BY DEF Below, Under
<1>3. I \subseteq DOMAIN s
  OBVIOUS
<1> HIDE DEF I
<1> QED BY <1>1, <1>2, <1>3, KeepingIs

LEMMA ResultsAre ==
    ASSUME query \in Query, NEW paged \in Seq(AnyResult)
    PROVE  /\ searchWithCanonOptions(paged) \in Seq(AnyResult)
           /\ Len(searchWithCanonOptions(paged)) <= query.limit
<1> DEFINE all == paged \o IF query.proposed THEN proposedCandidatesToResults ELSE << >>
           canon == Arrange(all, DOMAIN all, ByCanon(all))
           chosen == IF query.canonicalFirst THEN canon ELSE all
           cut == Take(query.limit, chosen)
<1>1. searchWithCanonOptions(paged) = ApplyMinScore(cut)
  BY DEF searchWithCanonOptions
<1>2. all \in Seq(AnyResult)
  BY ProposedType
<1> HIDE DEF all
<1>3. canon \in Seq(AnyResult)
  <2>1. Arranged(all, ByCanon(all), canon)
    BY <1>2, ByCanonOrder, ArrangeAll
  <2> HIDE DEF canon
  <2> QED BY <2>1 DEF Arranged
<1>4. chosen \in Seq(AnyResult) /\ query.limit \in Nat
  BY <1>2, <1>3 DEF Query
<1> HIDE DEF chosen
<1>5. cut \in Seq(AnyResult) /\ Len(cut) <= query.limit /\ Len(cut) \in Nat
  <2>1. cut \in Seq(AnyResult) /\ Len(cut) = (IF query.limit < Len(chosen) THEN query.limit ELSE Len(chosen))
    BY <1>4, TakeIs
  <2> HIDE DEF cut
  <2> QED BY <1>4, <2>1
<1> HIDE DEF cut
<1>6. ApplyMinScore(cut) \in Seq(AnyResult) /\ Len(ApplyMinScore(cut)) <= Len(cut)
  BY <1>5, FloorType
<1> DEFINE out == ApplyMinScore(cut)
<1> HIDE DEF out
<1>7. out \in Seq(AnyResult) /\ Len(out) <= Len(cut)
  BY <1>6 DEF out
<1>8. Len(out) <= query.limit
  BY <1>4, <1>5, <1>7
<1> QED BY <1>1, <1>7, <1>8 DEF out

-----------------------------------------------------------------------------
(* The context pack.                                                         *)
Cost(q, r) == r.memory.quote + IF q.quoteOnly THEN 0 ELSE r.memory.size
Costs(q, o) == [k \in DOMAIN o |-> Cost(q, o[k])]
LeftOut(n, places) == (1..n) \ ToSet(places)

\* What p is after the first n results of o.
Packed(q, o, n, p) ==
    /\ p \in [used : Nat, dropped : Nat, kept : Seq(Nat)]
    /\ Increasing(p.kept, Len(p.kept), n)
    /\ p.used = SumOf(Costs(q, o), ToSet(p.kept))
    /\ p.dropped = Cardinality(LeftOut(n, p.kept)) /\ Len(p.kept) + p.dropped = n
    /\ LeftOut(n, p.kept) # {} => q.budget > 0
    /\ q.budget > 0 =>
          p.used <= q.budget /\ \A k \in LeftOut(n, p.kept) : p.used + Costs(q, o)[k] > q.budget

LEMMA CostsType ==
    ASSUME NEW q, NEW o \in Seq(AnyResult)
    PROVE  \A k \in 1..Len(o) : Costs(q, o)[k] = Cost(q, o[k]) /\ Costs(q, o)[k] \in Nat
<1> TAKE k \in 1..Len(o)
<1>1. o[k] \in AnyResult /\ k \in DOMAIN o
  OBVIOUS
<1>2. o[k].memory.quote \in Nat /\ o[k].memory.size \in Nat
  BY <1>1, ResultTypes
<1> QED BY <1>1, <1>2 DEF Costs, Cost

LEMMA KeptPlaces ==
    ASSUME NEW n \in Nat, NEW paged \in Seq(Nat), Increasing(paged, Len(paged), n)
    PROVE  /\ ToSet(paged) \subseteq 1..n
           /\ IsFiniteSet(ToSet(paged)) /\ IsFiniteSet(LeftOut(n, paged))
           /\ Cardinality(LeftOut(n, paged)) \in Nat
<1>1. DOMAIN paged = 1..Len(paged) /\ \A k \in DOMAIN paged : paged[k] \in 1..n
  BY DEF Increasing
<1>2. ToSet(paged) \subseteq 1..n
  BY <1>1 DEF ToSet
<1>3. IsFiniteSet(1..n)
  BY FS_Interval
<1>4. LeftOut(n, paged) \subseteq 1..n
  BY DEF LeftOut
<1>5. IsFiniteSet(ToSet(paged)) /\ IsFiniteSet(LeftOut(n, paged))
  BY <1>2, <1>3, <1>4, FS_Subset
<1> QED BY <1>2, <1>5, FS_CardinalityType

LEMMA PackDropped ==
    ASSUME NEW q \in Query, NEW o \in Seq(AnyResult), NEW n \in Nat, n < Len(o),
           NEW p, Packed(q, o, n, p),
           q.budget > 0, p.used + Cost(q, o[n + 1]) > q.budget
    PROVE  Packed(q, o, n + 1, [p EXCEPT !.dropped = @ + 1])
<1> DEFINE e == [p EXCEPT !.dropped = @ + 1]
           L == LeftOut(n, p.kept)
           M == LeftOut(n + 1, p.kept)
<1>1. /\ p \in [used : Nat, dropped : Nat, kept : Seq(Nat)]
      /\ p.kept \in Seq(Nat) /\ p.used \in Nat /\ p.dropped \in Nat
      /\ Increasing(p.kept, Len(p.kept), n)
  BY DEF Packed
<1>2. /\ e \in [used : Nat, dropped : Nat, kept : Seq(Nat)]
      /\ e.kept = p.kept /\ e.used = p.used /\ e.dropped = p.dropped + 1
  BY <1>1, SMTT(30)
<1> HIDE DEF e
<1>3. ToSet(p.kept) \subseteq 1..n /\ IsFiniteSet(L) /\ Cardinality(L) \in Nat
  BY <1>1, KeptPlaces
<1>4. M = L \cup {n + 1} /\ n + 1 \notin L
  <2>1. n + 1 \notin ToSet(p.kept)
    BY <1>3
  <2> QED BY <2>1 DEF LeftOut
<1> HIDE DEF L, M
<1>5. Cardinality(M) = Cardinality(L) + 1
  BY <1>3, <1>4, FS_AddElement
<1>6. Costs(q, o)[n + 1] = Cost(q, o[n + 1])
  BY CostsType
<1>7. p.dropped = Cardinality(L) /\ Len(p.kept) + p.dropped = n
  BY DEF Packed, L
<1>8. \A k \in M : p.used + Costs(q, o)[k] > q.budget
  BY <1>4, <1>6 DEF Packed, L
<1>9. Increasing(p.kept, Len(p.kept), n + 1)
  <2>1. Len(p.kept) \in Nat
    BY <1>1
  <2> QED BY <1>1, <2>1, IncreasingOn
<1>10. Len(p.kept) + (p.dropped + 1) = n + 1
  BY <1>1, <1>7
<1> QED BY <1>2, <1>5, <1>7, <1>8, <1>9, <1>10 DEF Packed, M, e

LEMMA PackTaken ==
    ASSUME NEW q \in Query, NEW o \in Seq(AnyResult), NEW n \in Nat, n < Len(o),
           NEW p, Packed(q, o, n, p),
           ~(q.budget > 0 /\ p.used + Cost(q, o[n + 1]) > q.budget)
    PROVE  Packed(q, o, n + 1,
                  [p EXCEPT !.used = @ + Cost(q, o[n + 1]), !.kept = Append(@, n + 1)])
<1> DEFINE c == Cost(q, o[n + 1])
           e == [p EXCEPT !.used = @ + c, !.kept = Append(@, n + 1)]
           w == Costs(q, o)
<1>1. /\ p \in [used : Nat, dropped : Nat, kept : Seq(Nat)]
      /\ p.kept \in Seq(Nat) /\ p.used \in Nat /\ p.dropped \in Nat
      /\ Increasing(p.kept, Len(p.kept), n)
  BY DEF Packed
<1>2. w[n + 1] = c /\ c \in Nat /\ \A k \in 1..Len(o) : w[k] \in Nat
  <2>1. n + 1 \in 1..Len(o)
    OBVIOUS
  <2>2. \A k \in 1..Len(o) : w[k] = Cost(q, o[k]) /\ w[k] \in Nat
    BY CostsType
  <2> QED BY <2>1, <2>2
<1> HIDE DEF w, c
<1>3. /\ e \in [used : Nat, dropped : Nat, kept : Seq(Nat)]
      /\ e.kept = Append(p.kept, n + 1) /\ e.used = p.used + c /\ e.dropped = p.dropped
  <2>1. p.used + c \in Nat /\ Append(p.kept, n + 1) \in Seq(Nat)
    BY <1>1, <1>2
  <2> QED BY <1>1, <2>1
<1> HIDE DEF e
<1> DEFINE S == ToSet(p.kept)
<1>4. S \subseteq 1..n /\ IsFiniteSet(S)
  BY <1>1, KeptPlaces
<1>5. ToSet(e.kept) = S \cup {n + 1} /\ Len(e.kept) = Len(p.kept) + 1 /\ Len(p.kept) \in Nat
  <2>1. n + 1 \in Nat
    OBVIOUS
  <2> QED BY <1>1, <1>3, <2>1, SetOfAppended
<1>6. n + 1 \notin S /\ n + 1 \in 1..Len(o) /\ S \subseteq 1..Len(o)
  BY <1>4
<1>7. LeftOut(n + 1, e.kept) = LeftOut(n, p.kept)
  BY <1>4, <1>5 DEF LeftOut
<1> HIDE DEF S
<1>8. SumOf(w, S \cup {n + 1}) = SumOf(w, S) + w[n + 1]
  <2>1. \A k \in S \cup {n + 1} : w[k] \in Nat
    BY <1>2, <1>6
  <2> QED BY <1>4, <1>6, <2>1, SumAdds
<1>9. e.used = SumOf(w, ToSet(e.kept))
  BY <1>2, <1>3, <1>5, <1>8 DEF Packed, w, S
<1>10. Increasing(e.kept, Len(e.kept), n + 1)
  <2> DEFINE g == [k \in 1..Len(p.kept) + 1 |-> IF k <= Len(p.kept) THEN p.kept[k] ELSE n + 1]
  <2>1. Increasing(g, Len(p.kept) + 1, n + 1)
    BY <1>1, <1>5, IncreasingOn
  <2>2. e.kept = g
    BY <1>1, <1>3
  <2> HIDE DEF g
  <2> QED BY <1>5, <2>1, <2>2
<1>11. e.dropped = Cardinality(LeftOut(n + 1, e.kept)) /\ Len(e.kept) + e.dropped = n + 1
  <2>1. p.dropped = Cardinality(LeftOut(n, p.kept)) /\ Len(p.kept) + p.dropped = n
    BY DEF Packed
  <2> QED BY <1>1, <1>3, <1>5, <1>7, <2>1
<1>12. LeftOut(n + 1, e.kept) # {} => q.budget > 0
  BY <1>7 DEF Packed
<1>13. ASSUME q.budget > 0
       PROVE  e.used <= q.budget /\ \A k \in LeftOut(n + 1, e.kept) : e.used + w[k] > q.budget
  <2>1. q.budget \in Nat
    BY DEF Query
  <2>2. e.used <= q.budget
    BY <1>1, <1>2, <1>3, <1>13, <2>1 DEF c
  <2>3. ASSUME NEW k \in LeftOut(n, p.kept) PROVE e.used + w[k] > q.budget
    <3>1. p.used + w[k] > q.budget
      BY <1>13 DEF Packed, w
    <3>2. w[k] \in Nat
      BY <1>2 DEF LeftOut
    <3> QED BY <1>1, <1>2, <1>3, <2>1, <3>1, <3>2, SMTT(30)
  <2> QED BY <1>7, <2>2, <2>3
<1>14. Packed(q, o, n + 1, e)
  BY <1>3, <1>9, <1>10, <1>11, <1>12, <1>13 DEF Packed, w
<1> QED BY <1>14 DEF e, c

LEMMA PackSum ==
    ASSUME NEW o, NEW w, NEW S, IsFiniteSet(S),
           \A k \in S : w[k] = packItemCharacters(o[k]) /\ w[k] \in Nat
    PROVE  LET Size(k) == packItemCharacters(o[k])
           IN  MapThenSumSet(Size, S) = SumOf(w, S)
<1> DEFINE Size(k) == packItemCharacters(o[k])
           Taken(f) == f = [T \in SUBSET S |-> IF T = {} THEN 0 ELSE Size(Pick(T)) + f[T \ {Pick(T)}]]
           g == CHOOSE g : Taken(g)
<1>1. MapThenSumSet(Size, S) = g[S]
  BY DEF MapThenSumSet, MapThenFoldSet, Pick
<1>2. \A T \in SUBSET S : T # {} => w[Pick(T)] = Size(Pick(T))
  BY DEF Pick
<1> HIDE DEF Size
<1>3. \A f : Taken(f) <=> IsSum(f, S, w)
  BY <1>2 DEF IsSum
<1>5. \E f : Taken(f)
  <2> HIDE DEF Taken
  <2> QED BY <1>3, SumExists
<1>6. IsSum(g, S, w)
  <2>1. Taken(g)
    <3> HIDE DEF Taken
    <3> QED BY <1>5
  <2> HIDE DEF g, Taken
  <2> QED BY <1>3, <2>1
<1> HIDE DEF g
<1>7. SumOf(w, S) = g[S]
  BY <1>6, SumIsAny
<1> QED BY <1>1, <1>7 DEF Size

-----------------------------------------------------------------------------
(* The stages of a search, one after another.                                *)
NoPack == [used |-> 0, dropped |-> 0, kept |-> << >>]
OrderedFrom(q, s, o) ==
    /\ o \in Seq(AnyResult) /\ Len(o) = Len(s) /\ \A r \in ToSet(s) : r \in ToSet(o)
    /\ q.chronological =>
          \A i, j \in DOMAIN o : i < j => o[i].memory.time <= o[j].memory.time
Collapsing == CollapsedFrom(Deduping, ranked, visited, distinct)
HasCollapsed == CollapsedFrom(Deduping, ranked, Len(ranked), distinct)

\* The inductive invariant: each loop has done its work on what it has been
\* through, and each stage rests on the one before it.
RecallInv ==
    /\ archive \in Archives /\ query \in Queries /\ visited \in Nat
    /\ stage \in {"matching", "collapsing", "sharing", "found", "packing"}
    /\ stage = "matching" => /\ visited <= Len(LookedAt) /\ Fetched(LookedAt, visited, pool)
                             /\ distinct = << >>
    /\ stage # "matching" => RankedFrom(query, archive, pool, ranked)
    /\ stage = "collapsing" => visited <= Len(ranked) /\ Collapsing
    /\ stage \in {"sharing", "found"} => HasCollapsed
    /\ stage \in {"matching", "collapsing"} => shared = << >>
    /\ stage = "sharing" =>
          visited <= Len(distinct) /\ SharedFrom(query, ranked, distinct, visited, shared)
    /\ stage = "found" =>
          /\ visited = 0 /\ found.results \in Seq(AnyResult) /\ Len(found.results) <= query.limit
          /\ PageFrom(query, Deduping, archive, ranked, distinct, shared, found.kept)
    /\ stage # "packing" => pack = NoPack
    /\ stage = "packing" => /\ OrderedFrom(query, found.results, ordered) /\ visited <= Len(ordered)
                            /\ Packed(query, ordered, visited, pack)

LEMMA QueryTypes ==
    ASSUME query \in Queries
    PROVE  query \in Query /\ Deduping \in BOOLEAN
BY RecallAssumption DEF Deduping, Query

LEMMA RecallInitInv == RecallInit => RecallInv
<1> SUFFICES ASSUME RecallInit PROVE RecallInv
  OBVIOUS
<1>1. LookedAt \in Seq(archive)
  BY QueryTypes, PointsAre DEF RecallInit
<1> DEFINE points == LookedAt
<1> HIDE DEF points
<1>2. points \in Seq(archive)
  BY <1>1 DEF points
<1>3. 0 <= Len(points)
  BY <1>2
<1>4. Fetched(points, 0, << >>)
  BY DEF Fetched, Once
<1> QED BY <1>3, <1>4 DEF RecallInit, RecallInv, NoPack, points

LEMMA MatchInv == RecallInv /\ Match => RecallInv'
<1> SUFFICES ASSUME RecallInv, Match PROVE RecallInv'
  OBVIOUS
<1> DEFINE points == LookedAt
           m == points[visited + 1]
           r == Matched(m)
<1>1. /\ archive \in Archives /\ query \in Query /\ visited \in Nat /\ stage = "matching"
      /\ visited < Len(points) /\ Fetched(points, visited, pool)
      /\ pool' = IF Shown(m) THEN Append(pool, r) ELSE pool
  BY QueryTypes DEF RecallInv, Match
<1>2. points \in Seq(archive) /\ \A j, k \in DOMAIN points : points[j] = points[k] => j = k
  BY <1>1, PointsAre
<1>3. LookedAt' = points
  BY DEF Match, LookedAt, candidateLimit, Nearest, ById
<1> HIDE DEF points
<1>4. points \in Seq(Memory) /\ m \in Memory
  <2>1. archive \subseteq Memory
    BY <1>1, ArchiveOrders
  <2>2. points \in Seq(Memory) /\ visited + 1 \in DOMAIN points
    BY <1>1, <1>2, <2>1
  <2> QED BY <2>2
<1>5. r \in AnyResult /\ r.memory = m /\ r.duplicates = << >>
  BY <1>4, MatchedType
<1> HIDE DEF r
<1>6. Fetched(points, visited + 1, pool) /\ Fetched(points, visited + 1, Append(pool, r))
  BY <1>1, <1>2, <1>4, <1>5, FetchedOn
<1>7. Fetched(points, visited + 1, pool') /\ visited + 1 <= Len(points) /\ visited + 1 \in Nat
  BY <1>1, <1>2, <1>6
<1> QED BY <1>3, <1>7 DEF RecallInv, Match

LEMMA RankInv == RecallInv /\ Rank => RecallInv'
<1> SUFFICES ASSUME RecallInv, Rank PROVE RecallInv'
  OBVIOUS
<1>1. /\ archive \in Archives /\ query \in Query /\ stage = "matching" /\ distinct = << >>
      /\ shared = << >> /\ Fetched(LookedAt, visited, pool) /\ visited <= Len(LookedAt)
  BY QueryTypes DEF RecallInv, Rank
<1>2. Once(pool) /\ Within(pool, archive) /\ pool \in Seq(AnyResult)
  <2> DEFINE points == LookedAt
  <2>1. points \in Seq(archive) /\ Fetched(points, visited, pool) /\ visited <= Len(points) /\ visited \in Nat
    BY <1>1, PointsAre DEF RecallInv
  <2> HIDE DEF points
  <2>2. \A k \in 1..visited : points[k] \in archive
    BY <2>1
  <2> QED BY <2>1, <2>2 DEF Fetched, Within
<1>3. Listing = pool \/ Listing = Arrange(pool, DOMAIN pool, ByScore(pool))
  BY DEF Listing
<1>4. ranked' = IF query.hybrid THEN Take(query.limit, FuseHybridResults(Listing)) ELSE Listing
  BY DEF Rank, Ranked
<1>5. RankedFrom(query, archive, pool, ranked')
  <2> DEFINE s == Listing
  <2> HIDE DEF s
  <2>1. s = pool \/ s = Arrange(pool, DOMAIN pool, ByScore(pool))
    BY <1>3 DEF s
  <2>2. ranked' = IF query.hybrid THEN Take(query.limit, FuseHybridResults(s)) ELSE s
    BY <1>4 DEF s
  <2> QED BY <1>1, <1>2, <2>1, <2>2, RankedIs
<1>6. CollapsedFrom(Deduping, ranked', 0, << >>)
  <2>1. Increasing(<< >>, Len(<< >>), 0)
    BY DEF Increasing
  <2>2. Drawn(<< >>, ranked', 0)
    BY <2>1 DEF Drawn
  <2> QED BY <2>2 DEF CollapsedFrom
<1>7. ranked' \in Seq(AnyResult)
  BY <1>5 DEF RankedFrom
<1>8. 0 <= Len(ranked')
  BY <1>7
<1>9. Deduping' = Deduping
  BY DEF Deduping, Rank
<1> QED BY <1>1, <1>5, <1>6, <1>8, <1>9 DEF RecallInv, Rank, Collapsing

LEMMA CollapseInv == RecallInv /\ Collapse => RecallInv'
<1> SUFFICES ASSUME RecallInv, Collapse PROVE RecallInv'
  OBVIOUS
<1>1. /\ Deduping \in BOOLEAN /\ ranked \in Seq(AnyResult) /\ Once(ranked) /\ visited \in Nat
      /\ visited < Len(ranked) /\ CollapsedFrom(Deduping, ranked, visited, distinct)
  BY QueryTypes DEF RecallInv, Collapse, RankedFrom, Collapsing
<1> DEFINE r == ranked[visited + 1]
           same == {i \in DOMAIN distinct : Deduping /\ SameText(distinct[i], r)}
<1>2. \/ same = {} /\ distinct' = Append(distinct, r)
      \/ \E i \in same : distinct' = [distinct EXCEPT ![i].duplicates = Append(@, r.memory.id)]
  BY DEF Collapse
<1>3. CollapsedFrom(Deduping, ranked, visited + 1, distinct')
  <2>1. CASE same = {} /\ distinct' = Append(distinct, r)
    BY <1>1, <2>1, CollapseNew
  <2>2. CASE \E i \in same : distinct' = [distinct EXCEPT ![i].duplicates = Append(@, r.memory.id)]
    <3>1. PICK i \in same : distinct' = [distinct EXCEPT ![i].duplicates = Append(@, r.memory.id)]
      BY <2>2
    <3> QED BY <1>1, <3>1, CollapseOld
  <2> QED BY <1>2, <2>1, <2>2
<1>4. Deduping' = Deduping
  BY DEF Deduping, Collapse
<1>5. visited + 1 <= Len(ranked) /\ visited + 1 \in Nat
  BY <1>1
<1> QED BY <1>3, <1>4, <1>5 DEF RecallInv, Collapse, Collapsing

LEMMA CollapsedInv == RecallInv /\ Collapsed => RecallInv'
<1> SUFFICES ASSUME RecallInv, Collapsed PROVE RecallInv'
  OBVIOUS
<1>1. /\ stage = "collapsing" /\ visited = Len(ranked) /\ shared = << >>
      /\ CollapsedFrom(Deduping, ranked, visited, distinct)
  BY DEF RecallInv, Collapsed, Collapsing
<1>2. Deduping' = Deduping
  BY DEF Deduping, Collapsed
<1>3. 0 <= Len(distinct)
  <2>1. distinct \in Seq(AnyResult)
    BY <1>1 DEF CollapsedFrom
  <2> QED BY <2>1
<1>4. SharedFrom(query, ranked, distinct, 0, << >>)
  <2>1. Increasing(<< >>, Len(<< >>), 0)
    BY DEF Increasing
  <2>2. Chosen(<< >>, distinct, 0)
    BY <2>1 DEF Chosen
  <2>3. \A c : OfConversation(<< >>, c) = {}
    BY DEF OfConversation
  <2>4. query.perConversation \in Nat
    BY QueryTypes DEF RecallInv, Query
  <2>5. \A c \in Nat \ {0} : Cardinality(OfConversation(<< >>, c)) <= query.perConversation
    BY <2>3, <2>4, FS_EmptySet
  <2> QED BY <2>2, <2>5 DEF SharedFrom
<1> QED BY <1>1, <1>2, <1>3, <1>4 DEF RecallInv, Collapsed, HasCollapsed

LEMMA CapConversationInv == RecallInv /\ CapConversation => RecallInv'
<1> SUFFICES ASSUME RecallInv, CapConversation PROVE RecallInv'
  OBVIOUS
<1>1. /\ query \in Query /\ ranked \in Seq(AnyResult) /\ Once(ranked) /\ visited \in Nat
      /\ visited < Len(distinct) /\ HasCollapsed
      /\ SharedFrom(query, ranked, distinct, visited, shared)
  BY QueryTypes DEF RecallInv, CapConversation, RankedFrom
<1>2. distinct \in Seq(AnyResult) /\ Drawn(distinct, ranked, Len(ranked))
  BY <1>1 DEF HasCollapsed, CollapsedFrom
<1> DEFINE r == distinct[visited + 1]
           full == /\ query.perConversation > 0 /\ r.memory.conversation # 0
                   /\ Cardinality(OfConversation(shared, r.memory.conversation)) >= query.perConversation
<1>3. shared' = IF full THEN shared ELSE Append(shared, r)
  BY DEF CapConversation, OfConversation
<1>4. SharedFrom(query, ranked, distinct, visited + 1, shared')
  <2>1. CASE full
    BY <1>1, <1>2, <1>3, <2>1, ShareFull
  <2>2. CASE ~full
    BY <1>1, <1>2, <1>3, <2>2, ShareTaken
  <2> QED BY <2>1, <2>2
<1>5. Deduping' = Deduping
  BY DEF Deduping, CapConversation
<1>6. visited + 1 <= Len(distinct) /\ visited + 1 \in Nat
  BY <1>1, <1>2
<1> QED BY <1>4, <1>5, <1>6 DEF RecallInv, CapConversation, HasCollapsed

LEMMA PageInv == RecallInv /\ Page => RecallInv'
<1> SUFFICES ASSUME RecallInv, Page PROVE RecallInv'
  OBVIOUS
<1>1. /\ archive \in Archives /\ query \in Query /\ ranked \in Seq(AnyResult) /\ Once(ranked)
      /\ Within(ranked, archive) /\ stage = "sharing" /\ visited = Len(distinct)
      /\ CollapsedFrom(Deduping, ranked, Len(ranked), distinct)
      /\ SharedFrom(query, ranked, distinct, Len(distinct), shared)
  BY QueryTypes DEF RecallInv, Page, RankedFrom, HasCollapsed
<1> DEFINE paged == Take(query.limit, ApplyMinScore(shared))
<1>2. found' = [kept |-> paged, results |-> searchWithCanonOptions(paged)]
  BY DEF Page
<1>3. PageFrom(query, Deduping, archive, ranked, distinct, shared, paged)
  <2>1. shared \in Seq(AnyResult)
    BY <1>1 DEF SharedFrom
  <2>2. ApplyMinScore(shared) = Keeping(shared, {i \in DOMAIN shared : ~Under(query, shared[i])})
    BY <2>1, FloorType
  <2>3. \A m, n \in archive : m.id = n.id => m = n
    BY <1>1, ArchiveOrders
  <2> QED BY <1>1, <2>2, <2>3, PageIs
<1> HIDE DEF paged
<1>4. paged \in Seq(AnyResult)
  BY <1>3 DEF PageFrom
<1>5. /\ searchWithCanonOptions(paged) \in Seq(AnyResult)
      /\ Len(searchWithCanonOptions(paged)) <= query.limit
  BY <1>1, <1>4, ResultsAre
<1>6. found'.kept = paged /\ found'.results = searchWithCanonOptions(paged)
  BY <1>2
<1>7. Deduping' = Deduping
  BY DEF Deduping, Page
<1> QED BY <1>3, <1>5, <1>6, <1>7 DEF RecallInv, Page, HasCollapsed

LEMMA OrderInv == RecallInv /\ Order => RecallInv'
<1> SUFFICES ASSUME RecallInv, Order PROVE RecallInv'
  OBVIOUS
<1> DEFINE s == found.results
           o == ordered'
<1>1. /\ s \in Seq(AnyResult) /\ stage = "found" /\ visited = 0 /\ pack = NoPack
      /\ o = IF query.chronological THEN Arrange(s, DOMAIN s, ByTime(s)) ELSE s
  BY DEF RecallInv, Order
<1> HIDE DEF s, o
<1>2. OrderedFrom(query, s, o)
  <2>1. CASE ~query.chronological
    BY <1>1, <2>1 DEF OrderedFrom
  <2>2. CASE query.chronological
    <3>1. Arranged(s, ByTime(s), o)
      BY <1>1, <2>2, ByTimeOrder, ArrangeAll
    <3>2. \A r \in ToSet(s) : r \in ToSet(o)
      BY <3>1 DEF Arranged, ToSet
    <3>3. ASSUME NEW i \in DOMAIN o, NEW j \in DOMAIN o, i < j
          PROVE  o[i].memory.time <= o[j].memory.time
      <4>1. PICK k, l \in DOMAIN s : o[i] = s[k] /\ o[j] = s[l] /\ <<k, l>> \in ByTime(s)
        BY <3>1, <3>3 DEF Arranged
      <4>2. s[k].memory.time \in Int /\ s[l].memory.time \in Int
        <5>1. s[k] \in AnyResult /\ s[l] \in AnyResult
          BY <1>1
        <5> QED BY <5>1, ResultTypes
      <4>3. s[k].memory.time <= s[l].memory.time
        BY <4>1, <4>2 DEF ByTime
      <4> QED BY <4>1, <4>3
    <3> QED BY <3>1, <3>2, <3>3 DEF OrderedFrom, Arranged
  <2> QED BY <2>1, <2>2
<1>3. o \in Seq(AnyResult)
  BY <1>2 DEF OrderedFrom
<1>4. Packed(query, o, 0, NoPack)
  <2>1. NoPack.kept = << >> /\ NoPack.used = 0 /\ NoPack.dropped = 0
        /\ NoPack \in [used : Nat, dropped : Nat, kept : Seq(Nat)]
    BY DEF NoPack
  <2>2. Increasing(<< >>, Len(<< >>), 0)
    BY DEF Increasing
  <2>3. ToSet(<< >>) = {} /\ LeftOut(0, << >>) = {}
    BY DEF ToSet, LeftOut
  <2>4. SumOf(Costs(query, o), {}) = 0
    BY SumUnfolds, FS_EmptySet
  <2>5. query.budget \in Nat
    BY QueryTypes DEF RecallInv, Query
  <2>6. Cardinality({}) = 0 /\ Len(<< >>) = 0
    BY FS_EmptySet
  <2> DEFINE p == NoPack
             w == Costs(query, o)
  <2>7. /\ Increasing(p.kept, Len(p.kept), 0) /\ Len(p.kept) = 0
        /\ ToSet(p.kept) = {} /\ LeftOut(0, p.kept) = {}
    BY <2>1, <2>2, <2>3, <2>6
  <2>8. p.used = SumOf(w, ToSet(p.kept)) /\ p.dropped = Cardinality(LeftOut(0, p.kept))
    BY <2>1, <2>4, <2>6, <2>7
  <2>9. p \in [used : Nat, dropped : Nat, kept : Seq(Nat)] /\ p.used = 0 /\ p.dropped = 0
    BY <2>1
  <2> HIDE DEF p, w
  <2>10. Packed(query, o, 0, p)
    BY <2>5, <2>7, <2>8, <2>9 DEF Packed, w
  <2> QED BY <2>10 DEF p
<1>5. 0 <= Len(o)
  BY <1>3
<1> QED BY <1>1, <1>2, <1>4, <1>5 DEF RecallInv, Order, s, o

LEMMA FitInv == RecallInv /\ Fit => RecallInv'
<1> SUFFICES ASSUME RecallInv, Fit PROVE RecallInv'
  OBVIOUS
<1>1. /\ query \in Query /\ ordered \in Seq(AnyResult) /\ visited \in Nat /\ visited < Len(ordered)
      /\ Packed(query, ordered, visited, pack)
  BY QueryTypes DEF RecallInv, Fit, OrderedFrom
<1> DEFINE c == Cost(query, ordered[visited + 1])
<1>2. packItemCharacters(ordered[visited + 1]) = c
  BY DEF packItemCharacters, Cost
<1>3. pack' = IF query.budget > 0 /\ pack.used + c > query.budget
              THEN [pack EXCEPT !.dropped = @ + 1]
              ELSE [pack EXCEPT !.used = @ + c, !.kept = Append(@, visited + 1)]
  BY <1>2 DEF Fit
<1>4. Packed(query, ordered, visited + 1, pack')
  <2>1. CASE query.budget > 0 /\ pack.used + c > query.budget
    BY <1>1, <1>3, <2>1, PackDropped
  <2>2. CASE ~(query.budget > 0 /\ pack.used + c > query.budget)
    BY <1>1, <1>3, <2>2, PackTaken
  <2> QED BY <2>1, <2>2
<1>5. visited + 1 <= Len(ordered) /\ visited + 1 \in Nat
  BY <1>1
<1> QED BY <1>4, <1>5 DEF RecallInv, Fit

LEMMA RecallStepInv == RecallInv /\ [RecallNext]_recallVars => RecallInv'
<1> SUFFICES ASSUME RecallInv, [RecallNext]_recallVars PROVE RecallInv'
  OBVIOUS
<1>1. CASE UNCHANGED recallVars
  <2>1. /\ archive' = archive /\ query' = query /\ store' = store /\ stage' = stage
        /\ visited' = visited /\ pool' = pool /\ ranked' = ranked /\ distinct' = distinct
        /\ shared' = shared /\ found' = found /\ ordered' = ordered /\ pack' = pack
    BY <1>1 DEF recallVars
  <2>2. LookedAt' = LookedAt /\ Deduping' = Deduping
    BY <2>1 DEF LookedAt, candidateLimit, Nearest, ById, Deduping
  <2>3. Collapsing' = Collapsing /\ HasCollapsed' = HasCollapsed
    BY <2>1, <2>2 DEF Collapsing, HasCollapsed
  <2> QED BY <2>1, <2>2, <2>3 DEF RecallInv
<1> QED BY <1>1, MatchInv, RankInv, CollapseInv, CollapsedInv, CapConversationInv, PageInv,
           OrderInv, FitInv DEF RecallNext

-----------------------------------------------------------------------------
(* What the stages come to.                                                  *)
LEMMA PageIsExplained == RecallInv => PageExplained
<1> SUFFICES ASSUME RecallInv, stage = "found" PROVE PageExplained
  BY DEF PageExplained
<1>1. /\ RankedFrom(query, archive, pool, ranked) /\ Len(found.results) <= query.limit
      /\ PageFrom(query, Deduping, archive, ranked, distinct, shared, Kept)
      /\ archive \in Archives
  BY DEF RecallInv, Kept
<1>2. \A i \in DOMAIN pool : Has(ranked, pool[i]) \/ (query.hybrid /\ Len(ranked) >= query.limit)
  BY <1>1 DEF RankedFrom
<1>3. \A r, i : Ahead(r, i) <=> Precedes(ranked, r, i)
  BY DEF Ahead, Precedes
<1>4. \A i : ShareBefore(i) = ShareOf(ranked, shared, i)
  BY <1>3 DEF ShareBefore, ShareOf
<1>5. \A r : Below(r) <=> Under(query, r)
  BY DEF Below, Under
<1>6. ASSUME NEW i \in DOMAIN ranked
      PROVE  \/ Has(Kept, ranked[i])
             \/ Deduping /\ \E d \in DOMAIN distinct :
                   /\ Ahead(distinct[d], i) /\ SameText(distinct[d], ranked[i])
                   /\ ranked[i].memory.id \in ToSet(distinct[d].duplicates)
             \/ /\ query.perConversation > 0 /\ ranked[i].memory.conversation # 0
                /\ Cardinality(ShareBefore(i)) >= query.perConversation
             \/ Below(ranked[i])
             \/ Len(Kept) >= query.limit /\ \A k \in DOMAIN Kept : Ahead(Kept[k], i)
  <2>1. Reason(query, Deduping, ranked, distinct, shared, Kept, i)
    BY <1>1 DEF PageFrom
  <2> QED BY <1>3, <1>4, <1>5, <2>1 DEF Reason, StandsFor, HadShare
<1>7. \A i, j \in DOMAIN Kept :
         i # j => /\ Kept[i].memory.id # Kept[j].memory.id
                  /\ Deduping => ~SameText(Kept[i], Kept[j])
  BY <1>1 DEF PageFrom
<1>8. \A i \in DOMAIN Kept : ~Below(Kept[i]) /\ \A id \in ToSet(Kept[i].duplicates) :
          /\ \A j \in DOMAIN Kept : Kept[j].memory.id # id
          /\ \E m \in archive : m.id = id /\ m.key = Kept[i].memory.key
  BY <1>1, <1>5 DEF PageFrom
<1>9. ASSUME query.perConversation > 0, NEW c \in {m.conversation : m \in archive} \ {0}
      PROVE  Cardinality({i \in DOMAIN Kept : Kept[i].memory.conversation = c})
               <= query.perConversation
  <2>1. c \in Nat \ {0}
    BY <1>1, ArchiveOrders DEF Memory
  <2> QED BY <1>1, <1>9, <2>1 DEF PageFrom, OfConversation
<1> QED BY <1>1, <1>2, <1>6, <1>7, <1>8, <1>9 DEF PageExplained

LEMMA PackIsExplained == RecallInv => PackExplained
<1> SUFFICES ASSUME RecallInv, stage = "packing", visited = Len(ordered) PROVE PackExplained
  BY DEF PackExplained
<1> DEFINE Size(k) == packItemCharacters(ordered[k])
           dropped == DOMAIN ordered \ ToSet(pack.kept)
           n == Len(ordered)
           w == Costs(query, ordered)
<1>1. OrderedFrom(query, found.results, ordered) /\ Packed(query, ordered, n, pack)
  BY DEF RecallInv
<1>2. ordered \in Seq(AnyResult) /\ DOMAIN ordered = 1..n /\ n \in Nat
  BY <1>1 DEF OrderedFrom
<1> HIDE DEF n
<1>3. dropped = LeftOut(n, pack.kept)
  BY <1>2 DEF LeftOut
<1>4. pack.kept \in Seq(Nat) /\ Increasing(pack.kept, Len(pack.kept), n)
  BY <1>1 DEF Packed
<1>5. ToSet(pack.kept) \subseteq 1..n
  BY <1>4 DEF Increasing, ToSet
<1>6. \A k \in 1..n : w[k] = Size(k) /\ w[k] \in Nat
  BY <1>2, CostsType DEF packItemCharacters, Cost, n
<1>7. IsFiniteSet(ToSet(pack.kept))
  <2>1. IsFiniteSet(1..n)
    BY <1>2, FS_Interval
  <2> QED BY <1>5, <2>1, FS_Subset, Zenon
<1>8. pack.used = MapThenSumSet(Size, ToSet(pack.kept))
  <2>1. \A k \in ToSet(pack.kept) : w[k] = packItemCharacters(ordered[k]) /\ w[k] \in Nat
    BY <1>5, <1>6
  <2>2. MapThenSumSet(Size, ToSet(pack.kept)) = SumOf(w, ToSet(pack.kept))
    <3> HIDE DEF w
    <3> QED BY <1>7, <2>1, PackSum
  <2> QED BY <1>1, <2>2 DEF Packed
<1>9. pack.dropped = Cardinality(dropped) /\ Len(pack.kept) + pack.dropped = n
  BY <1>1, <1>3 DEF Packed
<1>10. /\ dropped # {} => query.budget > 0
       /\ query.budget > 0 => pack.used <= query.budget /\ \A k \in dropped : pack.used + Size(k) > query.budget
  <2>1. dropped \subseteq 1..n
    BY <1>2
  <2> HIDE DEF dropped, Size
  <2> QED BY <1>1, <1>3, <1>6, <2>1 DEF Packed
<1>11. ASSUME NEW i \in DOMAIN pack.kept, NEW j \in DOMAIN pack.kept, i < j
       PROVE  /\ pack.kept[i] < pack.kept[j]
              /\ query.chronological => ordered[pack.kept[i]].memory.time
                                          <= ordered[pack.kept[j]].memory.time
  <2>1. pack.kept[i] < pack.kept[j] /\ pack.kept[i] \in 1..n /\ pack.kept[j] \in 1..n
    BY <1>4, <1>11 DEF Increasing
  <2> QED BY <1>1, <1>2, <2>1 DEF OrderedFrom
<1>12. /\ Len(ordered) = Len(found.results) /\ \A r \in ToSet(found.results) : r \in ToSet(ordered)
  BY <1>1 DEF OrderedFrom
<1> HIDE DEF dropped, Size
<1> QED BY <1>8, <1>9, <1>10, <1>11, <1>12 DEF PackExplained, dropped, Size, n

(* Nothing that was recalled disappears without a reason, whatever is       *)
(* stored, asked and proposed: a match that is not on the page is stood for *)
(* by its duplicate, or behind its conversation's share, or under the floor,*)
(* or behind a full page; and a context pack accounts for every result      *)
(* (SearchMemory, FuseHybridResults, DedupeResults, ApplyMinScore,          *)
(* searchWithCanonOptions, AssembleContextPack).                            *)
THEOREM NothingIsLost == RecallSpec => []RecallExplained
<1>1. RecallInv => RecallExplained
  BY PageIsExplained, PackIsExplained DEF RecallExplained
<1> QED BY <1>1, RecallInitInv, RecallStepInv, PTL DEF RecallSpec

(* In a hybrid search a memory with none of the words of the query never    *)
(* comes before one that has some, as long as the candidates are no more    *)
(* than one more than the rank constant, whatever their ranks               *)
(* (FuseHybridResults).                                                     *)
THEOREM OverlapComesFirst == RecallSpec => []OverlapFirst
<1>1. RecallInv => OverlapFirst
  BY DEF RecallInv, RankedFrom, OverlapFirst
<1> QED BY <1>1, RecallInitInv, RecallStepInv, PTL DEF RecallSpec
=============================================================================
