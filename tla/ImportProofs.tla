---------------------------- MODULE ImportProofs ----------------------------
(***************************************************************************)
(* The import of an export, for every export, scope and bound: a parse     *)
(* that ends is whole, the checkpoint is not ahead of the caption cache,   *)
(* and no caption is lost; and how its messages are cut for the embedder:  *)
(* no turn and no character of it is lost, whatever the limits; and the    *)
(* order of the threads of another export.                                 *)
(*                                                                         *)
(* The invariant of the import relates where the parse is (Placed) to what *)
(* it has made of the messages behind it (RecordsThem, InOrder,            *)
(* Describing), and its cache to the file (Caches).  That the parse checks *)
(* its limit between conversations and that Selected counts the            *)
(* conversations before one is the same bound is EarlierCounts.            *)
(*                                                                         *)
(* That of the chunker says what is laid before the start of the next chunk*)
(* (Laid): all ink is covered, and no stretch reaches behind the end of the*)
(* next chunk, which holds because break points follow each other          *)
(* (BreakPointsFollow).                                                    *)
(***************************************************************************)
EXTENDS ExportImport, Chunker, ClaudeThreads, OrderLemmas

\* What a record may hold of its message.
Texts == [kind : {"text", "blank", "unsupported", "stub", "name", "caption"}, caption : Nat]
Steps == {"between", "reading", "asking", "saving", "parsed"}
RecordLists == Seq([place : Nat, node : Nat, text : Texts])
\* What an import is; its cache is a function from references to captions.
IsImport(i) ==
    /\ i \in [at : Steps, scope : Scopes, done : SUBSET Int, cache : {i.cache},
              next : Nat \ {0}, node : Nat \ {0}, found : Nat,
              records : RecordLists]
    /\ \A f \in DOMAIN i.cache : i.cache[f] \in Nat
Matching(scope) == {k \in DOMAIN Conversations : Selects(Conversations[k], scope)}
Earlier(k, scope) == {j \in Matching(scope) : j < k}
Nodes(k) == Conversations[k].nodes
NodePlace(k, n) == Cardinality({m \in Nodes(k) : NodeBefore(Conversations[k], m, n)})
Within(i) == i.at \in {"reading", "asking", "saving"}
\* The messages an import has read.
Has(i, k, n) == k < i.next \/ (k = i.next /\ Within(i) /\ NodePlace(k, n) < i.node - 1)
Here(i) == collectMessageNodes(Conversations[i.next], i.node)

\* Where it is: the conversations behind it are in its scope, and it has read
\* no more of them than its limit.
Placed(i) ==
    /\ i.next <= Len(Conversations) + 1
    /\ i.scope.limit > 0 => i.found <= i.scope.limit
    /\ i.found = Cardinality(Earlier(i.next, i.scope)) + (IF Within(i) THEN 1 ELSE 0)
    /\ Within(i) => i.next \in Matching(i.scope)
    /\ i.at = "parsed" => i.next > Len(Conversations)
                          \/ (i.scope.limit > 0 /\ i.found >= i.scope.limit)
\* What it has made of the messages.
RecordsThem(i) ==
    /\ \A j \in DOMAIN i.records :
          /\ i.records[j].place \in Selected(i.scope)
          /\ \E n \in Nodes(i.records[j].place) :
                /\ n.node = i.records[j].node /\ Has(i, i.records[j].place, n)
                /\ Accepted(n, Conversations[i.records[j].place], i.scope)
    /\ \A k \in Selected(i.scope) : \A n \in Nodes(k) :
          Has(i, k, n) /\ Accepted(n, Conversations[k], i.scope) =>
             \E j \in DOMAIN i.records : i.records[j].place = k /\ i.records[j].node = n.node
InOrder(i) ==
    \A j, k \in DOMAIN i.records : j < k => RecordBefore(i.records[j], i.records[k])
\* The captions it knows, and where each of them is.
Describes(i) == i.scope.captions /\ ~i.scope.dry
Caches(i) ==
    /\ \A f \in DOMAIN captions : f \in DOMAIN i.cache /\ i.cache[f] = captions[f]
    /\ \A f \in DOMAIN i.cache :
          \/ f \in DOMAIN captions \/ f \in failed
          \/ i.at = "saving" /\ f = Chosen(Here(i))
    /\ i.at \in {"asking", "saving"} =>
          /\ Describes(i) /\ i.node <= Cardinality(Nodes(i.next))
          /\ Accepted(Here(i), Conversations[i.next], i.scope)
          /\ i.at = "asking" => Chosen(Here(i)) \notin DOMAIN i.cache
          /\ i.at = "saving" => Chosen(Here(i)) \in DOMAIN i.cache
Describing(i) ==
    /\ \A j \in DOMAIN i.records :
          LET file == Chosen(NodeAt(i.records[j]))
          IN  i.records[j].text.kind = "caption" /\ file \notin failed =>
                 file \in DOMAIN captions /\ i.records[j].text.caption = captions[file]
    /\ Describes(i) =>
          \A k \in Selected(i.scope) : \A n \in Nodes(k) :
             Has(i, k, n) /\ Accepted(n, Conversations[k], i.scope) /\ Chosen(n) \in Images \ failed =>
                Chosen(n) \in DOMAIN captions
KeepsCheckpoint(i) ==
    /\ i.done = checkpoint.done
    /\ checkpoint # Missing => checkpoint.scope = CheckpointMeta(i.scope)

ExportTyped ==
    /\ import # NoImport => IsImport(import)
    /\ answers \in Nat /\ \A f \in DOMAIN captions : captions[f] \in Nat
    /\ checkpoint.done \subseteq Int
    /\ checkpoint = Missing \/ DOMAIN checkpoint = {"scope", "done"}
ExportInv ==
    /\ ExportTyped /\ DoneIsCaptioned
    /\ import # NoImport =>
          /\ Placed(import) /\ RecordsThem(import) /\ InOrder(import)
          /\ Caches(import) /\ Describing(import) /\ KeepsCheckpoint(import)

-----------------------------------------------------------------------------
(* Sequences put after each other are a sequence of the same elements.       *)
LEMMA FlattenType ==
    ASSUME NEW S, NEW seqs \in Seq(Seq(S))
    PROVE  FlattenSeq(seqs) \in Seq(S)
<1> DEFINE L == Len(seqs)
           IsFlat(f, n) == \A i \in 1..n : f[i] = IF i = 1 THEN seqs[i] ELSE f[i - 1] \o seqs[i]
           Flat(n) == \E f \in [1..n -> Seq(S)] : IsFlat(f, n)
           Rough == {n \in 0..L : ~Flat(n)}
<1>1. L \in Nat /\ \A i \in 1..L : seqs[i] \in Seq(S)
  OBVIOUS
<1>2. Rough = {}
  <2>1. SUFFICES ASSUME Rough # {} PROVE FALSE
    OBVIOUS
  <2>2. PICK n \in Rough : \A m \in Rough : n <= m
    <3>1. Rough \subseteq Nat
      BY <1>1
    <3> HIDE DEF Rough
    <3> QED BY <2>1, <3>1, LeastNatural, Zenon
  <2>3. n # 0
    <3>1. [i \in 1..0 |-> << >>] \in [1..0 -> Seq(S)] /\ IsFlat([i \in 1..0 |-> << >>], 0)
      OBVIOUS
    <3>2. Flat(0)
      BY <3>1
    <3> HIDE DEF Flat
    <3> QED BY <3>2
  <2>4. n \in 0..L /\ n - 1 \in 0..L /\ n - 1 < n
    BY <1>1, <2>3
  <2>5. Flat(n - 1)
    <3> HIDE DEF Flat
    <3>1. n - 1 \notin Rough
      BY <2>2, <2>4
    <3> QED BY <2>4, <3>1
  <2>6. PICK f \in [1..n - 1 -> Seq(S)] : IsFlat(f, n - 1)
    BY <2>5
  <2> DEFINE last == IF n = 1 THEN seqs[n] ELSE f[n - 1] \o seqs[n]
             g == [i \in 1..n |-> IF i < n THEN f[i] ELSE last]
  <2>7. last \in Seq(S)
    <3>1. CASE n = 1
      BY <1>1, <2>4, <3>1
    <3>2. CASE n # 1
      <4>1. f[n - 1] \in Seq(S) /\ seqs[n] \in Seq(S)
        BY <1>1, <2>3, <2>4, <2>6, <3>2
      <4> QED BY <3>2, <4>1
    <3> QED BY <3>1, <3>2
  <2>8. g \in [1..n -> Seq(S)]
    <3> HIDE DEF last
    <3> QED BY <2>4, <2>6, <2>7
  <2>9. IsFlat(g, n)
    <3>1. ASSUME NEW i \in 1..n PROVE g[i] = IF i = 1 THEN seqs[i] ELSE g[i - 1] \o seqs[i]
      <4>1. CASE i = n
        BY <2>3, <2>4, <4>1
      <4>2. CASE i # n
        <5>1. i < n /\ i \in 1..n - 1
          BY <2>4, <4>2
        <5>2. f[i] = IF i = 1 THEN seqs[i] ELSE f[i - 1] \o seqs[i]
          BY <2>6, <5>1
        <5>3. g[i] = f[i] /\ (i # 1 => g[i - 1] = f[i - 1])
          BY <2>4, <5>1
        <5> QED BY <5>2, <5>3
      <4> QED BY <4>1, <4>2
    <3> QED BY <3>1
  <2>10. Flat(n)
    BY <2>8, <2>9
  <2> QED BY <2>2, <2>10
<1>3. PICK f \in [1..L -> Seq(S)] : IsFlat(f, L)
  <2>1. L \notin Rough /\ L \in 0..L
    <3> HIDE DEF Rough
    <3> QED BY <1>1, <1>2
  <2>2. Flat(L)
    BY <2>1
  <2> QED BY <2>2
<1> DEFINE Same(h) == h = [i \in 1..L |-> IF i = 1 THEN seqs[i] ELSE h[i - 1] \o seqs[i]]
           flatten == CHOOSE h : Same(h)
<1>4. Same(f)
  BY <1>3, Zenon
<1>5. Same(flatten)
  BY <1>4, Zenon
<1>6. \A i \in 1..L : flatten[i] = IF i = 1 THEN seqs[i] ELSE flatten[i - 1] \o seqs[i]
  <2> HIDE DEF flatten
  <2> QED BY <1>5
<1>7. \A i \in 1..L : flatten[i] = f[i]
  <2> HIDE DEF flatten
  <2> DEFINE Unlike == {i \in 1..L : flatten[i] # f[i]}
  <2>1. SUFFICES ASSUME Unlike # {} PROVE FALSE
    OBVIOUS
  <2>2. PICK i \in Unlike : \A j \in Unlike : i <= j
    <3>1. Unlike \subseteq Nat
      BY <1>1
    <3> HIDE DEF Unlike
    <3> QED BY <2>1, <3>1, LeastNatural, Zenon
  <2>3. i \in 1..L /\ flatten[i] # f[i] /\ (i # 1 => flatten[i - 1] = f[i - 1])
    BY <1>1, <2>2
  <2> QED BY <1>3, <1>6, <2>3
<1>8. CASE L = 0
  BY <1>8 DEF FlattenSeq
<1>9. CASE L # 0
  <2>1. FlattenSeq(seqs) = flatten[L]
    BY <1>9 DEF FlattenSeq
  <2>2. flatten[L] = f[L] /\ f[L] \in Seq(S)
    <3>1. L \in 1..L
      BY <1>1, <1>9
    <3> HIDE DEF L, flatten
    <3> QED BY <1>3, <1>7, <3>1
  <2> QED BY <2>1, <2>2
<1> QED BY <1>8, <1>9

(* What the import reads: conversations of which each message has a key.     *)
SoundConversation(c) ==
    /\ c.id \in Int /\ c.created \in Nat /\ IsFiniteSet(c.nodes)
    /\ \A n \in c.nodes : n.node \in Nat /\ n.created \in Nat /\ n.updated \in Nat
    /\ \A m, n \in c.nodes : m.node = n.node => m = n
LEMMA ConversationsSound ==
    /\ Len(Conversations) \in Nat /\ DOMAIN Conversations = 1..Len(Conversations)
    /\ \A k \in 1..Len(Conversations) : SoundConversation(Conversations[k])
<1> DEFINE Every == UNION {Range(Files[f]) : f \in DOMAIN Files}
           Called(c, idx) == [c EXCEPT !.id = ConversationID(c, idx)]
           All == {Called(c, idx) : c \in Every, idx \in Nat}
           parsed == [f \in DOMAIN Files |-> [idx \in DOMAIN Files[f] |-> Called(Files[f][idx], idx)]]
<1>1. Files \in Seq(Seq(Every)) /\ \A c \in Every : IsConversation(c)
  BY ExportAssumption
<1>2. \A c \in All : SoundConversation(c)
  <2> SUFFICES ASSUME NEW c \in Every, NEW idx \in Nat PROVE SoundConversation(Called(c, idx))
    OBVIOUS
  <2>1. IsConversation(c)
    BY <1>1
  <2>2. ConversationID(c, idx) \in Int
    BY <2>1 DEF IsConversation, ConversationID
  <2>3. Called(c, idx).id \in Int /\ Called(c, idx).created = c.created /\ Called(c, idx).nodes = c.nodes
    BY <2>1, <2>2 DEF IsConversation
  <2> HIDE DEF Called
  <2> QED BY <2>1, <2>3 DEF IsConversation, SoundConversation
<1>3. parsed \in Seq(Seq(All))
  <2> HIDE DEF Every
  <2>1. ASSUME NEW f \in DOMAIN Files
        PROVE  [idx \in DOMAIN Files[f] |-> Called(Files[f][idx], idx)] \in Seq(All)
    <3>1. Files[f] \in Seq(Every)
      BY <1>1
    <3>2. DOMAIN Files[f] = 1..Len(Files[f]) /\ Len(Files[f]) \in Nat
      BY <3>1
    <3>3. \A idx \in DOMAIN Files[f] : Called(Files[f][idx], idx) \in All
      <4> HIDE DEF Called
      <4> QED BY <3>1, <3>2
    <3> HIDE DEF All, Called
    <3> QED BY <3>2, <3>3
  <2> HIDE DEF All, Called
  <2> QED BY <1>1, <2>1, SMTT(30)
<1>4. Conversations \in Seq(All)
  <2>1. Conversations = FlattenSeq(parsed)
    BY DEF Conversations
  <2> HIDE DEF parsed, All
  <2> QED BY <1>3, <2>1, FlattenType
<1>5. \A k \in 1..Len(Conversations) : Conversations[k] \in All
  <2> HIDE DEF All
  <2> QED BY <1>4
<1> HIDE DEF All
<1> QED BY <1>2, <1>4, <1>5

(* The order of the messages is strict and total.                            *)
LEMMA MessageTimeType ==
    ASSUME NEW k \in 1..Len(Conversations), NEW n \in Nodes(k)
    PROVE  MessageTime(n, Conversations[k]) \in Nat /\ n.node \in Nat
BY ConversationsSound DEF MessageTime, SoundConversation, Nodes

LEMMA NodesOrdered ==
    ASSUME NEW k \in 1..Len(Conversations)
    PROVE  LET R == {p \in Nodes(k) \X Nodes(k) : NodeBefore(Conversations[k], p[1], p[2])}
           IN  /\ StrictOrder(R, Nodes(k)) /\ IsFiniteSet(Nodes(k))
               /\ \A n \in Nodes(k) : NodePlace(k, n) = Place(R, Nodes(k), n)
               /\ \A m, n \in Nodes(k) : <<m, n>> \in R <=> NodeBefore(Conversations[k], m, n)
<1> DEFINE R == {p \in Nodes(k) \X Nodes(k) : NodeBefore(Conversations[k], p[1], p[2])}
           T(n) == MessageTime(n, Conversations[k])
<1>1. \A n \in Nodes(k) : T(n) \in Nat /\ n.node \in Nat
  BY MessageTimeType
<1>2. \A m, n \in Nodes(k) :
         NodeBefore(Conversations[k], m, n) <=>
           IF T(m) = T(n) THEN m.node < n.node ELSE T(m) # 0 /\ (T(n) = 0 \/ T(m) < T(n))
  BY DEF NodeBefore, NoTime
<1>3. IsFiniteSet(Nodes(k)) /\ \A m, n \in Nodes(k) : m.node = n.node => m = n
  BY ConversationsSound DEF SoundConversation, Nodes
<1> HIDE DEF T
<1>4. \A m, n \in Nodes(k) : <<m, n>> \in R <=> NodeBefore(Conversations[k], m, n)
  BY Zenon
<1>5. \A n \in Nodes(k) : NodePlace(k, n) = Place(R, Nodes(k), n)
  BY <1>4 DEF NodePlace, Place, Preceding
<1> HIDE DEF R
<1>6. StrictOrder(R, Nodes(k))
  <2>1. \A m \in Nodes(k) : <<m, m>> \notin R
    BY <1>1, <1>2, <1>4
  <2>2. \A m, n \in Nodes(k) : m # n => <<m, n>> \in R \/ <<n, m>> \in R
    BY <1>1, <1>2, <1>3, <1>4
  <2>3. \A m, n, o \in Nodes(k) : <<m, n>> \in R /\ <<n, o>> \in R => <<m, o>> \in R
    BY <1>1, <1>2, <1>4
  <2> QED BY <2>1, <2>2, <2>3 DEF StrictOrder
<1> QED BY <1>3, <1>4, <1>5, <1>6 DEF R

LEMMA NodePlaces ==
    ASSUME NEW k \in 1..Len(Conversations)
    PROVE  /\ Cardinality(Nodes(k)) \in Nat
           /\ \A n \in Nodes(k) : NodePlace(k, n) \in Nat /\ NodePlace(k, n) < Cardinality(Nodes(k))
           /\ \A m, n \in Nodes(k) :
                 NodeBefore(Conversations[k], m, n) <=> NodePlace(k, m) < NodePlace(k, n)
<1> DEFINE R == {p \in Nodes(k) \X Nodes(k) : NodeBefore(Conversations[k], p[1], p[2])}
<1>1. /\ StrictOrder(R, Nodes(k)) /\ IsFiniteSet(Nodes(k))
      /\ \A n \in Nodes(k) : NodePlace(k, n) = Place(R, Nodes(k), n)
      /\ \A m, n \in Nodes(k) : <<m, n>> \in R <=> NodeBefore(Conversations[k], m, n)
  BY NodesOrdered, Zenon
<1> HIDE DEF R
<1>2. Cardinality(Nodes(k)) \in Nat
  BY <1>1, FS_CardinalityType, Zenon
<1> QED BY <1>1, <1>2, PlaceType, PlacesFollow

(* The j-th message is there, and no other has its place.                    *)
LEMMA MessageThere ==
    ASSUME NEW k \in 1..Len(Conversations), NEW j \in Nat \ {0}, j <= Cardinality(Nodes(k))
    PROVE  LET n == collectMessageNodes(Conversations[k], j)
           IN  /\ n \in Nodes(k) /\ NodePlace(k, n) = j - 1
               /\ \A m \in Nodes(k) : NodePlace(k, m) = j - 1 => m = n
<1> DEFINE R == {p \in Nodes(k) \X Nodes(k) : NodeBefore(Conversations[k], p[1], p[2])}
<1>1. /\ StrictOrder(R, Nodes(k)) /\ IsFiniteSet(Nodes(k))
      /\ \A n \in Nodes(k) : NodePlace(k, n) = Place(R, Nodes(k), n)
  BY NodesOrdered, Zenon
<1> HIDE DEF R
<1>2. j - 1 \in Nat /\ j - 1 < Cardinality(Nodes(k))
  BY NodePlaces
<1>3. \E x \in Nodes(k) : NodePlace(k, x) = j - 1 /\ \A y \in Nodes(k) : NodePlace(k, y) = j - 1 => y = x
  BY <1>1, <1>2, PlaceTaken
<1>4. collectMessageNodes(Conversations[k], j) = CHOOSE n \in Nodes(k) : NodePlace(k, n) = j - 1
  BY DEF collectMessageNodes, NodePlace, Nodes
<1> QED BY <1>3, <1>4

(* The conversations of a scope before one of them: how many they are.       *)
LEMMA EarlierFinite ==
    ASSUME NEW scope, NEW k
    PROVE  IsFiniteSet(Earlier(k, scope)) /\ Cardinality(Earlier(k, scope)) \in Nat
<1>1. Matching(scope) \in SUBSET (1..Len(Conversations)) /\ Len(Conversations) \in Nat
  BY ConversationsSound DEF Matching
<1>2. IsFiniteSet(1..Len(Conversations))
  BY <1>1, FS_Interval
<1>3. IsFiniteSet(Matching(scope))
  BY <1>1, <1>2, FS_Subset, Zenon
<1>4. Earlier(k, scope) \in SUBSET Matching(scope)
  BY DEF Earlier
<1> QED BY <1>3, <1>4, FS_Subset, FS_CardinalityType, Zenon

LEMMA EarlierCounts ==
    ASSUME NEW scope, NEW k \in Nat
    PROVE  /\ \A j \in Nat : j <= k => Cardinality(Earlier(j, scope)) <= Cardinality(Earlier(k, scope))
           /\ Cardinality(Earlier(k + 1, scope)) =
                 Cardinality(Earlier(k, scope)) + (IF k \in Matching(scope) THEN 1 ELSE 0)
<1>0. Matching(scope) \subseteq Nat
  BY ConversationsSound DEF Matching
<1>1. ASSUME NEW j \in Nat, j <= k
      PROVE  Cardinality(Earlier(j, scope)) <= Cardinality(Earlier(k, scope))
  <2>1. Earlier(j, scope) \in SUBSET Earlier(k, scope)
    BY <1>0, <1>1 DEF Earlier
  <2> QED BY <2>1, EarlierFinite, FS_Subset, Zenon
<1>2. CASE k \in Matching(scope)
  <2>1. Earlier(k + 1, scope) = Earlier(k, scope) \cup {k} /\ k \notin Earlier(k, scope)
    BY <1>0, <1>2 DEF Earlier
  <2>2. Cardinality(Earlier(k, scope) \cup {k}) = Cardinality(Earlier(k, scope)) + 1
    BY <2>1, EarlierFinite, FS_AddElement, Zenon
  <2> QED BY <1>1, <1>2, <2>1, <2>2
<1>3. CASE k \notin Matching(scope)
  <2>1. Earlier(k + 1, scope) = Earlier(k, scope)
    BY <1>0, <1>3 DEF Earlier
  <2> QED BY <1>1, <1>3, <2>1, EarlierFinite
<1> QED BY <1>1, <1>2, <1>3

LEMMA SelectedAre ==
    ASSUME NEW scope
    PROVE  /\ Selected(scope) \subseteq 1..Len(Conversations)
           /\ \A k : k \in Selected(scope) <=>
                 k \in Matching(scope) /\ (scope.limit = 0 \/ Cardinality(Earlier(k, scope)) < scope.limit)
BY ConversationsSound DEF Selected, Matching, Earlier

(* The message of a record is found again by its key.                        *)
LEMMA NodeOfRecord ==
    ASSUME NEW r, r.place \in 1..Len(Conversations), NEW n \in Nodes(r.place), n.node = r.node
    PROVE  NodeAt(r) = n
BY ConversationsSound DEF NodeAt, Nodes, SoundConversation

-----------------------------------------------------------------------------
(* Where the import is while it reads a conversation.                        *)
LEMMA ScopeTypes ==
    ASSUME NEW scope \in Scopes
    PROVE  scope.limit \in Nat /\ scope.since \in Nat /\ scope.captions \in BOOLEAN
           /\ scope.dry \in BOOLEAN
BY ExportAssumption

LEMMA AtSelected ==
    ASSUME NEW i, IsImport(i), Placed(i), Within(i)
    PROVE  i.next \in Selected(i.scope) /\ i.next \in 1..Len(Conversations)
<1>1. i.next \in Matching(i.scope) /\ i.scope.limit \in Nat /\ i.found \in Nat
  BY ScopeTypes DEF IsImport, Placed
<1>2. i.found = Cardinality(Earlier(i.next, i.scope)) + 1
  BY DEF Placed
<1>3. i.scope.limit = 0 \/ Cardinality(Earlier(i.next, i.scope)) < i.scope.limit
  BY <1>1, <1>2, EarlierFinite DEF Placed
<1> QED BY <1>1, <1>3, SelectedAre

LEMMA HereIs ==
    ASSUME NEW i, IsImport(i), Placed(i), Within(i), i.node <= Cardinality(Nodes(i.next))
    PROVE  /\ Here(i) \in Nodes(i.next) /\ NodePlace(i.next, Here(i)) = i.node - 1
           /\ \A m \in Nodes(i.next) : NodePlace(i.next, m) = i.node - 1 => m = Here(i)
<1>1. i.next \in 1..Len(Conversations) /\ i.node \in Nat \ {0}
  BY AtSelected DEF IsImport
<1> QED BY <1>1, MessageThere, Zenon DEF Here

(* One message more is read.                                                 *)
LEMMA HasOneMore ==
    ASSUME NEW i, IsImport(i), Placed(i), Within(i), i.node <= Cardinality(Nodes(i.next)),
           NEW new, new.at = "reading", new.next = i.next, new.node = i.node + 1,
           NEW k \in 1..Len(Conversations), NEW n \in Nodes(k)
    PROVE  Has(new, k, n) <=> Has(i, k, n) \/ (k = i.next /\ n = Here(i))
<1>1. NodePlace(k, n) \in Nat /\ i.node \in Nat \ {0} /\ i.next \in Nat
  BY NodePlaces DEF IsImport
<1>2. k = i.next => (n = Here(i) <=> NodePlace(k, n) = i.node - 1)
  BY HereIs
<1>3. Within(new)
  BY DEF Within
<1>4. k = i.next => (NodePlace(k, n) < new.node - 1 <=> NodePlace(k, n) < i.node - 1 \/ n = Here(i))
  BY <1>1, <1>2
<1> QED BY <1>1, <1>3, <1>4 DEF Has

LEMMA PlacedStill ==
    ASSUME NEW i, Placed(i), Within(i),
           NEW new, Within(new), new.next = i.next, new.found = i.found, new.scope = i.scope
    PROVE  Placed(new)
BY DEF Placed, Within

LEMMA SkippedMessage ==
    ASSUME NEW i, IsImport(i), Placed(i), RecordsThem(i), Within(i),
           i.node <= Cardinality(Nodes(i.next)),
           ~Accepted(Here(i), Conversations[i.next], i.scope),
           NEW new, new.at = "reading", new.next = i.next, new.node = i.node + 1,
           new.scope = i.scope, new.records = i.records
    PROVE  RecordsThem(new)
<1>1. ASSUME NEW k \in Selected(i.scope), NEW n \in Nodes(k)
      PROVE  Has(new, k, n) <=> Has(i, k, n) \/ (k = i.next /\ n = Here(i))
  BY <1>1, SelectedAre, HasOneMore
<1> QED BY <1>1 DEF RecordsThem

LEMMA StoredMessage ==
    ASSUME NEW i, IsImport(i), Placed(i), RecordsThem(i), InOrder(i), Within(i),
           i.node <= Cardinality(Nodes(i.next)),
           Accepted(Here(i), Conversations[i.next], i.scope),
           NEW text \in Texts,
           NEW new, new.at = "reading", new.next = i.next, new.node = i.node + 1,
           new.scope = i.scope,
           new.records = Append(i.records, [place |-> i.next, node |-> Here(i).node, text |-> text])
    PROVE  RecordsThem(new) /\ InOrder(new)
<1> DEFINE r == [place |-> i.next, node |-> Here(i).node, text |-> text]
           L == Len(i.records)
<1>1. /\ i.next \in Selected(i.scope) /\ i.next \in 1..Len(Conversations)
      /\ Here(i) \in Nodes(i.next) /\ NodePlace(i.next, Here(i)) = i.node - 1
  BY AtSelected, HereIs
<1>2. /\ L \in Nat /\ DOMAIN i.records = 1..L
      /\ DOMAIN new.records = 1..L + 1 /\ new.records[L + 1] = r
      /\ \A j \in 1..L : new.records[j] = i.records[j]
  <2>1. i.records \in RecordLists
    BY DEF IsImport
  <2> QED BY <2>1 DEF RecordLists
<1>3. ASSUME NEW k \in Selected(i.scope), NEW n \in Nodes(k)
      PROVE  Has(new, k, n) <=> Has(i, k, n) \/ (k = i.next /\ n = Here(i))
  BY <1>3, SelectedAre, HasOneMore
<1>4. RecordsThem(new)
  <2>1. ASSUME NEW j \in 1..L + 1
        PROVE  /\ new.records[j].place \in Selected(i.scope)
               /\ \E n \in Nodes(new.records[j].place) :
                     /\ n.node = new.records[j].node /\ Has(new, new.records[j].place, n)
                     /\ Accepted(n, Conversations[new.records[j].place], i.scope)
    <3>1. CASE j = L + 1
      BY <1>1, <1>2, <1>3, <3>1
    <3>2. CASE j # L + 1
      <4>1. j \in 1..L
        BY <1>2, <3>2
      <4> QED BY <1>2, <1>3, <4>1 DEF RecordsThem
    <3> QED BY <3>1, <3>2
  <2>2. ASSUME NEW k \in Selected(i.scope), NEW n \in Nodes(k),
               Has(new, k, n), Accepted(n, Conversations[k], i.scope)
        PROVE  \E j \in 1..L + 1 : new.records[j].place = k /\ new.records[j].node = n.node
    <3>1. CASE k = i.next /\ n = Here(i)
      BY <1>2, <3>1
    <3>2. CASE Has(i, k, n)
      <4>1. PICK j \in 1..L : i.records[j].place = k /\ i.records[j].node = n.node
        BY <1>2, <2>2, <3>2 DEF RecordsThem
      <4> QED BY <1>2, <4>1
    <3> QED BY <1>3, <2>2, <3>1, <3>2
  <2> QED BY <1>2, <2>1, <2>2 DEF RecordsThem
<1>5. ASSUME NEW j \in 1..L PROVE RecordBefore(i.records[j], r)
  <2> DEFINE q == i.records[j]
  <2>1. PICK n \in Nodes(q.place) : n.node = q.node /\ Has(i, q.place, n)
    BY <1>2, <1>5 DEF RecordsThem
  <2>2. q.place \in 1..Len(Conversations)
    BY <1>2, <1>5, SelectedAre DEF RecordsThem
  <2>3. NodeAt(q) = n /\ NodeAt(r) = Here(i)
    BY <1>1, <2>1, <2>2, NodeOfRecord
  <2>4. CASE q.place < i.next
    BY <2>4 DEF RecordBefore
  <2>5. CASE q.place = i.next /\ NodePlace(i.next, n) < i.node - 1
    <3>1. NodeBefore(Conversations[i.next], n, Here(i))
      BY <1>1, <2>1, <2>5, NodePlaces
    <3> QED BY <2>3, <2>5, <3>1 DEF RecordBefore
  <2> QED BY <2>1, <2>4, <2>5 DEF Has
<1>6. InOrder(new)
  <2> SUFFICES ASSUME NEW j \in 1..L + 1, NEW k \in 1..L + 1, j < k
               PROVE  RecordBefore(new.records[j], new.records[k])
    BY <1>2 DEF InOrder
  <2>1. j \in 1..L
    BY <1>2
  <2>2. CASE k = L + 1
    BY <1>2, <1>5, <2>1, <2>2
  <2>3. CASE k # L + 1
    <3>1. k \in 1..L
      BY <1>2, <2>3
    <3> QED BY <1>2, <2>1, <3>1 DEF InOrder
  <2> QED BY <2>2, <2>3
<1> QED BY <1>4, <1>6

-----------------------------------------------------------------------------
(* What is done stays done: nothing is lost of the captions and the failures.*)
CaptionsKept ==
    /\ \A f \in DOMAIN captions : f \in DOMAIN captions' /\ captions'[f] = captions[f]
    /\ failed \subseteq failed'

LEMMA DoneStays ==
    ASSUME DoneIsCaptioned, CaptionsKept, checkpoint' = checkpoint \/ checkpoint' = Missing
    PROVE  DoneIsCaptioned'
BY DEF DoneIsCaptioned, CaptionsKept

LEMMA StartImportInv ==
    ASSUME ExportInv, NEW scope \in Scopes, StartImport(scope)
    PROVE  ExportInv'
<1> DEFINE new == [at |-> "between", scope |-> scope, done |-> checkpoint.done,
                   cache |-> captions, next |-> 1, node |-> 1, found |-> 0, records |-> << >>]
<1>1. import' = new /\ UNCHANGED <<checkpoint, captions, answers, failed, exportFaults>>
  BY DEF StartImport, OpenCaptionCache
<1>2. IsImport(new)
  <2>1. << >> \in RecordLists
    BY DEF RecordLists
  <2> QED BY <2>1 DEF IsImport, Steps, ExportInv, ExportTyped
<1>3. Placed(new)
  <2>1. Earlier(1, scope) = {}
    BY ConversationsSound DEF Earlier, Matching
  <2>2. Cardinality(Earlier(1, scope)) = 0
    BY <2>1, FS_EmptySet
  <2>3. scope.limit \in Nat /\ Len(Conversations) \in Nat
    BY ScopeTypes, ConversationsSound
  <2> QED BY <2>2, <2>3 DEF Placed, Within
<1>4. \A k \in 1..Len(Conversations) : \A n : ~Has(new, k, n)
  BY DEF Has, Within
<1>5. RecordsThem(new) /\ InOrder(new)
  BY <1>4, SelectedAre DEF RecordsThem, InOrder
<1>6. Caches(new)
  BY DEF Caches
<1>7. Describing(new)
  BY <1>4, SelectedAre DEF Describing
<1>8. KeepsCheckpoint(new)
  BY DEF KeepsCheckpoint, StartImport
<1> HIDE DEF new
<1>9. DoneIsCaptioned'
  BY <1>1, DoneStays DEF ExportInv, CaptionsKept
<1> QED BY <1>1, <1>2, <1>3, <1>5, <1>6, <1>7, <1>8, <1>9
        DEF ExportInv, ExportTyped, Caches, Describing, KeepsCheckpoint

LEMMA SameRead ==
    ASSUME NEW i, RecordsThem(i), InOrder(i), Caches(i), Describing(i), i.at \notin {"asking", "saving"},
           NEW new, new.scope = i.scope, new.records = i.records, new.cache = i.cache,
           new.at \notin {"asking", "saving"},
           \A k \in Selected(i.scope) : \A n \in Nodes(k) : Has(new, k, n) <=> Has(i, k, n)
    PROVE  RecordsThem(new) /\ InOrder(new) /\ Caches(new) /\ Describing(new)
<1>1. RecordsThem(new) /\ InOrder(new)
  BY DEF RecordsThem, InOrder
<1>2. Caches(new)
  BY DEF Caches
<1>3. Describing(new)
  BY DEF Describing, Describes
<1> QED BY <1>1, <1>2, <1>3

LEMMA NextConversationInv == ExportInv /\ NextConversation => ExportInv'
<1> SUFFICES ASSUME ExportInv, NextConversation PROVE ExportInv'
  OBVIOUS
<1>1. /\ import # NoImport /\ import.at = "between" /\ IsImport(import)
      /\ Placed(import) /\ RecordsThem(import) /\ InOrder(import)
      /\ Caches(import) /\ Describing(import) /\ KeepsCheckpoint(import)
  <2>1. import # NoImport /\ import.at = "between"
    BY DEF NextConversation, Advance, NoImport
  <2> QED BY <2>1 DEF ExportInv, ExportTyped
<1>2. UNCHANGED <<checkpoint, captions, answers, failed, exportFaults>>
  BY DEF NextConversation
<1>3. /\ import.next \in Nat \ {0} /\ import.found \in Nat /\ import.scope.limit \in Nat
      /\ Len(Conversations) \in Nat /\ ~Within(import)
  BY <1>1, ScopeTypes, ConversationsSound DEF IsImport, Within
<1>4. ASSUME NEW new, import' = new, IsImport(new), Placed(new), new.scope = import.scope,
             new.records = import.records, new.cache = import.cache, new.done = import.done,
             new.at \notin {"asking", "saving"},
             \A k \in Selected(import.scope) : \A n \in Nodes(k) :
                Has(new, k, n) <=> Has(import, k, n)
      PROVE  ExportInv'
  <2>1. RecordsThem(new) /\ InOrder(new) /\ Caches(new) /\ Describing(new)
    BY <1>1, <1>4, SameRead
  <2>2. KeepsCheckpoint(new)
    BY <1>1, <1>4 DEF KeepsCheckpoint
  <2>3. DoneIsCaptioned'
    BY <1>2, DoneStays DEF ExportInv, CaptionsKept
  <2> QED BY <1>2, <1>4, <2>1, <2>2, <2>3
          DEF ExportInv, ExportTyped, Caches, Describing, KeepsCheckpoint
<1>5. CASE LimitReached \/ import.next > Len(Conversations)
  <2> DEFINE new == [import EXCEPT !.at = "parsed"]
  <2>1. import' = new
    BY <1>5 DEF NextConversation, Advance
  <2>2. IsImport(new) /\ new.next = import.next /\ new.found = import.found /\ new.at = "parsed"
        /\ new.scope = import.scope /\ new.records = import.records /\ new.cache = import.cache
        /\ new.done = import.done
    BY <1>1 DEF IsImport, Steps
  <2> HIDE DEF new
  <2>3. ~Within(new)
    BY <2>2 DEF Within
  <2>4. Placed(new)
    BY <1>1, <1>3, <1>5, <2>2, <2>3 DEF Placed, LimitReached
  <2>5. \A k, n : Has(new, k, n) <=> Has(import, k, n)
    BY <1>3, <2>2, <2>3 DEF Has
  <2> QED BY <1>4, <2>1, <2>2, <2>4, <2>5
<1>6. CASE ~(LimitReached \/ import.next > Len(Conversations)) /\ Selects(Conversation, import.scope)
  <2> DEFINE new == [import EXCEPT !.at = "reading", !.node = 1, !.found = import.found + 1]
  <2>1. import' = new
    BY <1>6 DEF NextConversation, Advance
  <2>2. IsImport(new) /\ new.next = import.next /\ new.found = import.found + 1 /\ new.at = "reading"
        /\ new.scope = import.scope /\ new.records = import.records /\ new.cache = import.cache
        /\ new.done = import.done /\ new.node = 1
    <3>1. /\ new.next = import.next /\ new.found = import.found + 1 /\ new.at = "reading"
          /\ new.scope = import.scope /\ new.records = import.records /\ new.cache = import.cache
          /\ new.done = import.done /\ new.node = 1
      BY <1>1 DEF IsImport
    <3>2. import.found + 1 \in Nat /\ 1 \in Nat \ {0} /\ "reading" \in Steps
      BY <1>3 DEF Steps
    <3>3. IsImport(new)
      BY <1>1, <3>2 DEF IsImport
    <3> QED BY <3>1, <3>3
  <2> HIDE DEF new
  <2>3. Within(new)
    BY <2>2 DEF Within
  <2>4. import.next \in Matching(import.scope)
    BY <1>3, <1>6, ConversationsSound DEF Matching, Conversation
  <2>5. Placed(new)
    BY <1>1, <1>3, <1>6, <2>2, <2>3, <2>4, EarlierFinite DEF Placed, LimitReached
  <2>6. \A k \in Selected(import.scope) : \A n \in Nodes(k) : Has(new, k, n) <=> Has(import, k, n)
    BY <1>3, <2>2, SelectedAre, NodePlaces DEF Has
  <2> QED BY <1>4, <2>1, <2>2, <2>5, <2>6
<1>7. CASE ~(LimitReached \/ import.next > Len(Conversations)) /\ ~Selects(Conversation, import.scope)
  <2> DEFINE new == [import EXCEPT !.next = import.next + 1]
  <2>1. import' = new
    BY <1>7 DEF NextConversation, Advance
  <2>2. IsImport(new) /\ new.next = import.next + 1 /\ new.found = import.found /\ new.at = "between"
        /\ new.scope = import.scope /\ new.records = import.records /\ new.cache = import.cache
        /\ new.done = import.done
    BY <1>1, <1>3 DEF IsImport
  <2> HIDE DEF new
  <2>3. ~Within(new)
    BY <2>2 DEF Within
  <2>4. import.next \notin Matching(import.scope)
    BY <1>7 DEF Matching, Conversation
  <2>5. Placed(new)
    BY <1>1, <1>3, <1>7, <2>2, <2>3, <2>4, EarlierFinite, EarlierCounts DEF Placed
  <2>6. \A k \in Selected(import.scope) : \A n \in Nodes(k) : Has(new, k, n) <=> Has(import, k, n)
    <3>1. \A k \in Selected(import.scope) : k \in Nat /\ k # import.next
      BY <2>4, SelectedAre
    <3> QED BY <1>3, <2>2, <2>3, <3>1 DEF Has
  <2> QED BY <1>4, <2>1, <2>2, <2>5, <2>6
<1> QED BY <1>5, <1>6, <1>7

LEMMA MetaDescribes == CheckpointMeta(import.scope).captions => Describes(import)
BY DEF CheckpointMeta, Describes

LEMMA MarkDoneInv == ExportInv /\ MarkDone => ExportInv'
<1> SUFFICES ASSUME ExportInv, MarkDone PROVE ExportInv'
  OBVIOUS
<1>1. /\ import # NoImport /\ import.at = "reading" /\ IsImport(import)
      /\ Placed(import) /\ RecordsThem(import) /\ InOrder(import)
      /\ Caches(import) /\ Describing(import) /\ KeepsCheckpoint(import)
  <2>1. import # NoImport /\ import.at = "reading"
    BY DEF MarkDone, NoImport
  <2> QED BY <2>1 DEF ExportInv, ExportTyped
<1>2. UNCHANGED <<captions, answers, failed, exportFaults>>
  BY DEF MarkDone
<1> DEFINE done == import.done \cup {Conversation.id}
           new == [import EXCEPT !.done = done, !.next = import.next + 1, !.at = "between"]
           scope == import.scope
<1>3. /\ import' = new /\ import.node > Cardinality(Nodes(import.next))
      /\ checkpoint' = IF done = import.done THEN checkpoint
                       ELSE [scope |-> CheckpointMeta(scope), done |-> done]
  BY DEF MarkDone, Conversation, Nodes
<1>4. /\ import.next \in Selected(scope) /\ import.next \in 1..Len(Conversations)
      /\ import.node \in Nat /\ Conversation.id \in Int /\ done \subseteq Int /\ Within(import)
      /\ scope \in Scopes
  BY <1>1, AtSelected, ConversationsSound DEF IsImport, Within, Conversation, SoundConversation
<1>5. IsImport(new) /\ new.next = import.next + 1 /\ new.found = import.found /\ new.at = "between"
      /\ new.scope = scope /\ new.records = import.records /\ new.cache = import.cache
      /\ new.done = done
  <2> HIDE DEF done
  <2>1. /\ new.next = import.next + 1 /\ new.found = import.found /\ new.at = "between"
        /\ new.scope = scope /\ new.records = import.records /\ new.cache = import.cache
        /\ new.done = done
    BY <1>1 DEF IsImport
  <2>2. import.next + 1 \in Nat \ {0} /\ "between" \in Steps
    BY <1>4 DEF Steps
  <2>3. IsImport(new)
    BY <1>1, <1>4, <2>2 DEF IsImport
  <2> QED BY <2>1, <2>3
<1>6. /\ checkpoint'.done = done
      /\ checkpoint' = Missing \/ DOMAIN checkpoint' = {"scope", "done"}
      /\ checkpoint' # Missing => checkpoint'.scope = CheckpointMeta(scope)
  BY <1>1, <1>3 DEF KeepsCheckpoint, ExportInv, ExportTyped
<1> HIDE DEF new
<1>7. ~Within(new)
  BY <1>5 DEF Within
<1>8. Placed(new)
  <2>1. import.next \in Matching(scope) /\ import.found = Cardinality(Earlier(import.next, scope)) + 1
    BY <1>1, <1>4 DEF Placed
  <2>2. Cardinality(Earlier(import.next + 1, scope)) = Cardinality(Earlier(import.next, scope)) + 1
    BY <1>4, <2>1, EarlierCounts
  <2>3. import.next + 1 <= Len(Conversations) + 1
    BY <1>4, ConversationsSound
  <2>4. Cardinality(Earlier(import.next, scope)) \in Nat
    BY EarlierFinite
  <2> QED BY <1>1, <1>5, <1>7, <2>1, <2>2, <2>3, <2>4 DEF Placed
<1>9. \A k \in Selected(scope) : \A n \in Nodes(k) : Has(new, k, n) <=> Has(import, k, n)
  <2> SUFFICES ASSUME NEW k \in Selected(scope), NEW n \in Nodes(k)
               PROVE  Has(new, k, n) <=> Has(import, k, n)
    OBVIOUS
  <2>1. k \in 1..Len(Conversations) /\ NodePlace(k, n) \in Nat
        /\ NodePlace(k, n) < Cardinality(Nodes(k)) /\ Cardinality(Nodes(k)) \in Nat
    BY SelectedAre, NodePlaces
  <2>2. k = import.next => NodePlace(k, n) < import.node - 1
    BY <1>3, <1>4, <2>1
  <2> QED BY <1>4, <1>5, <1>7, <2>1, <2>2 DEF Has
<1>10. RecordsThem(new) /\ InOrder(new) /\ Caches(new) /\ Describing(new)
  BY <1>1, <1>5, <1>9, SameRead
<1>11. DoneIsCaptioned'
  <2> SUFFICES ASSUME checkpoint' # Missing, checkpoint'.scope.captions, NEW id \in checkpoint'.done
               PROVE  LET of == {k \in Selected(CheckpointMeta(scope)) : Conversations[k].id = id}
                          first == CHOOSE k \in of : \A j \in of : k <= j
                      IN  \A n \in Conversations[first].nodes :
                             Accepted(n, Conversations[first], CheckpointMeta(scope))
                               /\ Chosen(n) \in Images \ failed => Chosen(n) \in DOMAIN captions
    BY <1>2, <1>6 DEF DoneIsCaptioned
  <2> DEFINE of == {k \in Selected(scope) : Conversations[k].id = id}
             first == CHOOSE k \in of : \A j \in of : k <= j
  <2>1. Selected(CheckpointMeta(scope)) = Selected(scope)
    BY DEF Selected, CheckpointMeta, Selects
  <2>2. \A n, c : Accepted(n, c, CheckpointMeta(scope)) <=> Accepted(n, c, scope)
    BY DEF Accepted, CheckpointMeta
  <2>3. CASE id \in checkpoint.done /\ checkpoint # Missing
    <3>1. checkpoint.scope = CheckpointMeta(scope)
      BY <1>1, <2>3 DEF KeepsCheckpoint
    <3>2. checkpoint.scope.captions
      BY <1>6, <3>1
    <3> QED BY <2>3, <3>1, <3>2 DEF ExportInv, DoneIsCaptioned
  <2>4. CASE id = Conversation.id
    <3>1. import.next \in of
      BY <1>4, <2>4 DEF Conversation
    <3>2. of \subseteq Nat
      BY SelectedAre
    <3>3. first \in of /\ first <= import.next
      <4>1. \E k \in of : \A j \in of : k <= j
        <5> HIDE DEF of
        <5> QED BY <3>1, <3>2, LeastNatural, Zenon
      <4> QED BY <3>1, <4>1
    <3>4. Describes(import)
      BY <1>6, MetaDescribes
    <3>5. first \in Selected(scope) /\ first \in Nat
      BY <3>2, <3>3
    <3> HIDE DEF first, of
    <3>6. \A n \in Nodes(first) : Has(new, first, n)
      BY <1>4, <1>5, <3>3, <3>5 DEF Has
    <3>7. \A n \in Nodes(first) : Accepted(n, Conversations[first], scope) /\ Chosen(n) \in Images \ failed
                                    => Chosen(n) \in DOMAIN captions
      BY <1>5, <1>10, <3>4, <3>5, <3>6 DEF Describing, Describes
    <3> QED BY <2>1, <2>2, <3>7 DEF first, of, Nodes
  <2>5. checkpoint = Missing => checkpoint.done = {}
    BY DEF Missing
  <2> QED BY <1>1, <1>6, <2>3, <2>4, <2>5 DEF KeepsCheckpoint
<1>12. /\ new.done = checkpoint'.done
       /\ checkpoint' # Missing => checkpoint'.scope = CheckpointMeta(new.scope)
  BY <1>5, <1>6
<1>13. checkpoint'.done \subseteq Int
  BY <1>4, <1>6
<1> QED
  BY <1>2, <1>3, <1>5, <1>6, <1>8, <1>10, <1>11, <1>12, <1>13
  DEF ExportInv, ExportTyped, Caches, Describing, KeepsCheckpoint

(* An import that reads a message, as the actions find it.                   *)
LEMMA Reading ==
    ASSUME ExportInv, import # NoImport, Within(import), import.node <= Cardinality(Nodes(import.next))
    PROVE  /\ IsImport(import) /\ Placed(import) /\ RecordsThem(import) /\ InOrder(import)
           /\ Caches(import) /\ Describing(import) /\ KeepsCheckpoint(import)
           /\ import.next \in Selected(import.scope) /\ import.next \in 1..Len(Conversations)
           /\ Node = Here(import) /\ Node \in Nodes(import.next) /\ Conversation = Conversations[import.next]
<1>1. /\ IsImport(import) /\ Placed(import) /\ RecordsThem(import) /\ InOrder(import)
      /\ Caches(import) /\ Describing(import) /\ KeepsCheckpoint(import)
  BY DEF ExportInv, ExportTyped
<1>2. Conversation = Conversations[import.next] /\ Node = Here(import)
  BY DEF Conversation, Node, Here
<1> QED BY <1>1, <1>2, AtSelected, HereIs

LEMMA WithRecord ==
    ASSUME IsImport(import), NEW text \in Texts, Node.node \in Nat
    PROVE  LET new == Stored(text)
           IN  /\ IsImport(new) /\ new.at = "reading" /\ new.next = import.next
               /\ new.node = import.node + 1 /\ new.found = import.found /\ new.scope = import.scope
               /\ new.cache = import.cache /\ new.done = import.done
               /\ new.records = Append(import.records,
                                   [place |-> import.next, node |-> Node.node, text |-> text])
<1> DEFINE new == Stored(text)
           r == [place |-> import.next, node |-> Node.node, text |-> text]
<1>1. /\ new.at = "reading" /\ new.next = import.next
      /\ new.node = import.node + 1 /\ new.found = import.found /\ new.scope = import.scope
      /\ new.cache = import.cache /\ new.done = import.done
      /\ new.records = Append(import.records, r)
  BY DEF IsImport, Stored, Record
<1>2. import.records \in RecordLists /\ import.next \in Nat /\ import.node + 1 \in Nat \ {0}
      /\ "reading" \in Steps
  BY DEF IsImport, Steps
<1>3. Append(import.records, r) \in RecordLists
  BY <1>2 DEF RecordLists
<1>4. IsImport(new)
  <2> HIDE DEF r
  <2>1. Stored(text) = [import EXCEPT !.records = Append(import.records, r),
                                      !.node = import.node + 1, !.at = "reading"]
    BY DEF Stored, Record, r
  <2> QED BY <1>2, <1>3, <2>1 DEF IsImport
<1> QED BY <1>1, <1>4

LEMMA RecordOfHere ==
    ASSUME NEW k \in 1..Len(Conversations), NEW n \in Nodes(k), NEW text
    PROVE  NodeAt([place |-> k, node |-> n.node, text |-> text]) = n
BY NodeOfRecord

LEMMA StoreInv ==
    ASSUME ExportInv, import # NoImport, Within(import), import.node <= Cardinality(Nodes(import.next)),
           Accepted(Node, Conversation, import.scope), NEW text \in Texts, import' = Stored(text),
           UNCHANGED checkpoint, CaptionsKept, answers' \in Nat,
           \A f \in DOMAIN captions' : captions'[f] \in Nat,
           \A f \in DOMAIN captions' : f \in DOMAIN import.cache /\ import.cache[f] = captions'[f],
           \A f \in DOMAIN import.cache : f \in DOMAIN captions' \/ f \in failed',
           text.kind = "caption" /\ Chosen(Node) \notin failed' =>
              Chosen(Node) \in DOMAIN captions' /\ text.caption = captions'[Chosen(Node)],
           Describes(import) /\ Chosen(Node) \in Images \ failed' => Chosen(Node) \in DOMAIN captions'
    PROVE  ExportInv'
<1> DEFINE new == Stored(text)
           k == import.next
           r == [place |-> k, node |-> Node.node, text |-> text]
           L == Len(import.records)
<1>1. /\ IsImport(import) /\ Placed(import) /\ RecordsThem(import) /\ InOrder(import)
      /\ Caches(import) /\ Describing(import) /\ KeepsCheckpoint(import)
      /\ k \in Selected(import.scope) /\ k \in 1..Len(Conversations)
      /\ Node = Here(import) /\ Node \in Nodes(k) /\ Conversation = Conversations[k]
  BY Reading
<1>2. Node.node \in Nat
  BY <1>1, MessageTimeType
<1>3. /\ IsImport(new) /\ new.at = "reading" /\ new.next = k
      /\ new.node = import.node + 1 /\ new.found = import.found /\ new.scope = import.scope
      /\ new.cache = import.cache /\ new.done = import.done
      /\ new.records = Append(import.records, r)
  BY <1>1, <1>2, WithRecord
<1>4. import' = new
  OBVIOUS
<1> HIDE DEF new
<1>5. Placed(new)
  BY <1>1, <1>3, PlacedStill DEF Within
<1>6. RecordsThem(new) /\ InOrder(new)
  BY <1>1, <1>3, StoredMessage
<1>7. /\ L \in Nat /\ DOMAIN import.records = 1..L /\ DOMAIN new.records = 1..L + 1
      /\ new.records[L + 1] = r /\ \A j \in 1..L : new.records[j] = import.records[j]
  <2>1. import.records \in RecordLists
    BY <1>1 DEF IsImport
  <2> QED BY <1>3, <2>1 DEF RecordLists
<1>8. ASSUME NEW j \in 1..L + 1, new.records[j].text.kind = "caption",
             Chosen(NodeAt(new.records[j])) \notin failed'
      PROVE  /\ Chosen(NodeAt(new.records[j])) \in DOMAIN captions'
             /\ new.records[j].text.caption = captions'[Chosen(NodeAt(new.records[j]))]
  <2>1. CASE j = L + 1
    <3>1. NodeAt(r) = Node
      BY <1>1, RecordOfHere
    <3> QED BY <1>7, <1>8, <2>1, <3>1
  <2>2. CASE j # L + 1
    <3>1. j \in 1..L /\ new.records[j] = import.records[j]
      BY <1>7, <2>2
    <3> QED BY <1>1, <1>7, <1>8, <3>1 DEF Describing, CaptionsKept
  <2> QED BY <2>1, <2>2
<1>9. ASSUME Describes(import), NEW m \in Selected(import.scope), NEW n \in Nodes(m),
             Has(new, m, n), Accepted(n, Conversations[m], import.scope), Chosen(n) \in Images \ failed'
      PROVE  Chosen(n) \in DOMAIN captions'
  <2>1. Has(import, m, n) \/ n = Node
    BY <1>1, <1>3, <1>9, HasOneMore, SelectedAre
  <2>2. CASE Has(import, m, n)
    BY <1>1, <1>9, <2>2 DEF Describing, CaptionsKept
  <2>3. CASE n = Node
    BY <1>9, <2>3
  <2> QED BY <2>1, <2>2, <2>3
<1>10. Describing(import)'
  BY <1>3, <1>4, <1>7, <1>8, <1>9 DEF Describing, Describes
<1>11. Caches(import)'
  BY <1>3, <1>4 DEF Caches
<1>12. KeepsCheckpoint(import)'
  BY <1>1, <1>3, <1>4 DEF KeepsCheckpoint
<1>13. DoneIsCaptioned'
  BY DoneStays DEF ExportInv
<1> QED
  BY <1>3, <1>4, <1>5, <1>6, <1>10, <1>11, <1>12, <1>13 DEF ExportInv, ExportTyped

(* What is stored of a message.                                              *)
LEMMA StoredTexts ==
    /\ \A n : Text(extractMessageText(n)) \in Texts /\ Text(extractMessageText(n)).kind # "caption"
    /\ Text("name") \in Texts /\ Text("name").kind # "caption"
    /\ \A c \in Nat : Caption(c) \in Texts /\ Caption(c).caption = c
<1>1. \A n : extractMessageText(n) \in {"text", "blank", "unsupported", "stub"}
  BY DEF extractMessageText
<1> QED BY <1>1 DEF Text, Caption, Texts

LEMMA ReadMessageInv == ExportInv /\ ReadMessage => ExportInv'
<1> SUFFICES ASSUME ExportInv, ReadMessage PROVE ExportInv'
  OBVIOUS
<1> DEFINE file == Chosen(Node)
           describes == import.scope.captions /\ ~import.scope.dry /\ file # NoFile
<1>1. /\ import # NoImport /\ import.at = "reading" /\ import.node <= Cardinality(Nodes(import.next))
      /\ UNCHANGED <<checkpoint, captions, answers, failed, exportFaults>>
  BY DEF ReadMessage, NoImport, Nodes, Conversation
<1>2. /\ IsImport(import) /\ Placed(import) /\ RecordsThem(import) /\ InOrder(import)
      /\ Caches(import) /\ Describing(import) /\ KeepsCheckpoint(import)
      /\ import.next \in Selected(import.scope) /\ import.next \in 1..Len(Conversations)
      /\ Node = Here(import) /\ Node \in Nodes(import.next) /\ Conversation = Conversations[import.next]
      /\ Within(import)
  BY <1>1, Reading DEF Within
<1>3. import' = IF ~Accepted(Node, Conversation, import.scope) THEN Skipped
                ELSE IF ~describes THEN Stored(Text(extractMessageText(Node)))
                ELSE IF file \notin Images THEN Stored(Text("name"))
                ELSE IF file \in DOMAIN import.cache THEN Stored(Caption(import.cache[file]))
                ELSE [import EXCEPT !.at = "asking"]
  BY DEF ReadMessage
<1>4. CaptionsKept /\ answers' \in Nat /\ \A f \in DOMAIN captions' : captions'[f] \in Nat
  BY <1>1 DEF CaptionsKept, ExportInv, ExportTyped
<1>5. /\ \A f \in DOMAIN captions : f \in DOMAIN import.cache /\ import.cache[f] = captions[f]
      /\ \A f \in DOMAIN import.cache : f \in DOMAIN captions \/ f \in failed
      /\ \A f \in DOMAIN import.cache : import.cache[f] \in Nat
  BY <1>1, <1>2 DEF Caches, IsImport
<1>6. ASSUME Accepted(Node, Conversation, import.scope), NEW text \in Texts, import' = Stored(text),
             text.kind = "caption" => file \in DOMAIN import.cache /\ text.caption = import.cache[file],
             describes => file \notin Images \/ file \in DOMAIN import.cache
      PROVE  ExportInv'
  <2>1. text.kind = "caption" /\ file \notin failed' =>
           file \in DOMAIN captions' /\ text.caption = captions'[file]
    BY <1>1, <1>5, <1>6
  <2>2. Describes(import) /\ file \in Images \ failed' => file \in DOMAIN captions'
    <3>1. NoFile \notin Images
      BY ExportAssumption DEF NoFile
    <3> QED BY <1>1, <1>5, <1>6, <3>1 DEF Describes
  <2>3. /\ \A f \in DOMAIN captions' : f \in DOMAIN import.cache /\ import.cache[f] = captions'[f]
        /\ \A f \in DOMAIN import.cache : f \in DOMAIN captions' \/ f \in failed'
    BY <1>1, <1>5
  <2> HIDE DEF file, describes
  <2> QED BY <1>1, <1>2, <1>4, <1>6, <2>1, <2>2, <2>3, StoreInv DEF file
<1>7. CASE ~Accepted(Node, Conversation, import.scope)
  <2> DEFINE new == [import EXCEPT !.node = import.node + 1]
  <2>1. import' = new
    BY <1>3, <1>7 DEF Skipped
  <2>2. IsImport(new) /\ new.next = import.next /\ new.found = import.found /\ new.at = "reading"
        /\ new.scope = import.scope /\ new.records = import.records /\ new.cache = import.cache
        /\ new.done = import.done /\ new.node = import.node + 1
    BY <1>1, <1>2 DEF IsImport
  <2> HIDE DEF new, file, describes
  <2>3. Placed(new)
    BY <1>2, <2>2, PlacedStill DEF Within
  <2>4. RecordsThem(new) /\ InOrder(new)
    <3>1. RecordsThem(new)
      BY <1>1, <1>2, <1>7, <2>2, SkippedMessage
    <3> QED BY <1>2, <2>2, <3>1 DEF InOrder
  <2>5. Caches(new)
    BY <1>1, <1>2, <2>2 DEF Caches
  <2>6. \A k \in Selected(import.scope) : \A n \in Nodes(k) :
           Has(new, k, n) <=> Has(import, k, n) \/ (k = import.next /\ n = Here(import))
    BY <1>1, <1>2, <2>2, SelectedAre, HasOneMore
  <2>7. Describing(new)
    BY <1>2, <1>7, <2>2, <2>6 DEF Describing, Describes
  <2>8. KeepsCheckpoint(new)
    BY <1>2, <2>2 DEF KeepsCheckpoint
  <2>9. DoneIsCaptioned'
    BY <1>1, <1>4, DoneStays DEF ExportInv
  <2> QED BY <1>1, <1>4, <2>1, <2>2, <2>3, <2>4, <2>5, <2>7, <2>8, <2>9
          DEF ExportInv, ExportTyped, Caches, Describing, KeepsCheckpoint
<1>8. CASE Accepted(Node, Conversation, import.scope) /\ ~describes
  BY <1>3, <1>6, <1>8, StoredTexts
<1>9. CASE Accepted(Node, Conversation, import.scope) /\ describes /\ file \notin Images
  BY <1>3, <1>6, <1>9, StoredTexts
<1>10. CASE Accepted(Node, Conversation, import.scope) /\ describes /\ file \in Images
            /\ file \in DOMAIN import.cache
  BY <1>3, <1>5, <1>6, <1>10, StoredTexts
<1>11. CASE Accepted(Node, Conversation, import.scope) /\ describes /\ file \in Images
            /\ file \notin DOMAIN import.cache
  <2> DEFINE new == [import EXCEPT !.at = "asking"]
  <2>1. import' = new
    BY <1>3, <1>11
  <2>2. IsImport(new) /\ new.next = import.next /\ new.found = import.found /\ new.at = "asking"
        /\ new.scope = import.scope /\ new.records = import.records /\ new.cache = import.cache
        /\ new.done = import.done /\ new.node = import.node
    BY <1>1, <1>2 DEF IsImport, Steps
  <2> HIDE DEF new
  <2>3. Placed(new)
    BY <1>2, <2>2, PlacedStill DEF Within
  <2>4. \A k, n : Has(new, k, n) <=> Has(import, k, n)
    BY <1>2, <2>2 DEF Has, Within
  <2>5. RecordsThem(new) /\ InOrder(new)
    BY <1>2, <2>2, <2>4 DEF RecordsThem, InOrder
  <2>6. Describing(new)
    BY <1>2, <2>2, <2>4 DEF Describing, Describes
  <2>7. Here(new) = Node
    BY <1>2, <2>2 DEF Here
  <2>8. Caches(new)
    BY <1>1, <1>2, <1>5, <1>11, <2>2, <2>7 DEF Caches, Describes
  <2>9. KeepsCheckpoint(new)
    BY <1>2, <2>2 DEF KeepsCheckpoint
  <2>10. DoneIsCaptioned'
    BY <1>1, <1>4, DoneStays DEF ExportInv
  <2> HIDE DEF file, describes
  <2> QED BY <1>1, <1>4, <2>1, <2>2, <2>3, <2>5, <2>6, <2>8, <2>9, <2>10
          DEF ExportInv, ExportTyped, Caches, Describing, KeepsCheckpoint
<1> QED BY <1>7, <1>8, <1>9, <1>10, <1>11

LEMMA CaptionedInv == ExportInv /\ Captioned => ExportInv'
<1> SUFFICES ASSUME ExportInv, Captioned PROVE ExportInv'
  OBVIOUS
<1> DEFINE file == Chosen(Node)
           cache == [f \in DOMAIN import.cache \cup {file} |->
                        IF f = file THEN answers + 1 ELSE import.cache[f]]
           new == [import EXCEPT !.at = "saving", !.cache = cache]
<1>1. /\ import # NoImport /\ import.at = "asking" /\ answers' = answers + 1
      /\ import' = new /\ UNCHANGED <<checkpoint, captions, failed, exportFaults>>
  BY DEF Captioned, NoImport
<1>2. import.node <= Cardinality(Nodes(import.next)) /\ Within(import)
  BY <1>1 DEF ExportInv, Caches, Within
<1>3. /\ IsImport(import) /\ Placed(import) /\ RecordsThem(import) /\ InOrder(import)
      /\ Caches(import) /\ Describing(import) /\ KeepsCheckpoint(import)
      /\ Node = Here(import)
  BY <1>1, <1>2, Reading
<1>4. answers + 1 \in Nat
  BY DEF ExportInv, ExportTyped
<1>5. /\ DOMAIN cache = DOMAIN import.cache \cup {file} /\ cache[file] = answers + 1
      /\ \A f \in DOMAIN import.cache : f # file => cache[f] = import.cache[f]
  OBVIOUS
<1>6. \A f \in DOMAIN cache : cache[f] \in Nat
  <2> HIDE DEF cache
  <2> QED BY <1>3, <1>4, <1>5 DEF IsImport
<1> HIDE DEF cache
<1>7. /\ new.next = import.next /\ new.found = import.found /\ new.at = "saving"
      /\ new.scope = import.scope /\ new.records = import.records /\ new.cache = cache
      /\ new.done = import.done /\ new.node = import.node
  BY <1>3 DEF IsImport
<1>8. IsImport(new)
  BY <1>3, <1>6 DEF IsImport, Steps
<1> HIDE DEF new
<1>9. Placed(new)
  BY <1>2, <1>3, <1>7, PlacedStill DEF Within
<1>10. \A k, n : Has(new, k, n) <=> Has(import, k, n)
  BY <1>2, <1>7 DEF Has, Within
<1>11. RecordsThem(new) /\ InOrder(new)
  BY <1>3, <1>7, <1>10 DEF RecordsThem, InOrder
<1>12. Describing(new)
  BY <1>3, <1>7, <1>10 DEF Describing, Describes
<1>13. Here(new) = Node
  BY <1>3, <1>7 DEF Here
<1>14. Caches(new)
  <2>1. file \notin DOMAIN import.cache /\ Describes(import) /\ Accepted(Node, Conversations[import.next], import.scope)
    BY <1>1, <1>3 DEF Caches
  <2> HIDE DEF file
  <2>2. \A f \in DOMAIN captions : f \in DOMAIN cache /\ cache[f] = captions[f]
    BY <1>3, <1>5, <2>1 DEF Caches
  <2>3. \A f \in DOMAIN cache : f \in DOMAIN captions \/ f \in failed \/ f = file
    BY <1>1, <1>3, <1>5 DEF Caches
  <2> QED BY <1>2, <1>5, <1>7, <1>13, <2>1, <2>2, <2>3 DEF Caches, Describes, file
<1>15. KeepsCheckpoint(new)
  BY <1>3, <1>7 DEF KeepsCheckpoint
<1>16. DoneIsCaptioned'
  BY <1>1, DoneStays DEF ExportInv, CaptionsKept
<1> HIDE DEF file
<1> QED BY <1>1, <1>4, <1>8, <1>9, <1>11, <1>12, <1>14, <1>15, <1>16
        DEF ExportInv, ExportTyped, Caches, Describing, KeepsCheckpoint

LEMMA SaveCaptionInv == ExportInv /\ SaveCaption => ExportInv'
<1> SUFFICES ASSUME ExportInv, SaveCaption PROVE ExportInv'
  OBVIOUS
<1> DEFINE text == Caption(import.cache[Chosen(Node)])
<1>1. /\ import # NoImport /\ import.at = "saving" /\ captions' = import.cache
      /\ import' = Stored(text) /\ UNCHANGED <<checkpoint, answers, failed, exportFaults>>
  BY DEF SaveCaption, NoImport
<1>2. import.node <= Cardinality(Nodes(import.next)) /\ Within(import)
  BY <1>1 DEF ExportInv, Caches, Within
<1>3. /\ IsImport(import) /\ Caches(import) /\ Node = Here(import)
      /\ Conversation = Conversations[import.next]
  BY <1>1, <1>2, Reading
<1>4. /\ Accepted(Node, Conversation, import.scope) /\ Chosen(Node) \in DOMAIN import.cache
      /\ \A f \in DOMAIN captions : f \in DOMAIN import.cache /\ import.cache[f] = captions[f]
      /\ \A f \in DOMAIN import.cache : import.cache[f] \in Nat
  BY <1>1, <1>3 DEF Caches, IsImport
<1>5. text \in Texts /\ text.caption = import.cache[Chosen(Node)]
  BY <1>4, StoredTexts
<1>6. CaptionsKept
  BY <1>1, <1>4 DEF CaptionsKept
<1>7. answers' \in Nat
  BY <1>1 DEF ExportInv, ExportTyped
<1> HIDE DEF text
<1> QED BY <1>1, <1>2, <1>4, <1>5, <1>6, <1>7, StoreInv

LEMMA CaptionFailsInv == ExportInv /\ CaptionFails => ExportInv'
<1> SUFFICES ASSUME ExportInv, CaptionFails PROVE ExportInv'
  OBVIOUS
<1> DEFINE text == Text(extractMessageText(Node))
<1>1. /\ import # NoImport /\ import.at \in {"asking", "saving"}
      /\ failed' = failed \cup {Chosen(Node)}
      /\ import' = Stored(text) /\ UNCHANGED <<checkpoint, captions, answers>>
  BY DEF CaptionFails, NoImport
<1>2. import.node <= Cardinality(Nodes(import.next)) /\ Within(import)
  BY <1>1 DEF ExportInv, Caches, Within
<1>3. /\ Caches(import) /\ Node = Here(import)
      /\ Conversation = Conversations[import.next]
  BY <1>1, <1>2, Reading
<1>4. /\ Accepted(Node, Conversation, import.scope)
      /\ \A f \in DOMAIN captions : f \in DOMAIN import.cache /\ import.cache[f] = captions[f]
      /\ \A f \in DOMAIN import.cache : f \in DOMAIN captions \/ f \in failed'
  BY <1>1, <1>3 DEF Caches
<1>5. text \in Texts /\ text.kind # "caption"
  BY StoredTexts
<1>6. CaptionsKept /\ answers' \in Nat /\ \A f \in DOMAIN captions' : captions'[f] \in Nat
  BY <1>1 DEF CaptionsKept, ExportInv, ExportTyped
<1> HIDE DEF text
<1> QED BY <1>1, <1>2, <1>4, <1>5, <1>6, StoreInv

(* The import ends: what is left is the files.                               *)
LEMMA EndImportInv ==
    ASSUME ExportInv, import' = NoImport, UNCHANGED <<captions, answers, failed>>,
           checkpoint' = checkpoint \/ checkpoint' = Missing
    PROVE  ExportInv'
<1>1. DoneIsCaptioned'
  BY DoneStays DEF ExportInv, CaptionsKept
<1>2. ExportTyped'
  BY DEF ExportInv, ExportTyped, Missing
<1> QED BY <1>1, <1>2 DEF ExportInv

LEMMA ExportStart == ExportInit => ExportInv
BY DEF ExportInit, ExportInv, ExportTyped, DoneIsCaptioned, Missing

LEMMA ExportStep == ExportInv /\ [ExportNext]_exportVars => ExportInv'
<1> SUFFICES ASSUME ExportInv, [ExportNext]_exportVars PROVE ExportInv'
  OBVIOUS
<1>1. ASSUME NEW scope \in Scopes, StartImport(scope) PROVE ExportInv'
  BY <1>1, StartImportInv
<1>2. CASE NextConversation
  BY <1>2, NextConversationInv
<1>3. CASE ReadMessage
  BY <1>3, ReadMessageInv
<1>4. CASE Captioned
  BY <1>4, CaptionedInv
<1>5. CASE SaveCaption
  BY <1>5, SaveCaptionInv
<1>6. CASE CaptionFails
  BY <1>6, CaptionFailsInv
<1>7. CASE MarkDone
  BY <1>7, MarkDoneInv
<1>8. CASE FinishImport
  BY <1>8, EndImportInv DEF FinishImport
<1>9. CASE StopImport
  BY <1>9, EndImportInv DEF StopImport
<1>10. CASE DeleteCheckpoint
  BY <1>10, EndImportInv DEF DeleteCheckpoint
<1>11. CASE UNCHANGED exportVars
  BY <1>11 DEF exportVars, ExportInv, ExportTyped, DoneIsCaptioned, Caches, Describing, KeepsCheckpoint
<1> QED BY <1>1, <1>2, <1>3, <1>4, <1>5, <1>6, <1>7, <1>8, <1>9, <1>10, <1>11 DEF ExportNext

(* At the end of a parse there is nothing of the scope it has not read.      *)
LEMMA ParsedHas ==
    ASSUME NEW i, IsImport(i), Placed(i), i.at = "parsed", NEW k \in Selected(i.scope)
    PROVE  k < i.next
<1>1. /\ k \in 1..Len(Conversations) /\ Len(Conversations) \in Nat /\ i.next \in Nat
      /\ i.scope.limit \in Nat /\ i.found \in Nat /\ ~Within(i)
  BY SelectedAre, ConversationsSound, ScopeTypes DEF IsImport, Within
<1>2. CASE i.next > Len(Conversations)
  BY <1>1, <1>2
<1>3. CASE i.scope.limit > 0 /\ i.found >= i.scope.limit
  <2>1. Cardinality(Earlier(i.next, i.scope)) >= i.scope.limit
    <3>1. i.found = Cardinality(Earlier(i.next, i.scope)) + 0
      BY <1>1 DEF Placed
    <3> QED BY <1>3, <3>1, EarlierFinite
  <2>2. Cardinality(Earlier(k, i.scope)) < i.scope.limit
    BY <1>3, SelectedAre
  <2>3. i.next <= k => Cardinality(Earlier(i.next, i.scope)) <= Cardinality(Earlier(k, i.scope))
    BY <1>1, EarlierCounts
  <2> QED BY <1>1, <2>1, <2>2, <2>3, EarlierFinite
<1> QED BY <1>2, <1>3 DEF Placed

LEMMA InvParsed == ExportInv => ParsedIsWhole
<1> SUFFICES ASSUME ExportInv, import.at = "parsed" PROVE ParsedIsWhole
  BY DEF ParsedIsWhole
<1>1. /\ IsImport(import) /\ Placed(import) /\ RecordsThem(import) /\ InOrder(import)
      /\ Describing(import)
  BY DEF ExportInv, ExportTyped, NoImport
<1> DEFINE records == import.records
<1>2. {At(records[i]) : i \in DOMAIN records} = Expected(import.scope)
  <2>1. ASSUME NEW i \in DOMAIN records PROVE At(records[i]) \in Expected(import.scope)
    BY <1>1 DEF RecordsThem, Expected, At, Nodes
  <2>2. ASSUME NEW e \in Expected(import.scope) PROVE \E i \in DOMAIN records : e = At(records[i])
    <3>1. PICK k \in Selected(import.scope) : \E n \in Nodes(k) :
             Accepted(n, Conversations[k], import.scope) /\ e = [place |-> k, node |-> n.node]
      BY <2>2 DEF Expected, Nodes
    <3>2. PICK n \in Nodes(k) :
             Accepted(n, Conversations[k], import.scope) /\ e = [place |-> k, node |-> n.node]
      BY <3>1
    <3>3. Has(import, k, n)
      BY <1>1, ParsedHas DEF Has
    <3> QED BY <1>1, <3>2, <3>3 DEF RecordsThem, At
  <2> QED BY <2>1, <2>2
<1>3. \A i, j \in DOMAIN records : i < j => RecordBefore(records[i], records[j])
  BY <1>1 DEF InOrder
<1> QED BY <1>1, <1>2, <1>3 DEF ParsedIsWhole, Describing

(* However many attempts were broken off and whatever their checkpoint says, *)
(* a parse that came to its end has every message of its scope, once and in  *)
(* order, with the saved captions.                                           *)
THEOREM ParseIsComplete == ExportSpec => []ParsedIsWhole
<1>1. ExportSpec => []ExportInv
  BY ExportStart, ExportStep, PTL DEF ExportSpec
<1> QED BY <1>1, InvParsed, PTL

(* What the checkpoint calls done has its captions saved: an attempt that    *)
(* resumes pays for none of them again.                                      *)
THEOREM CheckpointIsCaptioned == ExportSpec => []DoneIsCaptioned
<1>1. ExportSpec => []ExportInv
  BY ExportStart, ExportStep, PTL DEF ExportSpec
<1>2. ExportInv => DoneIsCaptioned
  BY DEF ExportInv
<1> QED BY <1>1, <1>2, PTL

(* No step replaces or drops a caption that was saved: what the cache of an  *)
(* import knows agrees with the file.                                        *)
THEOREM CaptionsAreKept == ExportSpec => CaptionsStay
<1>1. ExportInv /\ [ExportNext]_exportVars =>
         [\A f \in DOMAIN captions : f \in DOMAIN captions' /\ captions'[f] = captions[f]]_exportVars
  <2> SUFFICES ASSUME ExportInv, ExportNext
               PROVE  \A f \in DOMAIN captions : f \in DOMAIN captions' /\ captions'[f] = captions[f]
    OBVIOUS
  <2>1. CASE SaveCaption
    <3>1. import # NoImport /\ captions' = import.cache
      BY <2>1 DEF SaveCaption, NoImport
    <3>2. Caches(import)
      BY <3>1 DEF ExportInv
    <3> QED BY <3>1, <3>2 DEF Caches
  <2>2. CASE ~SaveCaption
    <3>1. captions' = captions
      BY <2>2 DEF ExportNext, StartImport, NextConversation, ReadMessage, Captioned, CaptionFails,
                  MarkDone, FinishImport, StopImport, DeleteCheckpoint
    <3> QED BY <3>1
  <2> QED BY <2>1, <2>2
<1>2. ExportSpec => []ExportInv
  BY ExportStart, ExportStep, PTL DEF ExportSpec
<1> QED BY <1>1, <1>2, PTL DEF ExportSpec, CaptionsStay

-----------------------------------------------------------------------------
\* The chunker.

(* The least and the greatest of some places of a text.                      *)
LEMMA EndsOfPlaces ==
    ASSUME NEW S, NEW a \in Int, NEW b \in Int, S \subseteq a..b, S # {}
    PROVE  /\ Min(S) \in S /\ Max(S) \in S
           /\ \A x \in S : Min(S) <= x /\ x <= Max(S)
<1>1. \A x \in S : x \in Int /\ a <= x /\ x <= b
  OBVIOUS
<1> DEFINE Above == {x - a : x \in S}
           Under == {b - x : x \in S}
<1>2. Above \subseteq Nat /\ Above # {} /\ Under \subseteq Nat /\ Under # {}
  <2>1. \A x \in S : x - a \in Nat /\ b - x \in Nat
    BY <1>1
  <2>2. PICK x \in S : TRUE
    OBVIOUS
  <2>3. x - a \in Above /\ b - x \in Under
    OBVIOUS
  <2> QED
    BY <2>1, <2>3
<1>3. \E x \in S : \A y \in S : x <= y
  <2>1. PICK n \in Above : \A m \in Above : n <= m
    <3> HIDE DEF Above
    <3> QED
      BY <1>2, LeastNatural, Zenon
  <2>2. PICK x \in S : n = x - a
    BY <2>1
  <2>3. \A y \in S : n <= y - a
    BY <2>1
  <2> QED
    BY <1>1, <2>2, <2>3
<1>4. \E x \in S : \A y \in S : x >= y
  <2>1. PICK n \in Under : \A m \in Under : n <= m
    <3> HIDE DEF Under
    <3> QED
      BY <1>2, LeastNatural, Zenon
  <2>2. PICK x \in S : n = b - x
    BY <2>1
  <2>3. \A y \in S : n <= b - y
    BY <2>1
  <2> QED
    BY <1>1, <2>2, <2>3
<1>5. Min(S) \in S /\ \A y \in S : Min(S) <= y
  BY <1>3, Zenon DEF Min
<1>6. Max(S) \in S /\ \A y \in S : Max(S) >= y
  BY <1>4, Zenon DEF Max
<1>7. \A y \in S : y <= Max(S)
  BY <1>1, <1>6
<1> QED
  BY <1>5, <1>6, <1>7, Zenon

-----------------------------------------------------------------------------
InkBetween(from, to) == {i \in from..to - 1 : ~Space(i)}

(* What TrimSpace leaves of a stretch: all of its ink, from the first to the *)
(* last.                                                                     *)
LEMMA TrimmedKeepsInk ==
    ASSUME NEW from \in Nat, NEW to \in Nat
    PROVE  \/ Trimmed(from, to) = << >> /\ InkBetween(from, to) = {}
           \/ \E a, b \in InkBetween(from, to) :
                 /\ Trimmed(from, to) = <<[from |-> a, to |-> b + 1]>>
                 /\ \A i \in InkBetween(from, to) : a <= i /\ i <= b
<1> DEFINE ink == InkBetween(from, to)
<1>1. Trimmed(from, to) = IF ink = {} THEN << >>
                          ELSE <<[from |-> Min(ink), to |-> Max(ink) + 1]>>
  BY DEF Trimmed, InkBetween
<1>2. ink \subseteq from..to - 1
  BY DEF InkBetween
<1>3. CASE ink = {}
  BY <1>1, <1>3
<1>4. CASE ink # {}
  <2> HIDE DEF ink
  <2>1. /\ Min(ink) \in ink /\ Max(ink) \in ink
        /\ \A x \in ink : Min(ink) <= x /\ x <= Max(ink)
    BY <1>2, <1>4, from \in Int, to - 1 \in Int, EndsOfPlaces, Zenon
  <2> QED
    BY <1>1, <1>4, <2>1 DEF ink
<1> QED
  BY <1>3, <1>4

\* Where findBreakPoint looks, in this order.
LinesIn(from, end) == {i \in from + 1..end - 1 : Char(i) = "line" /\ Char(i - 1) = "line"}
SentencesIn(from, end) ==
    {i \in from + 1..end - 1 : Char(i) = "stop" /\ i + 1 < Len(windowText) /\ Space(i + 1)}
SpacesIn(from, end) == {i \in end - (end - from) \div 5 + 1..end - 1 : Space(i)}

LEMMA BreakPointCases ==
    ASSUME NEW from \in Nat, NEW end \in Nat, from < end
    PROVE  \/ /\ LinesIn(from, end) # {}
              /\ findBreakPoint(from, end) = Max(LinesIn(from, end)) + 1
           \/ /\ LinesIn(from, end) = {} /\ SentencesIn(from, end) # {}
              /\ findBreakPoint(from, end) = Max(SentencesIn(from, end)) + 1
           \/ /\ LinesIn(from, end) = {} /\ SentencesIn(from, end) = {}
              /\ SpacesIn(from, end) # {}
              /\ findBreakPoint(from, end) = Max(SpacesIn(from, end))
           \/ /\ LinesIn(from, end) = {} /\ SentencesIn(from, end) = {}
              /\ SpacesIn(from, end) = {} /\ findBreakPoint(from, end) = end
  BY Zenon DEF findBreakPoint, LinesIn, SentencesIn, SpacesIn

(* The last of each of them.                                                 *)
LastOf(S, from, to) ==
    S # {} => /\ Max(S) \in S /\ Max(S) \in Int /\ from < Max(S) /\ Max(S) < to
              /\ \A i \in S : i \in Int /\ i <= Max(S) /\ from < i /\ i < to

LEMMA LastOfPlaces ==
    ASSUME NEW S, NEW from \in Int, NEW to \in Int, S \subseteq from + 1..to - 1
    PROVE  LastOf(S, from, to)
<1>1. ASSUME S # {}
      PROVE  Max(S) \in S /\ \A x \in S : Min(S) <= x /\ x <= Max(S)
  BY <1>1, from + 1 \in Int, to - 1 \in Int, EndsOfPlaces, Zenon
<1>2. \A x \in S : x \in Int /\ from < x /\ x < to
  OBVIOUS
<1> QED
  BY <1>1, <1>2, Zenon DEF LastOf

LEMMA LastBreaks ==
    ASSUME NEW from \in Nat, NEW end \in Nat, from < end
    PROVE  /\ LastOf(LinesIn(from, end), from, end)
           /\ LastOf(SentencesIn(from, end), from, end)
           /\ LastOf(SpacesIn(from, end), end - (end - from) \div 5, end)
<1> DEFINE low == end - (end - from) \div 5
<1>1. low \in Int
  BY SMT
<1>2. /\ LinesIn(from, end) \subseteq from + 1..end - 1
      /\ SentencesIn(from, end) \subseteq from + 1..end - 1
      /\ SpacesIn(from, end) \subseteq low + 1..end - 1
  BY DEF LinesIn, SentencesIn, SpacesIn
<1> HIDE DEF low
<1>3. LastOf(SpacesIn(from, end), low, end)
  BY <1>1, <1>2, end \in Int, LastOfPlaces, Zenon
<1>4. LastOf(LinesIn(from, end), from, end) /\ LastOf(SentencesIn(from, end), from, end)
  BY <1>2, from \in Int, end \in Int, LastOfPlaces, Zenon
<1> QED
  BY <1>3, <1>4 DEF low

(* A break point is behind the start of a chunk and not behind its end.      *)
LEMMA BreakPointWithin ==
    ASSUME NEW from \in Nat, NEW end \in Nat, from < end
    PROVE  findBreakPoint(from, end) \in from + 1..end
<1> DEFINE low == end - (end - from) \div 5
           L == LinesIn(from, end)
           S == SentencesIn(from, end)
           P == SpacesIn(from, end)
           b == findBreakPoint(from, end)
<1>1. low \in Int /\ from <= low
  BY SMT
<1>2. LastOf(L, from, end) /\ LastOf(S, from, end) /\ LastOf(P, low, end)
  BY LastBreaks
<1>3. \/ L # {} /\ b = Max(L) + 1
      \/ L = {} /\ S # {} /\ b = Max(S) + 1
      \/ L = {} /\ S = {} /\ P # {} /\ b = Max(P)
      \/ L = {} /\ S = {} /\ P = {} /\ b = end
  BY BreakPointCases
<1> HIDE DEF low, L, S, P, b
<1>4. b \in from + 1..end
  BY <1>1, <1>2, <1>3 DEF LastOf
<1> QED
  BY <1>4 DEF b

(* The windows of findBreakPoint overlap, and what it finds in a later one   *)
(* is never before what it found in an earlier one it begins in.             *)
LEMMA BreakPointsFollow ==
    ASSUME NEW size \in Nat, NEW from \in Nat, NEW next \in Nat, from < next, 0 < size,
           next <= findBreakPoint(from, from + size)
    PROVE  findBreakPoint(from, from + size) <= findBreakPoint(next, next + size)
<1> DEFINE e == from + size
           f == next + size
           b == findBreakPoint(from, e)
           c == findBreakPoint(next, f)
           L1 == LinesIn(from, e)
           L2 == LinesIn(next, f)
           S1 == SentencesIn(from, e)
           S2 == SentencesIn(next, f)
           P1 == SpacesIn(from, e)
           P2 == SpacesIn(next, f)
           fifth == size \div 5
<1>1. b \in from + 1..e /\ c \in next + 1..f
  BY BreakPointWithin
<1>2. fifth \in Nat /\ e - from = size /\ f - next = size
  BY SMT
<1>3. e \in Nat /\ f \in Nat /\ from < e /\ next < f /\ e < f /\ next <= b
  OBVIOUS
<1>4. \A i \in Int : next < i /\ i < e => (i \in L1 <=> i \in L2) /\ (i \in S1 <=> i \in S2)
  BY DEF LinesIn, SentencesIn
<1>5. \A i \in Int : f - fifth < i /\ i < e => (i \in P1 <=> i \in P2)
  <2>1. P1 = {i \in e - fifth + 1..e - 1 : Space(i)} /\ P2 = {i \in f - fifth + 1..f - 1 : Space(i)}
    BY <1>2 DEF SpacesIn
  <2> HIDE DEF fifth, P1, P2, e, f
  <2>2. \A i \in Int : f - fifth < i /\ i < e =>
            i \in e - fifth + 1..e - 1 /\ i \in f - fifth + 1..f - 1
    BY <1>2, <1>3
  <2> QED
    BY <2>1, <2>2
<1>6. LastOf(L1, from, e) /\ LastOf(S1, from, e) /\ LastOf(P1, e - fifth, e)
  <2>1. LastOf(P1, e - (e - from) \div 5, e)
    BY <1>3, LastBreaks, Zenon
  <2> QED
    BY <1>2, <1>3, <2>1, LastBreaks
<1>7. LastOf(L2, next, f) /\ LastOf(S2, next, f) /\ LastOf(P2, f - fifth, f)
  <2>1. LastOf(P2, f - (f - next) \div 5, f)
    BY <1>3, LastBreaks, Zenon
  <2> QED
    BY <1>2, <1>3, <2>1, LastBreaks
<1>8. \/ L1 # {} /\ b = Max(L1) + 1
      \/ L1 = {} /\ S1 # {} /\ b = Max(S1) + 1
      \/ L1 = {} /\ S1 = {} /\ P1 # {} /\ b = Max(P1)
      \/ L1 = {} /\ S1 = {} /\ P1 = {} /\ b = e
  BY <1>3, BreakPointCases, Zenon
<1>9. \/ L2 # {} /\ c = Max(L2) + 1
      \/ L2 = {} /\ S2 # {} /\ c = Max(S2) + 1
      \/ L2 = {} /\ S2 = {} /\ P2 # {} /\ c = Max(P2)
      \/ L2 = {} /\ S2 = {} /\ P2 = {} /\ c = f
  BY <1>3, BreakPointCases, Zenon
<1> SUFFICES b <= c
  OBVIOUS
<1> HIDE DEF L1, L2, S1, S2, P1, P2, b, c, e, f, fifth
<1>10. CASE L1 # {} /\ b = Max(L1) + 1
  <2>1. Max(L1) \in L1 /\ Max(L1) \in Int /\ Max(L1) < e
    BY <1>6, <1>10, Zenon DEF LastOf
  <2>2. CASE Max(L1) <= next
    BY <1>3, <1>1, <1>10, <2>1, <2>2
  <2>3. CASE next < Max(L1)
    <3>1. Max(L1) \in L2
      BY <1>4, <2>1, <2>3
    <3>2. Max(L2) \in Int /\ Max(L1) <= Max(L2) /\ c = Max(L2) + 1
      BY <1>7, <1>9, <3>1, Zenon DEF LastOf
    <3> QED
      BY <1>10, <2>1, <3>2
  <2> QED
    BY <2>1, <2>2, <2>3
<1>11. ASSUME L1 = {}, L2 # {} PROVE b <= c
  <2>1. Max(L2) \in L2 /\ Max(L2) \in Int /\ next < Max(L2) /\ c = Max(L2) + 1
    BY <1>7, <1>9, <1>11, Zenon DEF LastOf
  <2>2. ~(Max(L2) < e)
    BY <1>4, <1>11, <2>1
  <2> QED
    BY <1>1, <1>3, <2>1, <2>2
<1>12. CASE L1 = {} /\ L2 = {} /\ S1 # {} /\ b = Max(S1) + 1
  <2>1. Max(S1) \in S1 /\ Max(S1) \in Int /\ Max(S1) < e
    BY <1>6, <1>12, Zenon DEF LastOf
  <2>2. CASE Max(S1) <= next
    BY <1>3, <1>1, <1>12, <2>1, <2>2
  <2>3. CASE next < Max(S1)
    <3>1. Max(S1) \in S2
      BY <1>4, <2>1, <2>3
    <3>2. Max(S2) \in Int /\ Max(S1) <= Max(S2) /\ c = Max(S2) + 1
      BY <1>7, <1>9, <1>12, <3>1, Zenon DEF LastOf
    <3> QED
      BY <1>12, <2>1, <3>2
  <2> QED
    BY <2>1, <2>2, <2>3
<1>13. ASSUME S1 = {}, L2 = {}, S2 # {} PROVE b <= c
  <2>1. Max(S2) \in S2 /\ Max(S2) \in Int /\ next < Max(S2) /\ c = Max(S2) + 1
    BY <1>7, <1>9, <1>13, Zenon DEF LastOf
  <2>2. ~(Max(S2) < e)
    BY <1>4, <1>13, <2>1
  <2> QED
    BY <1>1, <1>3, <2>1, <2>2
<1>14. CASE L2 = {} /\ S2 = {} /\ P2 # {} /\ P1 # {} /\ b = Max(P1)
  <2>1. b \in P1 /\ b \in Int /\ b < e
    BY <1>6, <1>14, Zenon DEF LastOf
  <2>2. c \in P2 /\ c \in Int /\ f - fifth < c /\ \A i \in P2 : i <= c
    BY <1>7, <1>9, <1>14, Zenon DEF LastOf
  <2>3. CASE b <= f - fifth
    BY <1>2, <1>3, <2>1, <2>2, <2>3
  <2>4. CASE f - fifth < b
    BY <1>5, <2>1, <2>2, <2>4
  <2> QED
    BY <1>2, <1>3, <2>1, <2>3, <2>4
<1>15. CASE L2 = {} /\ S2 = {} /\ P2 # {} /\ P1 = {}
  <2>1. c \in P2 /\ c \in Int /\ f - fifth < c
    BY <1>7, <1>9, <1>15, Zenon DEF LastOf
  <2>2. ~(c < e)
    BY <1>5, <1>15, <2>1
  <2> QED
    BY <1>1, <1>3, <2>1, <2>2
<1>16. CASE L2 = {} /\ S2 = {} /\ P2 = {}
  BY <1>1, <1>3, <1>9, <1>16
<1> QED
  BY <1>8, <1>9, <1>10, <1>11, <1>12, <1>13, <1>14, <1>15, <1>16, Zenon

(* The same of the end of a chunk.                                           *)
LEMMA EndWithin ==
    ASSUME job.size \in Nat \ {0}, windowText \in Prose,
           NEW from \in Nat, from < Len(windowText)
    PROVE  /\ EndOf(from) \in from + 1..Len(windowText)
           /\ EndOf(from) - from <= job.size
<1> DEFINE size == job.size
           n == Len(windowText)
<1>1. n \in Nat
  BY DEF Prose
<1>2. findBreakPoint(from, from + size) \in from + 1..from + size
  <2>1. from + size \in Nat /\ from < from + size
    OBVIOUS
  <2> QED
    BY <2>1, BreakPointWithin, Zenon
<1>3. EndOf(from) = IF from + size >= n THEN n ELSE findBreakPoint(from, from + size)
  BY DEF EndOf
<1> QED
  BY <1>1, <1>2, <1>3

LEMMA EndsFollow ==
    ASSUME job.size \in Nat \ {0}, windowText \in Prose,
           NEW from \in Nat, NEW next \in Nat, from < next,
           next < Len(windowText), next <= EndOf(from)
    PROVE  EndOf(from) <= EndOf(next)
<1> DEFINE size == job.size
           n == Len(windowText)
           b == findBreakPoint(from, from + size)
           c == findBreakPoint(next, next + size)
<1>1. n \in Nat /\ EndOf(from) \in from + 1..n
  BY EndWithin DEF Prose
<1>2. EndOf(from) = (IF from + size >= n THEN n ELSE b) /\ EndOf(next) = IF next + size >= n THEN n ELSE c
  BY DEF EndOf
<1>3. next <= b => b <= c
  BY BreakPointsFollow
<1> HIDE DEF b, c
<1> QED
  BY <1>1, <1>2, <1>3

-----------------------------------------------------------------------------
Stretch == [from : Nat, to : Nat]
Pieces == Seq(Seq(Stretch))

\* What a piece changes: one stretch is new, behind all others.
AddsOne(out, new, C, K, p) ==
    /\ C \in DOMAIN new /\ K \in DOMAIN new[C] /\ new[C][K] = p
    /\ \A c \in DOMAIN out : \A k \in DOMAIN out[c] :
          c \in DOMAIN new /\ k \in DOMAIN new[c] /\ new[c][k] = out[c][k]
    /\ \A c \in DOMAIN new : \A k \in DOMAIN new[c] :
          \/ c = C /\ k = K
          \/ c \in DOMAIN out /\ k \in DOMAIN out[c] /\ CutBefore(c, k, C, K)
    /\ K > 1 => p.to - p.from < job.minSize

LEMMA ReplacedOne ==
    ASSUME NEW S, NEW q \in Seq(S), NEW i \in DOMAIN q, NEW e \in S
    PROVE  /\ [q EXCEPT ![i] = e] \in Seq(S) /\ DOMAIN [q EXCEPT ![i] = e] = DOMAIN q
           /\ [q EXCEPT ![i] = e][i] = e
           /\ \A j \in DOMAIN q : j # i => [q EXCEPT ![i] = e][j] = q[j]
  OBVIOUS

LEMMA PieceIsAdded ==
    ASSUME NEW out \in Pieces, NEW p \in Stretch, job.minSize \in Int
    PROVE  /\ AddPiece(out, <<p>>) \in Pieces
           /\ \E C, K \in Nat : AddsOne(out, AddPiece(out, <<p>>), C, K, p)
<1> DEFINE new == AddPiece(out, <<p>>)
           n == Len(out)
<1>1. n \in Nat /\ DOMAIN out = 1..n /\ \A c \in 1..n : out[c] \in Seq(Stretch)
  BY DEF Pieces
<1>2. <<p>> # << >> /\ Length(<<p>>) = p.to - p.from /\ p.to - p.from \in Int
  BY DEF Length, Stretch
<1>3. CASE p.to - p.from < job.minSize /\ out # << >>
  <2>1. new = [out EXCEPT ![n] = out[n] \o <<p>>]
    BY <1>2, <1>3 DEF AddPiece
  <2>2. n \in 1..n
    BY <1>1, <1>3 DEF Pieces
  <2> DEFINE m == Len(out[n])
  <2>3. m \in Nat /\ DOMAIN out[n] = 1..m /\ out[n] \in Seq(Stretch)
    BY <1>1, <2>2
  <2>4. /\ out[n] \o <<p>> \in Seq(Stretch) /\ DOMAIN (out[n] \o <<p>>) = 1..m + 1
        /\ (out[n] \o <<p>>)[m + 1] = p
        /\ \A k \in 1..m : (out[n] \o <<p>>)[k] = out[n][k]
    BY <2>3
  <2> DEFINE longer == out[n] \o <<p>>
  <2>5. /\ new \in Pieces /\ DOMAIN new = 1..n /\ new[n] = longer
        /\ \A c \in 1..n : c # n => new[c] = out[c]
    <3>1. new = [out EXCEPT ![n] = longer] /\ longer \in Seq(Stretch) /\ n \in DOMAIN out
      BY <1>1, <2>1, <2>2, <2>4
    <3> HIDE DEF new, longer, n
    <3> QED
      BY <1>1, <3>1, ReplacedOne, Zenon DEF Pieces
  <2>6. DOMAIN longer = 1..m + 1 /\ longer[m + 1] = p /\ \A k \in 1..m : longer[k] = out[n][k]
    BY <2>4
  <2>7. AddsOne(out, new, n, m + 1, p)
    <3> HIDE DEF new, m, n, longer
    <3>1. n \in DOMAIN new /\ m + 1 \in DOMAIN new[n] /\ new[n][m + 1] = p
      BY <2>2, <2>3, <2>6, <2>5
    <3>2. ASSUME NEW c \in DOMAIN out, NEW k \in DOMAIN out[c]
          PROVE  c \in DOMAIN new /\ k \in DOMAIN new[c] /\ new[c][k] = out[c][k]
      <4>1. CASE c = n
        BY <1>1, <2>2, <2>3, <2>6, <2>5, <3>2, <4>1
      <4>2. CASE c # n
        BY <1>1, <2>5, <3>2, <4>2
      <4> QED
        BY <4>1, <4>2
    <3>3. ASSUME NEW c \in DOMAIN new, NEW k \in DOMAIN new[c]
          PROVE  \/ c = n /\ k = m + 1
                 \/ c \in DOMAIN out /\ k \in DOMAIN out[c] /\ CutBefore(c, k, n, m + 1)
      <4>1. CASE c = n
        <5>1. k \in 1..m + 1
          BY <2>6, <2>5, <3>3, <4>1
        <5>2. k = m + 1 \/ (k \in 1..m /\ k < m + 1)
          BY <2>3, <5>1
        <5> QED
          BY <1>1, <2>2, <2>3, <4>1, <5>2 DEF CutBefore
      <4>2. CASE c # n
        <5>1. c \in 1..n /\ c < n /\ k \in DOMAIN out[c]
          BY <1>1, <2>5, <3>3, <4>2
        <5> QED
          BY <1>1, <5>1 DEF CutBefore
      <4> QED
        BY <4>1, <4>2
    <3> QED
      BY <1>3, <3>1, <3>2, <3>3 DEF AddsOne
  <2>8. n \in Nat /\ m + 1 \in Nat
    BY <1>1, <2>3
  <2> HIDE DEF n, m
  <2> QED
    BY <2>5, <2>7, <2>8, Zenon
<1>4. CASE ~(p.to - p.from < job.minSize /\ out # << >>)
  <2>1. new = Append(out, <<p>>)
    BY <1>2, <1>4 DEF AddPiece
  <2>2. <<p>> \in Seq(Stretch) /\ DOMAIN <<p>> = {1} /\ <<p>>[1] = p
    OBVIOUS
  <2>3. /\ new \in Pieces /\ DOMAIN new = 1..n + 1 /\ new[n + 1] = <<p>>
        /\ \A c \in 1..n : new[c] = out[c]
    <3> DEFINE e == <<p>>
    <3>1. e \in Seq(Stretch) /\ out \in Seq(Seq(Stretch))
      BY <2>2 DEF Pieces
    <3> HIDE DEF e
    <3>2. /\ Append(out, e) \in Seq(Seq(Stretch)) /\ DOMAIN Append(out, e) = 1..Len(out) + 1
          /\ Append(out, e)[Len(out) + 1] = e
          /\ \A j \in 1..Len(out) : Append(out, e)[j] = out[j]
      BY <3>1
    <3>3. new = Append(out, e)
      BY <2>1 DEF e
    <3> HIDE DEF new
    <3> QED
      BY <3>2, <3>3 DEF Pieces, e
  <2>4. AddsOne(out, new, n + 1, 1, p)
    <3> HIDE DEF new
    <3>1. n + 1 \in DOMAIN new /\ 1 \in DOMAIN new[n + 1] /\ new[n + 1][1] = p
      BY <1>1, <2>2, <2>3
    <3>2. ASSUME NEW c \in DOMAIN out, NEW k \in DOMAIN out[c]
          PROVE  c \in DOMAIN new /\ k \in DOMAIN new[c] /\ new[c][k] = out[c][k]
      BY <1>1, <2>3, <3>2
    <3>3. ASSUME NEW c \in DOMAIN new, NEW k \in DOMAIN new[c]
          PROVE  \/ c = n + 1 /\ k = 1
                 \/ c \in DOMAIN out /\ k \in DOMAIN out[c] /\ CutBefore(c, k, n + 1, 1)
      <4>1. CASE c = n + 1
        BY <2>2, <2>3, <3>3, <4>1
      <4>2. CASE c # n + 1
        BY <1>1, <2>3, <3>3, <4>2 DEF CutBefore
      <4> QED
        BY <4>1, <4>2
    <3> QED
      BY <3>1, <3>2, <3>3 DEF AddsOne
  <2> QED
    BY <1>1, <2>3, <2>4
<1> QED
  BY <1>3, <1>4

(* The empty line, the sentence or the space a chunk ends with is no matter: *)
(* a piece without ink adds nothing.                                         *)
LEMMA NothingToAdd == ASSUME NEW out PROVE AddPiece(out, << >>) = out
  BY Zenon DEF AddPiece

-----------------------------------------------------------------------------
Covered(cs, i) ==
    \E c \in DOMAIN cs : \E k \in DOMAIN cs[c] : cs[c][k].from <= i /\ i < cs[c][k].to
Follow(cs) ==
    \A c, d \in DOMAIN cs : \A j \in DOMAIN cs[c], k \in DOMAIN cs[d] :
        CutBefore(c, j, d, k) => /\ cs[c][j].from <= cs[d][k].from
                                 /\ cs[c][j].to <= cs[d][k].to
Fit(cs) ==
    job.size > 0 =>
        \A c \in DOMAIN cs : \A k \in DOMAIN cs[c] :
           /\ cs[c][k].to - cs[c][k].from <= job.size
           /\ k > 1 => cs[c][k].to - cs[c][k].from < job.minSize

\* What a chunker that goes on at `at` has made of the text before: nothing in
\* it is missing, and no stretch reaches behind the end of the next chunk.
Behind(p, at, end) ==
    /\ p.to - 1 \in Ink(windowText) /\ p.to <= end
    /\ \A i \in Ink(windowText) : at <= i => p.from <= i
Laid(cs, at, end) ==
    /\ \A i \in Ink(windowText) : i < at => Covered(cs, i)
    /\ Follow(cs) /\ Fit(cs)
    /\ \A c \in DOMAIN cs : \A k \in DOMAIN cs[c] : Behind(cs[c][k], at, end)

LEMMA InkIsInk ==
    ASSUME NEW from \in Nat, NEW to \in Nat, to <= Len(windowText), windowText \in Prose
    PROVE  InkBetween(from, to) = {i \in Ink(windowText) : from <= i /\ i < to}
<1>1. Len(windowText) \in Nat
  BY DEF Prose
<1> QED
  BY <1>1 DEF InkBetween, Ink, Space, Char

(* One round of the loop of ChunkText.                                       *)
LEMMA RoundIsLaid ==
    ASSUME job.size \in Int, job.minSize \in Int, windowText \in Prose,
           NEW cs \in Pieces, NEW at \in Nat, NEW end \in Nat,
           at < end, end <= Len(windowText), job.size > 0 => end - at <= job.size,
           Laid(cs, at, end),
           NEW next \in Nat, at < next, next <= end, NEW reach \in Nat, end <= reach
    PROVE  /\ AddPiece(cs, Trimmed(at, end)) \in Pieces
           /\ Laid(AddPiece(cs, Trimmed(at, end)), next, reach)
           /\ \A i \in Ink(windowText) : i < end => Covered(AddPiece(cs, Trimmed(at, end)), i)
<1> DEFINE ink == Ink(windowText)
<1>1. ink \subseteq Nat
  BY DEF Ink, Prose
<1>2. InkBetween(at, end) = {i \in ink : at <= i /\ i < end}
  BY InkIsInk
<1>3. \A c \in DOMAIN cs : \A k \in DOMAIN cs[c] : cs[c][k] \in Stretch
  BY DEF Pieces
<1> HIDE DEF ink
<1>4. CASE Trimmed(at, end) = << >> /\ InkBetween(at, end) = {}
  <2>1. AddPiece(cs, Trimmed(at, end)) = cs
    BY <1>4, NothingToAdd
  <2>2. \A i \in ink : i < end => i < at
    BY <1>1, <1>2, <1>4
  <2>3. \A i \in ink : i < end => Covered(cs, i)
    BY <2>2, Zenon DEF Laid, ink
  <2>4. ASSUME NEW c \in DOMAIN cs, NEW k \in DOMAIN cs[c] PROVE Behind(cs[c][k], next, reach)
    <3>1. Behind(cs[c][k], at, end) /\ cs[c][k] \in Stretch
      BY <1>3 DEF Laid
    <3> QED
      BY <1>1, <3>1 DEF Behind, Stretch, ink
  <2>5. Laid(cs, next, reach)
    BY <1>1, <2>3, <2>4 DEF Laid, ink
  <2> QED
    BY <2>1, <2>3, <2>5 DEF ink
<1>5. ASSUME NEW a \in InkBetween(at, end), NEW b \in InkBetween(at, end),
             Trimmed(at, end) = <<[from |-> a, to |-> b + 1]>>,
             \A i \in InkBetween(at, end) : a <= i /\ i <= b
      PROVE  /\ AddPiece(cs, Trimmed(at, end)) \in Pieces
             /\ Laid(AddPiece(cs, Trimmed(at, end)), next, reach)
             /\ \A i \in ink : i < end => Covered(AddPiece(cs, Trimmed(at, end)), i)
  <2> DEFINE p == [from |-> a, to |-> b + 1]
             new == AddPiece(cs, <<p>>)
  <2>1. /\ a \in ink /\ b \in ink /\ at <= a /\ a <= b /\ b < end
        /\ a \in Nat /\ b \in Nat /\ p \in Stretch /\ p.from = a /\ p.to = b + 1
    <3>1. /\ a \in ink /\ b \in ink /\ at <= a /\ b < end /\ a <= b
          /\ a \in Nat /\ b \in Nat
      BY <1>1, <1>2, <1>5
    <3> QED
      BY <3>1 DEF Stretch
  <2>2. new \in Pieces /\ \E C, K \in Nat : AddsOne(cs, new, C, K, p)
    BY <2>1, PieceIsAdded
  <2> HIDE DEF new, p
  <2>3. PICK C \in Nat, K \in Nat : AddsOne(cs, new, C, K, p)
    BY <2>2
  <2>4. \A i \in ink : at <= i /\ i < end => a <= i /\ i < b + 1
    BY <1>1, <1>2, <1>5, <2>1
  <2>5. ASSUME NEW i \in ink, i < end PROVE Covered(new, i)
    <3>1. CASE i < at
      <4>1. PICK c \in DOMAIN cs : \E k \in DOMAIN cs[c] : cs[c][k].from <= i /\ i < cs[c][k].to
        BY <3>1, Zenon DEF Laid, Covered, ink
      <4>2. PICK k \in DOMAIN cs[c] : cs[c][k].from <= i /\ i < cs[c][k].to
        BY <4>1, Zenon
      <4>3. c \in DOMAIN new /\ k \in DOMAIN new[c] /\ new[c][k] = cs[c][k]
        BY <2>3, Zenon DEF AddsOne
      <4>4. new[c][k].from <= i /\ i < new[c][k].to
        BY <4>2, <4>3
      <4> QED
        BY <4>3, <4>4, Zenon DEF Covered
    <3>2. CASE at <= i
      <4>1. p.from <= i /\ i < p.to
        BY <2>1, <2>4, <2>5, <3>2
      <4>2. C \in DOMAIN new /\ K \in DOMAIN new[C] /\ new[C][K] = p
        BY <2>3, Zenon DEF AddsOne
      <4>3. new[C][K].from <= i /\ i < new[C][K].to
        BY <4>1, <4>2
      <4> QED
        BY <4>2, <4>3, Zenon DEF Covered
    <3> QED
      BY <1>1, <3>1, <3>2
  <2>6. ASSUME NEW c \in DOMAIN cs, NEW k \in DOMAIN cs[c]
        PROVE  /\ cs[c][k].from <= p.from /\ cs[c][k].to <= p.to
               /\ Behind(cs[c][k], next, reach)
    <3>1. Behind(cs[c][k], at, end) /\ cs[c][k] \in Stretch
      BY <1>3 DEF Laid
    <3> DEFINE q == cs[c][k]
    <3>2. /\ q.from \in Nat /\ q.to \in Nat /\ q.to - 1 \in ink /\ q.to <= end
          /\ \A i \in ink : at <= i => q.from <= i
      BY <3>1 DEF Behind, Stretch, ink
    <3> HIDE DEF q
    <3>3. q.from <= p.from
      BY <2>1, <3>2
    <3>4. q.to <= p.to
      <4>1. CASE q.to - 1 < at
        BY <2>1, <3>2, <4>1
      <4>2. CASE at <= q.to - 1
        <5>1. q.to - 1 < end
          BY <3>2
        <5>2. q.to - 1 < b + 1
          BY <2>4, <3>2, <4>2, <5>1
        <5> QED
          BY <2>1, <3>2, <5>2
      <4> QED
        BY <3>2, <4>1, <4>2
    <3>5. Behind(q, next, reach)
      BY <1>1, <3>2 DEF Behind, ink
    <3> QED
      BY <3>3, <3>4, <3>5 DEF q
  <2>7. Behind(p, next, reach)
    <3>1. ASSUME NEW i \in ink, next <= i PROVE p.from <= i
      <4>1. CASE i < end
        BY <1>1, <2>1, <2>4, <3>1, <4>1
      <4>2. CASE end <= i
        BY <1>1, <2>1, <4>2
      <4> QED
        BY <1>1, <4>1, <4>2
    <3>2. p.to - 1 = b /\ p.to <= reach
      BY <2>1
    <3> QED
      BY <2>1, <3>1, <3>2 DEF Behind, ink
  <2>8. \A c \in DOMAIN new : \A k \in DOMAIN new[c] :
            \/ c = C /\ k = K /\ new[c][k] = p
            \/ /\ c \in DOMAIN cs /\ k \in DOMAIN cs[c] /\ new[c][k] = cs[c][k]
               /\ CutBefore(c, k, C, K)
    BY <2>3, Zenon DEF AddsOne
  <2>9. \A c \in DOMAIN new : \A k \in DOMAIN new[c] : Behind(new[c][k], next, reach)
    BY <2>6, <2>7, <2>8, Zenon
  <2>10. Fit(new)
    <3>1. job.size > 0 => p.to - p.from <= job.size
      BY <2>1
    <3>2. K > 1 => p.to - p.from < job.minSize
      BY <2>3, Zenon DEF AddsOne
    <3>3. Fit(cs)
      BY DEF Laid
    <3> QED
      BY <2>8, <3>1, <3>2, <3>3, Zenon DEF Fit
  <2>11. Follow(new)
    <3> SUFFICES ASSUME NEW c \in DOMAIN new, NEW d \in DOMAIN new,
                        NEW j \in DOMAIN new[c], NEW k \in DOMAIN new[d], CutBefore(c, j, d, k)
                 PROVE  new[c][j].from <= new[d][k].from /\ new[c][j].to <= new[d][k].to
      BY Zenon DEF Follow
    <3>0. /\ c \in Nat /\ d \in Nat /\ j \in Nat /\ k \in Nat
      BY <2>2, SMTT(30) DEF Pieces
    <3>1. CASE c = C /\ j = K
      <4>1. (d = C /\ k = K) \/ CutBefore(d, k, C, K)
        BY <2>8, Zenon
      <4> QED
        BY <3>0, <3>1, <4>1 DEF CutBefore
    <3>2. CASE /\ c \in DOMAIN cs /\ j \in DOMAIN cs[c] /\ new[c][j] = cs[c][j]
               /\ d = C /\ k = K /\ new[d][k] = p
      BY <2>6, <3>2
    <3>3. CASE /\ c \in DOMAIN cs /\ j \in DOMAIN cs[c] /\ new[c][j] = cs[c][j]
               /\ d \in DOMAIN cs /\ k \in DOMAIN cs[d] /\ new[d][k] = cs[d][k]
      <4>1. Follow(cs)
        BY DEF Laid
      <4> QED
        BY <3>3, <4>1 DEF Follow
    <3> QED
      BY <2>8, <3>1, <3>2, <3>3, Zenon
  <2>12. Laid(new, next, reach)
    <3>1. \A i \in ink : i < next => Covered(new, i)
      BY <1>1, <2>5
    <3> QED
      BY <2>9, <2>10, <2>11, <3>1, Zenon DEF Laid, ink
  <2>13. Trimmed(at, end) = <<p>>
    BY <1>5 DEF p
  <2>14. AddPiece(cs, Trimmed(at, end)) = new
    BY <2>13, Zenon DEF new
  <2> QED
    BY <2>2, <2>5, <2>12, <2>14
<1>6. \/ Trimmed(at, end) = << >> /\ InkBetween(at, end) = {}
      \/ \E a, b \in InkBetween(at, end) :
            /\ Trimmed(at, end) = <<[from |-> a, to |-> b + 1]>>
            /\ \A i \in InkBetween(at, end) : a <= i /\ i <= b
  BY TrimmedKeepsInk
<1> QED
  BY <1>4, <1>5, <1>6, Zenon DEF ink

-----------------------------------------------------------------------------
\* A turn is in some window, or in the one under way.
InWindows(i) ==
    \E n \in DOMAIN windows : \E k \in DOMAIN windows[n].indices :
        windows[n].indices[k] = i /\ SaysTurn(windows[n].text, job.turns[i])
InThisWindow(i) ==
    \E k \in DOMAIN indices : indices[k] = i /\ SaysTurn(windowText, job.turns[i])

Windows == Seq([text : Prose, indices : Seq(Nat), chunks : Pieces])
ChunkTypes ==
    /\ job \in ChunkJobs /\ cut \in {"open", "asked", "cutting", "closing", "done"}
    /\ windowStart \in Nat /\ windowStart <= Len(job.turns) /\ turn \in Nat
    /\ indices \in Seq(Nat) /\ windowText \in Prose /\ start \in Nat
    /\ chunks \in Pieces /\ windows \in Windows
TurnsKept ==
    /\ cut \in {"asked", "cutting", "closing"} => turn >= WindowEnd
    /\ cut # "done" =>
          \A i \in DOMAIN job.turns :
             windowStart < i /\ i <= turn /\ job.turns[i] # << >> => InThisWindow(i)
    /\ \A i \in DOMAIN job.turns :
          (i <= windowStart \/ cut = "done") => (job.turns[i] # << >> => InWindows(i))
ChunksKept ==
    /\ cut \in {"open", "asked", "done"} => chunks = << >>
    /\ cut = "cutting" => /\ job.size > 0 /\ start < Len(windowText)
                          /\ Laid(chunks, start, EndOf(start))
    /\ cut = "closing" => ChunksFollow(windowText, chunks)
    /\ \A n \in DOMAIN windows : ChunksFollow(windows[n].text, windows[n].chunks)
ChunkInv == ChunkTypes /\ TurnsKept /\ ChunksKept

LEMMA JobIsTyped ==
    ASSUME job \in ChunkJobs
    PROVE  /\ job.turns \in Seq(Prose) /\ Len(job.turns) \in Nat
           /\ \A i \in DOMAIN job.turns : job.turns[i] \in Prose
           /\ job.size \in Int /\ job.overlap \in Int /\ job.minSize \in Int
           /\ job.turnsPerWindow \in Int /\ job.turnsShared \in Int
           /\ job.windowed \in BOOLEAN /\ (~job.windowed => Len(job.turns) = 1)
<1> DEFINE P == Prose
<1>1. /\ job \in [turns : Seq(P), windowed : BOOLEAN, turnsPerWindow : Int, turnsShared : Int,
                  size : Int, overlap : Int, minSize : Int]
      /\ ~job.windowed => Len(job.turns) = 1
  BY ChunkAssumption
<1> HIDE DEF P
<1>2. job.turns \in Seq(P) /\ Len(job.turns) \in Nat /\ \A i \in DOMAIN job.turns : job.turns[i] \in P
  BY <1>1
<1> QED
  BY <1>1, <1>2 DEF P

(* Where a window ends, and that the next one begins behind its start and    *)
(* not behind its end.                                                       *)
LEMMA WindowsOverlap ==
    ASSUME ChunkTypes
    PROVE  /\ WindowEnd \in Nat /\ windowStart <= WindowEnd /\ WindowEnd <= Len(job.turns)
           /\ WindowEnd < Len(job.turns) =>
                 /\ windowStart + WindowSize - Shared \in Nat
                 /\ windowStart < windowStart + WindowSize - Shared
                 /\ windowStart + WindowSize - Shared <= WindowEnd
<1>1. /\ job.turnsPerWindow \in Int /\ job.turnsShared \in Int /\ Len(job.turns) \in Nat
      /\ windowStart \in Nat /\ windowStart <= Len(job.turns)
  BY JobIsTyped DEF ChunkTypes
<1>2. WindowSize \in Nat \ {0}
  BY <1>1 DEF WindowSize
<1>3. Shared \in Nat /\ Shared < WindowSize
  BY <1>1, <1>2 DEF Shared
<1> QED
  BY <1>1, <1>2, <1>3 DEF WindowEnd

LEMMA ProseIsJoined ==
    ASSUME NEW t \in Prose, NEW u \in Prose
    PROVE  /\ t \o u \in Prose /\ Len(t) \in Nat /\ Len(u) \in Nat
           /\ Len(t \o u) = Len(t) + Len(u)
           /\ \A q \in 1..Len(t) : (t \o u)[q] = t[q]
           /\ \A q \in 1..Len(u) : (t \o u)[Len(t) + q] = u[q]
  BY DEF Prose

LEMMA StillSaid ==
    ASSUME NEW t \in Prose, NEW u \in Prose, NEW w \in Prose, SaysTurn(t, w)
    PROVE  SaysTurn(t \o u, w)
<1>1. PICK at \in 0..Len(t) : /\ at + Len(w) <= Len(t)
                              /\ \A q \in 1..Len(w) : t[at + q] = w[q]
  BY DEF SaysTurn
<1>2. /\ Len(t) \in Nat /\ Len(u) \in Nat /\ Len(t \o u) = Len(t) + Len(u)
      /\ \A q \in 1..Len(t) : (t \o u)[q] = t[q]
  BY ProseIsJoined
<1>3. Len(w) \in Nat
  BY DEF Prose
<1>4. at \in 0..Len(t \o u) /\ at + Len(w) <= Len(t \o u)
  BY <1>1, <1>2, <1>3
<1>5. \A q \in 1..Len(w) : at + q \in 1..Len(t)
  BY <1>1, <1>2, <1>3
<1>6. \A q \in 1..Len(w) : (t \o u)[at + q] = w[q]
  BY <1>1, <1>2, <1>5
<1> QED
  BY <1>4, <1>6 DEF SaysTurn

LEMMA SaidLast ==
    ASSUME NEW t \in Prose, NEW w \in Prose
    PROVE  SaysTurn(t \o w, w)
<1>1. /\ Len(t) \in Nat /\ Len(w) \in Nat /\ Len(t \o w) = Len(t) + Len(w)
      /\ \A q \in 1..Len(w) : (t \o w)[Len(t) + q] = w[q]
  BY ProseIsJoined
<1>2. Len(t) \in 0..Len(t \o w) /\ Len(t) + Len(w) <= Len(t \o w)
  BY <1>1
<1> QED
  BY <1>1, <1>2 DEF SaysTurn

LEMMA SaysItself == ASSUME NEW t \in Prose PROVE SaysTurn(t, t)
<1>1. Len(t) \in Nat
  BY DEF Prose
<1>2. \A q \in 1..Len(t) : t[0 + q] = t[q]
  BY <1>1
<1>3. 0 \in 0..Len(t) /\ 0 + Len(t) <= Len(t)
  BY <1>1
<1> QED
  BY <1>2, <1>3 DEF SaysTurn

LEMMA LaidFollows ==
    ASSUME NEW cs, NEW at \in Nat, NEW end, Laid(cs, at, end), windowText \in Prose, Len(windowText) <= at
    PROVE  ChunksFollow(windowText, cs)
<1>1. \A i \in Ink(windowText) : i < at
  <2>1. Len(windowText) \in Nat
    BY DEF Prose
  <2> QED
    BY <2>1 DEF Ink
<1>2. \A i \in Ink(windowText) : Covered(cs, i)
  BY <1>1, Zenon DEF Laid
<1>3. Follow(cs) /\ Fit(cs)
  BY Zenon DEF Laid
<1> QED
  BY <1>2, <1>3, Zenon DEF ChunksFollow, Covered, Follow, Fit

LEMMA NothingIsLaid ==
    ASSUME windowText \in Prose, NEW end
    PROVE  Laid(<< >>, 0, end)
<1>1. \A i \in Ink(windowText) : ~(i < 0)
  BY DEF Ink, Prose
<1>2. DOMAIN << >> = {}
  OBVIOUS
<1> QED
  BY <1>1, <1>2, Zenon DEF Laid, Follow, Fit

-----------------------------------------------------------------------------
LEMMA ChunkInit_Inv == ChunkInit => ChunkInv
<1> SUFFICES ASSUME ChunkInit PROVE ChunkInv
  OBVIOUS
<1>1. /\ job \in ChunkJobs /\ windowStart = 0 /\ start = 0 /\ chunks = << >> /\ windows = << >>
      /\ cut = (IF job.windowed THEN "open" ELSE "asked")
      /\ turn = (IF job.windowed THEN 0 ELSE 1)
      /\ indices = IF job.windowed \/ job.turns[1] = << >> THEN << >> ELSE <<1>>
      /\ windowText = IF job.windowed THEN << >> ELSE job.turns[1]
  BY DEF ChunkInit
<1>2. /\ job.windowed \in BOOLEAN /\ Len(job.turns) \in Nat /\ (~job.windowed => Len(job.turns) = 1)
      /\ DOMAIN job.turns = 1..Len(job.turns)
      /\ \A i \in DOMAIN job.turns : job.turns[i] \in Prose
  <2>1. job.turns \in Seq(Prose)
    BY <1>1, JobIsTyped
  <2> QED
    BY <1>1, <2>1, JobIsTyped
<1>3. << >> \in Prose /\ << >> \in Pieces /\ << >> \in Windows
  BY DEF Prose, Pieces, Windows
<1>4. windowText \in Prose
  BY <1>1, <1>2, <1>3
<1>5. indices \in Seq(Nat)
  BY <1>1
<1>6. ChunkTypes
  BY <1>1, <1>2, <1>3, <1>4, <1>5 DEF ChunkTypes
<1>7. TurnsKept
  <2>1. cut \in {"asked", "cutting", "closing"} => turn >= WindowEnd
    <3>1. WindowEnd \in Nat /\ WindowEnd <= Len(job.turns)
      BY <1>6, WindowsOverlap
    <3> QED
      BY <1>1, <1>2, <3>1
  <2>2. ASSUME NEW i \in DOMAIN job.turns, windowStart < i, i <= turn, job.turns[i] # << >>
        PROVE  InThisWindow(i)
    <3>1. ~job.windowed /\ i = 1
      BY <1>1, <1>2, <2>2
    <3>2. indices = <<1>> /\ windowText = job.turns[1] /\ job.turns[1] \in Prose
      BY <1>1, <1>2, <2>2, <3>1
    <3>3. SaysTurn(windowText, job.turns[i])
      BY <3>1, <3>2, SaysItself
    <3> QED
      BY <3>1, <3>2, <3>3 DEF InThisWindow
  <2> QED
    BY <1>1, <1>2, <2>1, <2>2 DEF TurnsKept
<1>8. ChunksKept
  BY <1>1 DEF ChunksKept
<1> QED
  BY <1>6, <1>7, <1>8 DEF ChunkInv

\* What the windows say and how they are cut depends on the job alone.
LEMMA WindowsStay ==
    ASSUME job' = job, windows' = windows
    PROVE  /\ \A i : InWindows(i)' <=> InWindows(i)
           /\ (\A n \in DOMAIN windows : ChunksFollow(windows[n].text, windows[n].chunks)) =>
                 (\A n \in DOMAIN windows : ChunksFollow(windows[n].text, windows[n].chunks))'
<1>1. \A i : InWindows(i)' <=> InWindows(i)
  BY DEF InWindows, SaysTurn
<1>2. (\A n \in DOMAIN windows : ChunksFollow(windows[n].text, windows[n].chunks)) =>
          (\A n \in DOMAIN windows : ChunksFollow(windows[n].text, windows[n].chunks))'
  BY DEF ChunksFollow
<1> QED
  BY <1>1, <1>2

LEMMA AssembleWindow_Inv == ChunkInv /\ assembleWindow => ChunkInv'
<1> SUFFICES ASSUME ChunkInv, assembleWindow PROVE ChunkInv'
  OBVIOUS
<1> DEFINE said == job.turns[turn + 1]
           head == Heading
<1>1. ChunkTypes /\ TurnsKept /\ ChunksKept
  BY DEF ChunkInv
<1>2. /\ cut = "open" /\ turn < WindowEnd /\ turn' = turn + 1 /\ job' = job /\ cut' = cut
      /\ windowStart' = windowStart /\ start' = start /\ chunks' = chunks /\ windows' = windows
  BY DEF assembleWindow
<1>3. /\ job.turns \in Seq(Prose) /\ \A i \in DOMAIN job.turns : job.turns[i] \in Prose
      /\ DOMAIN job.turns = 1..Len(job.turns) /\ Len(job.turns) \in Nat
  <2>1. job.turns \in Seq(Prose)
    BY <1>1, JobIsTyped DEF ChunkTypes
  <2> QED
    BY <1>1, <2>1, JobIsTyped DEF ChunkTypes
<1>4. turn \in Nat /\ turn + 1 \in DOMAIN job.turns
  BY <1>1, <1>2, <1>3, WindowsOverlap DEF ChunkTypes
<1>5. said \in Prose /\ head \in Prose /\ windowText \in Prose
  <2> DEFINE L == {"word", "stop", "space", "line"}
  <2>1. head = <<"word", "space">> \/ head = <<"line", "line", "word", "space">>
    BY DEF Heading
  <2>2. "word" \in L /\ "space" \in L /\ "line" \in L
    OBVIOUS
  <2> HIDE DEF L, head
  <2>3. <<"word", "space">> \in Seq(L) /\ <<"line", "line", "word", "space">> \in Seq(L)
    BY <2>2
  <2>4. head \in Seq(L)
    BY <2>1, <2>3, Zenon
  <2> QED
    BY <1>1, <1>3, <1>4, <2>4 DEF ChunkTypes, Prose, L
<1>6. \/ said = << >> /\ windowText' = windowText /\ indices' = indices
      \/ /\ said # << >> /\ indices' = Append(indices, turn + 1)
         /\ windowText' = (windowText \o head) \o said
  <2>1. CASE said = << >>
    BY <2>1 DEF assembleWindow
  <2>2. CASE said # << >>
    BY <2>2 DEF assembleWindow
  <2> QED
    BY <2>1, <2>2
<1> HIDE DEF said, head
<1>7. /\ windowText' \in Prose /\ indices' \in Seq(Nat)
      /\ DOMAIN Append(indices, turn + 1) = 1..Len(indices) + 1
      /\ Append(indices, turn + 1)[Len(indices) + 1] = turn + 1
      /\ \A k \in DOMAIN indices : /\ k \in 1..Len(indices) + 1
                                  /\ Append(indices, turn + 1)[k] = indices[k]
      /\ Len(indices) + 1 \in 1..Len(indices) + 1
  <2>1. windowText \o head \in Prose
    BY <1>5, ProseIsJoined
  <2>2. (windowText \o head) \o said \in Prose
    BY <1>5, <2>1, ProseIsJoined
  <2>3. /\ indices \in Seq(Nat) /\ Append(indices, turn + 1) \in Seq(Nat)
        /\ DOMAIN Append(indices, turn + 1) = 1..Len(indices) + 1
        /\ Append(indices, turn + 1)[Len(indices) + 1] = turn + 1
        /\ \A k \in DOMAIN indices : /\ k \in 1..Len(indices) + 1
                                    /\ Append(indices, turn + 1)[k] = indices[k]
        /\ Len(indices) + 1 \in 1..Len(indices) + 1
    BY <1>1, <1>4 DEF ChunkTypes
  <2> QED
    BY <1>1, <1>5, <1>6, <2>2, <2>3, Zenon DEF ChunkTypes
<1>8. ChunkTypes'
  BY <1>1, <1>2, <1>4, <1>7 DEF ChunkTypes
<1>9. TurnsKept'
  <2>1. ASSUME NEW i \in DOMAIN job.turns, windowStart < i, i <= turn + 1, job.turns[i] # << >>
        PROVE  InThisWindow(i)'
    <3>1. CASE said = << >>
      <4>1. i <= turn
        BY <1>3, <1>4, <2>1, <3>1 DEF said
      <4>2. InThisWindow(i)
        BY <1>1, <1>2, <2>1, <4>1 DEF TurnsKept
      <4>3. windowText' = windowText /\ indices' = indices
        BY <1>6, <3>1
      <4> QED
        BY <1>2, <4>2, <4>3 DEF InThisWindow, SaysTurn
    <3>2. CASE said # << >> /\ i <= turn
      <4>1. InThisWindow(i)
        BY <1>1, <1>2, <2>1, <3>2 DEF TurnsKept
      <4>2. PICK k \in DOMAIN indices : indices[k] = i /\ SaysTurn(windowText, job.turns[i])
        BY <4>1 DEF InThisWindow
      <4>3. k \in DOMAIN indices' /\ indices'[k] = i
        BY <1>6, <1>7, <3>2, <4>2, Zenon
      <4>4. SaysTurn(windowText \o head, job.turns[i])
        BY <1>3, <1>5, <4>2, StillSaid
      <4>5. windowText \o head \in Prose
        BY <1>5, ProseIsJoined
      <4>6. SaysTurn((windowText \o head) \o said, job.turns[i])
        BY <1>3, <1>5, <4>4, <4>5, StillSaid
      <4>7. SaysTurn(windowText', job.turns[i])
        BY <1>6, <3>2, <4>6
      <4> QED
        BY <1>2, <4>3, <4>7 DEF InThisWindow, SaysTurn
    <3>3. CASE said # << >> /\ i = turn + 1
      <4>1. /\ Len(indices) + 1 \in DOMAIN indices' /\ indices'[Len(indices) + 1] = i
        BY <1>6, <1>7, <3>3, Zenon
      <4>2. windowText \o head \in Prose
        BY <1>5, ProseIsJoined
      <4>3. SaysTurn((windowText \o head) \o said, said)
        BY <1>5, <4>2, SaidLast
      <4>4. SaysTurn(windowText', job.turns[i])
        BY <1>6, <3>3, <4>3 DEF said
      <4> QED
        BY <1>2, <4>1, <4>4 DEF InThisWindow, SaysTurn
    <3> QED
      BY <1>3, <1>4, <2>1, <3>1, <3>2, <3>3
  <2>2. \A i \in DOMAIN job.turns :
            (i <= windowStart \/ cut = "done") => (job.turns[i] # << >> => InWindows(i))
    BY <1>1 DEF TurnsKept
  <2>3. \A i : InWindows(i)' <=> InWindows(i)
    BY <1>2, WindowsStay
  <2> QED
    BY <1>2, <2>1, <2>2, <2>3 DEF TurnsKept
<1>10. ChunksKept'
  BY <1>1, <1>2, WindowsStay DEF ChunksKept
<1> QED
  BY <1>8, <1>9, <1>10 DEF ChunkInv

LEMMA OpenWindow_Inv == ChunkInv /\ OpenWindow => ChunkInv'
<1> SUFFICES ASSUME ChunkInv, OpenWindow PROVE ChunkInv'
  OBVIOUS
<1>1. ChunkTypes /\ TurnsKept /\ ChunksKept
  BY DEF ChunkInv
<1>2. /\ cut = "open" /\ turn >= WindowEnd /\ cut' = "asked"
      /\ UNCHANGED <<job, windowStart, turn, indices, windowText, start, chunks, windows>>
  BY DEF OpenWindow
<1>3. ChunkTypes'
  BY <1>1, <1>2 DEF ChunkTypes
<1>4. TurnsKept'
  <2>1. turn' >= WindowEnd'
    BY <1>2 DEF WindowEnd, WindowSize
  <2>2. \A i : InWindows(i)' <=> InWindows(i)
    BY <1>2, WindowsStay
  <2>3. \A i : InThisWindow(i)' <=> InThisWindow(i)
    BY <1>2 DEF InThisWindow, SaysTurn
  <2> QED
    BY <1>1, <1>2, <2>1, <2>2, <2>3 DEF TurnsKept
<1>5. ChunksKept'
  BY <1>1, <1>2, WindowsStay DEF ChunksKept
<1> QED
  BY <1>3, <1>4, <1>5 DEF ChunkInv

(* What the turns are in stays when only the chunks of a window change.      *)
LEMMA TurnsStay ==
    ASSUME ChunkInv, UNCHANGED <<job, windowStart, turn, indices, windowText, windows>>,
           cut \in {"asked", "cutting"}, cut' \in {"cutting", "closing"}
    PROVE  TurnsKept'
<1>1. ChunkTypes /\ TurnsKept
  BY DEF ChunkInv
<1>2. turn' >= WindowEnd'
  BY <1>1 DEF WindowEnd, WindowSize, TurnsKept
<1>3. \A i : InWindows(i)' <=> InWindows(i)
  BY WindowsStay
<1>4. \A i : InThisWindow(i)' <=> InThisWindow(i)
  BY DEF InThisWindow, SaysTurn
<1> QED
  BY <1>1, <1>2, <1>3, <1>4 DEF TurnsKept

LEMMA KeepWhole_Inv == ChunkInv /\ KeepWhole => ChunkInv'
<1> SUFFICES ASSUME ChunkInv, KeepWhole PROVE ChunkInv'
  OBVIOUS
<1> DEFINE n == Len(windowText)
           new == AddPiece(<< >>, Trimmed(0, n))
<1>1. ChunkTypes /\ TurnsKept /\ ChunksKept
  BY DEF ChunkInv
<1>2. /\ cut = "asked" /\ (job.size <= 0 \/ n <= job.size) /\ cut' = "closing" /\ chunks' = new
      /\ UNCHANGED <<job, windowStart, turn, indices, windowText, start, windows>>
  BY DEF KeepWhole
<1>3. windowText \in Prose /\ n \in Nat /\ job.size \in Int /\ job.minSize \in Int
  BY <1>1, JobIsTyped DEF ChunkTypes, Prose
<1>4. << >> \in Pieces
  BY DEF Pieces
<1>5. new \in Pieces /\ ChunksFollow(windowText, new)
  <2>1. CASE n = 0
    <3>1. Ink(windowText) = {}
      BY <2>1 DEF Ink
    <3>2. Trimmed(0, n) = << >>
      <4>1. {i \in 0..n - 1 : ~Space(i)} = {}
        BY <2>1
      <4> QED
        BY <4>1, Zenon DEF Trimmed
    <3>3. new = << >>
      BY <3>2, NothingToAdd, Zenon
    <3>4. DOMAIN << >> = {}
      OBVIOUS
    <3> HIDE DEF new
    <3> QED
      BY <1>4, <3>1, <3>3, <3>4, Zenon DEF ChunksFollow
  <2>2. CASE n > 0
    <3>1. Laid(<< >>, 0, n)
      BY <1>3, NothingIsLaid
    <3>2. new \in Pieces /\ Laid(new, n, n)
      <4>1. 0 \in Nat /\ 0 < n /\ n <= n /\ (job.size > 0 => n - 0 <= job.size)
        BY <1>2, <1>3, <2>2
      <4> QED
        BY <1>3, <1>4, <3>1, <4>1, RoundIsLaid, Zenon
    <3> HIDE DEF new
    <3> QED
      BY <1>3, <3>2, LaidFollows
  <2> QED
    BY <1>3, <2>1, <2>2
<1>6. ChunkTypes'
  BY <1>1, <1>2, <1>5 DEF ChunkTypes
<1>7. TurnsKept'
  BY <1>2, TurnsStay
<1>8. ChunksKept'
  <2>1. ChunksFollow(windowText, chunks)'
    BY <1>2, <1>5 DEF ChunksFollow
  <2> QED
    BY <1>1, <1>2, <2>1, WindowsStay DEF ChunksKept
<1> QED
  BY <1>6, <1>7, <1>8 DEF ChunkInv

\* What was laid is read from the text and the limits alone.
LEMMA LaidStays ==
    ASSUME job' = job, windowText' = windowText
    PROVE  Laid(chunks, start, EndOf(start))' <=> Laid(chunks', start', EndOf(start'))
<1>1. EndOf(start)' = EndOf(start')
  BY DEF EndOf, findBreakPoint, Char, Space
<1> QED
  BY <1>1 DEF Laid, Covered, Follow, Fit, Behind

LEMMA BeginCut_Inv == ChunkInv /\ BeginCut => ChunkInv'
<1> SUFFICES ASSUME ChunkInv, BeginCut PROVE ChunkInv'
  OBVIOUS
<1>1. ChunkTypes /\ TurnsKept /\ ChunksKept
  BY DEF ChunkInv
<1>2. /\ cut = "asked" /\ job.size > 0 /\ Len(windowText) > job.size /\ start' = 0
      /\ cut' = "cutting"
      /\ UNCHANGED <<job, windowStart, turn, indices, windowText, chunks, windows>>
  BY DEF BeginCut
<1>3. windowText \in Prose /\ Len(windowText) \in Nat /\ job.size \in Int
  BY <1>1, JobIsTyped DEF ChunkTypes, Prose
<1>4. ChunkTypes'
  BY <1>1, <1>2 DEF ChunkTypes
<1>5. TurnsKept'
  BY <1>2, TurnsStay
<1>6. ChunksKept'
  <2>1. chunks' = << >> /\ start' < Len(windowText)
    BY <1>1, <1>2, <1>3 DEF ChunksKept
  <2>2. Laid(chunks', start', EndOf(start'))
    <3>1. Laid(<< >>, 0, EndOf(0))
      BY <1>3, NothingIsLaid
    <3> QED
      BY <1>2, <2>1, <3>1
  <2>3. Laid(chunks, start, EndOf(start))'
    BY <1>2, <2>2, LaidStays
  <2> QED
    BY <1>1, <1>2, <2>1, <2>3, WindowsStay DEF ChunksKept
<1> QED
  BY <1>4, <1>5, <1>6 DEF ChunkInv

LEMMA ChunkText_Inv == ChunkInv /\ ChunkText => ChunkInv'
<1> SUFFICES ASSUME ChunkInv, ChunkText PROVE ChunkInv'
  OBVIOUS
<1> DEFINE n == Len(windowText)
           end == EndOf(start)
           new == AddPiece(chunks, Trimmed(start, end))
<1>1. ChunkTypes /\ TurnsKept /\ ChunksKept
  BY DEF ChunkInv
<1>2. /\ cut = "cutting" /\ chunks' = new
      /\ cut' = (IF end >= n THEN "closing" ELSE "cutting")
      /\ start' = IF end - Overlap <= start THEN end ELSE end - Overlap
      /\ UNCHANGED <<job, windowStart, turn, indices, windowText, windows>>
  BY DEF ChunkText
<1>3. /\ windowText \in Prose /\ n \in Nat /\ job.size \in Nat \ {0} /\ job.minSize \in Int
      /\ job.overlap \in Int /\ start \in Nat /\ start < n /\ chunks \in Pieces
      /\ Laid(chunks, start, end)
  BY <1>1, <1>2, JobIsTyped DEF ChunkTypes, Prose, ChunksKept
<1>4. end \in Nat /\ start < end /\ end <= n /\ end - start <= job.size
  BY <1>3, EndWithin
<1>5. Overlap \in Nat
  BY <1>3 DEF Overlap
<1> HIDE DEF end, new
<1>6. start' \in Nat /\ start < start' /\ start' <= end
  BY <1>2, <1>3, <1>4, <1>5
<1>7. ASSUME NEW next \in Nat, start < next, next <= end, NEW reach \in Nat, end <= reach
      PROVE  new \in Pieces /\ Laid(new, next, reach)
  <2>1. job.size \in Int /\ (job.size > 0 => end - start <= job.size)
    BY <1>3, <1>4
  <2> QED
    BY <1>3, <1>4, <1>7, <2>1, RoundIsLaid, Zenon DEF new
<1>8. new \in Pieces
  BY <1>4, <1>7
<1>9. ChunkTypes'
  BY <1>1, <1>2, <1>6, <1>8 DEF ChunkTypes
<1>10. TurnsKept'
  BY <1>2, TurnsStay
<1>11. ChunksKept'
  <2>1. CASE end >= n
    <3>1. Laid(new, end, end)
      BY <1>4, <1>7
    <3>2. ChunksFollow(windowText, new)
      BY <1>3, <1>4, <2>1, <3>1, LaidFollows
    <3>3. ChunksFollow(windowText, chunks)'
      BY <1>2, <3>2 DEF ChunksFollow
    <3> QED
      BY <1>1, <1>2, <2>1, <3>3, WindowsStay DEF ChunksKept
  <2>2. CASE end < n
    <3>1. start' < n
      BY <1>3, <1>4, <1>6, <2>2
    <3>2. EndOf(start') \in Nat /\ end <= EndOf(start')
      <4> PICK next \in Nat : next = start'
        BY <1>6
      <4>1. EndOf(next) \in next + 1..n
        BY <1>3, <3>1, EndWithin
      <4>2. end <= EndOf(next)
        BY <1>3, <1>6, <3>1, EndsFollow DEF end
      <4> QED
        BY <1>3, <4>1, <4>2
    <3>3. Laid(new, start', EndOf(start'))
      BY <1>6, <1>7, <3>2, Zenon
    <3>4. Laid(chunks, start, EndOf(start))'
      BY <1>2, <3>3, LaidStays
    <3>5. cut' = "cutting"
      BY <1>2, <1>3, <1>4, <2>2
    <3> QED
      BY <1>1, <1>2, <1>3, <3>1, <3>4, <3>5, WindowsStay DEF ChunksKept
  <2> QED
    BY <1>3, <1>4, <2>1, <2>2
<1> QED
  BY <1>9, <1>10, <1>11 DEF ChunkInv

(* On to the next window, when every turn up to its start is in a window.    *)
LEMMA NextWindow_Turns ==
    ASSUME ChunkTypes, NextWindow, turn >= WindowEnd, cut # "done", job' = job,
           \A i \in DOMAIN job.turns : i <= turn /\ job.turns[i] # << >> => InWindows(i)'
    PROVE  /\ cut' \in {"open", "done"} /\ windowStart' \in Nat /\ turn' \in Nat
           /\ windowStart' <= Len(job.turns) /\ indices' = << >> /\ windowText' = << >>
           /\ TurnsKept'
<1>1. /\ cut' = (IF WindowEnd >= Len(job.turns) THEN "done" ELSE "open")
      /\ windowStart' = (IF WindowEnd >= Len(job.turns) THEN windowStart
                         ELSE windowStart + WindowSize - Shared)
      /\ turn' = windowStart' /\ indices' = << >> /\ windowText' = << >>
  BY DEF NextWindow
<1>2. /\ job.turns \in Seq(Prose) /\ Len(job.turns) \in Nat /\ DOMAIN job.turns = 1..Len(job.turns)
      /\ turn \in Nat /\ windowStart \in Nat /\ windowStart <= Len(job.turns)
  <2>1. job.turns \in Seq(Prose)
    BY JobIsTyped DEF ChunkTypes
  <2> QED
    BY <2>1, JobIsTyped DEF ChunkTypes
<1> DEFINE next == windowStart + WindowSize - Shared
           stop == WindowEnd
<1>3. /\ stop \in Nat /\ windowStart <= stop /\ stop <= Len(job.turns)
      /\ stop < Len(job.turns) => next \in Nat /\ windowStart < next /\ next <= stop
  BY WindowsOverlap
<1> HIDE DEF next
<1>4. /\ cut' \in {"open", "done"} /\ windowStart' \in Nat /\ turn' = windowStart'
      /\ windowStart' <= Len(job.turns) /\ windowStart' <= stop
      /\ cut' = "done" => stop = Len(job.turns)
  <2> HIDE DEF stop
  <2> QED
    BY <1>1, <1>2, <1>3 DEF next, stop
<1>5. ASSUME NEW i \in DOMAIN job.turns, i <= windowStart' \/ cut' = "done", job.turns[i] # << >>
      PROVE  InWindows(i)'
  <2>1. i <= turn
    <3> HIDE DEF stop
    <3>1. stop <= turn
      BY <1>2, <1>3 DEF stop
    <3> QED
      BY <1>2, <1>3, <1>4, <1>5, <3>1
  <2> QED
    BY <1>5, <2>1
<1>6. \A i \in DOMAIN job.turns : ~(windowStart' < i /\ i <= turn')
  BY <1>2, <1>4
<1>7. TurnsKept'
  BY <1>4, <1>5, <1>6 DEF TurnsKept
<1> QED
  BY <1>1, <1>4, <1>7

LEMMA SkipBlankWindow_Inv == ChunkInv /\ SkipBlankWindow => ChunkInv'
<1> SUFFICES ASSUME ChunkInv, SkipBlankWindow PROVE ChunkInv'
  OBVIOUS
<1>1. ChunkTypes /\ TurnsKept /\ ChunksKept
  BY DEF ChunkInv
<1>2. /\ cut = "open" /\ turn >= WindowEnd /\ windowText = << >> /\ NextWindow
      /\ job' = job /\ start' = start /\ chunks' = chunks /\ windows' = windows
  BY DEF SkipBlankWindow
<1>3. /\ \A i \in DOMAIN job.turns : job.turns[i] \in Prose /\ i \in Int
      /\ windowStart \in Nat
  <2>1. job.turns \in Seq(Prose)
    BY <1>1, JobIsTyped DEF ChunkTypes
  <2> QED
    BY <1>1, <2>1, JobIsTyped DEF ChunkTypes
<1>4. ASSUME NEW i \in DOMAIN job.turns, i <= turn, job.turns[i] # << >> PROVE InWindows(i)'
  <2>1. CASE i <= windowStart
    BY <1>1, <1>2, <1>4, <2>1, WindowsStay DEF TurnsKept
  <2>2. CASE windowStart < i
    <3>1. InThisWindow(i)
      BY <1>1, <1>2, <1>4, <2>2 DEF TurnsKept
    <3>2. SaysTurn(<< >>, job.turns[i])
      BY <1>2, <3>1 DEF InThisWindow
    <3>3. job.turns[i] \in Prose /\ Len(<< >>) = 0
      BY <1>3
    <3>4. Len(job.turns[i]) \in Nat \ {0}
      <4> DEFINE w == job.turns[i]
      <4>1. w \in Prose /\ w # << >>
        BY <1>4, <3>3
      <4> HIDE DEF w
      <4>2. Len(w) \in Nat \ {0}
        BY <4>1 DEF Prose
      <4> QED
        BY <4>2 DEF w
    <3> QED
      BY <3>2, <3>3, <3>4 DEF SaysTurn
  <2> QED
    BY <1>3, <2>1, <2>2
<1>5. /\ cut' \in {"open", "done"} /\ windowStart' \in Nat /\ turn' \in Nat
      /\ windowStart' <= Len(job.turns) /\ indices' = << >> /\ windowText' = << >>
      /\ TurnsKept'
  BY <1>1, <1>2, <1>4, NextWindow_Turns
<1>6. << >> \in Prose /\ << >> \in Seq(Nat)
  BY DEF Prose
<1>7. ChunkTypes'
  BY <1>1, <1>2, <1>5, <1>6 DEF ChunkTypes
<1>8. ChunksKept'
  BY <1>1, <1>2, <1>5, WindowsStay DEF ChunksKept
<1> QED
  BY <1>5, <1>7, <1>8 DEF ChunkInv

LEMMA ChunkConversation_Inv == ChunkInv /\ ChunkConversation => ChunkInv'
<1> SUFFICES ASSUME ChunkInv, ChunkConversation PROVE ChunkInv'
  OBVIOUS
<1> DEFINE w == [text |-> windowText, indices |-> indices, chunks |-> chunks]
<1>1. ChunkTypes /\ TurnsKept /\ ChunksKept
  BY DEF ChunkInv
<1>2. /\ cut = "closing" /\ windows' = Append(windows, w) /\ chunks' = << >> /\ start' = 0
      /\ NextWindow /\ job' = job
  BY DEF ChunkConversation
<1>3. w \in [text : Prose, indices : Seq(Nat), chunks : Pieces]
  BY <1>1 DEF ChunkTypes
<1>4. w.text = windowText /\ w.indices = indices /\ w.chunks = chunks
  OBVIOUS
<1> HIDE DEF w
<1>5. /\ windows' \in Windows /\ DOMAIN windows' = 1..Len(windows) + 1
      /\ windows'[Len(windows) + 1] = w /\ Len(windows) + 1 \in DOMAIN windows'
      /\ DOMAIN windows = 1..Len(windows) /\ Len(windows) \in Nat
      /\ \A n \in DOMAIN windows : n \in DOMAIN windows' /\ windows'[n] = windows[n]
  <2> DEFINE R == [text : Prose, indices : Seq(Nat), chunks : Pieces]
  <2>1. windows \in Seq(R) /\ w \in R
    BY <1>1, <1>3 DEF ChunkTypes, Windows
  <2> HIDE DEF R
  <2>2. /\ Append(windows, w) \in Seq(R) /\ Len(windows) \in Nat
        /\ DOMAIN windows = 1..Len(windows)
        /\ DOMAIN Append(windows, w) = 1..Len(windows) + 1
        /\ Append(windows, w)[Len(windows) + 1] = w
        /\ \A n \in DOMAIN windows : n \in DOMAIN Append(windows, w) /\ Append(windows, w)[n] = windows[n]
    BY <2>1
  <2>3. Len(windows) + 1 \in DOMAIN Append(windows, w)
    BY <2>2
  <2> QED
    BY <1>2, <2>2, <2>3, Zenon DEF R, Windows
<1>6. turn >= WindowEnd
  BY <1>1, <1>2 DEF TurnsKept
<1>7. ASSUME NEW i \in DOMAIN job.turns, i <= turn, job.turns[i] # << >> PROVE InWindows(i)'
  <2>1. CASE i <= windowStart
    <3>1. InWindows(i)
      BY <1>1, <1>7, <2>1 DEF TurnsKept
    <3>2. PICK n \in DOMAIN windows : \E k \in DOMAIN windows[n].indices :
              windows[n].indices[k] = i /\ SaysTurn(windows[n].text, job.turns[i])
      BY <3>1, Zenon DEF InWindows
    <3>3. n \in DOMAIN windows' /\ windows'[n] = windows[n]
      BY <1>5
    <3>4. \E k \in DOMAIN windows'[n].indices :
              windows'[n].indices[k] = i /\ SaysTurn(windows'[n].text, job.turns[i])
      BY <3>2, <3>3
    <3> QED
      BY <1>2, <3>3, <3>4 DEF InWindows, SaysTurn
  <2>2. CASE windowStart < i
    <3>1. InThisWindow(i)
      BY <1>1, <1>2, <1>7, <2>2 DEF TurnsKept
    <3>2. \E k \in DOMAIN w.indices : w.indices[k] = i /\ SaysTurn(w.text, job.turns[i])
      BY <1>4, <3>1 DEF InThisWindow
    <3> DEFINE n == Len(windows) + 1
    <3>3. n \in DOMAIN windows' /\ windows'[n] = w
      BY <1>5
    <3> HIDE DEF n
    <3>4. \E k \in DOMAIN windows'[n].indices :
              windows'[n].indices[k] = i /\ SaysTurn(windows'[n].text, job.turns[i])
      BY <3>2, <3>3
    <3> QED
      BY <1>2, <3>3, <3>4 DEF InWindows, SaysTurn
  <2>3. windowStart \in Nat /\ i \in Int
    <3>1. job.turns \in Seq(Prose)
      BY <1>1, JobIsTyped DEF ChunkTypes
    <3> QED
      BY <1>1, <3>1 DEF ChunkTypes
  <2> QED
    BY <2>1, <2>2, <2>3
<1>8. /\ cut' \in {"open", "done"} /\ windowStart' \in Nat /\ turn' \in Nat
      /\ windowStart' <= Len(job.turns) /\ indices' = << >> /\ windowText' = << >>
      /\ TurnsKept'
  BY <1>1, <1>2, <1>6, <1>7, NextWindow_Turns
<1>9. << >> \in Prose /\ << >> \in Seq(Nat) /\ << >> \in Pieces
  BY DEF Prose, Pieces
<1>10. ChunkTypes'
  BY <1>1, <1>2, <1>5, <1>8, <1>9 DEF ChunkTypes
<1>11. ChunksKept'
  <2>1. ASSUME NEW n \in DOMAIN windows'
        PROVE  ChunksFollow(windows'[n].text, windows'[n].chunks)
    <3>1. CASE n \in DOMAIN windows
      <4>1. windows'[n] = windows[n] /\ ChunksFollow(windows[n].text, windows[n].chunks)
        BY <1>1, <1>5, <3>1, Zenon DEF ChunksKept
      <4> QED
        BY <4>1
    <3>2. CASE n = Len(windows) + 1
      <4>1. ChunksFollow(w.text, w.chunks)
        BY <1>1, <1>2, <1>4 DEF ChunksKept
      <4>2. windows'[n] = w
        BY <1>5, <3>2
      <4> QED
        BY <4>1, <4>2
    <3> QED
      BY <1>5, <2>1, <3>1, <3>2
  <2>2. ASSUME NEW n \in DOMAIN windows'
        PROVE  ChunksFollow(windows[n].text, windows[n].chunks)'
    <3>1. ChunksFollow(windows'[n].text, windows'[n].chunks)
      BY <2>1
    <3> QED
      BY <1>2, <3>1, Zenon DEF ChunksFollow
  <2> QED
    BY <1>2, <1>8, <2>2 DEF ChunksKept
<1> QED
  BY <1>8, <1>10, <1>11 DEF ChunkInv

LEMMA ChunkInv_Stutters == ChunkInv /\ UNCHANGED chunkVars => ChunkInv'
<1> SUFFICES ASSUME ChunkInv, UNCHANGED chunkVars PROVE ChunkInv'
  OBVIOUS
<1>1. ChunkTypes /\ TurnsKept /\ ChunksKept
  BY DEF ChunkInv
<1>2. UNCHANGED <<job, cut, windowStart, turn, indices, windowText, start, chunks, windows>>
  BY DEF chunkVars
<1>3. ChunkTypes'
  BY <1>1, <1>2 DEF ChunkTypes
<1>4. TurnsKept'
  <2>1. WindowEnd' = WindowEnd
    BY <1>2 DEF WindowEnd, WindowSize
  <2>2. \A i : InThisWindow(i)' <=> InThisWindow(i)
    BY <1>2 DEF InThisWindow, SaysTurn
  <2>3. \A i : InWindows(i)' <=> InWindows(i)
    BY <1>2, WindowsStay
  <2> QED
    BY <1>1, <1>2, <2>1, <2>2, <2>3 DEF TurnsKept
<1>5. ChunksKept'
  <2>1. ChunksFollow(windowText, chunks) => ChunksFollow(windowText, chunks)'
    BY <1>2 DEF ChunksFollow
  <2>2. Laid(chunks, start, EndOf(start)) => Laid(chunks, start, EndOf(start))'
    BY <1>2, LaidStays
  <2> QED
    BY <1>1, <1>2, <2>1, <2>2, WindowsStay DEF ChunksKept
<1> QED
  BY <1>3, <1>4, <1>5 DEF ChunkInv

LEMMA ChunkNext_Inv == ChunkInv /\ [ChunkNext]_chunkVars => ChunkInv'
  BY AssembleWindow_Inv, SkipBlankWindow_Inv, OpenWindow_Inv, KeepWhole_Inv, BeginCut_Inv,
     ChunkText_Inv, ChunkConversation_Inv, ChunkInv_Stutters, Zenon DEF ChunkNext

LEMMA NothingIsCut == ChunkInv => NothingIsCutAway
<1> SUFFICES ASSUME ChunkInv PROVE NothingIsCutAway
  OBVIOUS
<1>1. TurnsKept /\ ChunksKept
  BY DEF ChunkInv
<1>2. ASSUME cut = "done", NEW i \in DOMAIN job.turns, job.turns[i] # << >> PROVE InWindows(i)
  BY <1>1, <1>2, Zenon DEF TurnsKept
<1>3. \A n \in DOMAIN windows : ChunksFollow(windows[n].text, windows[n].chunks)
  BY <1>1, Zenon DEF ChunksKept
<1> QED
  BY <1>2, <1>3, Zenon DEF NothingIsCutAway, InWindows

(* Chunking loses nothing (NothingIsCutAway), for every text and every       *)
(* conversation and every size, overlap, least size and window.              *)
THEOREM ChunksAreWhole == ChunkSpec => []NothingIsCutAway
<1>1. ChunkInit => ChunkInv
  BY ChunkInit_Inv
<1>2. ChunkInv /\ [ChunkNext]_chunkVars => ChunkInv'
  BY ChunkNext_Inv
<1>3. ChunkInv => NothingIsCutAway
  BY NothingIsCut
<1> QED
  BY <1>1, <1>2, <1>3, PTL DEF ChunkSpec

-----------------------------------------------------------------------------
(***************************************************************************)
(* ClaudeThreads: the order of the messages of any conversation, whatever  *)
(* ids are missing or repeated and whatever the parents name.              *)
(*                                                                         *)
(* The walk holds the ids on its trail in the order of their places, and   *)
(* what was ordered after one of them answers it or something after it     *)
(* (TrailIn); what it has left out answers something on its trail          *)
(* (LeftIn), so that with an empty trail what is visited is closed and has *)
(* every reachable id.  All of it speaks of one conversation, and of an    *)
(* order o and a trail t.                                                  *)
(***************************************************************************)
Uuid(i) == messages[i].uuid
VisitedIn(o) == {Uuid(o[k]) : k \in DOMAIN o}
AnswersIn(o, parent) == {i \in Named : ParentOf(i) = parent /\ Uuid(i) \notin VisitedIn(o)}
UnmetIn(o) == {i \in byID : Uuid(i) \notin VisitedIn(o)}

OnePlace(o) == \A a, b \in DOMAIN o : Uuid(o[a]) = Uuid(o[b]) => a = b
\* What comes after the place a answers what is there or after it.
Below(o, a) ==
    \A b \in DOMAIN o : a < b =>
       \E c \in DOMAIN o : a <= c /\ c < b /\ Uuid(o[c]) = ParentOf(o[b])
TrailIn(o, t) ==
    /\ t # << >> => t[1] = Root
    /\ \A d \in DOMAIN t : d > 1 => \E a \in DOMAIN o : Uuid(o[a]) = t[d] /\ Below(o, a)
    /\ \A d, e \in DOMAIN t : 1 < d /\ d < e =>
          \A a, b \in DOMAIN o : Uuid(o[a]) = t[d] /\ Uuid(o[b]) = t[e] => a < b
LeftIn(o, t) ==
    t # << >> =>
       \A i \in Named : ParentOf(i) \in VisitedIn(o) \cup {Root} /\ Uuid(i) \notin VisitedIn(o)
          => \E d \in DOMAIN t : t[d] = ParentOf(i)
ReachIn(o, t) ==
    /\ t # << >> => VisitedIn(o) \subseteq Reachable
    /\ t = << >> => Reachable \subseteq VisitedIn(o)
    /\ \A a, b \in DOMAIN o : a < b /\ Uuid(o[b]) \in Reachable => Uuid(o[a]) \in Reachable
\* An answer follows what it answers, and what is between the two is of its thread.
Follows(o, b) ==
    \E a \in DOMAIN o :
       /\ a < b /\ Uuid(o[a]) = ParentOf(o[b])
       /\ \A j \in DOMAIN o : a < j /\ j < b =>
             \E c \in DOMAIN o : a <= c /\ c < j /\ Uuid(o[c]) = ParentOf(o[j])
ThreadIn(o) ==
    \A b \in DOMAIN o :
       Uuid(o[b]) \in Reachable /\ ParentOf(o[b]) # Root => Follows(o, b)
\* What is still to be ordered is not sooner than what was.
SiblingsIn(o) ==
    /\ \A a \in DOMAIN o, i \in Named :
          /\ ParentOf(i) = ParentOf(o[a]) /\ Uuid(i) \notin VisitedIn(o)
          /\ Uuid(o[a]) \in Reachable
          => ~Sooner(messages[i], messages[o[a]])
    /\ \A a \in DOMAIN o, i \in UnmetIn(o) :
          Uuid(o[a]) \notin Reachable => ~Sooner(messages[i], messages[o[a]])
    /\ \A a, b \in DOMAIN o :
          /\ a < b /\ ParentOf(o[a]) = ParentOf(o[b])
          /\ Uuid(o[a]) \in Reachable <=> Uuid(o[b]) \in Reachable
          => ~Sooner(messages[o[b]], messages[o[a]])
OrderIn(o, t) ==
    OnePlace(o) /\ TrailIn(o, t) /\ LeftIn(o, t) /\ ReachIn(o, t) /\ ThreadIn(o) /\ SiblingsIn(o)

\* What the first h of the order have become.
RecordsIn(o, t, h, s) ==
    /\ h = 0 => s = << >>
    /\ h # 0 => t = << >> /\ UnmetIn(o) = {}
    /\ \A k \in DOMAIN s : Storable(s[k])
    /\ \A k \in DOMAIN s :
          \E a \in 1..h : /\ s[k] = o[a]
                          /\ \A j \in DOMAIN s : j < k => \E b \in 1..a - 1 : s[j] = o[b]
    /\ \A a \in 1..h : Storable(o[a]) => \E k \in DOMAIN s : s[k] = o[a]
    /\ AllStored => Len(s) = h /\ \A a \in 1..h : s[a] = o[a]

ClaudeTypes ==
    /\ messages \in Threads
    /\ trail \in Seq(Nat \cup {Root})
    /\ order \in Seq(Named) /\ accepted \in Seq(Named)
    /\ handled \in 0..Len(order)
ClaudeInv ==
    ClaudeTypes /\ OrderIn(order, trail) /\ RecordsIn(order, trail, handled, accepted)

-----------------------------------------------------------------------------
LEMMA MessageShape ==
    ASSUME messages \in Threads
    PROVE  /\ DOMAIN messages = 1..Len(messages) /\ Len(messages) \in Nat
           /\ \A i \in Named : /\ i \in Nat /\ Uuid(i) \in Nat
                               /\ messages[i].uuid \in Nat /\ messages[i].time \in Nat
<1> DEFINE Message == [uuid : Nat, parent : Nat \cup {Root}, time : Nat,
                       role : STRING, text : BOOLEAN]
<1>1. messages \in Seq(Message)
  BY ThreadAssumption
<1>2. /\ DOMAIN messages = 1..Len(messages) /\ Len(messages) \in Nat
      /\ \A i \in DOMAIN messages : messages[i] \in Message
  <2> HIDE DEF Message
  <2> QED
    BY <1>1
<1>3. \A i \in DOMAIN messages : messages[i].uuid \in Nat /\ messages[i].time \in Nat
  BY <1>2
<1> QED
  BY <1>2, <1>3 DEF Named, Uuid

(* What stands before another message is not later than it.                  *)
LEMMA StableIsNotLater ==
    ASSUME messages \in Threads, NEW i \in Named, NEW j \in Named, Stable(i, j)
    PROVE  ~Sooner(messages[j], messages[i])
BY MessageShape DEF Stable, Sooner, Blank

(* The answers to what is reachable are reachable, and what is closed has    *)
(* all that is.                                                              *)
LEMMA AnswersAreReachable ==
    ASSUME NEW i \in Named, ParentOf(i) \in Reachable \cup {Root}
    PROVE  Uuid(i) \in Reachable
<1>1. Uuid(i) \in NamedIds
  BY DEF NamedIds, Uuid
<1>2. ASSUME NEW ids \in SUBSET NamedIds, Closed(ids) PROVE Uuid(i) \in ids
  <2>1. ParentOf(i) \in ids \cup {Root}
    BY <1>2 DEF Reachable
  <2> QED
    BY <1>2, <2>1 DEF Closed, Uuid
<1> QED
  BY <1>1, <1>2 DEF Reachable
LEMMA ClosedHasReachable ==
    ASSUME NEW ids \in SUBSET NamedIds, Closed(ids)
    PROVE  Reachable \subseteq ids
BY DEF Reachable

(* A message is added behind the others.                                     *)
LEMMA OneLonger ==
    ASSUME NEW S, NEW s \in Seq(S), NEW x \in S
    PROVE  /\ Append(s, x) \in Seq(S) /\ Len(s) \in Nat /\ DOMAIN s = 1..Len(s)
           /\ Len(Append(s, x)) = Len(s) + 1 /\ DOMAIN Append(s, x) = 1..Len(s) + 1
           /\ Append(s, x)[Len(s) + 1] = x /\ Append(s, x) # << >>
           /\ \A k \in 1..Len(s) : Append(s, x)[k] = s[k] /\ k \in 1..Len(s) + 1 /\ k < Len(s) + 1
           /\ Len(s) + 1 \in 1..Len(s) + 1
           /\ \A k \in 1..Len(s) + 1 : k \in 1..Len(s) \/ k = Len(s) + 1
<1>1. /\ Append(s, x) \in Seq(S) /\ Len(s) \in Nat /\ DOMAIN s = 1..Len(s)
      /\ Len(Append(s, x)) = Len(s) + 1 /\ DOMAIN Append(s, x) = 1..Len(s) + 1
      /\ Append(s, x)[Len(s) + 1] = x
  OBVIOUS
<1>2. Append(s, x) # << >>
  BY <1>1
<1>3. \A k \in 1..Len(s) : Append(s, x)[k] = s[k]
  OBVIOUS
<1>4. /\ \A k \in 1..Len(s) : k \in 1..Len(s) + 1 /\ k < Len(s) + 1
      /\ Len(s) + 1 \in 1..Len(s) + 1
      /\ \A k \in 1..Len(s) + 1 : k \in 1..Len(s) \/ k = Len(s) + 1
  BY <1>1
<1> QED
  BY <1>1, <1>2, <1>3, <1>4, Zenon
LEMMA OneShorter ==
    ASSUME NEW S, NEW s \in Seq(S), s # << >>
    PROVE  LET u == SubSeq(s, 1, Len(s) - 1)
           IN  /\ Len(s) \in Nat /\ Len(s) >= 1 /\ DOMAIN s = 1..Len(s) /\ u \in Seq(S)
               /\ DOMAIN u = 1..Len(s) - 1 /\ Len(u) = Len(s) - 1
               /\ \A d \in 1..Len(s) - 1 : u[d] = s[d] /\ d \in 1..Len(s)
               /\ u = << >> <=> Len(s) = 1
<1> DEFINE u == SubSeq(s, 1, Len(s) - 1)
<1>1. Len(s) \in Nat /\ DOMAIN s = 1..Len(s) /\ Len(s) # 0
  OBVIOUS
<1>2. Len(s) >= 1 /\ Len(s) - 1 \in Nat
  BY <1>1
<1>3. \A d \in 1..Len(s) - 1 : d \in 1..Len(s) /\ s[d] \in S
  BY <1>1
<1>4. u = [d \in 1..Len(s) - 1 |-> s[d]]
  BY <1>1, <1>2
<1>5. u \in Seq(S) /\ DOMAIN u = 1..Len(s) - 1 /\ Len(u) = Len(s) - 1
  <2> DEFINE m == Len(s) - 1
  <2>1. m \in Nat
    BY <1>2
  <2>2. u \in [1..m -> S]
    BY <1>3, <1>4
  <2> HIDE DEF u, m
  <2>3. u \in Seq(S) /\ DOMAIN u = 1..m
    BY <2>1, <2>2
  <2>4. Len(u) = m
    BY <2>1, <2>3
  <2> QED
    BY <2>3, <2>4 DEF m
<1>6. \A d \in 1..Len(s) - 1 : u[d] = s[d]
  BY <1>4
<1>7. u = << >> <=> Len(s) = 1
  <2> HIDE DEF u
  <2> QED
    BY <1>2, <1>5
<1> QED
  BY <1>1, <1>2, <1>3, <1>5, <1>6, <1>7

LEMMA OneMoreVisited ==
    ASSUME NEW o \in Seq(Named), NEW i \in Named
    PROVE  VisitedIn(Append(o, i)) = VisitedIn(o) \cup {Uuid(i)}
BY OneLonger DEF VisitedIn

LEMMA OnePlaceMore ==
    ASSUME NEW o \in Seq(Named), NEW i \in Named, Uuid(i) \notin VisitedIn(o), OnePlace(o)
    PROVE  OnePlace(Append(o, i))
BY OneLonger DEF OnePlace, VisitedIn

(* One message more that is not earlier than what is in the order.           *)
LEMMA SiblingsMore ==
    ASSUME messages \in Threads, NEW o \in Seq(Named), NEW i \in Named,
           Uuid(i) \notin VisitedIn(o), SiblingsIn(o),
           \A j \in Named : /\ ParentOf(j) = ParentOf(i) /\ Uuid(i) \in Reachable
                            /\ Uuid(j) \notin VisitedIn(o) /\ j # i
                            => Stable(i, j),
           \A j \in UnmetIn(o) : Uuid(i) \notin Reachable /\ j # i => Stable(i, j),
           Uuid(i) \notin Reachable => i \in UnmetIn(o)
    PROVE  SiblingsIn(Append(o, i))
<1> DEFINE n == Len(o)
           p == Append(o, i)
<1>1. /\ DOMAIN p = 1..n + 1 /\ p[n + 1] = i /\ \A k \in 1..n : p[k] = o[k] /\ k < n + 1
      /\ DOMAIN o = 1..n /\ n \in Nat /\ \A k \in 1..n + 1 : k \in 1..n \/ k = n + 1
  BY OneLonger
<1>2. VisitedIn(p) = VisitedIn(o) \cup {Uuid(i)}
  BY OneMoreVisited
<1>3. UnmetIn(p) \subseteq UnmetIn(o) /\ i \notin UnmetIn(p) /\ UnmetIn(o) \subseteq Named
  BY <1>2 DEF UnmetIn, byID
<1> HIDE DEF p, n
<1>4. ASSUME NEW a \in DOMAIN p, NEW j \in Named, ParentOf(j) = ParentOf(p[a]),
             Uuid(j) \notin VisitedIn(p), Uuid(p[a]) \in Reachable
      PROVE  ~Sooner(messages[j], messages[p[a]])
  <2>1. CASE a \in 1..n
    BY <1>1, <1>2, <1>4, <2>1 DEF SiblingsIn
  <2>2. CASE a = n + 1
    <3>1. j # i /\ Uuid(j) \notin VisitedIn(o) /\ p[a] = i
      BY <1>1, <1>2, <1>4, <2>2
    <3> QED
      BY <1>4, <3>1, StableIsNotLater
  <2> QED
    BY <1>1, <2>1, <2>2
<1>5. ASSUME NEW a \in DOMAIN p, NEW j \in UnmetIn(p), Uuid(p[a]) \notin Reachable
      PROVE  ~Sooner(messages[j], messages[p[a]])
  <2>1. CASE a \in 1..n
    BY <1>1, <1>3, <1>5, <2>1 DEF SiblingsIn
  <2>2. CASE a = n + 1
    <3>1. j # i /\ j \in UnmetIn(o) /\ p[a] = i /\ j \in Named
      BY <1>1, <1>3, <1>5, <2>2
    <3> QED
      BY <1>5, <3>1, StableIsNotLater
  <2> QED
    BY <1>1, <2>1, <2>2
<1>6. ASSUME NEW a \in DOMAIN p, NEW b \in DOMAIN p, a < b, ParentOf(p[a]) = ParentOf(p[b]),
             Uuid(p[a]) \in Reachable <=> Uuid(p[b]) \in Reachable
      PROVE  ~Sooner(messages[p[b]], messages[p[a]])
  <2>1. a \in 1..n
    BY <1>1, <1>6
  <2>2. CASE b \in 1..n
    BY <1>1, <1>6, <2>1, <2>2 DEF SiblingsIn
  <2>3. CASE b = n + 1
    BY <1>1, <1>6, <2>1, <2>3 DEF SiblingsIn
  <2> QED
    BY <1>1, <2>2, <2>3
<1> QED
  BY <1>4, <1>5, <1>6 DEF SiblingsIn, p

-----------------------------------------------------------------------------
(* The walk goes on to an answer to the innermost message of its trail.      *)
LEMMA WalkOrders ==
    ASSUME messages \in Threads, NEW o \in Seq(Named), NEW t \in Seq(Nat \cup {Root}), t # << >>,
           OrderIn(o, t), NEW i \in AnswersIn(o, t[Len(t)]),
           \A j \in AnswersIn(o, t[Len(t)]) : j # i => Stable(i, j)
    PROVE  OrderIn(Append(o, i), Append(t, Uuid(i)))
<1> DEFINE n == Len(o)
           m == Len(t)
           p == Append(o, i)
           u == Append(t, Uuid(i))
<1>1. i \in Named /\ ParentOf(i) = t[m] /\ Uuid(i) \notin VisitedIn(o) /\ Uuid(i) \in Nat \cup {Root}
  BY MessageShape DEF AnswersIn
<1>2. /\ DOMAIN p = 1..n + 1 /\ p[n + 1] = i /\ \A k \in 1..n : p[k] = o[k] /\ k \in 1..n + 1 /\ k < n + 1
      /\ DOMAIN o = 1..n /\ n \in Nat /\ n + 1 \in 1..n + 1
      /\ \A k \in 1..n + 1 : k \in 1..n \/ k = n + 1
  BY <1>1, OneLonger
<1>3. /\ DOMAIN u = 1..m + 1 /\ u[m + 1] = Uuid(i) /\ \A k \in 1..m : u[k] = t[k] /\ k < m + 1
      /\ DOMAIN t = 1..m /\ m \in Nat /\ u # << >>
      /\ \A k \in 1..m + 1 : k \in 1..m \/ k = m + 1
  BY <1>1, OneLonger
<1>4. m >= 1 /\ 1 \in 1..m /\ m \in 1..m /\ t[1] = Root
  BY <1>3 DEF OrderIn, TrailIn
<1>5. VisitedIn(p) = VisitedIn(o) \cup {Uuid(i)}
  BY <1>1, OneMoreVisited
<1>6. \A k \in 1..n : Uuid(o[k]) \in VisitedIn(o) /\ Uuid(o[k]) # Uuid(i)
  BY <1>1, <1>2 DEF VisitedIn
<1>7. \A d \in 1..m : d > 1 => \E a \in 1..n : Uuid(o[a]) = t[d] /\ Below(o, a)
  BY <1>2, <1>3 DEF OrderIn, TrailIn
<1>8. \A d, e \in 1..m : 1 < d /\ d < e =>
         \A a, b \in 1..n : Uuid(o[a]) = t[d] /\ Uuid(o[b]) = t[e] => a < b
  BY <1>2, <1>3 DEF OrderIn, TrailIn
<1>9. Uuid(i) \in Reachable
  <2>1. t[m] \in VisitedIn(o) \cup {Root}
    <3>1. CASE m = 1
      BY <1>4, <3>1
    <3>2. CASE m > 1
      BY <1>4, <1>6, <1>7, <3>2
    <3> QED
      BY <1>3, <1>4, <3>1, <3>2
  <2> QED
    BY <1>1, <2>1, AnswersAreReachable DEF OrderIn, ReachIn
<1> HIDE DEF p, u, n, m
<1>10. OnePlace(p)
  BY <1>1, OnePlaceMore DEF OrderIn, p
<1>11. TrailIn(p, u)
  <2>1. u[1] = Root
    BY <1>3, <1>4
  <2>2. ASSUME NEW d \in 1..m, d > 1
        PROVE  \E a \in 1..n + 1 : Uuid(p[a]) = u[d] /\ Below(p, a)
    <3>1. PICK a \in 1..n : Uuid(o[a]) = t[d] /\ Below(o, a)
      BY <1>7, <2>2
    <3>2. \E c \in 1..n : a <= c /\ Uuid(o[c]) = t[m]
      <4>1. CASE d = m
        BY <1>2, <3>1, <4>1
      <4>2. CASE d # m
        <5>1. d < m /\ m > 1
          BY <1>3, <2>2, <4>2
        <5>2. PICK c \in 1..n : Uuid(o[c]) = t[m]
          BY <1>4, <1>7, <5>1
        <5>3. a < c
          BY <1>4, <1>8, <2>2, <3>1, <5>1, <5>2
        <5> QED
          BY <1>2, <5>2, <5>3
      <4> QED
        BY <4>1, <4>2
    <3>3. ASSUME NEW b \in 1..n + 1, a < b
          PROVE  \E c \in 1..n + 1 : a <= c /\ c < b /\ Uuid(p[c]) = ParentOf(p[b])
      <4>1. CASE b \in 1..n
        <5>1. PICK c \in 1..n : a <= c /\ c < b /\ Uuid(o[c]) = ParentOf(o[b])
          BY <1>2, <3>1, <3>3, <4>1 DEF Below
        <5> QED
          BY <1>2, <4>1, <5>1
      <4>2. CASE b = n + 1
        <5>1. PICK c \in 1..n : a <= c /\ Uuid(o[c]) = t[m]
          BY <3>2
        <5> QED
          BY <1>1, <1>2, <4>2, <5>1 DEF m
      <4> QED
        BY <1>2, <4>1, <4>2
    <3>4. Below(p, a)
      BY <1>2, <3>3, Zenon DEF Below
    <3> QED
      BY <1>2, <1>3, <3>1, <3>4
  <2>3. \E a \in 1..n + 1 : Uuid(p[a]) = u[m + 1] /\ Below(p, a)
    <3>1. Below(p, n + 1)
      BY <1>2 DEF Below
    <3> QED
      BY <1>2, <1>3, <3>1
  <2>4. \A d \in 1..m + 1 : d > 1 => \E a \in 1..n + 1 : Uuid(p[a]) = u[d] /\ Below(p, a)
    BY <1>3, <2>2, <2>3
  <2>5. ASSUME NEW d \in 1..m + 1, NEW e \in 1..m + 1, 1 < d, d < e,
               NEW a \in 1..n + 1, NEW b \in 1..n + 1, Uuid(p[a]) = u[d], Uuid(p[b]) = u[e]
        PROVE  a < b
    <3>1. d \in 1..m /\ u[d] = t[d]
      BY <1>3, <2>5
    <3>2. u[d] \in VisitedIn(o)
      BY <1>6, <1>7, <2>5, <3>1
    <3>3. a \in 1..n /\ Uuid(p[a]) = Uuid(o[a])
      BY <1>1, <1>2, <2>5, <3>2
    <3>4. CASE e = m + 1
      <4>1. b = n + 1
        BY <1>2, <1>3, <1>6, <2>5, <3>4
      <4> QED
        BY <1>2, <3>3, <4>1
    <3>5. CASE e \in 1..m
      <4>1. u[e] = t[e] /\ e > 1
        BY <1>3, <2>5, <3>5
      <4>2. u[e] \in VisitedIn(o)
        BY <1>6, <1>7, <3>5, <4>1
      <4>3. b \in 1..n /\ Uuid(p[b]) = Uuid(o[b])
        BY <1>1, <1>2, <2>5, <4>2
      <4> QED
        BY <1>8, <2>5, <3>1, <3>3, <3>5, <4>1, <4>3
    <3> QED
      BY <1>3, <3>4, <3>5
  <2> QED
    BY <1>2, <1>3, <2>1, <2>4, <2>5, ZenonT(30) DEF TrailIn
<1>12. LeftIn(p, u)
  <2> SUFFICES ASSUME NEW j \in Named, ParentOf(j) \in VisitedIn(p) \cup {Root},
                      Uuid(j) \notin VisitedIn(p)
               PROVE  \E d \in DOMAIN u : u[d] = ParentOf(j)
    BY DEF LeftIn
  <2>1. CASE ParentOf(j) = Uuid(i)
    BY <1>3, <2>1
  <2>2. CASE ParentOf(j) # Uuid(i)
    <3>1. PICK d \in DOMAIN t : t[d] = ParentOf(j)
      BY <1>5, <2>2 DEF OrderIn, LeftIn
    <3> QED
      BY <1>3, <3>1
  <2> QED
    BY <2>1, <2>2
<1>13. ReachIn(p, u)
  <2>1. VisitedIn(p) \subseteq Reachable
    BY <1>5, <1>9 DEF OrderIn, ReachIn
  <2>2. \A a \in DOMAIN p : Uuid(p[a]) \in Reachable
    BY <2>1 DEF VisitedIn
  <2> QED
    BY <1>3, <2>1, <2>2 DEF ReachIn
<1>14. ThreadIn(p)
  <2> SUFFICES ASSUME NEW b \in 1..n + 1, Uuid(p[b]) \in Reachable, ParentOf(p[b]) # Root
               PROVE  Follows(p, b)
    BY <1>2 DEF ThreadIn
  <2>1. CASE b \in 1..n
    <3>1. PICK a \in 1..n : /\ a < b /\ Uuid(o[a]) = ParentOf(o[b])
                            /\ \A j \in 1..n : a < j /\ j < b =>
                                 \E c \in 1..n : a <= c /\ c < j /\ Uuid(o[c]) = ParentOf(o[j])
      BY <1>2, <2>1 DEF OrderIn, ThreadIn, Follows
    <3>2. ASSUME NEW j \in 1..n + 1, a < j, j < b
          PROVE  \E c \in 1..n + 1 : a <= c /\ c < j /\ Uuid(p[c]) = ParentOf(p[j])
      <4>1. j \in 1..n
        BY <1>2, <2>1, <3>2
      <4>2. PICK c \in 1..n : a <= c /\ c < j /\ Uuid(o[c]) = ParentOf(o[j])
        BY <3>1, <3>2, <4>1
      <4> QED
        BY <1>2, <4>1, <4>2
    <3> QED
      BY <1>2, <2>1, <3>1, <3>2 DEF Follows
  <2>2. CASE b = n + 1
    <3>1. ParentOf(p[b]) = t[m] /\ t[m] # Root
      BY <1>1, <1>2, <2>2 DEF m
    <3>2. m > 1
      BY <1>3, <1>4, <3>1
    <3>3. PICK a \in 1..n : Uuid(o[a]) = t[m] /\ Below(o, a)
      BY <1>4, <1>7, <3>2
    <3>4. ASSUME NEW j \in 1..n + 1, a < j, j < b
          PROVE  \E c \in 1..n + 1 : a <= c /\ c < j /\ Uuid(p[c]) = ParentOf(p[j])
      <4>1. j \in 1..n
        BY <1>2, <2>2, <3>4
      <4>2. PICK c \in 1..n : a <= c /\ c < j /\ Uuid(o[c]) = ParentOf(o[j])
        BY <1>2, <3>3, <3>4, <4>1 DEF Below
      <4> QED
        BY <1>2, <4>1, <4>2
    <3> QED
      BY <1>2, <2>2, <3>1, <3>3, <3>4 DEF Follows
  <2> QED
    BY <1>2, <2>1, <2>2
<1>15. SiblingsIn(p)
  <2>1. \A j \in Named : ParentOf(j) = ParentOf(i) /\ Uuid(j) \notin VisitedIn(o) /\ j # i
           => Stable(i, j)
    BY <1>1 DEF AnswersIn, m
  <2> QED
    BY <1>1, <1>9, <2>1, SiblingsMore DEF OrderIn, p
<1> QED
  BY <1>10, <1>11, <1>12, <1>13, <1>14, <1>15 DEF OrderIn, p, u

(* It returns from a message that has no other answer; from the root, when   *)
(* what it has visited is closed.                                            *)
LEMMA ReturnOrders ==
    ASSUME messages \in Threads, NEW o \in Seq(Named), NEW t \in Seq(Nat \cup {Root}), t # << >>,
           OrderIn(o, t), AnswersIn(o, t[Len(t)]) = {}
    PROVE  LET u == SubSeq(t, 1, Len(t) - 1)
           IN  u \in Seq(Nat \cup {Root}) /\ OrderIn(o, u)
<1> DEFINE m == Len(t)
           u == SubSeq(t, 1, m - 1)
<1>1. /\ m \in Nat /\ m >= 1 /\ DOMAIN t = 1..m /\ u \in Seq(Nat \cup {Root})
      /\ DOMAIN u = 1..m - 1 /\ Len(u) = m - 1 /\ \A d \in 1..m - 1 : u[d] = t[d] /\ d \in 1..m
  BY OneShorter
<1>2. u = << >> <=> m = 1
  BY OneShorter
<1> HIDE DEF u, m
<1>3. TrailIn(o, u)
  <2>1. u # << >> => u[1] = Root
    BY <1>1, <1>2 DEF OrderIn, TrailIn
  <2>2. \A d \in DOMAIN u : d \in DOMAIN t /\ u[d] = t[d]
    BY <1>1
  <2> QED
    BY <2>1, <2>2 DEF OrderIn, TrailIn
<1>4. ASSUME NEW i \in Named, ParentOf(i) \in VisitedIn(o) \cup {Root}, Uuid(i) \notin VisitedIn(o)
      PROVE  \E d \in 1..m - 1 : t[d] = ParentOf(i)
  <2>1. PICK d \in 1..m : t[d] = ParentOf(i)
    BY <1>1, <1>4 DEF OrderIn, LeftIn
  <2>2. d # m
    BY <1>4, <2>1 DEF AnswersIn, m
  <2> QED
    BY <1>1, <2>1, <2>2
<1>5. LeftIn(o, u)
  BY <1>1, <1>4 DEF LeftIn
<1>6. u = << >> => Reachable \subseteq VisitedIn(o)
  <2> SUFFICES ASSUME u = << >> PROVE Reachable \subseteq VisitedIn(o)
    OBVIOUS
  <2>1. Closed(VisitedIn(o))
    BY <1>1, <1>2, <1>4 DEF Closed, Uuid
  <2>2. VisitedIn(o) \in SUBSET NamedIds
    BY DEF VisitedIn, NamedIds, Uuid
  <2> QED
    BY <2>1, <2>2, ClosedHasReachable
<1>7. ReachIn(o, u)
  BY <1>6 DEF OrderIn, ReachIn
<1>8. OrderIn(o, u)
  BY <1>3, <1>5, <1>7 DEF OrderIn
<1> QED
  BY <1>1, <1>8 DEF u, m

(* What the walk has not met follows, after all that is reachable.           *)
LEMMA RemainderOrders ==
    ASSUME messages \in Threads, NEW o \in Seq(Named), OrderIn(o, << >>),
           NEW i \in UnmetIn(o), \A j \in UnmetIn(o) : j # i => Stable(i, j)
    PROVE  OrderIn(Append(o, i), << >>)
<1> DEFINE n == Len(o)
           p == Append(o, i)
<1>1. i \in Named /\ Uuid(i) \notin VisitedIn(o)
  BY DEF UnmetIn, byID
<1>2. Uuid(i) \notin Reachable
  BY <1>1 DEF OrderIn, ReachIn
<1>3. /\ DOMAIN p = 1..n + 1 /\ p[n + 1] = i /\ \A k \in 1..n : p[k] = o[k] /\ k \in 1..n + 1 /\ k < n + 1
      /\ DOMAIN o = 1..n /\ n \in Nat
      /\ \A k \in 1..n + 1 : k \in 1..n \/ k = n + 1
  BY <1>1, OneLonger
<1>4. VisitedIn(p) = VisitedIn(o) \cup {Uuid(i)}
  BY <1>1, OneMoreVisited
<1> HIDE DEF p, n
<1>5. OnePlace(p)
  BY <1>1, OnePlaceMore DEF OrderIn, p
<1>6. TrailIn(p, << >>) /\ LeftIn(p, << >>)
  BY DEF TrailIn, LeftIn
<1>7. ReachIn(p, << >>)
  <2>1. ASSUME NEW a \in 1..n + 1, NEW b \in 1..n + 1, a < b, Uuid(p[b]) \in Reachable
        PROVE  Uuid(p[a]) \in Reachable
    <3>1. b \in 1..n
      BY <1>2, <1>3, <2>1
    <3>2. a \in 1..n
      BY <1>3, <2>1, <3>1
    <3> QED
      BY <1>3, <2>1, <3>1, <3>2 DEF OrderIn, ReachIn
  <2> QED
    BY <1>3, <1>4, <2>1 DEF OrderIn, ReachIn
<1>8. ThreadIn(p)
  <2> SUFFICES ASSUME NEW b \in 1..n + 1, Uuid(p[b]) \in Reachable, ParentOf(p[b]) # Root
               PROVE  Follows(p, b)
    BY <1>3 DEF ThreadIn
  <2>1. b \in 1..n
    BY <1>2, <1>3
  <2>2. PICK a \in 1..n : /\ a < b /\ Uuid(o[a]) = ParentOf(o[b])
                          /\ \A j \in 1..n : a < j /\ j < b =>
                               \E c \in 1..n : a <= c /\ c < j /\ Uuid(o[c]) = ParentOf(o[j])
    BY <1>3, <2>1 DEF OrderIn, ThreadIn, Follows
  <2>3. ASSUME NEW j \in 1..n + 1, a < j, j < b
        PROVE  \E c \in 1..n + 1 : a <= c /\ c < j /\ Uuid(p[c]) = ParentOf(p[j])
    <3>1. j \in 1..n
      BY <1>3, <2>1, <2>3
    <3>2. PICK c \in 1..n : a <= c /\ c < j /\ Uuid(o[c]) = ParentOf(o[j])
      BY <2>2, <2>3, <3>1
    <3> QED
      BY <1>3, <3>1, <3>2
  <2> QED
    BY <1>3, <2>1, <2>2, <2>3 DEF Follows
<1>9. SiblingsIn(p)
  BY <1>1, <1>2, SiblingsMore DEF OrderIn, p
<1> QED
  BY <1>5, <1>6, <1>7, <1>8, <1>9 DEF OrderIn, p

(* One more message of the order is stored or passed over.                   *)
LEMMA OneMoreHandled ==
    ASSUME NEW o \in Seq(Named), NEW s \in Seq(Named), NEW h \in 0..Len(o), h < Len(o),
           RecordsIn(o, << >>, h, s), UnmetIn(o) = {}
    PROVE  LET q == IF Storable(o[h + 1]) THEN Append(s, o[h + 1]) ELSE s
           IN  q \in Seq(Named) /\ RecordsIn(o, << >>, h + 1, q)
<1>1. /\ h \in Nat /\ h + 1 # 0 /\ h + 1 \in 1..h + 1 /\ o[h + 1] \in Named
      /\ \A a \in 1..h : a \in 1..h + 1 /\ a \in 1..h + 1 - 1
      /\ \A a \in 1..h + 1 : a \in 1..h \/ a = h + 1
  OBVIOUS
<1>2. CASE ~Storable(o[h + 1])
  <2>1. ~AllStored
    BY <1>1, <1>2 DEF AllStored
  <2> QED
    BY <1>1, <1>2, <2>1 DEF RecordsIn
<1>3. CASE Storable(o[h + 1])
  <2> DEFINE q == Append(s, o[h + 1])
             n == Len(s)
  <2>1. /\ DOMAIN q = 1..n + 1 /\ q[n + 1] = o[h + 1] /\ \A k \in 1..n : q[k] = s[k] /\ k < n + 1
        /\ DOMAIN s = 1..n /\ n \in Nat /\ Len(q) = n + 1 /\ q \in Seq(Named)
        /\ \A k \in 1..n + 1 : k \in 1..n \/ k = n + 1
        /\ n + 1 \in 1..n + 1 /\ \A k \in 1..n : k \in 1..n + 1
    BY <1>1, OneLonger
  <2> HIDE DEF q, n
  <2>2. \A k \in DOMAIN q : Storable(q[k])
    BY <1>3, <2>1 DEF RecordsIn
  <2>3. ASSUME NEW k \in DOMAIN q
        PROVE  \E a \in 1..h + 1 : /\ q[k] = o[a]
                                   /\ \A j \in DOMAIN q : j < k => \E b \in 1..a - 1 : q[j] = o[b]
    <3>1. CASE k \in 1..n
      <4>1. PICK a \in 1..h : /\ s[k] = o[a]
                              /\ \A j \in 1..n : j < k => \E b \in 1..a - 1 : s[j] = o[b]
        BY <2>1, <3>1, SMTT(30) DEF RecordsIn
      <4>2. ASSUME NEW j \in DOMAIN q, j < k PROVE \E b \in 1..a - 1 : q[j] = o[b]
        <5>1. j \in 1..n /\ q[j] = s[j]
          BY <2>1, <3>1, <4>2
        <5> QED
          BY <4>1, <4>2, <5>1
      <4>3. a \in 1..h + 1 /\ q[k] = o[a]
        BY <1>1, <2>1, <3>1, <4>1
      <4> QED
        BY <4>2, <4>3, Zenon
    <3>2. CASE k = n + 1
      <4>1. ASSUME NEW j \in DOMAIN q, j < k PROVE \E b \in 1..h : q[j] = o[b]
        <5>1. j \in 1..n /\ q[j] = s[j]
          BY <2>1, <3>2, <4>1
        <5> QED
          BY <2>1, <5>1 DEF RecordsIn
      <4>2. \A j \in DOMAIN q : j < k => \E b \in 1..(h + 1) - 1 : q[j] = o[b]
        BY <1>1, <4>1
      <4> QED
        BY <1>1, <2>1, <3>2, <4>2
    <3> QED
      BY <2>1, <3>1, <3>2
  <2>4. \A a \in 1..h + 1 : Storable(o[a]) => \E k \in DOMAIN q : q[k] = o[a]
    BY <1>1, <2>1 DEF RecordsIn
  <2>5. AllStored => Len(q) = h + 1 /\ \A a \in 1..h + 1 : q[a] = o[a]
    BY <1>1, <2>1 DEF RecordsIn
  <2>6. RecordsIn(o, << >>, h + 1, q)
    BY <1>1, <2>2, <2>3, <2>4, <2>5 DEF RecordsIn
  <2> QED
    BY <1>3, <2>1, <2>6 DEF q
<1> QED
  BY <1>2, <1>3

-----------------------------------------------------------------------------
(* A step of the import is about the same conversation.                      *)
LEMMA SameMessages ==
    ASSUME messages' = messages
    PROVE  /\ Named' = Named /\ byID' = byID /\ Reachable' = Reachable
           /\ (AllStored <=> AllStored')
           /\ \A i : Uuid(i)' = Uuid(i) /\ ParentOf(i)' = ParentOf(i)
           /\ \A i : Storable(i)' <=> Storable(i)
<1>1. /\ Named' = Named
      /\ \A i : Uuid(i)' = Uuid(i) /\ ParentOf(i)' = ParentOf(i)
      /\ \A i : Storable(i)' <=> Storable(i)
  BY DEF Named, Uuid, ParentOf, Storable
<1>2. NamedIds' = NamedIds
  BY <1>1 DEF NamedIds
<1>3. byID' = byID
  BY <1>1 DEF byID
<1>4. \A ids : Closed(ids)' <=> Closed(ids)
  BY <1>1 DEF Closed
<1>5. Reachable' = Reachable
  BY <1>2, <1>4 DEF Reachable
<1>6. AllStored <=> AllStored'
  BY <1>1 DEF AllStored
<1> QED
  BY <1>1, <1>3, <1>5, <1>6
LEMMA SameOrder ==
    ASSUME messages' = messages, order' \in Seq(Named), OrderIn(order', trail')
    PROVE  OrderIn(order, trail)'
<1>1. VisitedIn(order)' = VisitedIn(order')
  BY SameMessages DEF VisitedIn
<1>2. UnmetIn(order)' = UnmetIn(order')
  BY <1>1, SameMessages DEF UnmetIn
<1>3. OnePlace(order)'
  BY SameMessages DEF OnePlace, OrderIn
<1>4. \A a : Below(order', a) => Below(order, a)'
  BY SameMessages DEF Below
<1>5. TrailIn(order, trail)'
  BY <1>4, SameMessages DEF TrailIn, OrderIn
<1>6. LeftIn(order, trail)' 
  BY <1>1, SameMessages DEF LeftIn, OrderIn
<1>7. ReachIn(order, trail)' 
  BY <1>1, SameMessages DEF ReachIn, OrderIn
<1>8. ThreadIn(order)'
  BY SameMessages DEF ThreadIn, Follows, OrderIn
<1>9. SiblingsIn(order)'
  BY <1>1, <1>2, SameMessages DEF SiblingsIn, OrderIn
<1> QED
  BY <1>3, <1>5, <1>6, <1>7, <1>8, <1>9 DEF OrderIn

LEMMA ClaudeInitInv == ClaudeInit => ClaudeInv
<1> SUFFICES ASSUME ClaudeInit PROVE ClaudeInv
  OBVIOUS
<1>1. messages \in Threads /\ trail = <<Root>> /\ order = << >> /\ handled = 0 /\ accepted = << >>
  BY DEF ClaudeInit
<1>2. trail # << >> /\ DOMAIN trail = {1} /\ trail[1] = Root /\ trail \in Seq(Nat \cup {Root})
  BY <1>1
<1>3. /\ DOMAIN order = {} /\ order \in Seq(Named) /\ Len(order) = 0
      /\ DOMAIN accepted = {} /\ accepted \in Seq(Named) /\ Len(accepted) = 0
  BY <1>1
<1>4. VisitedIn(order) = {}
  BY <1>3 DEF VisitedIn
<1>5. OnePlace(order) /\ ThreadIn(order) /\ SiblingsIn(order)
  BY <1>3 DEF OnePlace, ThreadIn, SiblingsIn
<1>6. TrailIn(order, trail) /\ LeftIn(order, trail) /\ ReachIn(order, trail)
  BY <1>2, <1>3, <1>4 DEF TrailIn, LeftIn, ReachIn
<1>7. RecordsIn(order, trail, handled, accepted)
  <2>1. 1..handled = {}
    BY <1>1
  <2> QED
    BY <1>1, <1>3, <2>1 DEF RecordsIn
<1>8. ClaudeTypes
  BY <1>1, <1>2, <1>3 DEF ClaudeTypes
<1> QED
  BY <1>5, <1>6, <1>7, <1>8 DEF ClaudeInv, OrderIn

LEMMA ClaudeStepInv == ClaudeInv /\ [ClaudeNext]_claudeVars => ClaudeInv'
<1> SUFFICES ASSUME ClaudeInv, [ClaudeNext]_claudeVars PROVE ClaudeInv'
  OBVIOUS
<1> USE DEF ClaudeTypes
<1>1. /\ ClaudeTypes /\ OrderIn(order, trail) /\ RecordsIn(order, trail, handled, accepted)
      /\ messages' = messages
  BY DEF ClaudeInv, ClaudeNext, Walk, Return, Remainder, ParseClaudeExport, claudeVars
<1>2. /\ Visited = VisitedIn(order) /\ Unmet = UnmetIn(order)
      /\ \A x : Answers(x) = AnswersIn(order, x)
  BY DEF Visited, VisitedIn, Unmet, UnmetIn, Answers, AnswersIn, Uuid
<1>3. SUFFICES /\ trail' \in Seq(Nat \cup {Root}) /\ order' \in Seq(Named) /\ accepted' \in Seq(Named)
               /\ handled' \in 0..Len(order')
               /\ OrderIn(order', trail') /\ RecordsIn(order', trail', handled', accepted')
  <2>1. ClaudeTypes'
    BY <1>1, <1>3, SameMessages
  <2>2. OrderIn(order, trail)'
    BY <1>1, <1>3, SameOrder
  <2>3. UnmetIn(order)' = UnmetIn(order')
    BY <1>1, SameMessages DEF UnmetIn, VisitedIn
  <2>4. RecordsIn(order, trail, handled, accepted)'
    BY <1>1, <1>3, <2>3, SameMessages DEF RecordsIn
  <2> QED
    BY <2>1, <2>2, <2>4 DEF ClaudeInv
<1>4. CASE Walk
  <2>1. PICK i \in AnswersIn(order, trail[Len(trail)]) :
           /\ \A j \in AnswersIn(order, trail[Len(trail)]) : j # i => Stable(i, j)
           /\ order' = Append(order, i) /\ trail' = Append(trail, Uuid(i))
    BY <1>2, <1>4 DEF Walk, Uuid
  <2>2. trail # << >> /\ handled' = handled /\ accepted' = accepted
    BY <1>4 DEF Walk
  <2>3. OrderIn(order', trail')
    BY <1>1, <2>1, <2>2, WalkOrders
  <2>4. i \in Named /\ Uuid(i) \in Nat
    BY <1>1, MessageShape DEF AnswersIn
  <2>5. handled = 0
    BY <1>1, <2>2 DEF RecordsIn
  <2>6. /\ order' \in Seq(Named) /\ trail' \in Seq(Nat \cup {Root})
        /\ Len(order') \in Nat /\ handled' \in 0..Len(order')
    BY <1>1, <2>1, <2>2, <2>4, <2>5
  <2>7. RecordsIn(order', trail', handled', accepted')
    <3>1. accepted = << >> /\ (AllStored => Len(accepted) = 0) /\ 1..handled' = {}
      BY <1>1, <2>2, <2>5 DEF RecordsIn
    <3> QED
      BY <2>2, <2>5, <3>1 DEF RecordsIn
  <2> QED
    BY <1>1, <2>2, <2>3, <2>6, <2>7
<1>5. CASE Return
  <2>1. /\ trail # << >> /\ AnswersIn(order, trail[Len(trail)]) = {}
        /\ trail' = SubSeq(trail, 1, Len(trail) - 1)
        /\ order' = order /\ handled' = handled /\ accepted' = accepted
    BY <1>2, <1>5 DEF Return
  <2>2. trail' \in Seq(Nat \cup {Root}) /\ OrderIn(order', trail')
    BY <1>1, <2>1, ReturnOrders
  <2>3. RecordsIn(order', trail', handled', accepted')
    BY <1>1, <2>1 DEF RecordsIn
  <2> QED
    BY <1>1, <2>1, <2>2, <2>3
<1>6. CASE Remainder
  <2>1. PICK i \in UnmetIn(order) : /\ \A j \in UnmetIn(order) : j # i => Stable(i, j)
                                    /\ order' = Append(order, i)
    BY <1>2, <1>6 DEF Remainder
  <2>2. trail = << >> /\ trail' = trail /\ handled' = handled /\ accepted' = accepted
    BY <1>6 DEF Remainder
  <2>3. OrderIn(order', trail')
    BY <1>1, <2>1, <2>2, RemainderOrders
  <2>4. i \in Named
    BY DEF UnmetIn, byID
  <2>5. handled = 0
    BY <1>1, <2>1 DEF RecordsIn
  <2>6. order' \in Seq(Named) /\ Len(order') \in Nat /\ handled' \in 0..Len(order')
    BY <1>1, <2>1, <2>2, <2>4, <2>5
  <2>7. RecordsIn(order', trail', handled', accepted')
    <3>1. accepted = << >> /\ (AllStored => Len(accepted) = 0) /\ 1..handled' = {}
      BY <1>1, <2>2, <2>5 DEF RecordsIn
    <3> QED
      BY <2>2, <2>5, <3>1 DEF RecordsIn
  <2> QED
    BY <1>1, <2>2, <2>3, <2>6, <2>7
<1>7. CASE ParseClaudeExport
  <2>1. /\ trail = << >> /\ UnmetIn(order) = {} /\ handled < Len(order) /\ handled' = handled + 1
        /\ accepted' = IF Storable(order[handled + 1]) THEN Append(accepted, order[handled + 1])
                       ELSE accepted
        /\ trail' = trail /\ order' = order
    BY <1>2, <1>7 DEF ParseClaudeExport
  <2>2. accepted' \in Seq(Named) /\ RecordsIn(order', trail', handled', accepted')
    BY <1>1, <2>1, OneMoreHandled
  <2>3. handled' \in 0..Len(order')
    BY <1>1, <2>1
  <2> QED
    BY <1>1, <2>1, <2>2, <2>3
<1>8. CASE UNCHANGED claudeVars
  BY <1>1, <1>8 DEF claudeVars
<1> QED
  BY <1>4, <1>5, <1>6, <1>7, <1>8 DEF ClaudeNext

(* Every id has a last message, the one that byID keeps.                     *)
LEMMA LastOfItsId ==
    ASSUME messages \in Threads, NEW i \in Named
    PROVE  \E j \in byID : messages[j].uuid = messages[i].uuid
<1> DEFINE n == Len(messages)
           same == {j \in Named : messages[j].uuid = messages[i].uuid}
           gaps == {n - j : j \in same}
<1>1. DOMAIN messages = 1..n /\ n \in Nat
  BY MessageShape
<1>2. same \subseteq 1..n /\ i \in same
  BY <1>1 DEF Named
<1>3. gaps \subseteq Nat /\ gaps # {}
  BY <1>1, <1>2
<1>4. PICK g \in gaps : \A h \in gaps : g <= h
  BY <1>3, LeastNatural
<1>5. PICK j \in same : g = n - j
  BY <1>4
<1>6. \A k \in same : k <= j
  <2> TAKE k \in same
  <2>1. n - j <= n - k
    BY <1>4, <1>5
  <2> QED
    BY <1>1, <1>2, <2>1
<1>7. j \in byID
  BY <1>6 DEF byID
<1> QED
  BY <1>7

(* The records stand in the order of what they were made from.               *)
LEMMA RecordsFollow ==
    ASSUME ClaudeInv
    PROVE  /\ \A j, k \in DOMAIN accepted : j < k =>
                 \E a, b \in DOMAIN order : b < a /\ accepted[k] = order[a] /\ accepted[j] = order[b]
           /\ \A k \in DOMAIN accepted : \E a \in DOMAIN order : accepted[k] = order[a]
           /\ \A j, k \in DOMAIN accepted, a, b \in DOMAIN order :
                 b < a /\ accepted[k] = order[a] /\ accepted[j] = order[b] => j < k
<1>1. /\ DOMAIN order = 1..Len(order) /\ Len(order) \in Nat /\ handled \in 0..Len(order)
      /\ DOMAIN accepted = 1..Len(accepted) /\ Len(accepted) \in Nat
      /\ OnePlace(order) /\ RecordsIn(order, trail, handled, accepted)
  BY DEF ClaudeInv, ClaudeTypes, OrderIn
<1>2. ASSUME NEW j \in DOMAIN accepted, NEW k \in DOMAIN accepted, j < k
      PROVE  \E a, b \in DOMAIN order :
                b < a /\ accepted[k] = order[a] /\ accepted[j] = order[b]
  <2>1. PICK a \in 1..handled :
           /\ accepted[k] = order[a]
           /\ \A i \in DOMAIN accepted : i < k => \E b \in 1..a - 1 : accepted[i] = order[b]
    BY <1>1 DEF RecordsIn
  <2>2. PICK b \in 1..a - 1 : accepted[j] = order[b]
    BY <1>2, <2>1
  <2>3. a \in DOMAIN order /\ b \in DOMAIN order /\ b < a
    BY <1>1
  <2> QED
    BY <2>1, <2>2, <2>3
<1>3. \A k \in DOMAIN accepted : \E a \in DOMAIN order : accepted[k] = order[a]
  <2>1. \A a \in 1..handled : a \in DOMAIN order
    BY <1>1
  <2> QED
    BY <1>1, <2>1 DEF RecordsIn
<1>4. ASSUME NEW j \in DOMAIN accepted, NEW k \in DOMAIN accepted,
             NEW a \in DOMAIN order, NEW b \in DOMAIN order,
             b < a, accepted[k] = order[a], accepted[j] = order[b]
      PROVE  j < k
  <2>1. j # k
    BY <1>1, <1>4 DEF OnePlace
  <2>2. ~(k < j)
    <3> SUFFICES ASSUME k < j PROVE FALSE
      OBVIOUS
    <3>1. PICK c \in DOMAIN order : \E d \in DOMAIN order :
             d < c /\ accepted[j] = order[c] /\ accepted[k] = order[d]
      BY <1>2
    <3>2. PICK d \in DOMAIN order : d < c /\ accepted[j] = order[c] /\ accepted[k] = order[d]
      BY <3>1
    <3>3. c = b /\ d = a
      BY <1>1, <1>4, <3>2 DEF OnePlace
    <3> QED
      BY <1>1, <1>4, <3>2, <3>3
  <2> QED
    BY <1>1, <2>1, <2>2
<1> QED
  BY <1>2, <1>3, <1>4, Zenon

LEMMA ClaudeInvOrders == ClaudeInv => ThreadOrder
<1> SUFFICES ASSUME ClaudeInv PROVE ThreadOrder
  OBVIOUS
<1>1. /\ DOMAIN order = 1..Len(order) /\ Len(order) \in Nat /\ handled \in 0..Len(order)
      /\ DOMAIN accepted = 1..Len(accepted) /\ Len(accepted) \in Nat
      /\ messages \in Threads
      /\ \A a \in DOMAIN order : order[a] \in Named
      /\ \A k \in DOMAIN accepted : accepted[k] \in Named
  BY DEF ClaudeInv, ClaudeTypes
<1>2. /\ OnePlace(order) /\ ReachIn(order, trail) /\ ThreadIn(order) /\ SiblingsIn(order)
      /\ RecordsIn(order, trail, handled, accepted)
  BY DEF ClaudeInv, OrderIn
<1>3. \A k : Id(k) = Uuid(accepted[k]) /\ Parent(k) = ParentOf(accepted[k])
  BY DEF Id, Parent, Uuid
<1>4. \A k \in DOMAIN accepted : accepted[k] \in Named /\ Storable(accepted[k])
  BY <1>1, <1>2 DEF RecordsIn
<1>5. ASSUME NEW j \in DOMAIN accepted, NEW k \in DOMAIN accepted, j # k PROVE Id(j) # Id(k)
  <2>1. j < k \/ k < j
    BY <1>1, <1>5
  <2>2. \E a, b \in DOMAIN order : a # b /\ accepted[k] = order[a] /\ accepted[j] = order[b]
    BY <1>1, <2>1, RecordsFollow
  <2> QED
    BY <1>2, <1>3, <2>2 DEF OnePlace
<1>6. ASSUME Parsed, NEW i \in Named,
             \A j \in Named : messages[j].uuid = messages[i].uuid => Storable(j)
      PROVE  \E k \in DOMAIN accepted : Id(k) = messages[i].uuid
  <2>1. PICK j \in byID : messages[j].uuid = messages[i].uuid
    BY <1>1, LastOfItsId
  <2>2. messages[j].uuid \in Visited
    BY <1>6 DEF Parsed, Unmet
  <2>3. PICK a \in DOMAIN order : messages[order[a]].uuid = messages[i].uuid
    BY <2>1, <2>2 DEF Visited
  <2>4. Storable(order[a]) /\ a \in 1..handled
    BY <1>1, <1>6, <2>3 DEF Parsed
  <2>5. PICK k \in DOMAIN accepted : accepted[k] = order[a]
    BY <1>2, <2>4 DEF RecordsIn
  <2> QED
    BY <2>3, <2>5 DEF Id
<1>7. ASSUME NEW j \in DOMAIN accepted, NEW k \in DOMAIN accepted, j < k, Id(k) \in Reachable
      PROVE  Id(j) \in Reachable
  <2>1. \E a, b \in DOMAIN order : b < a /\ accepted[k] = order[a] /\ accepted[j] = order[b]
    BY <1>7, RecordsFollow
  <2> QED
    BY <1>2, <1>3, <1>7, <2>1 DEF ReachIn
<1>8. ASSUME NEW j \in DOMAIN accepted, NEW k \in DOMAIN accepted, Id(k) \in Reachable,
             Id(j) = Parent(k)
      PROVE  j < k
  <2>1. PICK a \in DOMAIN order : accepted[k] = order[a]
    BY RecordsFollow
  <2>2. PICK b \in DOMAIN order : accepted[j] = order[b]
    BY RecordsFollow
  <2>3. Uuid(accepted[j]) # Root
    BY <1>1, MessageShape DEF Root
  <2>4. Uuid(order[a]) \in Reachable /\ ParentOf(order[a]) # Root
    BY <1>3, <1>8, <2>1, <2>3
  <2>5. PICK c \in DOMAIN order : c < a /\ Uuid(order[c]) = ParentOf(order[a])
    BY <1>2, <2>4 DEF ThreadIn, Follows
  <2>6. c = b
    BY <1>2, <1>3, <1>8, <2>1, <2>2, <2>5 DEF OnePlace
  <2> QED
    BY <2>1, <2>2, <2>5, <2>6, RecordsFollow
<1>9. ASSUME NEW j \in DOMAIN accepted, NEW k \in DOMAIN accepted, j < k, Parent(j) = Parent(k),
             Id(j) \in Reachable <=> Id(k) \in Reachable
      PROVE  ~Sooner(messages[accepted[k]], messages[accepted[j]])
  <2>1. \E a, b \in DOMAIN order : b < a /\ accepted[k] = order[a] /\ accepted[j] = order[b]
    BY <1>9, RecordsFollow
  <2> QED
    BY <1>2, <1>3, <1>9, <2>1 DEF SiblingsIn
<1>10. ASSUME AllStored, NEW i \in DOMAIN accepted, NEW j \in DOMAIN accepted,
              NEW k \in DOMAIN accepted, Id(k) \in Reachable, Id(i) = Parent(k), i < j, j < k
       PROVE  \E c \in DOMAIN accepted : i <= c /\ c < j /\ Id(c) = Parent(j)
  <2>1. Len(accepted) = handled /\ \A a \in 1..handled : accepted[a] = order[a]
    BY <1>2, <1>10 DEF RecordsIn
  <2>2. \A a \in DOMAIN accepted : a \in DOMAIN order /\ accepted[a] = order[a]
    BY <1>1, <2>1
  <2>3. Uuid(accepted[i]) # Root
    BY <1>1, MessageShape DEF Root
  <2>4. Uuid(order[k]) \in Reachable /\ ParentOf(order[k]) # Root
    BY <1>3, <1>10, <2>2, <2>3
  <2>5. PICK a \in DOMAIN order :
           /\ Uuid(order[a]) = ParentOf(order[k])
           /\ \A b \in DOMAIN order : a < b /\ b < k =>
                \E c \in DOMAIN order : a <= c /\ c < b /\ Uuid(order[c]) = ParentOf(order[b])
    BY <1>2, <2>2, <2>4 DEF ThreadIn, Follows
  <2>6. a = i
    BY <1>2, <1>3, <1>10, <2>2, <2>5 DEF OnePlace
  <2>7. PICK c \in DOMAIN order : i <= c /\ c < j /\ Uuid(order[c]) = ParentOf(order[j])
    BY <1>10, <2>2, <2>5, <2>6
  <2>8. c \in DOMAIN accepted
    BY <1>1, <2>7
  <2> QED
    BY <1>3, <2>2, <2>7, <2>8
<1> QED
  BY <1>4, <1>5, <1>6, <1>7, <1>8, <1>9, <1>10 DEF ThreadOrder

(* The records of a conversation are those of its messages, one for each id, *)
(* with every thread in the order it was written in and what no thread leads *)
(* to behind: whatever ids are missing or repeated, whatever parents are not *)
(* in the export, and whatever circles they form (orderClaudeMessages).      *)
THEOREM ThreadsStayWhole == ClaudeSpec => []ThreadOrder
<1>1. ClaudeInit => ClaudeInv
  BY ClaudeInitInv
<1>2. ClaudeInv /\ [ClaudeNext]_claudeVars => ClaudeInv'
  BY ClaudeStepInv
<1>3. ClaudeInv => ThreadOrder
  BY ClaudeInvOrders
<1> QED
  BY <1>1, <1>2, <1>3, PTL DEF ClaudeSpec
=============================================================================
