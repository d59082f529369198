--------------------------- MODULE ReviewRegister ---------------------------
(***************************************************************************)
(* What the review queue promises: every operation acts at once on the     *)
(* queue the previous one left, and a candidate is approved only after its *)
(* point was stored as canonical.                                          *)
(***************************************************************************)
EXTENDS CanonCandidates

CONSTANT Requests

VARIABLES
    queue,      \* the proposed-canon queue
    canon       \* the canonical points of the collection, by candidate

vars == <<queue, canon>>

Init == queue = NoRecords /\ canon = NoRecords

Store(r) ==
    /\ r.op = "approve" /\ Found(queue, r)
    /\ canon' = Publish(canon, queue, r)
    /\ UNCHANGED queue

Decide(r) ==
    /\ Found(queue, r)
    /\ queue' = Apply(queue, r)
    /\ r.op = "approve" => r.id \in DOMAIN canon /\ canon[r.id] = queue'[r.id]
    /\ UNCHANGED canon

Next == \E r \in Requests : Store(r) \/ Decide(r)

Spec == Init /\ [][Next]_vars
=============================================================================
