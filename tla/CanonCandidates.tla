-------------------------- MODULE CanonCandidates --------------------------
(***************************************************************************)
(* The records of the proposed-canon queue and what each operation of      *)
(* FileReviewQueue makes of them (internal/memoryloop/review_queue.go).    *)
(* A queue is a function from the ids it holds to records; the order of    *)
(* the file and the wording of the records are left out.                   *)
(***************************************************************************)

CONSTANTS
    Candidates,     \* candidate ids: a hash of cluster and summary, so a rerun
                    \* of the memory loop proposes the same id again
    FreshStatus     \* FreshStatus[c]: the status the loop gives candidate c

Status == {"direct_user_statement", "inferred_from_sources", "needs_review",
           "approved_by_user", "rejected"}
Record == [status : Status,
           canonical : BOOLEAN,
           reviewed : BOOLEAN]    \* reviewed_at is set
Queues == UNION {[ids -> Record] : ids \in SUBSET Candidates}
NoRecords == [c \in {} |-> c]

ASSUME FreshStatusAssumption == FreshStatus \in [Candidates -> Status]

\* What the memory loop writes of a candidate.
Proposal(c) == [status |-> FreshStatus[c], canonical |-> FALSE, reviewed |-> FALSE]

\* The record an approval starts from: the stored one, or the one the client
\* sends along in "edited", which takes its place.
Edit == [status |-> "inferred_from_sources", canonical |-> FALSE, reviewed |-> FALSE]
Base(record, edited) == IF edited THEN Edit ELSE record

Approved(record) ==
    [record EXCEPT !.canonical = TRUE, !.reviewed = TRUE,
        !.status = IF @ = "direct_user_statement" THEN @ ELSE "approved_by_user"]
Rejected(record) == [record EXCEPT !.status = "rejected", !.reviewed = TRUE]
Merged(record) == [record EXCEPT !.status = "needs_review", !.reviewed = TRUE]

Request ==
    [op : {"upsert"}, ids : SUBSET Candidates]
        \cup [op : {"approve"}, id : Candidates, edited : BOOLEAN]
        \cup [op : {"reject", "merge"}, id : Candidates]

\* A review of a candidate that is not in the queue is "not found".
Found(queue, r) == r.op # "upsert" => r.id \in DOMAIN queue

Reviewed(record, r) ==
    CASE r.op = "approve" -> Approved(Base(record, r.edited))
      [] r.op = "reject" -> Rejected(record)
      [] r.op = "merge" -> Merged(record)

\* The queue after request r.
Apply(queue, r) ==
    IF r.op = "upsert"
    THEN [c \in DOMAIN queue \cup r.ids |->
              IF c \in r.ids THEN Proposal(c) ELSE queue[c]]
    ELSE [queue EXCEPT ![r.id] = Reviewed(@, r)]

\* MemoryStore.Upsert of the approved candidate's point
Publish(points, queue, r) ==
    [c \in DOMAIN points \cup {r.id} |->
        IF c = r.id THEN Reviewed(queue[c], r) ELSE points[c]]
=============================================================================
