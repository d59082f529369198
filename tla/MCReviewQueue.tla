--------------------------- MODULE MCReviewQueue ---------------------------
(* Workers, processes and requests for ReviewQueue. *)
EXTENDS ReviewQueue

OneProcess == [w \in Workers |-> "api"]
TwoProcesses == [w \in Workers |-> w]

Fresh == [c \in Candidates |->
            IF c = "c1" THEN "inferred_from_sources" ELSE "direct_user_statement"]

Upsert(ids) == [op |-> "upsert", ids |-> ids]
Review(op, c) == [op |-> op, id |-> c]
Approve(c, edited) == [op |-> "approve", id |-> c, edited |-> edited]

AllRequests ==
    {Upsert({"c1"}), Upsert(Candidates), Review("reject", "c1"), Review("merge", "c1"),
     Approve("c1", TRUE), Approve("c1", FALSE)}
        \cup {Approve(c, FALSE) : c \in Candidates \ {"c1"}}

\* Two memory loops over different projects.
Loops == {Upsert({"c1"}), Upsert({"c2"})}
LoopAndReject == {Upsert({"c1"}), Review("reject", "c1")}
=============================================================================
