----------------------------- MODULE MCMemoryApi -----------------------------
(* Calls for MemoryApi. *)
EXTENDS MemoryApi

Ingest(ids) == [op |-> "ingest", ids |-> ids]
Search == [op |-> "search"]
Forget1(m, hard) == [op |-> "forget", id |-> m, hard |-> hard]

\* Soft forgets change no id of the collection: the durability run omits them.
DurableCalls == {Ingest(Memories), Search, Forget1("m1", TRUE)}
AllCalls == {Ingest(Memories), Search, Forget1("m1", TRUE), Forget1("m1", FALSE)}
=============================================================================
