-------------------------- MODULE ResearchSessions --------------------------
(***************************************************************************)
(* The research sessions of MindDrill (minddrill_research.go): a map that  *)
(* each process (the API server, whose chat model calls the tools, and the *)
(* minddrill command) loads from one file when it starts and writes back   *)
(* whole on every put.  A tool call copies its session first, searches,    *)
(* and puts the whole copy back: the lock is held within get and put only. *)
(***************************************************************************)
EXTENDS Integers, FiniteSets

CONSTANTS
    Processes,   \* processes that share the session file
    ResearchIDs, \* session ids
    Slots,       \* tool calls under way at once, in each process
    Corpora,     \* collections a session can be bound to
    Found,       \* the sets of sources a search can return
    MaxCalls,    \* bound: tool calls
    MaxCrashes   \* bound: crashes and restarts

ASSUME ResearchAssumption ==
    /\ MaxCalls \in Nat /\ MaxCrashes \in Nat
    /\ "down" \notin ResearchIDs     \* it marks a process that is down

VARIABLES
    file,        \* the session file: session -> record; empty while it is written
    mem,         \* process -> its sessions, or Down
    saving,      \* processes between truncating the file and writing it
    calls,       \* process and slot -> the tool call there
    called,      \* tool calls so far
    crashes,     \* crashes so far
    recorded,    \* the calls that were answered, with their sessions
    apart,       \* sessions of which no call met another in its process
    steady       \* sessions of which no call met another, and no crash a write

researchVars == <<file, mem, saving, calls, called, crashes, recorded, apart, steady>>

NoSessions == [s \in {} |-> 0]
Down == [down |-> TRUE]
NoCall == [at |-> "none"]
NewSession == [corpus |-> "none", ledger |-> {}, sources |-> {}]

-----------------------------------------------------------------------------
Up(p) == mem[p] # Down
InSession(s) == {pc \in Processes \X Slots : calls[pc] # NoCall /\ calls[pc].session = s}
\* The session of a call as ensureSession finds it.
ensureSession(p, s) == IF s \in DOMAIN mem[p] THEN mem[p][s] ELSE NewSession

\* A put sets the session and starts writing the file of all of them.
put(p, s, session) ==
    /\ p \notin saving
    /\ mem' = [mem EXCEPT ![p] = [x \in DOMAIN @ \cup {s} |-> IF x = s THEN session ELSE @[x]]]
    /\ file' = NoSessions
    /\ saving' = saving \cup {p}

ResearchInit ==
    /\ file = NoSessions
    /\ mem = [p \in Processes |-> Down]
    /\ saving = {} /\ recorded = {} /\ called = 0 /\ crashes = 0
    /\ calls = [pc \in Processes \X Slots |-> NoCall]
    /\ apart = ResearchIDs /\ steady = ResearchIDs

\* newResearchSessionStore: what cannot be read or parsed is no sessions.  A
\* process that loads while another holds sessions in memory, or writes, will
\* write back what it has read.
Start(p) ==
    /\ ~Up(p)
    /\ mem' = [mem EXCEPT ![p] = file]
    /\ steady' = IF \E q \in Processes : Up(q) THEN {} ELSE steady
    /\ UNCHANGED <<file, saving, calls, called, crashes, recorded, apart>>

\* os.WriteFile truncates, then writes; nobody in the process puts meanwhile.
FinishSave(p) ==
    /\ p \in saving
    /\ file' = mem[p]
    /\ saving' = saving \ {p}
    /\ UNCHANGED <<mem, calls, called, crashes, recorded, apart, steady>>

\* ensureSession: a session that is not there is put once the lock was let go.
Begin(p, c, s, tool) ==
    /\ Up(p) /\ calls[<<p, c>>] = NoCall /\ called < MaxCalls
    /\ called' = called + 1
    /\ calls' = [calls EXCEPT ![<<p, c>>] =
                    [at |-> IF s \in DOMAIN mem[p] THEN tool ELSE "creating", tool |-> tool,
                     session |-> s, copy |-> ensureSession(p, s), id |-> called',
                     entry |-> NoCall]]
    /\ steady' = IF InSession(s) # {} THEN steady \ {s} ELSE steady
    /\ apart' = IF \E pc \in InSession(s) : pc[1] = p THEN apart \ {s} ELSE apart
    /\ UNCHANGED <<file, mem, saving, crashes, recorded>>
Create(p, c) ==
    LET call == calls[<<p, c>>] IN
    /\ call # NoCall /\ call.at = "creating"
    /\ put(p, call.session, NewSession)
    /\ calls' = [calls EXCEPT ![<<p, c>>].at = call.tool]
    /\ UNCHANGED <<called, crashes, recorded, apart, steady>>

\* The collection is described, the query embedded, the search made; any of
\* them may fail, and the session is as it was.  So it ends when a search is
\* asked of a session that is not bound.
CallFails(p, c) ==
    /\ calls[<<p, c>>] # NoCall /\ calls[<<p, c>>].at \in {"binding", "searching"}
    /\ calls' = [calls EXCEPT ![<<p, c>>] = NoCall]
    /\ UNCHANGED <<file, mem, saving, called, crashes, recorded, apart, steady>>

\* Mutant: binding starts the session anew.
BindAfresh(p, c, corpus) ==
    LET call == calls[<<p, c>>] IN
    /\ call # NoCall /\ call.at = "binding"
    /\ put(p, call.session, [NewSession EXCEPT !.corpus = corpus])
    /\ calls' = [calls EXCEPT ![<<p, c>>] = NoCall]
    /\ UNCHANGED <<called, crashes, recorded, apart, steady>>

Bind(p, c, corpus) ==
    LET call == calls[<<p, c>>] IN
    /\ call # NoCall /\ call.at = "binding"
    /\ put(p, call.session, [call.copy EXCEPT !.corpus = corpus])
    /\ calls' = [calls EXCEPT ![<<p, c>>] = NoCall]
    /\ UNCHANGED <<called, crashes, recorded, apart, steady>>

\* RetrievedSources := uniqueMerge(...), and appendLedger, on the copy.
Entry(call, found) == [id |-> call.id, corpus |-> call.copy.corpus, sources |-> found]
\* Mutant: the sources of this search replace those of the ones before.
LastSourcesOnly(call, found) ==
    [call.copy EXCEPT !.sources = found, !.ledger = @ \cup {Entry(call, found)}]
appendLedger(call, found) ==
    [call.copy EXCEPT !.sources = @ \cup found, !.ledger = @ \cup {Entry(call, found)}]
\* The copy's ledger may share its array with the session in the map, when that
\* came from the same copy: the append writes over the entry of the other call.
Overwritten(p, call, found) ==
    LET s == call.session IN
    {mem} \cup IF s \notin DOMAIN mem[p] THEN {}
               ELSE {[mem EXCEPT ![p][s].ledger = (@ \ {e}) \cup {Entry(call, found)}] :
                       e \in mem[p][s].ledger \ call.copy.ledger}
AppendLedger(p, c, found) ==
    LET call == calls[<<p, c>>] IN
    /\ call # NoCall /\ call.at = "searching" /\ call.copy.corpus # "none"
    /\ mem' \in Overwritten(p, call, found)
    /\ calls' = [calls EXCEPT ![<<p, c>>] = [@ EXCEPT !.at = "appended", !.entry = Entry(call, found),
                                                     !.copy = appendLedger(call, found)]]
    /\ UNCHANGED <<file, saving, called, crashes, recorded, apart, steady>>
Answer(p, c) ==
    LET call == calls[<<p, c>>] IN
    /\ call # NoCall /\ call.at = "appended"
    /\ put(p, call.session, call.copy)
    /\ recorded' = recorded \cup {[session |-> call.session, entry |-> call.entry]}
    /\ calls' = [calls EXCEPT ![<<p, c>>] = NoCall]
    /\ UNCHANGED <<called, crashes, apart, steady>>

\* A process ends, by itself or not; one that was writing leaves an empty file.
Crash(p) ==
    /\ Up(p) /\ crashes < MaxCrashes
    /\ crashes' = crashes + 1
    /\ mem' = [mem EXCEPT ![p] = Down]
    /\ saving' = saving \ {p}
    /\ calls' = [pc \in Processes \X Slots |-> IF pc[1] = p THEN NoCall ELSE calls[pc]]
    /\ steady' = IF p \in saving THEN {} ELSE steady
    /\ UNCHANGED <<file, called, recorded, apart>>

ResearchNext ==
    \/ \E p \in Processes : Start(p) \/ FinishSave(p) \/ Crash(p)
    \/ \E p \in Processes, c \in Slots, s \in ResearchIDs, tool \in {"binding", "searching"} :
          Begin(p, c, s, tool)
    \/ \E p \in Processes, c \in Slots : Create(p, c) \/ CallFails(p, c) \/ Answer(p, c)
    \/ \E p \in Processes, c \in Slots, corpus \in Corpora : Bind(p, c, corpus)
    \/ \E p \in Processes, c \in Slots, found \in Found : AppendLedger(p, c, found)
ResearchSpec == ResearchInit /\ [][ResearchNext]_researchVars

-----------------------------------------------------------------------------
SessionOK(session) ==
    /\ session.corpus \in Corpora \cup {"none"}
    /\ session.sources \in SUBSET (UNION Found)
ResearchTypeOK ==
    /\ saving \subseteq Processes /\ steady \subseteq ResearchIDs
    /\ \A p \in Processes : Up(p) => \A s \in DOMAIN mem[p] : SessionOK(mem[p][s])
    /\ \A s \in DOMAIN file : SessionOK(file[s])

Versions(s) ==
    {mem[p][s] : p \in {q \in Processes : Up(q) /\ s \in DOMAIN mem[q]}}
        \cup {file[x] : x \in DOMAIN file \cap {s}}

(* Whatever is lost when processes share the file, die, or their calls cross,*)
(* what a session says it has retrieved is what the searches in its ledger   *)
(* found, and each of them was made in a collection the session was bound    *)
(* to: unless two calls of one process overlapped, which race for the array. *)
LedgerAccountsForSources ==
    \A s \in apart : \A v \in Versions(s) :
        /\ v.sources = UNION {e.sources : e \in v.ledger}
        /\ \A e \in v.ledger : e.corpus # "none"

(* A search that was answered is in the ledger of its session wherever the   *)
(* session can be read from, as long as the calls of the session come one    *)
(* after another, one process uses the file, and it does not die in a write. *)
SearchesOnRecord ==
    \A r \in recorded : r.session \in steady =>
        /\ saving = {} => r.session \in DOMAIN file /\ r.entry \in file[r.session].ledger
        /\ \A v \in Versions(r.session) : r.entry \in v.ledger
=============================================================================
