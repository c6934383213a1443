------------------------ MODULE OperationalIngestion ------------------------
(***************************************************************************)
(* ingest_operational_event (memory/ingestion.py) run by several request   *)
(* threads against one PostgreSQL database at READ COMMITTED, behind the   *)
(* route POST /operational-memory/events (api/routes/operational_memory.py)*)
(*                                                                         *)
(* A step is one statement of the transaction that another transaction     *)
(* can observe or be blocked by: the lookup of the source identifier, the  *)
(* INSERT of the source, the SELECT of the memory, the INSERT of a new     *)
(* memory, and the COMMIT (which writes the links and the UPDATE of an     *)
(* existing memory).  What a transaction has flushed but not committed is  *)
(* invisible to the others, except that a unique index makes an INSERT of  *)
(* the same key wait for it.  Any statement and any COMMIT of a live       *)
(* request may fail, and any process may die.                              *)
(*                                                                         *)
(* Left out: column contents (titles, descriptions, summaries, severities),*)
(* freshness_score (always 1.0), logging.                                  *)
(***************************************************************************)
EXTENDS Naturals, FiniteSets

CONSTANTS
    Workers,           \* request threads, each with its own Session
    Events,            \* payloads a caller may submit, any number of times
    SourceIds,         \* values of payload["source_identifier"]
    MemoryKeys,        \* environment:service:subject:category strings
    Items,             \* evidence items a payload can hold
    Times,             \* instants, as naturals
    SourceIdentifier,  \* event -> its source identifier
    MemoryKey,         \* event -> the memory key built from it
    Evidence,          \* event -> the evidence items extracted from it
    EventTimes,        \* event -> the instants its occurred_at may parse to
    Defect,            \* event -> the step at which the payload is rejected
    TrustCap,          \* +0.1 steps from 0.5 until trust_score stays at 1.0
    ConfidenceCap,     \* +0.03 steps from 0.8 until confidence stays at 1.0
    None

(***************************************************************************)
(* A payload without defect always yields evidence: category, severity,    *)
(* environment and service_name are both required and dimension keys.      *)
(* An absent occurred_at is the current time, so EventTimes[e] may hold    *)
(* several instants: two submissions of e need not get the same one.       *)
(***************************************************************************)
Defects == {"none", "missing", "occurred_at", "metrics", "memory_key"}

ASSUME PayloadAssumption ==
    /\ SourceIdentifier \in [Events -> SourceIds]
    /\ MemoryKey \in [Events -> MemoryKeys]
    /\ Evidence \in [Events -> SUBSET Items]
    /\ EventTimes \in [Events -> SUBSET Times]
    /\ Defect \in [Events -> Defects]
    /\ \A e \in Events : Evidence[e] # {} /\ EventTimes[e] # {}

ASSUME DomainAssumption ==
    /\ Times \subseteq Nat
    /\ IsFiniteSet(Items)
    /\ IsFiniteSet(SourceIds)
    /\ TrustCap \in Nat \ {0}
    /\ ConfidenceCap \in Nat \ {0}
    /\ None \notin MemoryKeys

VARIABLES
    sources,   \* committed rows of source_records
    evidence,  \* committed rows of evidence_records
    links,     \* committed rows of provenance_links
    memories,  \* committed rows of memory_records, by memory_key
    pc,        \* the next statement of each worker
    req,       \* the payload each busy worker handles
    at,        \* the occurred_at it parsed
    seen,      \* the memory row its SELECT returned
    reply      \* the answer it is about to send

tables == <<sources, evidence, links, memories>>
vars   == <<sources, evidence, links, memories, pc, req, at, seen, reply>>

-----------------------------------------------------------------------------
(* Rows and answers *)

SourceRecord == [id : SourceIds, event : Events, at : Times]
EvidenceRecord == [source : SourceIds, item : Items]
ProvenanceLink == [source : SourceIds, item : Items, memory : MemoryKeys]
MemoryRecord ==
    [trust : 0..TrustCap, confidence : 0..ConfidenceCap, first : Times, last : Times]

\* What the route answers: 201 for stored and replayed, 422 for invalid, and 500 for failed
\* (the database served the request and refused it) as for unavailable (a statement or a
\* COMMIT did not succeed).  The two kinds of 500 differ in the error the route logs.
Answer ==
    [status : {"stored", "replayed", "invalid", "failed", "unavailable"},
     memory : MemoryKeys \cup {None}, created : BOOLEAN, evidence : Nat, links : Nat]

Failure(status) ==
    [status |-> status, memory |-> None, created |-> FALSE, evidence |-> 0, links |-> 0]

EvidenceOf(s) == {v \in evidence : v.source = s}
LinksOf(s)    == {l \in links : l.source = s}

ExtractedEvidence(e) == [source : {SourceIdentifier[e]}, item : Evidence[e]]
NewLinks(e) ==
    [source : {SourceIdentifier[e]}, item : Evidence[e], memory : {MemoryKey[e]}]

UncappedBump(level, cap) == level + 1  \* variant: no min(1.0, ...)
Bump(level, cap) == IF level < cap THEN level + 1 ELSE level

LatestWins(seenAt, t) == t  \* variant: no max(...)
Later(seenAt, t) == IF t > seenAt THEN t ELSE seenAt

NewMemory(t) == [trust |-> 0, confidence |-> 0, first |-> t, last |-> t]

\* The UPDATE names only the attributes whose value changed, with the values computed
\* from the row the SELECT returned: the others keep what is stored now.
Written(read, new, stored) == IF new # read THEN new ELSE stored

UpdatedMemory(stored, read, t) ==
    [stored EXCEPT
        !.last = Written(read.last, Later(read.last, t), @),
        !.trust = Written(read.trust, Bump(read.trust, TrustCap), @),
        !.confidence = Written(read.confidence, Bump(read.confidence, ConfidenceCap), @)]

\* The committed source row with this identifier, if there is one (a set of at most one row).
FindSource(s) == {r \in sources : r.id = s}

\* A replay reports the memory of provenance_links[0], in whatever order the rows come.
ExistingResults(s) ==
    {[status |-> "replayed", memory |-> m, created |-> FALSE,
      evidence |-> Cardinality(EvidenceOf(s)), links |-> Cardinality(LinksOf(s))] :
        m \in IF LinksOf(s) = {} THEN {None} ELSE {l.memory : l \in LinksOf(s)}}

-----------------------------------------------------------------------------
(* What an open transaction holds in the unique indexes *)

HoldsSource(w, s) ==
    /\ pc[w] \in {"extract", "flush_memory", "commit_new", "commit_update"}
    /\ SourceIdentifier[req[w]] = s

HoldsMemory(w, k) == pc[w] = "commit_new" /\ MemoryKey[req[w]] = k

NoUniqueIndex(w, s) == TRUE  \* variant: identifiers are not unique
SourceFree(w, s) == \A v \in Workers \ {w} : ~HoldsSource(v, s)
MemoryFree(w, k) == \A v \in Workers \ {w} : ~HoldsMemory(v, k)

-----------------------------------------------------------------------------
Init ==
    /\ sources = {} /\ evidence = {} /\ links = {}
    /\ memories = [k \in {} |-> NewMemory(0)]
    /\ pc = [w \in Workers |-> "idle"]
    /\ req = [w \in Workers |-> None]
    /\ at = [w \in Workers |-> None]
    /\ seen = [w \in Workers |-> None]
    /\ reply = [w \in Workers |-> None]

Goto(w, l) == pc' = [pc EXCEPT ![w] = l]

\* The call returns or raises: the answer is ready and the session will be closed.
Return(w, a) ==
    /\ Goto(w, "respond")
    /\ reply' = [reply EXCEPT ![w] = a]
    /\ at' = [at EXCEPT ![w] = None]
    /\ seen' = [seen EXCEPT ![w] = None]

\* _validate_payload raises before any statement is sent.
RejectPayload(w, e) ==
    /\ pc[w] = "idle"
    /\ Defect[e] = "missing"
    /\ req' = [req EXCEPT ![w] = e]
    /\ Return(w, Failure("invalid"))
    /\ UNCHANGED tables

\* Variant: a replay reinforces the memory.
ReplayReinforces(w, e) ==
    LET k == MemoryKey[e] IN
    /\ pc[w] = "idle"
    /\ Defect[e] # "missing"
    /\ FindSource(SourceIdentifier[e]) # {}
    /\ k \in DOMAIN memories
    /\ req' = [req EXCEPT ![w] = e]
    /\ \E a \in ExistingResults(SourceIdentifier[e]) : Return(w, a)
    /\ memories' = [memories EXCEPT ![k] = UpdatedMemory(@, @, @.last)]
    /\ UNCHANGED <<sources, evidence, links>>

\* The first lookup finds the identifier: an idempotent replay.
ReplayKnown(w, e) ==
    /\ pc[w] = "idle"
    /\ Defect[e] # "missing"
    /\ FindSource(SourceIdentifier[e]) # {}
    /\ req' = [req EXCEPT ![w] = e]
    /\ \E a \in ExistingResults(SourceIdentifier[e]) : Return(w, a)
    /\ UNCHANGED tables

\* The lookup itself fails: no connection, a time-out, a statement that is cancelled.
LookupFails(w, e) ==
    /\ pc[w] = "idle"
    /\ Defect[e] # "missing"
    /\ req' = [req EXCEPT ![w] = e]
    /\ Return(w, Failure("unavailable"))
    /\ UNCHANGED tables

\* The lookup finds nothing and occurred_at does not parse.
RejectTime(w, e) ==
    /\ pc[w] = "idle"
    /\ Defect[e] = "occurred_at"
    /\ FindSource(SourceIdentifier[e]) = {}
    /\ req' = [req EXCEPT ![w] = e]
    /\ Return(w, Failure("invalid"))
    /\ UNCHANGED tables

\* The lookup finds nothing: the INSERT of the source comes next.
StartSource(w, e) ==
    /\ pc[w] = "idle"
    /\ Defect[e] \notin {"missing", "occurred_at"}
    /\ FindSource(SourceIdentifier[e]) = {}
    /\ req' = [req EXCEPT ![w] = e]
    /\ \E t \in EventTimes[e] : at' = [at EXCEPT ![w] = t]
    /\ Goto(w, "flush_source")
    /\ UNCHANGED <<tables, seen, reply>>

\* Variant: the INSERT is sent again after an IntegrityError.
FlushSourceRetries(w) ==
    LET s == SourceIdentifier[req[w]] IN
    /\ pc[w] = "flush_source"
    /\ SourceFree(w, s)
    /\ Goto(w, IF FindSource(s) = {} THEN "extract" ELSE "flush_source")
    /\ UNCHANGED <<tables, req, at, seen, reply>>

\* Variant: an identifier somebody else is storing is acknowledged at once.
FlushSourceNoWait(w) ==
    LET e == req[w] IN
    /\ pc[w] = "flush_source"
    /\ IF SourceFree(w, SourceIdentifier[e])
       THEN /\ Goto(w, IF FindSource(SourceIdentifier[e]) = {} THEN "extract" ELSE "refind")
            /\ UNCHANGED <<at, seen, reply>>
       ELSE Return(w, [status |-> "replayed", memory |-> MemoryKey[e], created |-> FALSE,
                       evidence |-> Cardinality(Evidence[e]), links |-> Cardinality(Evidence[e])])
    /\ UNCHANGED <<tables, req>>

\* flush of the source: it waits for an open transaction that inserted the same identifier,
\* then either holds it or meets an IntegrityError and rolls back.
FlushSource(w) ==
    LET s == SourceIdentifier[req[w]] IN
    /\ pc[w] = "flush_source"
    /\ SourceFree(w, s)
    /\ Goto(w, IF FindSource(s) = {} THEN "extract" ELSE "refind")
    /\ UNCHANGED <<tables, req, at, seen, reply>>

\* The lookup after the race; were it to find nothing, the IntegrityError is raised again.
FindAfterRace(w) ==
    LET s == SourceIdentifier[req[w]] IN
    /\ pc[w] = "refind"
    /\ \E a \in IF FindSource(s) = {} THEN {Failure("failed")} ELSE ExistingResults(s) :
          Return(w, a)
    /\ UNCHANGED <<tables, req>>

\* _extract_evidence raises on metrics that are not a dictionary; the session rolls back.
RejectMetrics(w) ==
    /\ pc[w] = "extract"
    /\ Defect[req[w]] = "metrics"
    /\ Return(w, Failure("invalid"))
    /\ UNCHANGED <<tables, req>>

\* Variant: the memory is looked for under a key it is not stored by.
SelectMemoryElsewhere(w) ==
    /\ pc[w] = "extract"
    /\ Defect[req[w]] # "metrics"
    /\ Goto(w, "flush_memory")
    /\ UNCHANGED <<tables, req, at, seen, reply>>

\* The evidence is flushed and the memory selected by its key: the row is kept in the
\* session until the commit, whatever other transactions do to it meanwhile.
SelectMemory(w) ==
    LET k == MemoryKey[req[w]] IN
    /\ pc[w] = "extract"
    /\ Defect[req[w]] # "metrics"
    /\ IF k \in DOMAIN memories
       THEN /\ seen' = [seen EXCEPT ![w] = memories[k]]
            /\ Goto(w, "commit_update")
       ELSE /\ Goto(w, "flush_memory")
            /\ UNCHANGED seen
    /\ UNCHANGED <<tables, req, at, reply>>

\* Variant: the new memory is committed before its receipts.
FlushMemoryCommits(w) ==
    LET k == MemoryKey[req[w]] IN
    /\ pc[w] = "flush_memory"
    /\ memories' = [m \in DOMAIN memories \cup {k} |->
                       IF m = k THEN NewMemory(at[w]) ELSE memories[m]]
    /\ Goto(w, "commit_new")
    /\ UNCHANGED <<sources, evidence, links, req, at, seen, reply>>

\* flush of a new memory row: a key longer than its column, or one committed since the
\* SELECT, is an error nothing catches, and the whole transaction is rolled back.
FlushMemory(w) ==
    LET k == MemoryKey[req[w]] IN
    /\ pc[w] = "flush_memory"
    /\ MemoryFree(w, k)
    /\ IF Defect[req[w]] = "memory_key" \/ k \in DOMAIN memories
       THEN Return(w, Failure("failed"))
       ELSE Goto(w, "commit_new") /\ UNCHANGED <<at, seen, reply>>
    /\ UNCHANGED <<tables, req>>

StoreGraph(w) ==
    LET e == req[w] IN
    /\ sources' = sources \cup
          {[id |-> SourceIdentifier[e], event |-> e, at |-> at[w]]}
    /\ evidence' = evidence \cup ExtractedEvidence(e)
    /\ links' = links \cup NewLinks(e)

\* Variant: memory_created is computed after the memory exists.
StoredAlwaysNew(e, created) ==
    [status |-> "stored", memory |-> MemoryKey[e], created |-> TRUE,
     evidence |-> Cardinality(Evidence[e]), links |-> Cardinality(Evidence[e])]

Stored(e, created) ==
    [status |-> "stored", memory |-> MemoryKey[e], created |-> created,
     evidence |-> Cardinality(Evidence[e]), links |-> Cardinality(Evidence[e])]

\* What the commit of a new memory makes visible, with its source, evidence and links.
StoreNewMemory(w) ==
    LET k == MemoryKey[req[w]] IN
    /\ pc[w] = "commit_new"
    /\ StoreGraph(w)
    /\ memories' = [m \in DOMAIN memories \cup {k} |->
                       IF m = k THEN NewMemory(at[w]) ELSE memories[m]]

\* What the commit that updates the memory selected earlier makes visible.
StoreUpdatedMemory(w) ==
    LET k == MemoryKey[req[w]] IN
    /\ pc[w] = "commit_update"
    /\ StoreGraph(w)
    /\ memories' = [memories EXCEPT ![k] = UpdatedMemory(@, seen[w], at[w])]

CommitNewMemory(w) ==
    /\ StoreNewMemory(w)
    /\ Return(w, Stored(req[w], TRUE))
    /\ UNCHANGED req

CommitUpdatedMemory(w) ==
    /\ StoreUpdatedMemory(w)
    /\ Return(w, Stored(req[w], FALSE))
    /\ UNCHANGED req

\* A statement of a live request fails: nothing catches the error, the session rolls back.
StatementFails(w) ==
    /\ pc[w] \in {"flush_source", "refind", "extract", "flush_memory"}
    /\ Return(w, Failure("unavailable"))
    /\ UNCHANGED <<tables, req>>

\* The last flush or the COMMIT of a live request fails, or the COMMIT succeeds and its
\* outcome is lost with the connection: the caller is told the same, an error.
CommitFails(w) ==
    /\ pc[w] \in {"commit_new", "commit_update"}
    /\ UNCHANGED tables \/ StoreNewMemory(w) \/ StoreUpdatedMemory(w)
    /\ Return(w, Failure("unavailable"))
    /\ UNCHANGED req

Idle(w) ==
    /\ Goto(w, "idle")
    /\ req' = [req EXCEPT ![w] = None]
    /\ at' = [at EXCEPT ![w] = None]
    /\ seen' = [seen EXCEPT ![w] = None]
    /\ reply' = [reply EXCEPT ![w] = None]
    /\ UNCHANGED tables

\* The route sends the answer, which may get lost, and the session is closed.
Respond(w) == pc[w] = "respond" /\ Idle(w)

\* The process dies before the commit: the transaction is undone and the caller, who gets
\* no answer, may submit the event again.
Crash(w) == pc[w] \notin {"idle", "respond"} /\ Idle(w)

Begin(w, e) ==
    RejectPayload(w, e) \/ ReplayKnown(w, e) \/ RejectTime(w, e) \/ StartSource(w, e)

Continue(w) ==
    \/ FlushSource(w) \/ FindAfterRace(w) \/ RejectMetrics(w) \/ SelectMemory(w)
    \/ FlushMemory(w) \/ CommitNewMemory(w) \/ CommitUpdatedMemory(w) \/ Respond(w)

Fault(w) ==
    \/ \E e \in Events : LookupFails(w, e)
    \/ StatementFails(w) \/ CommitFails(w) \/ Crash(w)

Next ==
    \E w \in Workers : (\E e \in Events : Begin(w, e)) \/ Continue(w) \/ Fault(w)

Spec == Init /\ [][Next]_vars

\* A thread that can run is eventually run and the database answers; nobody is obliged to
\* submit anything, to fail or to crash.
FairSpec == Spec /\ \A w \in Workers : WF_vars(Continue(w))

-----------------------------------------------------------------------------
(* Properties *)

\* Every variable holds a value of its kind, and the levels stay within their caps.
TypeOK ==
    /\ sources \subseteq SourceRecord
    /\ evidence \subseteq EvidenceRecord
    /\ links \subseteq ProvenanceLink
    /\ DOMAIN memories \subseteq MemoryKeys
    /\ memories \in [DOMAIN memories -> MemoryRecord]
    /\ pc \in [Workers -> {"idle", "flush_source", "refind", "extract", "flush_memory",
                           "commit_new", "commit_update", "respond"}]
    /\ req \in [Workers -> Events \cup {None}]
    /\ at \in [Workers -> Times \cup {None}]
    /\ seen \in [Workers -> MemoryRecord \cup {None}]
    /\ reply \in [Workers -> Answer \cup {None}]
    /\ \A w \in Workers : pc[w] # "idle" => req[w] \in Events

\* Whatever the interleaving of duplicates, a source identifier is stored at most once
\* (the lookup of ingest_operational_event alone would not ensure it).
StoredOnce == \A r, s \in sources : r.id = s.id => r = s

\* The provenance graph is whole at every instant another session can look at it: a stored
\* source has exactly the evidence extracted from it and one link per item to its memory,
\* no evidence or link is left from a transaction that failed, and a memory exists exactly
\* when some source supports it, so that no memory is without a receipt.
GraphComplete ==
    /\ evidence = UNION {ExtractedEvidence(r.event) : r \in sources}
    /\ links = UNION {NewLinks(r.event) : r \in sources}
    /\ DOMAIN memories = {MemoryKey[r.event] : r \in sources}

\* trust_score and confidence_score count stored sources: retries, duplicates and lost
\* races never raise them beyond one step per source after the first.
Supporters(k) == {r \in sources : MemoryKey[r.event] = k}
NoTrustInflation ==
    \A k \in DOMAIN memories :
        /\ memories[k].trust < Cardinality(Supporters(k))
        /\ memories[k].confidence < Cardinality(Supporters(k))

\* first_seen_at and last_seen_at are always instants of events that were stored, in order,
\* even when concurrent updates overwrite one another.
SeenWindowSupported ==
    \A k \in DOMAIN memories :
        /\ memories[k].first <= memories[k].last
        /\ {memories[k].first, memories[k].last} \subseteq {r.at : r \in Supporters(k)}

\* An acknowledged event is durable: before the answer leaves, a source with its identifier
\* is committed, and the memory and counts in the answer are those of the committed graph.
AcknowledgedIsStored ==
    \A w \in Workers :
        (pc[w] = "respond" /\ reply[w].status \in {"stored", "replayed"}) =>
            \E r \in FindSource(SourceIdentifier[req[w]]) :
                /\ reply[w].memory = MemoryKey[r.event]
                /\ reply[w].evidence = Cardinality(EvidenceOf(r.id))
                /\ reply[w].links = Cardinality(LinksOf(r.id))

\* A sound payload of memory k has been refused, a 500, by a database that served it.
Refused(k) ==
    \E w \in Workers :
        /\ pc[w] = "respond" /\ reply[w].status = "failed"
        /\ Defect[req[w]] = "none" /\ MemoryKey[req[w]] = k

\* Memory k is stored and no call for it is in progress.
Settled(k) ==
    /\ k \in DOMAIN memories
    /\ \A w \in Workers : pc[w] # "idle" => MemoryKey[req[w]] # k

\* A sound payload is refused for one reason, that a concurrent ingest created its memory
\* first, and no more: once the calls then in progress have ended, whatever is submitted for
\* that memory, however often and by however many, is never refused again.
FailureIsTransient ==
    /\ [](\A k \in MemoryKeys : Refused(k) => k \in DOMAIN memories)
    /\ \A k \in MemoryKeys : [](Settled(k) => []~Refused(k))

\* A memory changes only in the step that stores one new source for it: replays, failures
\* and crashes change nothing, and no stored row is ever lost or rewritten.
ChangedOnlyByNewSource ==
    [][tables' # tables =>
          \E e \in Events, t \in Times :
              /\ FindSource(SourceIdentifier[e]) = {}
              /\ sources' = sources \cup {[id |-> SourceIdentifier[e], event |-> e, at |-> t]}
              /\ evidence \subseteq evidence' /\ links \subseteq links'
              /\ DOMAIN memories \subseteq DOMAIN memories'
              /\ \A k \in DOMAIN memories \ {MemoryKey[e]} : memories'[k] = memories[k]]_vars

\* Once callers stop submitting, every call in progress ends: no two transactions wait for
\* one another's keys, and the one that loses a race does not try for ever.  (Callers who
\* never stop could in principle pass a waiting INSERT over at every release of its key.)
NoNewCalls == <>[][\A w \in Workers : pc[w] = "idle" => pc'[w] = "idle"]_vars
CallsDrain == NoNewCalls => <>[](\A w \in Workers : pc[w] = "idle")

\* The program implements the ledger it promises.
Ledger ==
    INSTANCE EventLedger WITH
        Clients <- Workers, ledger <- {r.event : r \in sources}, receipts <- links,
        answer <- reply
ImplementsLedger == Ledger!Spec

\* last_seen_at is the latest instant of the stored sources of the memory.
LastSeenIsLatest ==
    \A k \in DOMAIN memories : \A r \in Supporters(k) : r.at <= memories[k].last

\* The levels count the stored sources after the first, exactly, up to the caps.
LevelsCountSources ==
    \A k \in DOMAIN memories :
        LET n == Cardinality(Supporters(k)) - 1 IN
        /\ memories[k].trust = IF n < TrustCap THEN n ELSE TrustCap
        /\ memories[k].confidence = IF n < ConfidenceCap THEN n ELSE ConfidenceCap

\* What a row lock taken by the SELECT of the memory would ensure, and the code does not: no
\* two transactions are about to update the same memory.
RowsHeldAlone ==
    \A v, w \in Workers :
        (/\ pc[v] = "commit_update" /\ pc[w] = "commit_update"
         /\ MemoryKey[req[v]] = MemoryKey[req[w]]) => v = w

\* As long as no two transactions are about to update one memory, and in particular when
\* requests come one at a time, last_seen_at and the levels are exact, however the requests
\* interleave, fail, race and crash otherwise.
ExactWhileHeldAlone == []RowsHeldAlone => [](LastSeenIsLatest /\ LevelsCountSources)

=============================================================================
