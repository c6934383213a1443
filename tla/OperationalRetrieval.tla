------------------------ MODULE OperationalRetrieval ------------------------
(***************************************************************************)
(* score_operational_memories (retrieval/scoring.py) behind the route POST *)
(* /operational-memory/retrieval (api/routes/operational_memory.py), while *)
(* events are being ingested.  At READ COMMITTED each SELECT sees what is  *)
(* committed when it runs: the memories are read first, their links, with  *)
(* the sources and evidence they point to, later.                          *)
(*                                                                         *)
(* Retrievals write nothing, so one of them at a time is enough.  An       *)
(* ingestion is the two steps a reader can tell apart: the SELECT of the   *)
(* memory row and the COMMIT.  The order of strings is that of naturals.   *)
(*                                                                         *)
(* Left out: summaries and titles, freshness_score (always 1.0), memories  *)
(* that are not active (no code makes one), logging.                       *)
(***************************************************************************)
EXTENDS Naturals, FiniteSets, FiniteSetsExt

CONSTANTS
    Events,     \* events that may be ingested, of different source identifiers
    Payload,    \* event -> its fields, its evidence keys and, of those, its metrics
    Queries,    \* payloads of a retrieval
    Limits,     \* its limit
    Window,     \* timedelta(days=7)
    Cited,      \* the limit of _provenance_references: 5
    None

Fields == {"service", "host", "environment", "category", "severity"}

ASSUME PayloadAssumption ==
    \A e \in Events :
        /\ Payload[e].evidence # {} /\ Payload[e].evidence \subseteq Nat
        /\ Payload[e].metrics \subseteq Payload[e].evidence
        /\ Payload[e].memory \in Nat /\ Payload[e].at \in Nat \ {0}
        /\ \A f \in Fields \ {"host"} : Payload[e][f] # None

ASSUME EvidenceAssumption == \A e \in Events : IsFiniteSet(Payload[e].evidence)

ASSUME RequestAssumption ==
    /\ Limits \subseteq Nat \ {0} /\ Cited \in Nat \ {0} /\ Window \in Nat
    /\ \A q \in Queries : q.metrics \subseteq Nat /\ q.at \in Nat

ASSUME NoneAssumption ==
    \A q \in Queries, n \in Limits : None # [query |-> q, limit |-> n]

Memories == {Payload[e].memory : e \in Events}

VARIABLES
    ingested,  \* the events committed, each with its evidence and links
    lastSeen,  \* memory_key -> last_seen_at of its row, 0 when there is none
    pending,   \* event being ingested -> the last_seen_at its SELECT returned
    pc,        \* the next step of the retrieval
    asked,     \* what was asked
    rows,      \* the memories its first SELECT returned
    begun,     \* the events that were committed when it began
    results    \* what it is about to answer

stored == <<ingested, lastSeen, pending>>
vars == <<stored, pc, asked, rows, begun, results>>

-----------------------------------------------------------------------------
(* Scoring *)

Of(m, E) == {e \in E : Payload[e].memory = m}
Links(E) == UNION {{[event |-> e, key |-> k] : k \in Payload[e].evidence} : e \in E}

Weight == [service |-> 25, host |-> 20, environment |-> 15, category |-> 20, severity |-> 10]

\* Variant: the values of the newest event only.
AgreesNewest(q, f, E) ==
    \E e \in E : /\ \A g \in E : Payload[g].at <= Payload[e].at
                /\ q[f] # None /\ Payload[e][f] = q[f]

Agrees(q, f, E) == q[f] # None /\ \E e \in E : Payload[e][f] = q[f]
Overlap(q, E) == q.metrics \cap UNION {Payload[e].metrics : e \in E}

Points(q, f, E) == IF Agrees(q, f, E) THEN Weight[f] ELSE 0

\* What the events linked to a memory add up to.
Evident(q, E) ==
    Points(q, "service", E) + Points(q, "host", E) + Points(q, "environment", E)
        + Points(q, "category", E) + Points(q, "severity", E)
        + Min({10, 5 * Cardinality(Overlap(q, E))})

\* Variant: not capped.
ScoreUncapped(q, E, seen) == Evident(q, E) + IF seen + Window >= q.at THEN 10 ELSE 0

Score(q, E, seen) ==
    Min({100, Evident(q, E) + IF seen + Window >= q.at THEN 10 ELSE 0})

\* Environment, severity and recency are no anchors, unless the query names none.
Meaningful(q, E) ==
    \/ /\ \A f \in {"service", "host", "category"} : q[f] = None
       /\ q.metrics = {}
    \/ \E f \in {"service", "host", "category"} : Agrees(q, f, E)
    \/ Overlap(q, E) # {}

\* The first n of S, in any order of those that Before leaves equal.
Cuts(S, n, Before(_, _)) ==
    {T \in SUBSET S : /\ Cardinality(T) = Min({n, Cardinality(S)})
                      /\ \A t \in T, s \in S \ T : ~Before(s, t)}

\* Variant: the evidence key alone.
NewerKey(l, k) == l.key > k.key

Newer(l, k) ==
    LET t == Payload[l.event].at
        u == Payload[k.event].at
    IN  t > u \/ (t = u /\ l.key > k.key)

\* One memory as it may be answered: the receipts shown are the newest.
Answers(q, m, E, seen) ==
    {[memory |-> m, seen |-> seen, score |-> Score(q, E, seen), receipts |-> R] :
        R \in Cuts(Links(E), Cited, Newer)}

\* Variant: cut before it is sorted.
RanksByKey(r, s) == r.memory < s.memory

Ranks(r, s) == r.score > s.score \/ (r.score = s.score /\ r.memory < s.memory)

-----------------------------------------------------------------------------
Init ==
    /\ ingested = {} /\ pending = << >>
    /\ lastSeen = [m \in Memories |-> 0]
    /\ pc = "idle" /\ asked = None /\ rows = << >> /\ begun = {} /\ results = {}

retrieval == <<pc, asked, rows, begun, results>>

SelectMemory(e) ==
    /\ e \notin ingested \cup DOMAIN pending
    /\ pending' = [f \in DOMAIN pending \cup {e} |->
                      IF f = e THEN lastSeen[Payload[e].memory] ELSE pending[f]]
    /\ UNCHANGED <<ingested, lastSeen, retrieval>>

Drop(e) == pending' = [f \in DOMAIN pending \ {e} |-> pending[f]]

\* last_seen_at is written only if it is later than what was read.
CommitEvent(e) ==
    /\ e \in DOMAIN pending
    /\ LET m == Payload[e].memory IN
          /\ pending[e] = 0 => lastSeen[m] = 0
          /\ lastSeen' = [lastSeen EXCEPT ![m] =
                             IF Payload[e].at > pending[e] THEN Payload[e].at ELSE @]
    /\ ingested' = ingested \cup {e}
    /\ Drop(e)
    /\ UNCHANGED retrieval

\* Validation, a lost race for a new memory, or the database: nothing is committed.
FailEvent(e) ==
    /\ e \in DOMAIN pending
    /\ Drop(e)
    /\ UNCHANGED <<ingested, lastSeen, retrieval>>

Ask(q) ==
    /\ pc = "idle"
    /\ asked' = q
    /\ pc' = "memories"
    /\ UNCHANGED <<stored, rows, begun, results>>

ReadMemories ==
    /\ pc = "memories"
    /\ rows' = [m \in {n \in Memories : lastSeen[n] # 0} |-> lastSeen[m]]
    /\ begun' = ingested
    /\ pc' = "links"
    /\ UNCHANGED <<stored, asked, results>>

\* selectinload reads the links of the rows; what they point to never changes.
ReadLinksAndScore ==
    /\ pc = "links"
    /\ LET q == asked.query
           matched == {m \in DOMAIN rows : Meaningful(q, Of(m, ingested))}
       IN  \E found \in Choices({Answers(q, m, Of(m, ingested), rows[m]) : m \in matched}) :
               results' \in Cuts(found, asked.limit, Ranks)
    /\ pc' = "answer"
    /\ UNCHANGED <<stored, asked, rows, begun>>

\* The answer leaves; or a SELECT failed and it is a 500.
Respond ==
    /\ pc # "idle"
    /\ pc' = "idle" /\ asked' = None /\ rows' = << >> /\ begun' = {} /\ results' = {}
    /\ UNCHANGED stored

Next ==
    \/ \E e \in Events : SelectMemory(e) \/ CommitEvent(e) \/ FailEvent(e)
    \/ \E q \in Queries, n \in Limits : Ask([query |-> q, limit |-> n])
    \/ ReadMemories \/ ReadLinksAndScore \/ Respond

Spec == Init /\ [][Next]_vars

-----------------------------------------------------------------------------
(* Properties *)

\* Every variable holds a value of its kind.
TypeOK ==
    /\ ingested \subseteq Events
    /\ lastSeen \in [Memories -> Nat]
    /\ DOMAIN pending \subseteq Events \ ingested
    /\ pc \in {"idle", "memories", "links", "answer"}
    /\ (pc = "idle") = (asked = None)
    /\ DOMAIN rows \subseteq Memories /\ begun \subseteq ingested
    /\ \A r \in results : r.memory \in DOMAIN rows /\ r.score \in 0..100

\* A memory is scored as of some instant of its retrieval, though its row and its links are
\* read by different SELECTs with commits in between: on no less than the events committed
\* when the retrieval began, on no more than those committed when it answers, with the
\* last_seen_at it shows.
ScoreIsOfTheRetrieval ==
    \A r \in results :
        /\ r.score >= Score(asked.query, Of(r.memory, begun), r.seen)
        /\ r.score <= Score(asked.query, Of(r.memory, ingested), r.seen)

\* Every memory returned shows a receipt, and its first receipt is of an event as recent as
\* any event of the memory that was committed when the retrieval began.
NewestReceiptShown ==
    \A r \in results :
        /\ r.receipts # {}
        /\ \A e \in Of(r.memory, begun) :
              \E l \in r.receipts : Payload[l.event].at >= Payload[e].at

\* No memory is crowded out by a weaker one: what matched on the events committed when the
\* retrieval began and is not returned is outranked, even by what is known now, by as many
\* memories as were asked for.
LimitKeepsTheBest ==
    pc = "answer" =>
        \A m \in DOMAIN rows \ {r.memory : r \in results} :
            Meaningful(asked.query, Of(m, begun)) =>
                /\ Cardinality(results) = asked.limit
                /\ \A r \in results :
                      r.score >= Score(asked.query, Of(m, begun), rows[m])

\* Every memory returned is tied to the query by an event of it, committed by now: by a service,
\* host or category that the query names, or by one of its metrics.  Environment, severity and
\* recency are not enough to return a memory, docs/ARCHITECTURE.md:176 says and the docstring
\* of _is_meaningful_operational_match repeats; but a query that names none of the four is
\* answered with every active memory (scoring.py:134), those of another environment included.
AnsweredByAnchor ==
    \A r \in results :
        LET q == asked.query
        IN  \E e \in Of(r.memory, ingested) :
               \/ \E f \in {"service", "host", "category"} : q[f] # None /\ Payload[e][f] = q[f]
               \/ Payload[e].metrics \cap q.metrics # {}

=============================================================================
