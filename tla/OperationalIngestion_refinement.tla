------------------- MODULE OperationalIngestion_refinement -------------------
(***************************************************************************)
(* What callers are told: the answers of OperationalIngestion are those of *)
(* the ledger it implements, an acknowledged event is stored, and a sound  *)
(* payload is refused only while its memory is being created by others.    *)
(***************************************************************************)
EXTENDS OperationalIngestion_proofs

-----------------------------------------------------------------------------
(* Where an answer comes from *)

\* The answer of w is about the committed source r.
Reports(a, r) ==
    /\ a.memory = MemoryKey[r.event]
    /\ a.evidence = Cardinality(EvidenceOf(r.id))
    /\ a.links = Cardinality(LinksOf(r.id))

LEMMA RowsCounted ==
    ASSUME IndInv, NEW r \in sources
    PROVE  /\ Cardinality(EvidenceOf(r.id)) = Cardinality(Evidence[r.event])
           /\ Cardinality(LinksOf(r.id)) = Cardinality(Evidence[r.event])
<1>1. ExistingResults(r.id) = {Replayed(r.event)}
  BY ReplayResult
<1> DEFINE M == IF LinksOf(r.id) = {} THEN {None} ELSE {l.memory : l \in LinksOf(r.id)}
           Result(m) == [status |-> "replayed", memory |-> m, created |-> FALSE,
                         evidence |-> Cardinality(EvidenceOf(r.id)),
                         links |-> Cardinality(LinksOf(r.id))]
<1>2. ExistingResults(r.id) = {Result(m) : m \in M}
  BY DEF ExistingResults
<1>3. PICK m \in M : Replayed(r.event) = Result(m)
  <2> HIDE DEF M, Result
  <2> QED  BY <1>1, <1>2
<1>4. Result(m).evidence = Cardinality(EvidenceOf(r.id))
      /\ Result(m).links = Cardinality(LinksOf(r.id))
  OBVIOUS
<1> HIDE DEF Result
<1> QED  BY <1>3, <1>4 DEF Replayed

LEMMA ReplayReports ==
    ASSUME IndInv, NEW s, FindSource(s) # {}
    PROVE  \E r \in sources :
              /\ r.id = s
              /\ ExistingResults(s) = {Replayed(r.event)}
              /\ Reports(Replayed(r.event), r)
<1>1. PICK r \in sources : r.id = s
  BY DEF FindSource
<1> QED  BY <1>1, ReplayResult, RowsCounted DEF Reports, Replayed

\* Storing a source leaves the rows of the other sources as they are, and finds none of its own.
LEMMA GraphStable ==
    ASSUME IndInv, NEW w \in Workers, Stores(w), NEW i
    PROVE  /\ i # SourceIdentifier[req[w]] =>
                 EvidenceOf(i)' = EvidenceOf(i) /\ LinksOf(i)' = LinksOf(i)
           /\ i = SourceIdentifier[req[w]] =>
                 EvidenceOf(i)' = ExtractedEvidence(req[w]) /\ LinksOf(i)' = NewLinks(req[w])
<1> DEFINE s == SourceIdentifier[req[w]]
<1>1. evidence' = evidence \cup ExtractedEvidence(req[w]) /\ links' = links \cup NewLinks(req[w])
  BY DEF Stores, StoreGraph
<1>2. \A v \in ExtractedEvidence(req[w]) : v.source = s
  BY DEF ExtractedEvidence
<1>3. \A l \in NewLinks(req[w]) : l.source = s
  BY DEF NewLinks
<1>4. \A r \in sources : SourceIdentifier[r.event] # s
  BY DEF IndInv, IdentifiersHeld, Holding, RowsIdentified, Stores
<1>5. \A v \in evidence : v.source # s
  BY <1>4 DEF IndInv, GraphComplete, ExtractedEvidence
<1>6. \A l \in links : l.source # s
  BY <1>4 DEF IndInv, GraphComplete, NewLinks
<1> HIDE DEF s
<1>7. i # s => EvidenceOf(i)' = EvidenceOf(i) /\ LinksOf(i)' = LinksOf(i)
  BY <1>1, <1>2, <1>3 DEF EvidenceOf, LinksOf
<1>8. ASSUME i = s
      PROVE  EvidenceOf(i)' = ExtractedEvidence(req[w]) /\ LinksOf(i)' = NewLinks(req[w])
  <2>1. EvidenceOf(i)' = ExtractedEvidence(req[w])
    BY <1>1, <1>2, <1>5, <1>8 DEF EvidenceOf
  <2>2. LinksOf(i)' = NewLinks(req[w])
    BY <1>1, <1>3, <1>6, <1>8 DEF LinksOf
  <2> QED  BY <2>1, <2>2
<1> QED  BY <1>7, <1>8 DEF s

\* A report about a stored source stays true.
LEMMA ReportStable ==
    ASSUME IndInv, [Next]_vars, NEW r \in sources, NEW a, Reports(a, r)
    PROVE  /\ r \in sources'
           /\ Cardinality(EvidenceOf(r.id))' = a.evidence
           /\ Cardinality(LinksOf(r.id))' = a.links
<1>1. CASE UNCHANGED tables
  BY <1>1 DEF tables, Reports, EvidenceOf, LinksOf
<1>2. ASSUME NEW w \in Workers, Stores(w)
      PROVE  /\ r \in sources'
             /\ EvidenceOf(r.id)' = EvidenceOf(r.id) /\ LinksOf(r.id)' = LinksOf(r.id)
  <2>1. r.id # SourceIdentifier[req[w]]
    BY <1>2 DEF IndInv, IdentifiersHeld, Holding, Stores
  <2>2. r \in sources'
    BY <1>2 DEF Stores, StoreGraph
  <2> QED  BY <1>2, <2>1, <2>2, GraphStable
<1> QED  BY <1>1, <1>2, StepStores DEF Reports

\* A step of one thread leaves the session of every other alone.
LEMMA OthersUntouched ==
    ASSUME IndInv, NEW v \in Workers, NEW w \in Workers, v # w,
           (\E e \in Events : Begin(w, e)) \/ Continue(w) \/ Fault(w)
    PROVE  pc'[v] = pc[v] /\ req'[v] = req[v] /\ reply'[v] = reply[v]
<1> USE DEF Goto, Return, Idle
<1>1. DOMAIN pc = Workers /\ DOMAIN req = Workers /\ DOMAIN reply = Workers
  BY DEF IndInv, TypeOK
<1>2. ASSUME NEW e \in Events, Begin(w, e)
      PROVE  pc'[v] = pc[v] /\ req'[v] = req[v] /\ reply'[v] = reply[v]
  BY <1>1, <1>2 DEF Begin, RejectPayload, ReplayKnown, RejectTime, StartSource
<1>3. ASSUME FlushSource(w) \/ FindAfterRace(w) \/ RejectMetrics(w) \/ SelectMemory(w)
      PROVE  pc'[v] = pc[v] /\ req'[v] = req[v] /\ reply'[v] = reply[v]
  BY <1>1, <1>3 DEF FlushSource, FindAfterRace, RejectMetrics, SelectMemory
<1>4. ASSUME FlushMemory(w) \/ CommitNewMemory(w) \/ CommitUpdatedMemory(w)
      PROVE  pc'[v] = pc[v] /\ req'[v] = req[v] /\ reply'[v] = reply[v]
  BY <1>1, <1>4 DEF FlushMemory, CommitNewMemory, CommitUpdatedMemory
<1>5. ASSUME Respond(w) \/ Crash(w)
      PROVE  pc'[v] = pc[v] /\ req'[v] = req[v] /\ reply'[v] = reply[v]
  BY <1>1, <1>5 DEF Respond, Crash
<1>6. ASSUME \/ \E e \in Events : LookupFails(w, e)
             \/ StatementFails(w) \/ CommitFails(w)
      PROVE  pc'[v] = pc[v] /\ req'[v] = req[v] /\ reply'[v] = reply[v]
  BY <1>1, <1>6 DEF LookupFails, StatementFails, CommitFails
<1> QED  BY <1>2, <1>3, <1>4, <1>5, <1>6 DEF Continue, Fault

\* What a step that answers may answer.
Answered(v) ==
    \/ pc[v] = "respond" /\ UNCHANGED <<reply[v], req[v]>>
    \/ reply'[v].status \in {"invalid", "unavailable"}
    \/ /\ pc[v] = "flush_memory" /\ req'[v] = req[v] /\ reply'[v].status = "failed"
       /\ Defect[req'[v]] = "memory_key" \/ MemoryKey[req'[v]] \in DOMAIN memories
    \/ /\ UNCHANGED tables
       /\ \E r \in sources :
             /\ r.id = SourceIdentifier[req'[v]]
             /\ reply'[v] = Replayed(r.event)
             /\ Reports(reply'[v], r)
    \/ Stores(v)

LEMMA AnswerStep ==
    ASSUME IndInv, [Next]_vars, NEW v \in Workers, pc'[v] = "respond" PROVE Answered(v)
<1> USE DEF Goto, Return
<1>0. pc \in [Workers -> {"idle", "flush_source", "refind", "extract", "flush_memory",
                          "commit_new", "commit_update", "respond"}]
      /\ DOMAIN reply = Workers /\ DOMAIN req = Workers
  BY DEF IndInv, TypeOK
<1>1. ASSUME NEW w \in Workers, v # w,
             (\E e \in Events : Begin(w, e)) \/ Continue(w) \/ Fault(w)
      PROVE  Answered(v)
  BY <1>1, OthersUntouched DEF Answered
<1>2. ASSUME NEW e \in Events, Begin(v, e) PROVE Answered(v)
  <2>1. CASE RejectPayload(v, e) \/ RejectTime(v, e)
    BY <1>0, <2>1 DEF RejectPayload, RejectTime, Failure, Answered
  <2>2. CASE ReplayKnown(v, e)
    <3>1. PICK r \in sources : /\ r.id = SourceIdentifier[e]
                               /\ ExistingResults(SourceIdentifier[e]) = {Replayed(r.event)}
                               /\ Reports(Replayed(r.event), r)
      BY <2>2, ReplayReports DEF ReplayKnown
    <3> QED  BY <1>0, <2>2, <3>1 DEF ReplayKnown, Answered
  <2>3. CASE StartSource(v, e)
    BY <1>0, <2>3 DEF StartSource
  <2> QED  BY <1>2, <2>1, <2>2, <2>3 DEF Begin
<1>3. ASSUME Continue(v) PROVE Answered(v)
  <2>1. CASE FindAfterRace(v)
    <3>1. FindSource(SourceIdentifier[req[v]]) # {}
      BY <2>1 DEF FindAfterRace, IndInv, RaceWasLost
    <3>2. PICK r \in sources : /\ r.id = SourceIdentifier[req[v]]
                               /\ ExistingResults(SourceIdentifier[req[v]]) = {Replayed(r.event)}
                               /\ Reports(Replayed(r.event), r)
      BY <3>1, ReplayReports
    <3> QED  BY <1>0, <2>1, <3>1, <3>2 DEF FindAfterRace, Answered
  <2>2. CASE RejectMetrics(v)
    BY <1>0, <2>2 DEF RejectMetrics, Failure, Answered
  <2>3. CASE FlushMemory(v)
    BY <1>0, <2>3 DEF FlushMemory, Failure, Answered
  <2>4. CASE CommitNewMemory(v) \/ CommitUpdatedMemory(v)
    BY <2>4, CommitStores DEF Answered
  <2>5. CASE FlushSource(v) \/ SelectMemory(v) \/ Respond(v)
    BY <1>0, <2>5 DEF FlushSource, SelectMemory, Respond, Idle
  <2> QED  BY <1>3, <2>1, <2>2, <2>3, <2>4, <2>5 DEF Continue
<1>4. ASSUME Fault(v) PROVE Answered(v)
  <2>1. CASE Crash(v)
    BY <1>0, <2>1 DEF Crash, Idle
  <2>2. CASE ~Crash(v)
    BY <1>0, <1>4, <2>2 DEF Fault, LookupFails, StatementFails, CommitFails, Failure, Answered
  <2> QED  BY <2>1, <2>2
<1>5. CASE UNCHANGED vars
  BY <1>5 DEF vars, Answered
<1> HIDE DEF Goto, Return
<1> QED  BY <1>1, <1>2, <1>3, <1>4, <1>5 DEF Next

\* A call comes to the INSERT of a memory only from a SELECT that does not find it.
LEMMA ReachesFlush ==
    ASSUME IndInv, [Next]_vars, NEW v \in Workers, pc'[v] = "flush_memory"
    PROVE  \/ pc[v] = "flush_memory" /\ req'[v] = req[v]
           \/ MemoryKey[req'[v]] \notin DOMAIN memories
<1> USE DEF Goto, Return
<1>0. pc \in [Workers -> {"idle", "flush_source", "refind", "extract", "flush_memory",
                          "commit_new", "commit_update", "respond"}]
  BY DEF IndInv, TypeOK
<1>1. ASSUME NEW w \in Workers, v # w,
             (\E e \in Events : Begin(w, e)) \/ Continue(w) \/ Fault(w)
      PROVE  pc[v] = "flush_memory" /\ req'[v] = req[v]
  BY <1>1, OthersUntouched
<1>2. ASSUME NEW e \in Events, Begin(v, e) PROVE FALSE
  BY <1>0, <1>2 DEF Begin, RejectPayload, ReplayKnown, RejectTime, StartSource
<1>3. ASSUME Continue(v) PROVE SelectMemory(v)
  BY <1>0, <1>3 DEF Continue, FlushSource, FindAfterRace, RejectMetrics, FlushMemory,
       CommitNewMemory, CommitUpdatedMemory, Respond, Idle
<1>4. ASSUME SelectMemory(v) PROVE MemoryKey[req'[v]] \notin DOMAIN memories
  BY <1>0, <1>4 DEF SelectMemory
<1>5. ASSUME Fault(v) PROVE FALSE
  BY <1>0, <1>5 DEF Fault, LookupFails, StatementFails, CommitFails, Crash, Idle
<1>6. CASE UNCHANGED vars
  BY <1>6 DEF vars
<1> HIDE DEF Goto, Return
<1> QED  BY <1>1, <1>2, <1>3, <1>4, <1>5, <1>6 DEF Next

-----------------------------------------------------------------------------
(* What callers are told *)

LEMMA AcknowledgedStep ==
    ASSUME IndInv, IndInv', AcknowledgedIsStored, [Next]_vars PROVE AcknowledgedIsStored'
<1> SUFFICES ASSUME NEW v \in Workers, pc'[v] = "respond",
                    reply'[v].status \in {"stored", "replayed"}
             PROVE  \E r \in sources' :
                       /\ r.id = SourceIdentifier[req'[v]]
                       /\ reply'[v].memory = MemoryKey[r.event]
                       /\ reply'[v].evidence = Cardinality(EvidenceOf(r.id))'
                       /\ reply'[v].links = Cardinality(LinksOf(r.id))'
  BY DEF AcknowledgedIsStored, FindSource
<1>1. ASSUME NEW r \in sources, NEW a, a = reply'[v], Reports(a, r),
             r.id = SourceIdentifier[req'[v]]
      PROVE  \E q \in sources' :
                /\ q.id = SourceIdentifier[req'[v]]
                /\ reply'[v].memory = MemoryKey[q.event]
                /\ reply'[v].evidence = Cardinality(EvidenceOf(q.id))'
                /\ reply'[v].links = Cardinality(LinksOf(q.id))'
  BY <1>1, ReportStable DEF Reports
<1>2. CASE pc[v] = "respond" /\ UNCHANGED <<reply[v], req[v]>>
  <2>1. PICK r \in sources : r.id = SourceIdentifier[req[v]] /\ Reports(reply[v], r)
    BY <1>2 DEF AcknowledgedIsStored, FindSource, Reports
  <2> QED  BY <1>1, <1>2, <2>1
<1>3. CASE \E r \in sources :
             /\ r.id = SourceIdentifier[req'[v]]
             /\ reply'[v] = Replayed(r.event)
             /\ Reports(reply'[v], r)
  BY <1>1, <1>3
<1>4. CASE Stores(v)
  <2> DEFINE e == req[v]
             row == [id |-> SourceIdentifier[e], event |-> e, at |-> at[v]]
  <2>1. row \in sources' /\ req'[v] = e
    BY <1>4 DEF Stores, StoreGraph
  <2>2. e \in Events
    BY <1>4 DEF Stores, IndInv, SessionOK
  <2>3. reply'[v] = Stored(e, pc[v] = "commit_new")
    BY <1>4 DEF Stores, Return, Failure, IndInv, TypeOK
  <2>4. /\ Evidence[e] \in SUBSET Items
        /\ SourceIdentifier[e] \in SourceIds
        /\ MemoryKey[e] \in MemoryKeys
    BY <2>2, PayloadAssumption
  <2>5. /\ EvidenceOf(row.id)' = ExtractedEvidence(e)
        /\ LinksOf(row.id)' = NewLinks(e)
    <3>1. PICK i : i = SourceIdentifier[e]
      OBVIOUS
    <3>2. EvidenceOf(i)' = ExtractedEvidence(e) /\ LinksOf(i)' = NewLinks(e)
      BY <1>4, <3>1, GraphStable
    <3> QED  BY <2>1, <3>1, <3>2 DEF EvidenceOf, LinksOf
  <2>6. /\ Cardinality(EvidenceOf(row.id))' = Cardinality(Evidence[e])
        /\ Cardinality(LinksOf(row.id))' = Cardinality(Evidence[e])
    <3>1. Cardinality(ExtractedEvidence(e)) = Cardinality(Evidence[e])
      BY <2>4, EvidenceRows DEF ExtractedEvidence
    <3>2. Cardinality(NewLinks(e)) = Cardinality(Evidence[e])
      BY <2>4, LinkRows DEF NewLinks
    <3> QED  BY <2>5, <3>1, <3>2
  <2>7. /\ reply'[v].memory = MemoryKey[row.event]
        /\ reply'[v].evidence = Cardinality(Evidence[e])
        /\ reply'[v].links = Cardinality(Evidence[e])
    BY <2>3 DEF Stored
  <2> QED  BY <2>1, <2>6, <2>7
<1>5. Answered(v)
  BY AnswerStep
<1> QED  BY <1>2, <1>3, <1>4, <1>5 DEF Answered

\* An acknowledged event is durable, and the answer reports the committed graph.
THEOREM AcknowledgedStored == Spec => []AcknowledgedIsStored
<1>1. Init => AcknowledgedIsStored
  BY DEF Init, AcknowledgedIsStored
<1>2. IndInv /\ IndInv' /\ AcknowledgedIsStored /\ [Next]_vars => AcknowledgedIsStored'
  BY AcknowledgedStep
<1> QED  BY <1>1, <1>2, Invariance, PTL DEF Spec

\* Memory k is stored, no call is about to create it, and none has been refused for it.
Created(k) ==
    /\ k \in DOMAIN memories
    /\ \A w \in Workers : pc[w] = "flush_memory" => MemoryKey[req[w]] # k
    /\ ~Refused(k)

\* From then on the SELECT of every call finds the memory: it never reaches the INSERT.
LEMMA CreatedStep ==
    ASSUME IndInv, IndInv', NEW k \in MemoryKeys, Created(k), [Next]_vars PROVE Created(k)'
<1>1. k \in DOMAIN memories'
  BY StepStores DEF Stores, tables, Created
<1>2. ASSUME NEW v \in Workers, pc'[v] = "flush_memory" PROVE MemoryKey[req'[v]] # k
  <2>1. \/ pc[v] = "flush_memory" /\ req'[v] = req[v]
        \/ MemoryKey[req'[v]] \notin DOMAIN memories
    BY <1>2, ReachesFlush
  <2> QED  BY <2>1 DEF Created
<1>3. ASSUME NEW v \in Workers, pc'[v] = "respond", reply'[v].status = "failed",
             Defect[req'[v]] = "none", MemoryKey[req'[v]] = k
      PROVE  FALSE
  <2>1. CASE pc[v] = "respond" /\ UNCHANGED <<reply[v], req[v]>>
    BY <1>3, <2>1 DEF Created, Refused
  <2>2. CASE Stores(v)
    BY <1>3, <2>2 DEF Stores, Return, Stored, Failure, IndInv, TypeOK
  <2>3. Answered(v)
    BY <1>3, AnswerStep
  <2>4. \A e : Replayed(e).status # "failed"
    BY DEF Replayed
  <2>5. CASE pc[v] = "flush_memory" /\ req'[v] = req[v]
    BY <1>3, <2>5 DEF Created
  <2> QED  BY <1>3, <2>1, <2>2, <2>3, <2>4, <2>5 DEF Answered
<1>4. ~Refused(k)'
  BY <1>3 DEF Refused
<1> QED  BY <1>1, <1>2, <1>4 DEF Created

\* A refusal of a sound payload finds its memory stored.
RefusedFor == \A k \in MemoryKeys : Refused(k) => k \in DOMAIN memories

LEMMA RefusedStep ==
    ASSUME IndInv, IndInv', RefusedFor, [Next]_vars PROVE RefusedFor'
<1> SUFFICES ASSUME NEW v \in Workers, pc'[v] = "respond", reply'[v].status = "failed",
                    Defect[req'[v]] = "none", MemoryKey[req'[v]] \in MemoryKeys
             PROVE  MemoryKey[req'[v]] \in DOMAIN memories'
  BY DEF RefusedFor, Refused
<1>1. DOMAIN memories \subseteq DOMAIN memories'
  BY StepStores DEF Stores, tables
<1>2. CASE pc[v] = "respond" /\ UNCHANGED <<reply[v], req[v]>>
  BY <1>1, <1>2 DEF RefusedFor, Refused
<1>3. CASE Stores(v)
  BY <1>3 DEF Stores, Return, Stored, Failure, IndInv, TypeOK
<1>4. Answered(v)
  BY AnswerStep
<1>5. \A e : Replayed(e).status # "failed"
  BY DEF Replayed
<1>6. CASE Defect[req'[v]] = "memory_key" \/ MemoryKey[req'[v]] \in DOMAIN memories
  BY <1>1, <1>6
<1> QED  BY <1>2, <1>3, <1>4, <1>5, <1>6 DEF Answered

\* A sound payload is refused only when somebody else created its memory meanwhile, and,
\* once the memory is stored and the calls for it have ended, never again.
THEOREM FailuresAreTransient == Spec => FailureIsTransient
<1>1. Init => RefusedFor
  BY DEF Init, RefusedFor, Refused
<1>2. IndInv /\ IndInv' /\ RefusedFor /\ [Next]_vars => RefusedFor'
  BY RefusedStep
<1>3. Spec => []RefusedFor
  BY <1>1, <1>2, Invariance, PTL DEF Spec
<1>4. ASSUME NEW k \in MemoryKeys
      PROVE  Spec => [](Settled(k) => []~Refused(k))
  <2>1. IndInv /\ Settled(k) => Created(k)
    BY DEF Settled, Created, Refused
  <2>2. IndInv /\ IndInv' /\ Created(k) /\ [Next]_vars => Created(k)'
    BY CreatedStep
  <2>3. Created(k) => ~Refused(k)
    BY DEF Created
  <2> QED  BY <2>1, <2>2, <2>3, Invariance, PTL DEF Spec
<1>5. Spec => \A k \in MemoryKeys : [](Settled(k) => []~Refused(k))
  BY <1>4
<1> QED  BY <1>3, <1>5, PTL DEF FailureIsTransient, RefusedFor

-----------------------------------------------------------------------------
(* The ledger *)

LEMMA SameCardinality == \A S : Ledger!Cardinality(S) = Cardinality(S)
BY DEF Ledger!Cardinality, Cardinality

LEMMA LedgerStep ==
    ASSUME IndInv, [Next]_vars PROVE [Ledger!Next]_(Ledger!lvars)
<1> USE DEF Goto, Return
<1> DEFINE entries == {r.event : r \in sources}
<1>0. /\ DOMAIN reply = Workers
      /\ pc \in [Workers -> {"idle", "flush_source", "refind", "extract", "flush_memory",
                             "commit_new", "commit_update", "respond"}]
  BY DEF IndInv, TypeOK
<1>1. ASSUME NEW w \in Workers, UNCHANGED tables,
             NEW st \in {"invalid", "failed", "unavailable"}, reply' = [reply EXCEPT ![w] = Failure(st)]
      PROVE  Ledger!Refuse(w)
  BY <1>1 DEF Ledger!Refuse, Ledger!Refusal, Failure, tables
<1>2. ASSUME NEW w \in Workers, UNCHANGED tables, NEW e \in Events,
             FindSource(SourceIdentifier[e]) # {},
             NEW a \in ExistingResults(SourceIdentifier[e]), reply' = [reply EXCEPT ![w] = a]
      PROVE  Ledger!Replay(w, e)
  <2>1. PICK r \in sources : /\ r.id = SourceIdentifier[e]
                             /\ ExistingResults(SourceIdentifier[e]) = {Replayed(r.event)}
    BY <1>2, ReplayReports
  <2>2. r.event \in Ledger!SameIdentity(e)
    BY <2>1 DEF Ledger!SameIdentity, IndInv, RowsIdentified
  <2>3. a = Ledger!Reported(r.event, "replayed", FALSE)
    BY <1>2, <2>1, SameCardinality DEF Ledger!Reported, Replayed
  <2> QED  BY <1>2, <2>2, <2>3 DEF Ledger!Replay, tables
<1>3. ASSUME NEW w \in Workers, UNCHANGED tables, reply' = [reply EXCEPT ![w] = None]
      PROVE  Ledger!Forget(w)
  BY <1>3 DEF Ledger!Forget, tables
<1>4. ASSUME UNCHANGED <<tables, reply>> PROVE UNCHANGED Ledger!lvars
  BY <1>4 DEF Ledger!lvars, tables
<1>5. ASSUME NEW w \in Workers, NEW e \in Events, e = req[w], Stores(w)
      PROVE  Ledger!Record(w, e) \/ Ledger!RecordUnheard(w, e)
  <2> DEFINE row == [id |-> SourceIdentifier[e], event |-> e, at |-> at[w]]
  <2>2. sources' = sources \cup {row} /\ links' = links \cup NewLinks(e)
    BY <1>5 DEF Stores, StoreGraph
  <2>3. {r.event : r \in sources'} = entries \cup {e}
    <3>1. row.event = e
      OBVIOUS
    <3> HIDE DEF row
    <3> QED  BY <2>2, <3>1
  <2>4. Ledger!SameIdentity(e) = {}
    BY <1>5 DEF Ledger!SameIdentity, IndInv, IdentifiersHeld, RowsIdentified, Holding, Stores
  <2>5. (Ledger!SameMemory(e) = {}) = (pc[w] = "commit_new")
    <3>1. DOMAIN memories = {MemoryKey[r.event] : r \in sources}
      BY DEF IndInv, GraphComplete
    <3>2. CASE pc[w] = "commit_new"
      <4>1. MemoryKey[e] \notin DOMAIN memories
        BY <1>5, <3>2 DEF IndInv, KeysHeld
      <4> QED  BY <3>1, <3>2, <4>1 DEF Ledger!SameMemory
    <3>3. CASE pc[w] = "commit_update"
      <4>1. MemoryKey[e] \in DOMAIN memories
        BY <1>5, <3>3 DEF IndInv, SessionOK
      <4> QED  BY <3>1, <3>3, <4>1 DEF Ledger!SameMemory
    <3> QED  BY <1>5, <3>2, <3>3 DEF Stores
  <2>6. \/ reply' = [reply EXCEPT ![w] = Stored(e, pc[w] = "commit_new")]
        \/ reply' = [reply EXCEPT ![w] = Ledger!Refusal("unavailable")]
    BY <1>5 DEF Stores, Failure, Ledger!Refusal
  <2>7. Stored(e, pc[w] = "commit_new") = Ledger!Reported(e, "stored", Ledger!SameMemory(e) = {})
    BY <2>5, SameCardinality DEF Stored, Ledger!Reported
  <2>8. Ledger!ReceiptsOf(e) = NewLinks(e)
    BY DEF Ledger!ReceiptsOf, NewLinks
  <2> QED  BY <2>2, <2>3, <2>4, <2>6, <2>7, <2>8
        DEF Ledger!Record, Ledger!RecordUnheard
<1>6. ASSUME NEW w \in Workers, NEW e \in Events, Begin(w, e)
      PROVE  \/ UNCHANGED Ledger!lvars
             \/ Ledger!Refuse(w) \/ Ledger!Forget(w) \/ Ledger!Replay(w, e)
  <2>1. CASE RejectPayload(w, e) \/ RejectTime(w, e)
    BY <1>1, <2>1 DEF RejectPayload, RejectTime
  <2>2. CASE ReplayKnown(w, e)
    BY <1>2, <2>2 DEF ReplayKnown
  <2>3. CASE StartSource(w, e)
    BY <1>4, <2>3 DEF StartSource
  <2> QED  BY <1>6, <2>1, <2>2, <2>3 DEF Begin
<1>7. ASSUME NEW w \in Workers, Continue(w)
      PROVE  \/ UNCHANGED Ledger!lvars
             \/ Ledger!Refuse(w) \/ Ledger!Forget(w)
             \/ \E e \in Events : \/ Ledger!Record(w, e) \/ Ledger!RecordUnheard(w, e)
                                  \/ Ledger!Replay(w, e)
  <2>1. CASE FindAfterRace(w)
    <3>1. FindSource(SourceIdentifier[req[w]]) # {} /\ req[w] \in Events
      BY <2>1 DEF FindAfterRace, IndInv, RaceWasLost, SessionOK
    <3> QED  BY <1>2, <2>1, <3>1 DEF FindAfterRace
  <2>2. CASE RejectMetrics(w)
    BY <1>1, <2>2 DEF RejectMetrics
  <2>3. CASE FlushMemory(w)
    BY <1>1, <1>4, <2>3 DEF FlushMemory
  <2>4. CASE CommitNewMemory(w) \/ CommitUpdatedMemory(w)
    <3>1. Stores(w)
      BY <2>4, CommitStores
    <3>2. PICK e \in Events : e = req[w]
      BY <3>1 DEF Stores, IndInv, SessionOK
    <3> QED  BY <1>5, <3>1, <3>2
  <2>5. CASE FlushSource(w) \/ SelectMemory(w)
    BY <1>4, <2>5 DEF FlushSource, SelectMemory
  <2>6. CASE Respond(w)
    BY <1>3, <2>6 DEF Respond, Idle
  <2> QED  BY <1>7, <2>1, <2>2, <2>3, <2>4, <2>5, <2>6 DEF Continue
<1>8. ASSUME NEW w \in Workers, Fault(w)
      PROVE  \/ Ledger!Refuse(w) \/ Ledger!Forget(w)
             \/ \E e \in Events : Ledger!Record(w, e) \/ Ledger!RecordUnheard(w, e)
  <2>1. CASE Crash(w)
    BY <1>3, <2>1 DEF Crash, Idle
  <2>2. CASE CommitFails(w) /\ ~UNCHANGED tables
    <3>1. Stores(w)
      BY <2>2, CommitStores
    <3>2. PICK e \in Events : e = req[w]
      BY <3>1 DEF Stores, IndInv, SessionOK
    <3> QED  BY <1>5, <3>1, <3>2
  <2>3. CASE ~Crash(w) /\ ~(CommitFails(w) /\ ~UNCHANGED tables)
    BY <1>1, <1>8, <2>3 DEF Fault, LookupFails, StatementFails, CommitFails
  <2> QED  BY <2>1, <2>2, <2>3
<1>9. CASE UNCHANGED vars
  BY <1>4, <1>9 DEF vars, tables
<1> HIDE DEF Goto, Return
<1> QED  BY <1>6, <1>7, <1>8, <1>9 DEF Next, Ledger!Next

\* The program implements the ledger: recorded once, replayed from the record, or refused.
THEOREM ImplementsEventLedger == Spec => ImplementsLedger
<1>1. Init => Ledger!Init
  BY DEF Init, Ledger!Init
<1>2. IndInv /\ [Next]_vars => [Ledger!Next]_(Ledger!lvars)
  BY LedgerStep
<1> QED  BY <1>1, <1>2, Invariance, PTL DEF Spec, ImplementsLedger, Ledger!Spec

=============================================================================
