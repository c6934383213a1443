--------------------- MODULE OperationalIngestion_proofs ---------------------
(***************************************************************************)
(* Proofs about OperationalIngestion, for any number of threads, payloads, *)
(* identifiers and memories.                                               *)
(***************************************************************************)
EXTENDS OperationalIngestion, FiniteSetTheorems, FunctionTheorems, TLAPS

-----------------------------------------------------------------------------
(* Rows and answers *)

\* _extract_evidence yields as many rows as it finds items, all of one source.
LEMMA EvidenceRows ==
    ASSUME NEW s \in SourceIds, NEW E \in SUBSET Items
    PROVE  /\ IsFiniteSet([source : {s}, item : E])
           /\ Cardinality([source : {s}, item : E]) = Cardinality(E)
<1> DEFINE f == [i \in E |-> [source |-> s, item |-> i]]
<1>1. IsFiniteSet(E)
  BY DomainAssumption, FS_Subset
<1>2. f \in [E -> [source : {s}, item : E]]
  OBVIOUS
<1>3. \A i, j \in E : f[i] = f[j] => i = j
  OBVIOUS
<1>4. \A r \in [source : {s}, item : E] : \E i \in E : f[i] = r
  OBVIOUS
<1>5. f \in Bijection(E, [source : {s}, item : E])
  BY <1>2, <1>3, <1>4, Fun_IsBij
<1> QED
  BY <1>1, <1>5, FS_Bijection DEF ExistsBijection

\* One provenance link per item of evidence.
LEMMA LinkRows ==
    ASSUME NEW s \in SourceIds, NEW E \in SUBSET Items, NEW k \in MemoryKeys
    PROVE  /\ IsFiniteSet([source : {s}, item : E, memory : {k}])
           /\ Cardinality([source : {s}, item : E, memory : {k}]) = Cardinality(E)
<1> DEFINE f == [i \in E |-> [source |-> s, item |-> i, memory |-> k]]
<1>1. IsFiniteSet(E)
  BY DomainAssumption, FS_Subset
<1>2. f \in [E -> [source : {s}, item : E, memory : {k}]]
  OBVIOUS
<1>3. \A i, j \in E : f[i] = f[j] => i = j
  OBVIOUS
<1>4. \A r \in [source : {s}, item : E, memory : {k}] : \E i \in E : f[i] = r
  OBVIOUS
<1>5. f \in Bijection(E, [source : {s}, item : E, memory : {k}])
  BY <1>2, <1>3, <1>4, Fun_IsBij
<1> QED
  BY <1>1, <1>5, FS_Bijection DEF ExistsBijection

-----------------------------------------------------------------------------
(* The inductive invariant *)

Holding == {"extract", "flush_memory", "commit_new", "commit_update"}

\* What an open transaction has in its session when it reaches a statement.
SessionOK ==
    \A w \in Workers :
        /\ pc[w] # "idle" => req[w] \in Events
        /\ pc[w] \in Holding \cup {"flush_source"} => at[w] \in Times
        /\ pc[w] = "commit_update" =>
              seen[w] \in MemoryRecord /\ MemoryKey[req[w]] \in DOMAIN memories

\* An identifier held by an open transaction is stored by no other, open or committed.
IdentifiersHeld ==
    /\ \A w \in Workers : pc[w] \in Holding =>
          \A r \in sources : r.id # SourceIdentifier[req[w]]
    /\ \A v, w \in Workers : (v # w /\ pc[v] \in Holding /\ pc[w] \in Holding) =>
          SourceIdentifier[req[v]] # SourceIdentifier[req[w]]

\* The same of the memory key of a new memory.
KeysHeld ==
    /\ \A w \in Workers : pc[w] = "commit_new" => MemoryKey[req[w]] \notin DOMAIN memories
    /\ \A v, w \in Workers : (v # w /\ pc[v] = "commit_new" /\ pc[w] = "commit_new") =>
          MemoryKey[req[v]] # MemoryKey[req[w]]

\* A thread that lost a race has a committed source to find.
RaceWasLost ==
    \A w \in Workers : pc[w] = "refind" => FindSource(SourceIdentifier[req[w]]) # {}

\* The identifier of a row is that of its event.
RowsIdentified == \A r \in sources : r.id = SourceIdentifier[r.event]

IndInv ==
    /\ TypeOK /\ SessionOK /\ IdentifiersHeld /\ KeysHeld /\ RaceWasLost
    /\ RowsIdentified /\ StoredOnce /\ GraphComplete

-----------------------------------------------------------------------------
(* Types *)

LEMMA FailureType ==
    ASSUME NEW st \in {"invalid", "failed", "unavailable"} PROVE Failure(st) \in Answer
BY DEF Failure, Answer

LEMMA StoredType ==
    ASSUME NEW e \in Events, NEW b \in BOOLEAN PROVE Stored(e, b) \in Answer
<1>1. Cardinality(Evidence[e]) \in Nat
  BY PayloadAssumption, DomainAssumption, FS_Subset, FS_CardinalityType
<1> QED  BY <1>1, PayloadAssumption DEF Stored, Answer

-----------------------------------------------------------------------------
(* A replay reports the graph of the one stored source *)

LEMMA GraphOfSource ==
    ASSUME IndInv, NEW r \in sources
    PROVE  /\ EvidenceOf(r.id) = ExtractedEvidence(r.event)
           /\ LinksOf(r.id) = NewLinks(r.event)
<1> USE DEF IndInv
<1>1. \A q \in sources : q.id = r.id => q = r
  BY DEF StoredOnce
<1>2. \A q \in sources : q.id = SourceIdentifier[q.event]
  BY DEF RowsIdentified
<1>3. EvidenceOf(r.id) = ExtractedEvidence(r.event)
  <2>1. \A v \in evidence : v.source = r.id => v \in ExtractedEvidence(r.event)
    BY <1>1, <1>2 DEF GraphComplete, ExtractedEvidence
  <2>2. ExtractedEvidence(r.event) \subseteq evidence
    BY DEF GraphComplete
  <2>3. \A v \in ExtractedEvidence(r.event) : v.source = r.id
    BY <1>2 DEF ExtractedEvidence
  <2> QED  BY <2>1, <2>2, <2>3 DEF EvidenceOf
<1>4. LinksOf(r.id) = NewLinks(r.event)
  <2>1. \A l \in links : l.source = r.id => l \in NewLinks(r.event)
    BY <1>1, <1>2 DEF GraphComplete, NewLinks
  <2>2. NewLinks(r.event) \subseteq links
    BY DEF GraphComplete
  <2>3. \A l \in NewLinks(r.event) : l.source = r.id
    BY <1>2 DEF NewLinks
  <2> QED  BY <2>1, <2>2, <2>3 DEF LinksOf
<1> QED  BY <1>3, <1>4

Replayed(e) ==
    [status |-> "replayed", memory |-> MemoryKey[e], created |-> FALSE,
     evidence |-> Cardinality(Evidence[e]), links |-> Cardinality(Evidence[e])]

LEMMA ReplayedType ==
    ASSUME NEW e \in Events PROVE Replayed(e) \in Answer
<1>1. Cardinality(Evidence[e]) \in Nat
  BY PayloadAssumption, DomainAssumption, FS_Subset, FS_CardinalityType
<1> QED  BY <1>1, PayloadAssumption DEF Replayed, Answer

LEMMA ReplayResult ==
    ASSUME IndInv, NEW r \in sources
    PROVE  ExistingResults(r.id) = {Replayed(r.event)}
<1>1. r \in SourceRecord
  BY DEF IndInv, TypeOK
<1>2. r.event \in Events /\ r.id = SourceIdentifier[r.event]
  BY <1>1 DEF SourceRecord, IndInv, RowsIdentified
<1>3. /\ Evidence[r.event] \in SUBSET Items
      /\ SourceIdentifier[r.event] \in SourceIds
      /\ MemoryKey[r.event] \in MemoryKeys
      /\ Evidence[r.event] # {}
  BY <1>2, PayloadAssumption
<1>0. /\ EvidenceOf(r.id) = ExtractedEvidence(r.event)
      /\ LinksOf(r.id) = NewLinks(r.event)
  BY GraphOfSource
<1> DEFINE L == [source : {SourceIdentifier[r.event]}, item : Evidence[r.event],
                 memory : {MemoryKey[r.event]}]
<1>4. Cardinality(EvidenceOf(r.id)) = Cardinality(Evidence[r.event])
  BY <1>3, <1>0, EvidenceRows DEF ExtractedEvidence
<1>5. Cardinality(LinksOf(r.id)) = Cardinality(Evidence[r.event])
  <2>1. LinksOf(r.id) = L
    BY <1>0 DEF NewLinks
  <2>2. Cardinality(L) = Cardinality(Evidence[r.event])
    BY <1>3, LinkRows
  <2> HIDE DEF L
  <2> QED  BY <2>1, <2>2
<1>6. LinksOf(r.id) # {} /\ {l.memory : l \in LinksOf(r.id)} = {MemoryKey[r.event]}
  <2>1. PICK i : i \in Evidence[r.event]
    BY <1>3
  <2>2. [source |-> SourceIdentifier[r.event], item |-> i, memory |-> MemoryKey[r.event]]
            \in LinksOf(r.id)
    BY <2>1, <1>0 DEF NewLinks
  <2>3. \A l \in LinksOf(r.id) : l.memory = MemoryKey[r.event]
    <3>1. \A l \in L : l.memory = MemoryKey[r.event]
      OBVIOUS
    <3> QED  BY <3>1, <1>0 DEF NewLinks
  <2> QED  BY <2>2, <2>3
<1> QED  BY <1>4, <1>5, <1>6 DEF ExistingResults, Replayed

-----------------------------------------------------------------------------
(* Preservation of the invariant *)

\* A call that ends, however it ends, without having committed anything.
LEMMA EndPreserves ==
    ASSUME IndInv, NEW w \in Workers, UNCHANGED tables,
           NEW l \in {"idle", "respond"}, Goto(w, l),
           NEW e \in Events \cup {None}, l = "respond" => e \in Events,
           req' = [req EXCEPT ![w] = e],
           at' = [at EXCEPT ![w] = None], seen' = [seen EXCEPT ![w] = None],
           NEW a \in Answer \cup {None}, reply' = [reply EXCEPT ![w] = a]
    PROVE  IndInv'
<1> USE DEF IndInv, tables, Goto
<1>1. TypeOK'
  BY DEF TypeOK
<1>2. \A v \in Workers : pc'[v] \notin {"idle", "respond"} =>
          v # w /\ pc'[v] = pc[v] /\ req'[v] = req[v] /\ at'[v] = at[v] /\ seen'[v] = seen[v]
  BY DEF TypeOK
<1>3. SessionOK'
  BY <1>1, <1>2 DEF SessionOK, TypeOK, Holding
<1>4. IdentifiersHeld'
  BY <1>2 DEF IdentifiersHeld, Holding
<1>5. KeysHeld'
  BY <1>2 DEF KeysHeld
<1>6. RaceWasLost'
  BY <1>2 DEF RaceWasLost, FindSource
<1>7. RowsIdentified' /\ StoredOnce' /\ GraphComplete'
  BY DEF RowsIdentified, StoredOnce, GraphComplete, ExtractedEvidence, NewLinks
<1> QED  BY <1>1, <1>3, <1>4, <1>5, <1>6, <1>7

\* The statements that neither commit nor end the call.
LEMMA StartSourcePreserves ==
    ASSUME IndInv, NEW w \in Workers, NEW e \in Events, StartSource(w, e)
    PROVE  IndInv'
<1> USE DEF IndInv, tables, Goto
<1>1. PICK t \in EventTimes[e] : at' = [at EXCEPT ![w] = t]
  BY DEF StartSource
<1>2. t \in Times
  BY <1>1, PayloadAssumption
<1>3. /\ pc' = [pc EXCEPT ![w] = "flush_source"] /\ req' = [req EXCEPT ![w] = e]
      /\ UNCHANGED <<sources, evidence, links, memories, seen, reply>>
  BY DEF StartSource
<1>4. TypeOK'
  BY <1>1, <1>2, <1>3 DEF TypeOK
<1>5. \A v \in Workers : pc'[v] # "flush_source" =>
          v # w /\ pc'[v] = pc[v] /\ req'[v] = req[v] /\ at'[v] = at[v] /\ seen'[v] = seen[v]
  BY <1>1, <1>3 DEF TypeOK
<1>6. SessionOK'
  BY <1>1, <1>2, <1>3 DEF SessionOK, TypeOK, Holding
<1>7. IdentifiersHeld' /\ KeysHeld' /\ RaceWasLost'
  BY <1>3, <1>5 DEF IdentifiersHeld, KeysHeld, RaceWasLost, Holding, FindSource
<1>8. RowsIdentified' /\ StoredOnce' /\ GraphComplete'
  BY <1>3 DEF RowsIdentified, StoredOnce, GraphComplete, ExtractedEvidence, NewLinks
<1> QED  BY <1>4, <1>6, <1>7, <1>8

LEMMA FlushSourcePreserves ==
    ASSUME IndInv, NEW w \in Workers, FlushSource(w)
    PROVE  IndInv'
<1> USE DEF IndInv, tables, Goto
<1> DEFINE s == SourceIdentifier[req[w]]
<1>1. /\ pc[w] = "flush_source" /\ SourceFree(w, s)
      /\ pc' = [pc EXCEPT ![w] = IF FindSource(s) = {} THEN "extract" ELSE "refind"]
      /\ UNCHANGED <<sources, evidence, links, memories, req, at, seen, reply>>
  BY DEF FlushSource
<1>2. TypeOK'
  BY <1>1 DEF TypeOK
<1>3. SessionOK'
  BY <1>1 DEF SessionOK, TypeOK, Holding
<1>4. \A v \in Workers \ {w} : pc[v] \in Holding => SourceIdentifier[req[v]] # s
  BY <1>1 DEF SourceFree, HoldsSource, Holding
<1>5. pc'[w] \in Holding => \A r \in sources : r.id # s
  BY <1>1 DEF TypeOK, Holding, FindSource
<1>6. \A v \in Workers \ {w} : pc'[v] = pc[v]
  BY <1>1 DEF TypeOK
<1>7. IdentifiersHeld'
  BY <1>1, <1>4, <1>5, <1>6 DEF IdentifiersHeld, TypeOK
<1>8. KeysHeld'
  BY <1>1 DEF KeysHeld, TypeOK
<1>9. RaceWasLost'
  BY <1>1 DEF RaceWasLost, FindSource, TypeOK
<1>10. RowsIdentified' /\ StoredOnce' /\ GraphComplete'
  BY <1>1 DEF RowsIdentified, StoredOnce, GraphComplete, ExtractedEvidence, NewLinks
<1> QED  BY <1>2, <1>3, <1>7, <1>8, <1>9, <1>10

LEMMA SelectMemoryPreserves ==
    ASSUME IndInv, NEW w \in Workers, SelectMemory(w)
    PROVE  IndInv'
<1> USE DEF IndInv, tables, Goto
<1> DEFINE k == MemoryKey[req[w]]
<1>1. /\ pc[w] = "extract"
      /\ UNCHANGED <<sources, evidence, links, memories, req, at, reply>>
      /\ \/ /\ k \in DOMAIN memories /\ seen' = [seen EXCEPT ![w] = memories[k]]
            /\ pc' = [pc EXCEPT ![w] = "commit_update"]
         \/ pc' = [pc EXCEPT ![w] = "flush_memory"] /\ UNCHANGED seen
  BY DEF SelectMemory
<1>2. k \in DOMAIN memories => memories[k] \in MemoryRecord
  BY DEF TypeOK
<1>3. TypeOK'
  BY <1>1, <1>2 DEF TypeOK
<1>4. SessionOK'
  BY <1>1, <1>2 DEF SessionOK, TypeOK, Holding
<1>5. \A v \in Workers : pc'[v] \in Holding <=> pc[v] \in Holding
  BY <1>1 DEF TypeOK, Holding
<1>6. IdentifiersHeld'
  BY <1>1, <1>5 DEF IdentifiersHeld
<1>7. KeysHeld' /\ RaceWasLost'
  BY <1>1 DEF KeysHeld, RaceWasLost, FindSource, TypeOK
<1>8. RowsIdentified' /\ StoredOnce' /\ GraphComplete'
  BY <1>1 DEF RowsIdentified, StoredOnce, GraphComplete, ExtractedEvidence, NewLinks
<1> QED  BY <1>3, <1>4, <1>6, <1>7, <1>8

LEMMA FlushMemoryPreserves ==
    ASSUME IndInv, NEW w \in Workers, pc[w] = "flush_memory",
           MemoryFree(w, MemoryKey[req[w]]), MemoryKey[req[w]] \notin DOMAIN memories,
           Goto(w, "commit_new"), UNCHANGED <<tables, req, at, seen, reply>>
    PROVE  IndInv'
<1> USE DEF IndInv, tables, Goto
<1>1. TypeOK'
  BY DEF TypeOK
<1>2. SessionOK'
  BY DEF SessionOK, TypeOK, Holding
<1>3. \A v \in Workers : pc'[v] \in Holding <=> pc[v] \in Holding
  BY DEF TypeOK, Holding
<1>4. IdentifiersHeld'
  BY <1>3 DEF IdentifiersHeld
<1>5. KeysHeld' /\ RaceWasLost'
  BY DEF KeysHeld, RaceWasLost, FindSource, TypeOK, MemoryFree, HoldsMemory
<1>6. RowsIdentified' /\ StoredOnce' /\ GraphComplete'
  BY DEF RowsIdentified, StoredOnce, GraphComplete, ExtractedEvidence, NewLinks
<1> QED  BY <1>1, <1>2, <1>4, <1>5, <1>6

\* The commits: the graph of one new source becomes visible at once.
LEMMA CommitPreserves ==
    ASSUME IndInv, NEW w \in Workers, pc[w] \in {"commit_new", "commit_update"},
           StoreGraph(w), UNCHANGED req,
           DOMAIN memories' = DOMAIN memories \cup {MemoryKey[req[w]]},
           memories' \in [DOMAIN memories' -> MemoryRecord],
           NEW a \in Answer, Return(w, a)
    PROVE  IndInv'
<1> USE DEF IndInv, Goto
<1> DEFINE e == req[w]
           s == SourceIdentifier[e]
           k == MemoryKey[e]
           row == [id |-> s, event |-> e, at |-> at[w]]
<1>1. /\ pc' = [pc EXCEPT ![w] = "respond"] /\ reply' = [reply EXCEPT ![w] = a]
      /\ at' = [at EXCEPT ![w] = None] /\ seen' = [seen EXCEPT ![w] = None]
      /\ sources' = sources \cup {row}
      /\ evidence' = evidence \cup ExtractedEvidence(e)
      /\ links' = links \cup NewLinks(e)
  BY DEF Return, StoreGraph
<1>2. e \in Events /\ at[w] \in Times /\ s \in SourceIds /\ k \in MemoryKeys
      /\ Evidence[e] \subseteq Items
  BY PayloadAssumption DEF SessionOK, Holding
<1>3. \A r \in sources : r.id # s
  BY DEF IdentifiersHeld, Holding
<1>4. \A v \in Workers \ {w} : pc[v] \in Holding => SourceIdentifier[req[v]] # s
  BY DEF IdentifiersHeld, Holding
<1>5. \A v \in Workers \ {w} : pc[v] = "commit_new" => MemoryKey[req[v]] # k
  <2>1. CASE pc[w] = "commit_new"
    BY <2>1 DEF KeysHeld
  <2>2. CASE pc[w] = "commit_update"
    BY <2>2 DEF KeysHeld, SessionOK
  <2> QED  BY <2>1, <2>2
<1>6. TypeOK'
  <2>1. row \in SourceRecord
    BY <1>2 DEF SourceRecord
  <2>2. ExtractedEvidence(e) \subseteq EvidenceRecord
    BY <1>2 DEF ExtractedEvidence, EvidenceRecord
  <2>3. NewLinks(e) \subseteq ProvenanceLink
    BY <1>2 DEF NewLinks, ProvenanceLink
  <2>4. sources' \subseteq SourceRecord /\ evidence' \subseteq EvidenceRecord
        /\ links' \subseteq ProvenanceLink
    BY <1>1, <2>1, <2>2, <2>3 DEF TypeOK
  <2>5. DOMAIN memories' \subseteq MemoryKeys
    BY <1>2 DEF TypeOK
  <2> QED  BY <1>1, <2>4, <2>5 DEF TypeOK
<1>7. \A v \in Workers : pc'[v] # "respond" =>
          v # w /\ pc'[v] = pc[v] /\ at'[v] = at[v] /\ seen'[v] = seen[v]
  BY <1>1 DEF TypeOK
<1>8. SessionOK'
  BY <1>1, <1>2, <1>7 DEF SessionOK, TypeOK, Holding
<1>9. IdentifiersHeld'
  <2>1. \A v \in Workers : pc'[v] \in Holding => v # w /\ pc[v] \in Holding
    BY <1>7 DEF Holding
  <2>2. \A v \in Workers : pc'[v] \in Holding =>
            \A r \in sources' : r.id # SourceIdentifier[req[v]]
    BY <1>1, <1>4, <2>1 DEF IdentifiersHeld
  <2> QED  BY <2>1, <2>2 DEF IdentifiersHeld
<1>10. KeysHeld'
  BY <1>5, <1>7 DEF KeysHeld
<1>11. RaceWasLost'
  BY <1>1, <1>7 DEF RaceWasLost, FindSource
<1>12. RowsIdentified' /\ StoredOnce'
  BY <1>1, <1>3 DEF RowsIdentified, StoredOnce
<1>13. GraphComplete'
  <2>1. evidence' = UNION {ExtractedEvidence(r.event) : r \in sources'}
    <3> DEFINE Rows(r) == ExtractedEvidence(r.event)
    <3>1. evidence = UNION {Rows(r) : r \in sources}
      BY DEF GraphComplete
    <3>2. evidence' = evidence \cup Rows(row) /\ sources' = sources \cup {row}
      BY <1>1
    <3> HIDE DEF Rows
    <3>4. evidence' = UNION {Rows(r) : r \in sources'}
      BY <3>1, <3>2
    <3> QED  BY <3>4 DEF Rows
  <2>2. links' = UNION {NewLinks(r.event) : r \in sources'}
    <3> DEFINE Rows(r) == NewLinks(r.event)
    <3>1. links = UNION {Rows(r) : r \in sources}
      BY DEF GraphComplete
    <3>2. links' = links \cup Rows(row) /\ sources' = sources \cup {row}
      BY <1>1
    <3> HIDE DEF Rows
    <3>4. links' = UNION {Rows(r) : r \in sources'}
      BY <3>1, <3>2
    <3> QED  BY <3>4 DEF Rows
  <2>3. DOMAIN memories' = {MemoryKey[r.event] : r \in sources'}
    <3> DEFINE Key(r) == MemoryKey[r.event]
    <3>1. DOMAIN memories = {Key(r) : r \in sources}
      BY DEF GraphComplete
    <3>2. DOMAIN memories' = DOMAIN memories \cup {Key(row)} /\ sources' = sources \cup {row}
      BY <1>1
    <3> HIDE DEF Key
    <3>3. DOMAIN memories' = {Key(r) : r \in sources'}
      BY <3>1, <3>2
    <3> QED  BY <3>3 DEF Key
  <2> QED  BY <2>1, <2>2, <2>3 DEF GraphComplete, ExtractedEvidence, NewLinks
<1> QED  BY <1>6, <1>8, <1>9, <1>10, <1>11, <1>12, <1>13

LEMMA UpdateType ==
    ASSUME NEW m \in MemoryRecord, NEW r \in MemoryRecord, NEW t \in Times
    PROVE  UpdatedMemory(m, r, t) \in MemoryRecord
<1>1. Later(r.last, t) \in Times
  BY DEF Later, MemoryRecord
<1>2. Bump(r.trust, TrustCap) \in 0..TrustCap
  BY DomainAssumption DEF Bump, MemoryRecord
<1>3. Bump(r.confidence, ConfidenceCap) \in 0..ConfidenceCap
  BY DomainAssumption DEF Bump, MemoryRecord
<1> QED
  BY <1>1, <1>2, <1>3 DEF UpdatedMemory, Written, MemoryRecord

LEMMA StoreNewPreserves ==
    ASSUME IndInv, NEW w \in Workers, StoreNewMemory(w), UNCHANGED req,
           NEW a \in Answer, Return(w, a)
    PROVE  IndInv'
<1> DEFINE k == MemoryKey[req[w]]
<1>1. pc[w] = "commit_new" /\ StoreGraph(w)
      /\ memories' = [m \in DOMAIN memories \cup {k} |->
                         IF m = k THEN NewMemory(at[w]) ELSE memories[m]]
  BY DEF StoreNewMemory
<1>2. at[w] \in Times
  BY <1>1 DEF IndInv, SessionOK, Holding
<1>3. NewMemory(at[w]) \in MemoryRecord
  BY <1>2, DomainAssumption DEF NewMemory, MemoryRecord
<1>4. DOMAIN memories' = DOMAIN memories \cup {k}
  BY <1>1
<1>5. memories' \in [DOMAIN memories' -> MemoryRecord]
  BY <1>1, <1>3, <1>4 DEF IndInv, TypeOK
<1> QED  BY <1>1, <1>4, <1>5, CommitPreserves

LEMMA StoreUpdatedPreserves ==
    ASSUME IndInv, NEW w \in Workers, StoreUpdatedMemory(w), UNCHANGED req,
           NEW a \in Answer, Return(w, a)
    PROVE  IndInv'
<1> DEFINE k == MemoryKey[req[w]]
<1>1. pc[w] = "commit_update" /\ StoreGraph(w)
      /\ memories' = [memories EXCEPT ![k] = UpdatedMemory(memories[k], seen[w], at[w])]
  BY DEF StoreUpdatedMemory
<1>2. at[w] \in Times /\ seen[w] \in MemoryRecord /\ k \in DOMAIN memories
  BY <1>1 DEF IndInv, SessionOK, Holding
<1>3. UpdatedMemory(memories[k], seen[w], at[w]) \in MemoryRecord
  BY <1>2, UpdateType DEF IndInv, TypeOK
<1>4. DOMAIN memories' = DOMAIN memories \cup {k}
  BY <1>1, <1>2
<1>5. memories' \in [DOMAIN memories' -> MemoryRecord]
  BY <1>1, <1>2, <1>3, <1>4 DEF IndInv, TypeOK
<1> QED  BY <1>1, <1>4, <1>5, CommitPreserves

LEMMA FoundType ==
    ASSUME IndInv, NEW s, FindSource(s) # {}
    PROVE  /\ ExistingResults(s) \subseteq Answer
           /\ \E r \in sources : r.id = s /\ ExistingResults(s) = {Replayed(r.event)}
<1>1. PICK r \in sources : r.id = s
  BY DEF FindSource
<1>2. r.event \in Events
  BY DEF IndInv, TypeOK, SourceRecord
<1> QED  BY <1>1, <1>2, ReplayResult, ReplayedType

LEMMA BeginPreserves ==
    ASSUME IndInv, NEW w \in Workers, NEW e \in Events, Begin(w, e) PROVE IndInv'
<1>1. CASE RejectPayload(w, e)
  BY <1>1, EndPreserves, FailureType DEF RejectPayload, Return
<1>2. CASE ReplayKnown(w, e)
  <2>1. PICK a \in ExistingResults(SourceIdentifier[e]) : Return(w, a)
    BY <1>2 DEF ReplayKnown
  <2>2. a \in Answer
    BY <1>2, <2>1, FoundType DEF ReplayKnown
  <2> QED  BY <1>2, <2>1, <2>2, EndPreserves DEF ReplayKnown, Return
<1>3. CASE RejectTime(w, e)
  BY <1>3, EndPreserves, FailureType DEF RejectTime, Return
<1>4. CASE StartSource(w, e)
  BY <1>4, StartSourcePreserves
<1> QED  BY <1>1, <1>2, <1>3, <1>4 DEF Begin

LEMMA ContinuePreserves ==
    ASSUME IndInv, NEW w \in Workers, Continue(w) PROVE IndInv'
<1>1. pc[w] # "idle" => req[w] \in Events /\ (req' = req => req' = [req EXCEPT ![w] = req[w]])
  BY DEF IndInv, TypeOK, SessionOK
<1>2. CASE FlushSource(w)
  BY <1>2, FlushSourcePreserves
<1>3. CASE FindAfterRace(w)
  <2>1. FindSource(SourceIdentifier[req[w]]) # {}
    BY <1>3 DEF FindAfterRace, IndInv, RaceWasLost
  <2>2. PICK a \in ExistingResults(SourceIdentifier[req[w]]) : Return(w, a)
    BY <1>3, <2>1 DEF FindAfterRace
  <2>3. a \in Answer
    BY <2>1, <2>2, FoundType
  <2> QED  BY <1>1, <1>3, <2>2, <2>3, EndPreserves DEF FindAfterRace, Return
<1>4. CASE RejectMetrics(w)
  BY <1>1, <1>4, EndPreserves, FailureType DEF RejectMetrics, Return
<1>5. CASE SelectMemory(w)
  BY <1>5, SelectMemoryPreserves
<1>6. CASE FlushMemory(w)
  <2>1. CASE Defect[req[w]] = "memory_key" \/ MemoryKey[req[w]] \in DOMAIN memories
    BY <1>1, <1>6, <2>1, EndPreserves, FailureType DEF FlushMemory, Return
  <2>2. CASE ~(Defect[req[w]] = "memory_key" \/ MemoryKey[req[w]] \in DOMAIN memories)
    BY <1>6, <2>2, FlushMemoryPreserves DEF FlushMemory
  <2> QED  BY <2>1, <2>2
<1>7. CASE CommitNewMemory(w)
  BY <1>1, <1>7, StoredType, StoreNewPreserves DEF CommitNewMemory, StoreNewMemory
<1>8. CASE CommitUpdatedMemory(w)
  BY <1>1, <1>8, StoredType, StoreUpdatedPreserves DEF CommitUpdatedMemory, StoreUpdatedMemory
<1>9. CASE Respond(w)
  BY <1>9, EndPreserves DEF Respond, Idle
<1> QED  BY <1>2, <1>3, <1>4, <1>5, <1>6, <1>7, <1>8, <1>9 DEF Continue

LEMMA FaultPreserves ==
    ASSUME IndInv, NEW w \in Workers, Fault(w) PROVE IndInv'
<1>1. pc[w] # "idle" => req[w] \in Events /\ (req' = req => req' = [req EXCEPT ![w] = req[w]])
  BY DEF IndInv, TypeOK, SessionOK
<1>2. ASSUME NEW e \in Events, LookupFails(w, e) PROVE IndInv'
  BY <1>2, EndPreserves, FailureType DEF LookupFails, Return
<1>3. CASE StatementFails(w)
  BY <1>1, <1>3, EndPreserves, FailureType DEF StatementFails, Return
<1>4. CASE CommitFails(w)
  <2>1. CASE UNCHANGED tables
    BY <1>1, <1>4, <2>1, EndPreserves, FailureType DEF CommitFails, Return
  <2>2. CASE StoreNewMemory(w)
    BY <1>4, <2>2, StoreNewPreserves, FailureType DEF CommitFails
  <2>3. CASE StoreUpdatedMemory(w)
    BY <1>4, <2>3, StoreUpdatedPreserves, FailureType DEF CommitFails
  <2> QED  BY <1>4, <2>1, <2>2, <2>3 DEF CommitFails
<1>5. CASE Crash(w)
  BY <1>5, EndPreserves DEF Crash, Idle
<1> QED  BY <1>2, <1>3, <1>4, <1>5 DEF Fault

LEMMA InitInv == Init => IndInv
BY DEF Init, IndInv, TypeOK, SessionOK, IdentifiersHeld, KeysHeld, RaceWasLost, Holding,
       RowsIdentified, StoredOnce, GraphComplete

LEMMA StepInv == IndInv /\ [Next]_vars => IndInv'
<1> SUFFICES ASSUME IndInv, [Next]_vars PROVE IndInv'
  OBVIOUS
<1>1. ASSUME NEW w \in Workers, NEW e \in Events, Begin(w, e) PROVE IndInv'
  BY <1>1, BeginPreserves
<1>2. ASSUME NEW w \in Workers, Continue(w) PROVE IndInv'
  BY <1>2, ContinuePreserves
<1>3. ASSUME NEW w \in Workers, Fault(w) PROVE IndInv'
  BY <1>3, FaultPreserves
<1>4. CASE UNCHANGED vars
  BY <1>4 DEF vars, IndInv, TypeOK, SessionOK, IdentifiersHeld, KeysHeld, RaceWasLost,
       FindSource, RowsIdentified, StoredOnce, GraphComplete, ExtractedEvidence, NewLinks
<1> QED  BY <1>1, <1>2, <1>3, <1>4 DEF Next

THEOREM Invariance == Spec => []IndInv
BY InitInv, StepInv, PTL DEF Spec

\* Every variable always has its type.
THEOREM TypeCorrect == Spec => []TypeOK
<1>1. IndInv => TypeOK
  BY DEF IndInv
<1> QED  BY <1>1, Invariance, PTL

\* However duplicates race, an identifier is stored at most once.
THEOREM Idempotent == Spec => []StoredOnce
<1>1. IndInv => StoredOnce
  BY DEF IndInv
<1> QED  BY <1>1, Invariance, PTL

\* Sources, evidence, links and memories always fit together: no memory is without receipts.
THEOREM EveryMemoryHasReceipts == Spec => []GraphComplete
<1>1. IndInv => GraphComplete
  BY DEF IndInv
<1> QED  BY <1>1, Invariance, PTL

-----------------------------------------------------------------------------
(* What every step does to the tables *)

\* Stores(w): the step of w that makes one new source, and its memory, visible, whether or
\* not w learns that its commit succeeded.
Stores(w) ==
    LET e == req[w] k == MemoryKey[e] IN
    /\ pc[w] \in {"commit_new", "commit_update"}
    /\ StoreGraph(w)
    /\ DOMAIN memories' = DOMAIN memories \cup {k}
    /\ \A m \in DOMAIN memories \ {k} : memories'[m] = memories[m]
    /\ pc[w] = "commit_new" => memories'[k] = NewMemory(at[w])
    /\ pc[w] = "commit_update" => memories'[k] = UpdatedMemory(memories[k], seen[w], at[w])
    /\ Return(w, Stored(e, pc[w] = "commit_new")) \/ Return(w, Failure("unavailable"))
    /\ UNCHANGED req

LEMMA CommitStores ==
    ASSUME IndInv, NEW w \in Workers,
           \/ CommitNewMemory(w) \/ CommitUpdatedMemory(w)
           \/ CommitFails(w) /\ ~UNCHANGED tables
    PROVE  Stores(w)
<1>1. CASE StoreNewMemory(w)
  BY <1>1 DEF StoreNewMemory, CommitNewMemory, CommitUpdatedMemory, StoreUpdatedMemory,
       CommitFails, Stores
<1>2. CASE StoreUpdatedMemory(w)
  <2>1. MemoryKey[req[w]] \in DOMAIN memories
    BY <1>2 DEF StoreUpdatedMemory, IndInv, SessionOK
  <2> QED  BY <1>2, <2>1 DEF StoreUpdatedMemory, CommitUpdatedMemory, CommitNewMemory,
             StoreNewMemory, CommitFails, Stores, IndInv, TypeOK
<1> QED  BY <1>1, <1>2 DEF CommitNewMemory, CommitUpdatedMemory, CommitFails

LEMMA StepStores ==
    ASSUME IndInv, [Next]_vars
    PROVE  UNCHANGED tables \/ \E w \in Workers : Stores(w)
<1>1. ASSUME NEW w \in Workers, NEW e \in Events, Begin(w, e) PROVE UNCHANGED tables
  BY <1>1 DEF Begin, RejectPayload, ReplayKnown, RejectTime, StartSource, tables
<1>2. ASSUME NEW w \in Workers, Fault(w) PROVE UNCHANGED tables \/ Stores(w)
  <2>1. CASE CommitFails(w)
    BY <2>1, CommitStores
  <2>2. CASE ~CommitFails(w)
    BY <1>2, <2>2 DEF Fault, LookupFails, StatementFails, Crash, Idle
  <2> QED  BY <2>1, <2>2
<1>5. ASSUME NEW w \in Workers, Continue(w)
      PROVE  UNCHANGED tables \/ Stores(w)
  BY <1>5, CommitStores DEF Continue, FlushSource, FindAfterRace, RejectMetrics, SelectMemory,
       FlushMemory, Respond, Idle, tables
<1>6. CASE UNCHANGED vars
  BY <1>6 DEF vars, tables
<1> QED  BY <1>1, <1>2, <1>5, <1>6 DEF Next

\* A memory changes only in the step that stores one new source for it.
THEOREM OnlyNewSourcesChangeMemories == Spec => ChangedOnlyByNewSource
<1> DEFINE Change ==
      tables' # tables =>
          \E e \in Events, t \in Times :
              /\ FindSource(SourceIdentifier[e]) = {}
              /\ sources' = sources \cup {[id |-> SourceIdentifier[e], event |-> e, at |-> t]}
              /\ evidence \subseteq evidence' /\ links \subseteq links'
              /\ DOMAIN memories \subseteq DOMAIN memories'
              /\ \A k \in DOMAIN memories \ {MemoryKey[e]} : memories'[k] = memories[k]
<1>1. ASSUME IndInv, [Next]_vars PROVE [Change]_vars
  <2>1. CASE UNCHANGED tables
    BY <2>1
  <2>2. ASSUME NEW w \in Workers, Stores(w) PROVE Change
    <3>1. req[w] \in Events /\ at[w] \in Times
          /\ FindSource(SourceIdentifier[req[w]]) = {}
      BY <1>1, <2>2 DEF IndInv, SessionOK, IdentifiersHeld, Holding, FindSource, Stores
    <3> QED  BY <2>2, <3>1 DEF Stores, StoreGraph
  <2> QED  BY <1>1, <2>1, <2>2, StepStores
<1> QED  BY <1>1, Invariance, PTL DEF Spec, ChangedOnlyByNewSource

\* A row in a session is the one it already held, or the committed one it selects now.
LEMMA StepSeen ==
    ASSUME IndInv, [Next]_vars, NEW v \in Workers, pc'[v] = "commit_update"
    PROVE  /\ req'[v] = req[v]
           /\ \/ pc[v] = "commit_update" /\ seen'[v] = seen[v]
              \/ /\ UNCHANGED tables
                 /\ MemoryKey[req[v]] \in DOMAIN memories
                 /\ seen'[v] = memories[MemoryKey[req[v]]]
<1> DEFINE Goal ==
      /\ req'[v] = req[v]
      /\ \/ pc[v] = "commit_update" /\ seen'[v] = seen[v]
         \/ /\ UNCHANGED tables
            /\ MemoryKey[req[v]] \in DOMAIN memories
            /\ seen'[v] = memories[MemoryKey[req[v]]]
<1> SUFFICES Goal
  OBVIOUS
<1> USE DEF IndInv, TypeOK, Goto, Return
<1>1. ASSUME NEW w \in Workers, NEW e \in Events, Begin(w, e) PROVE Goal
  BY <1>1 DEF Begin, RejectPayload, ReplayKnown, RejectTime, StartSource
<1>2. ASSUME NEW w \in Workers, Fault(w) PROVE Goal
  BY <1>2 DEF Fault, LookupFails, StatementFails, CommitFails, Crash, Idle
<1>3. ASSUME NEW w \in Workers, Continue(w) PROVE Goal
  <2>1. CASE FlushSource(w)
    BY <2>1 DEF FlushSource
  <2>2. CASE FindAfterRace(w)
    BY <2>2 DEF FindAfterRace
  <2>3. CASE RejectMetrics(w)
    BY <2>3 DEF RejectMetrics
  <2>4. CASE SelectMemory(w)
    BY <2>4 DEF SelectMemory
  <2>5. CASE FlushMemory(w)
    BY <2>5 DEF FlushMemory
  <2>6. CASE CommitNewMemory(w)
    BY <2>6 DEF CommitNewMemory
  <2>7. CASE CommitUpdatedMemory(w)
    BY <2>7 DEF CommitUpdatedMemory
  <2>8. CASE Respond(w)
    BY <2>8 DEF Respond, Idle
  <2> QED
    BY <1>3, <2>1, <2>2, <2>3, <2>4, <2>5, <2>6, <2>7, <2>8 DEF Continue
<1>4. CASE UNCHANGED vars
  BY <1>4 DEF vars
<1> HIDE DEF Goal, IndInv, TypeOK, Goto, Return
<1> QED  BY <1>1, <1>2, <1>3, <1>4 DEF Next

LEMMA StoresNotTables ==
    ASSUME IndInv, NEW w \in Workers, Stores(w) PROVE ~UNCHANGED tables
<1> DEFINE row == [id |-> SourceIdentifier[req[w]], event |-> req[w], at |-> at[w]]
<1>1. row \notin sources
  BY DEF IndInv, IdentifiersHeld, Holding, Stores
<1>2. sources' = sources \cup {row}
  BY DEF Stores, StoreGraph
<1> HIDE DEF row
<1> QED  BY <1>1, <1>2 DEF tables

LEMMA SupportersGrow ==
    ASSUME IndInv, NEW w \in Workers, Stores(w)
    PROVE  \E row :
              /\ row.at = at[w]
              /\ Supporters(MemoryKey[req[w]])' = Supporters(MemoryKey[req[w]]) \cup {row}
              /\ row \notin Supporters(MemoryKey[req[w]])
              /\ \A k \in MemoryKeys \ {MemoryKey[req[w]]} : Supporters(k)' = Supporters(k)
<1> DEFINE s == SourceIdentifier[req[w]]
           row == [id |-> s, event |-> req[w], at |-> at[w]]
<1>1. sources' = sources \cup {row} /\ req' = req
  BY DEF Stores, StoreGraph
<1>2. row \notin sources
  BY DEF IndInv, IdentifiersHeld, Holding, Stores
<1>3. Supporters(MemoryKey[req[w]])' = Supporters(MemoryKey[req[w]]) \cup {row}
  BY <1>1 DEF Supporters
<1>4. row \notin Supporters(MemoryKey[req[w]])
  BY <1>2 DEF Supporters
<1>5. \A k \in MemoryKeys \ {MemoryKey[req[w]]} : Supporters(k)' = Supporters(k)
  BY <1>1 DEF Supporters
<1> QED  BY <1>3, <1>4, <1>5

LEMMA SupportersFinite ==
    ASSUME IndInv, NEW k
    PROVE  IsFiniteSet(Supporters(k)) /\ Cardinality(Supporters(k)) \in Nat
<1> DEFINE f == [r \in sources |-> r.id]
<1>1. f \in [sources -> SourceIds]
  BY DEF IndInv, TypeOK, SourceRecord
<1>2. \A q, r \in sources : f[q] = f[r] => q = r
  BY DEF IndInv, StoredOnce
<1>3. f \in Injection(sources, SourceIds)
  BY <1>1, <1>2, Fun_IsInj
<1>4. IsFiniteSet(sources)
  BY <1>3, FS_Injection, DomainAssumption
<1>5. Supporters(k) \subseteq sources
  BY DEF Supporters
<1> QED  BY <1>4, <1>5, FS_Subset, FS_CardinalityType


LEMMA SupportersCounted ==
    ASSUME IndInv, NEW w \in Workers, Stores(w), NEW k \in MemoryKeys
    PROVE  /\ Cardinality(Supporters(k)) \in Nat
           /\ Cardinality(Supporters(k))' =
                 Cardinality(Supporters(k)) + IF k = MemoryKey[req[w]] THEN 1 ELSE 0
<1>1. IsFiniteSet(Supporters(k)) /\ Cardinality(Supporters(k)) \in Nat
  BY SupportersFinite
<1>2. PICK row :
         /\ Supporters(MemoryKey[req[w]])' = Supporters(MemoryKey[req[w]]) \cup {row}
         /\ row \notin Supporters(MemoryKey[req[w]])
         /\ \A j \in MemoryKeys \ {MemoryKey[req[w]]} : Supporters(j)' = Supporters(j)
  BY SupportersGrow
<1>3. CASE k = MemoryKey[req[w]]
  <2>1. req' = req
    BY DEF Stores
  <2>2. Supporters(k)' = Supporters(k) \cup {row} /\ row \notin Supporters(k)
    BY <1>2, <1>3, <2>1
  <2>3. Cardinality(Supporters(k) \cup {row}) = Cardinality(Supporters(k)) + 1
    BY <1>1, <2>2, FS_AddElement
  <2> QED  BY <1>1, <1>3, <2>2, <2>3
<1>4. CASE k # MemoryKey[req[w]]
  BY <1>1, <1>2, <1>4
<1> QED  BY <1>3, <1>4

-----------------------------------------------------------------------------
(* Levels *)

Level(m, k) == m.trust < Cardinality(Supporters(k)) /\ m.confidence < Cardinality(Supporters(k))

\* The row a transaction selected supports its levels, like the committed one: the update
\* that adds one to a stale level adds a source as well.
LevelInv ==
    /\ NoTrustInflation
    /\ \A w \in Workers : pc[w] = "commit_update" => Level(seen[w], MemoryKey[req[w]])

LEMMA LevelStep ==
    ASSUME IndInv, IndInv', LevelInv, [Next]_vars PROVE LevelInv'
<1>1. \A w \in Workers : pc[w] # "idle" => MemoryKey[req[w]] \in MemoryKeys
  BY PayloadAssumption DEF IndInv, SessionOK
<1>2. CASE UNCHANGED tables
  <2>1. \A k : Supporters(k)' = Supporters(k)
    BY <1>2 DEF Supporters, tables
  <2>2. NoTrustInflation'
    BY <1>2, <2>1 DEF LevelInv, NoTrustInflation, tables
  <2>3. ASSUME NEW v \in Workers, pc'[v] = "commit_update"
        PROVE  Level(seen[v], MemoryKey[req[v]])'
    <3>1. Level(seen'[v], MemoryKey[req[v]])
      BY <2>3, StepSeen DEF LevelInv, NoTrustInflation, Level
    <3>2. req'[v] = req[v]
      BY <2>3, StepSeen
    <3> QED  BY <2>1, <3>1, <3>2 DEF Level
  <2> QED  BY <2>2, <2>3 DEF LevelInv
<1>3. ASSUME NEW w \in Workers, Stores(w) PROVE LevelInv'
  <2> DEFINE key == MemoryKey[req[w]]
             N(k) == Cardinality(Supporters(k))
             M(k) == Cardinality(Supporters(k))'
  <2>1. /\ pc[w] \in {"commit_new", "commit_update"} /\ req' = req
        /\ DOMAIN memories' = DOMAIN memories \cup {key}
        /\ \A m \in DOMAIN memories \ {key} : memories'[m] = memories[m]
        /\ pc[w] = "commit_new" => memories'[key] = NewMemory(at[w])
        /\ pc[w] = "commit_update" => memories'[key] = UpdatedMemory(memories[key], seen[w], at[w])
    BY <1>3 DEF Stores
  <2>2. \A k \in MemoryKeys : N(k) \in Nat /\ M(k) = N(k) + IF k = key THEN 1 ELSE 0
    BY <1>3, SupportersCounted
  <2>3. key \in MemoryKeys /\ DOMAIN memories \subseteq MemoryKeys
    BY <1>1, <2>1 DEF IndInv, TypeOK
  <2>4. \A k \in DOMAIN memories : memories[k].trust \in Nat /\ memories[k].confidence \in Nat
    BY DomainAssumption DEF IndInv, TypeOK, MemoryRecord
  <2>5. \A k \in DOMAIN memories : memories[k].trust < N(k) /\ memories[k].confidence < N(k)
    BY DEF LevelInv, NoTrustInflation
  <2>6. ASSUME pc[w] = "commit_update" PROVE NoTrustInflation'
    <3>1. /\ seen[w].trust \in Nat /\ seen[w].confidence \in Nat /\ key \in DOMAIN memories
          /\ seen[w].trust < N(key) /\ seen[w].confidence < N(key)
      BY <2>6, DomainAssumption DEF LevelInv, Level, IndInv, SessionOK, MemoryRecord
    <3>2. Bump(seen[w].trust, TrustCap) <= N(key) /\ Bump(seen[w].confidence, ConfidenceCap) <= N(key)
      BY <2>2, <2>3, <3>1 DEF Bump
    <3>3. /\ memories'[key].trust \in {Bump(seen[w].trust, TrustCap), memories[key].trust}
          /\ memories'[key].confidence \in
                {Bump(seen[w].confidence, ConfidenceCap), memories[key].confidence}
      <4>1. memories[key] \in MemoryRecord
        BY <3>1 DEF IndInv, TypeOK
      <4> QED  BY <2>1, <2>6, <4>1 DEF UpdatedMemory, Written, MemoryRecord
    <3>4. Bump(seen[w].trust, TrustCap) \in Nat /\ Bump(seen[w].confidence, ConfidenceCap) \in Nat
      BY <3>1 DEF Bump
    <3>5. memories'[key].trust < M(key) /\ memories'[key].confidence < M(key)
      <4> HIDE DEF N, M
      <4> QED  BY <2>2, <2>3, <2>4, <2>5, <3>1, <3>2, <3>3, <3>4
    <3> HIDE DEF N, M
    <3>6. \A k \in DOMAIN memories' : memories'[k].trust < M(k) /\ memories'[k].confidence < M(k)
      BY <2>1, <2>2, <2>3, <2>4, <2>5, <3>5
    <3> QED  BY <3>6 DEF M, NoTrustInflation
  <2>7. ASSUME pc[w] = "commit_new" PROVE NoTrustInflation'
    <3>1. memories'[key].trust = 0 /\ memories'[key].confidence = 0
      BY <2>1, <2>7 DEF NewMemory
    <3> HIDE DEF N, M
    <3>2. \A k \in DOMAIN memories' : memories'[k].trust < M(k) /\ memories'[k].confidence < M(k)
      BY <2>1, <2>2, <2>3, <2>4, <2>5, <3>1
    <3> QED  BY <3>2 DEF M, NoTrustInflation
  <2>8. NoTrustInflation'
    BY <2>1, <2>6, <2>7
  <2>9. ASSUME NEW v \in Workers, pc'[v] = "commit_update"
        PROVE  Level(seen[v], MemoryKey[req[v]])'
    <3>2. pc[v] = "commit_update" /\ seen'[v] = seen[v] /\ req'[v] = req[v]
      BY <1>3, <2>9, StepSeen, StoresNotTables
    <3>3. Level(seen[v], MemoryKey[req[v]])
      BY <3>2 DEF LevelInv
    <3>4. seen[v].trust \in Nat /\ seen[v].confidence \in Nat
      BY <3>2, DomainAssumption DEF IndInv, SessionOK, MemoryRecord
    <3>5. MemoryKey[req[v]] \in MemoryKeys
      BY <1>1, <3>2
    <3> DEFINE j == MemoryKey[req[v]]
    <3>6. seen[v].trust < N(j) /\ seen[v].confidence < N(j)
      BY <3>3 DEF Level
    <3>7. seen[v].trust < M(j) /\ seen[v].confidence < M(j)
      <4> HIDE DEF N, M, j
      <4>1. j \in MemoryKeys
        BY <3>5 DEF j
      <4> QED  BY <2>2, <3>4, <3>6, <4>1
    <3> QED  BY <3>2, <3>7 DEF Level
  <2> QED  BY <2>8, <2>9 DEF LevelInv
<1> QED  BY <1>2, <1>3, StepStores

\* The levels of a memory never count more than the sources stored for it.
THEOREM TrustNeverInflated == Spec => []NoTrustInflation
<1>1. Init => LevelInv
  BY DEF Init, LevelInv, NoTrustInflation
<1>2. IndInv /\ IndInv' /\ LevelInv /\ [Next]_vars => LevelInv'
  BY LevelStep
<1>3. LevelInv => NoTrustInflation
  BY DEF LevelInv
<1> QED  BY <1>1, <1>2, <1>3, Invariance, PTL DEF Spec

-----------------------------------------------------------------------------
(* The window of instants *)

\* first_seen_at is never written again, so the row a transaction selected is not older.
WindowInv ==
    /\ SeenWindowSupported
    /\ \A w \in Workers : pc[w] = "commit_update" =>
          memories[MemoryKey[req[w]]].first <= seen[w].last

LEMMA WindowStep ==
    ASSUME IndInv, IndInv', WindowInv, [Next]_vars PROVE WindowInv'
<1>0. \A k \in DOMAIN memories : memories[k] \in MemoryRecord
  BY DEF IndInv, TypeOK
<1>1. \A k \in DOMAIN memories :
          /\ memories[k].first \in Nat /\ memories[k].last \in Nat
          /\ memories[k].first <= memories[k].last
          /\ {memories[k].first, memories[k].last} \subseteq {r.at : r \in Supporters(k)}
  BY <1>0, DomainAssumption DEF MemoryRecord, WindowInv, SeenWindowSupported
<1>2. CASE UNCHANGED tables
  <2>1. \A k : Supporters(k)' = Supporters(k)
    BY <1>2 DEF Supporters, tables
  <2>2. SeenWindowSupported'
    BY <1>1, <1>2, <2>1 DEF SeenWindowSupported, tables
  <2>3. ASSUME NEW v \in Workers, pc'[v] = "commit_update"
        PROVE  (memories[MemoryKey[req[v]]].first <= seen[v].last)'
    BY <1>1, <1>2, <2>3, StepSeen DEF WindowInv, tables
  <2> QED  BY <2>2, <2>3 DEF WindowInv
<1>3. ASSUME NEW w \in Workers, Stores(w) PROVE WindowInv'
  <2> DEFINE key == MemoryKey[req[w]]
             In(k) == {r.at : r \in Supporters(k)}
             Of(k) == {r.at : r \in Supporters(k)'}
  <2>1. /\ pc[w] \in {"commit_new", "commit_update"} /\ req' = req
        /\ DOMAIN memories' = DOMAIN memories \cup {key}
        /\ \A m \in DOMAIN memories \ {key} : memories'[m] = memories[m]
        /\ pc[w] = "commit_new" => memories'[key] = NewMemory(at[w])
        /\ pc[w] = "commit_update" => memories'[key] = UpdatedMemory(memories[key], seen[w], at[w])
    BY <1>3 DEF Stores
  <2>2. at[w] \in Nat
    BY <2>1, DomainAssumption DEF IndInv, SessionOK, Holding
  <2>3. /\ at[w] \in Of(key)
        /\ \A k \in MemoryKeys : In(k) \subseteq Of(k)
    <3>1. PICK row :
              /\ row.at = at[w]
              /\ Supporters(MemoryKey[req[w]])' = Supporters(MemoryKey[req[w]]) \cup {row}
              /\ \A k \in MemoryKeys \ {MemoryKey[req[w]]} : Supporters(k)' = Supporters(k)
      BY <1>3, SupportersGrow
    <3>2. Supporters(key)' = Supporters(key) \cup {row}
      BY <2>1, <3>1
    <3>3. ASSUME NEW k \in MemoryKeys PROVE Supporters(k) \subseteq Supporters(k)'
      <4>1. CASE k = key
        BY <2>1, <3>2, <4>1
      <4>2. CASE k # key
        BY <3>1, <4>2
      <4> QED  BY <4>1, <4>2
    <3>4. at[w] \in Of(key)
      BY <3>1, <3>2
    <3> QED  BY <3>3, <3>4
  <2>4. DOMAIN memories \subseteq MemoryKeys
    BY DEF IndInv, TypeOK
  <2>5. /\ memories'[key].first <= memories'[key].last
        /\ {memories'[key].first, memories'[key].last} \subseteq Of(key)
        /\ key \in DOMAIN memories => memories'[key].first = memories[key].first
    <3>1. CASE pc[w] = "commit_new"
      BY <2>1, <2>2, <2>3, <3>1 DEF NewMemory, IndInv, KeysHeld
    <3>2. CASE pc[w] = "commit_update"
      <4>1. seen[w] \in MemoryRecord /\ key \in DOMAIN memories
            /\ memories[key].first <= seen[w].last
        BY <3>2 DEF IndInv, SessionOK, WindowInv
      <4>2. seen[w].last \in Nat
        BY <4>1, DomainAssumption DEF MemoryRecord
      <4>3. /\ memories'[key].first = memories[key].first
            /\ memories'[key].last =
                  Written(seen[w].last, Later(seen[w].last, at[w]), memories[key].last)
        BY <1>0, <2>1, <3>2, <4>1 DEF UpdatedMemory, MemoryRecord
      <4>4. \/ memories'[key].last = memories[key].last
            \/ memories'[key].last = at[w] /\ at[w] > seen[w].last
        BY <2>2, <4>2, <4>3 DEF Written, Later
      <4>6. {memories[key].first, memories[key].last} \subseteq In(key)
        BY <1>1, <4>1
      <4> HIDE DEF In, Of
      <4>5. {memories[key].first, memories[key].last} \subseteq Of(key)
        BY <2>3, <2>4, <4>1, <4>6
      <4> QED  BY <1>1, <2>2, <2>3, <4>1, <4>2, <4>3, <4>4, <4>5
    <3> QED  BY <2>1, <3>1, <3>2
  <2>6. \A k \in DOMAIN memories' :
            /\ memories'[k].first <= memories'[k].last
            /\ {memories'[k].first, memories'[k].last} \subseteq Of(k)
    <3>1. \A k \in DOMAIN memories : {memories[k].first, memories[k].last} \subseteq In(k)
      BY <1>1
    <3> HIDE DEF In, Of
    <3> QED  BY <1>1, <2>1, <2>3, <2>4, <2>5, <3>1
  <2>7. SeenWindowSupported'
    BY <2>6 DEF SeenWindowSupported
  <2>8. ASSUME NEW v \in Workers, pc'[v] = "commit_update"
        PROVE  (memories[MemoryKey[req[v]]].first <= seen[v].last)'
    <3>1. req'[v] = req[v]
      BY <2>8, StepSeen
    <3>2. pc[v] = "commit_update" /\ seen'[v] = seen[v]
      BY <1>3, <2>8, StepSeen, StoresNotTables
    <3>3. MemoryKey[req[v]] \in DOMAIN memories
      BY <3>2 DEF IndInv, SessionOK
    <3>4. memories'[MemoryKey[req[v]]].first = memories[MemoryKey[req[v]]].first
      BY <2>1, <2>5, <3>3
    <3> QED  BY <3>1, <3>2, <3>4 DEF WindowInv
  <2> QED  BY <2>7, <2>8 DEF WindowInv
<1> QED  BY <1>2, <1>3, StepStores

\* first_seen_at and last_seen_at are always instants of stored events, in order.
THEOREM WindowAlwaysSupported == Spec => []SeenWindowSupported
<1>1. Init => WindowInv
  BY DEF Init, WindowInv, SeenWindowSupported
<1>2. IndInv /\ IndInv' /\ WindowInv /\ [Next]_vars => WindowInv'
  BY WindowStep
<1>3. WindowInv => SeenWindowSupported
  BY DEF WindowInv
<1> QED  BY <1>1, <1>2, <1>3, Invariance, PTL DEF Spec

-----------------------------------------------------------------------------
(* Levels and instants, exactly *)

\* While no two transactions are about to update one memory (RowsHeldAlone), the row a
\* transaction selected is the one stored when it commits.
ExactInv ==
    /\ LastSeenIsLatest /\ LevelsCountSources
    /\ \A w \in Workers : pc[w] = "commit_update" => seen[w] = memories[MemoryKey[req[w]]]

\* A level that counts n sources, up to its cap, counts one more after an update.
CountedUpTo(n, cap) == IF n < cap THEN n ELSE cap

LEMMA BumpCounts ==
    ASSUME NEW n \in Int, NEW cap \in Nat
    PROVE  Written(CountedUpTo(n, cap), Bump(CountedUpTo(n, cap), cap), CountedUpTo(n, cap)) =
              CountedUpTo(n + 1, cap)
BY DEF Written, Bump, CountedUpTo

LEMMA ExactUpdate ==
    ASSUME NEW m \in MemoryRecord, NEW t \in Times, NEW n \in Int,
           m.trust = CountedUpTo(n, TrustCap), m.confidence = CountedUpTo(n, ConfidenceCap)
    PROVE  /\ UpdatedMemory(m, m, t).trust = CountedUpTo(n + 1, TrustCap)
           /\ UpdatedMemory(m, m, t).confidence = CountedUpTo(n + 1, ConfidenceCap)
           /\ t <= UpdatedMemory(m, m, t).last /\ m.last <= UpdatedMemory(m, m, t).last
<1>1. /\ UpdatedMemory(m, m, t).trust = Written(m.trust, Bump(m.trust, TrustCap), m.trust)
      /\ UpdatedMemory(m, m, t).confidence =
            Written(m.confidence, Bump(m.confidence, ConfidenceCap), m.confidence)
      /\ UpdatedMemory(m, m, t).last = Written(m.last, Later(m.last, t), m.last)
  BY DEF UpdatedMemory, MemoryRecord
<1>2. m.last \in Nat /\ t \in Nat
  BY DomainAssumption DEF MemoryRecord
<1>3. t <= Written(m.last, Later(m.last, t), m.last)
      /\ m.last <= Written(m.last, Later(m.last, t), m.last)
  BY <1>2 DEF Written, Later
<1> QED  BY <1>1, <1>3, BumpCounts, DomainAssumption

\* A memory that does not exist has no supporters.
LEMMA NewHasNone ==
    ASSUME IndInv, NEW w \in Workers, pc[w] = "commit_new"
    PROVE  Supporters(MemoryKey[req[w]]) = {}
BY DEF IndInv, KeysHeld, GraphComplete, Supporters

LEMMA ExactStep ==
    ASSUME IndInv, IndInv', RowsHeldAlone, ExactInv, [Next]_vars PROVE ExactInv'
<1>1. \A w \in Workers : pc[w] # "idle" => MemoryKey[req[w]] \in MemoryKeys
  BY PayloadAssumption DEF IndInv, SessionOK
<1>2. CASE UNCHANGED tables
  <2>1. \A k : Supporters(k)' = Supporters(k)
    BY <1>2 DEF Supporters, tables
  <2>2. LastSeenIsLatest' /\ LevelsCountSources'
    BY <1>2, <2>1 DEF ExactInv, LastSeenIsLatest, LevelsCountSources, tables
  <2>3. ASSUME NEW v \in Workers, pc'[v] = "commit_update"
        PROVE  (seen[v] = memories[MemoryKey[req[v]]])'
    BY <1>2, <2>3, StepSeen DEF ExactInv, tables
  <2> QED  BY <2>2, <2>3 DEF ExactInv
<1>3. ASSUME NEW w \in Workers, Stores(w) PROVE ExactInv'
  <2> DEFINE key == MemoryKey[req[w]]
             N(k) == Cardinality(Supporters(k))
             M(k) == Cardinality(Supporters(k))'
             In(k) == Supporters(k)
             Of(k) == Supporters(k)'
  <2>1. /\ pc[w] \in {"commit_new", "commit_update"} /\ req' = req
        /\ DOMAIN memories' = DOMAIN memories \cup {key}
        /\ \A m \in DOMAIN memories \ {key} : memories'[m] = memories[m]
        /\ pc[w] = "commit_new" => memories'[key] = NewMemory(at[w])
        /\ pc[w] = "commit_update" => memories'[key] = UpdatedMemory(memories[key], seen[w], at[w])
    BY <1>3 DEF Stores
  <2>2. \A k \in MemoryKeys : N(k) \in Nat /\ M(k) = N(k) + IF k = key THEN 1 ELSE 0
    BY <1>3, SupportersCounted
  <2>3. key \in MemoryKeys /\ DOMAIN memories \subseteq MemoryKeys
    BY <1>1, <2>1 DEF IndInv, TypeOK
  <2>4. at[w] \in Times
    BY <2>1 DEF IndInv, SessionOK, Holding
  <2>5. PICK row : /\ row.at = at[w]
                   /\ Of(key) = In(key) \cup {row}
                   /\ \A k \in MemoryKeys \ {key} : Of(k) = In(k)
    <3>1. PICK row : /\ row.at = at[w]
                     /\ Supporters(MemoryKey[req[w]])' = Supporters(MemoryKey[req[w]]) \cup {row}
                     /\ \A k \in MemoryKeys \ {MemoryKey[req[w]]} :
                           Supporters(k)' = Supporters(k)
      BY <1>3, SupportersGrow
    <3> QED  BY <2>1, <3>1
  <2>6. \A k \in DOMAIN memories :
            /\ memories[k].trust = CountedUpTo(N(k) - 1, TrustCap)
            /\ memories[k].confidence = CountedUpTo(N(k) - 1, ConfidenceCap)
            /\ memories[k] \in MemoryRecord
            /\ \A r \in In(k) : r.at <= memories[k].last
    BY DEF ExactInv, LevelsCountSources, LastSeenIsLatest, CountedUpTo, IndInv, TypeOK
  <2>7. \A r \in In(key) : r.at \in Nat
    BY DomainAssumption DEF IndInv, TypeOK, SourceRecord, Supporters
  <2>8. /\ memories'[key].trust = CountedUpTo(N(key), TrustCap)
        /\ memories'[key].confidence = CountedUpTo(N(key), ConfidenceCap)
        /\ at[w] <= memories'[key].last
        /\ \A r \in In(key) : r.at <= memories'[key].last
    <3>1. CASE pc[w] = "commit_new"
      <4>1. In(key) = {} /\ N(key) = 0
        BY <3>1, NewHasNone, FS_EmptySet
      <4>2. memories'[key] = NewMemory(at[w])
        BY <2>1, <3>1
      <4>3. CountedUpTo(0, TrustCap) = 0 /\ CountedUpTo(0, ConfidenceCap) = 0
        BY DomainAssumption DEF CountedUpTo
      <4>4. at[w] <= at[w]
        <5>1. \A t \in Times : t <= t
          BY DomainAssumption
        <5> QED  BY <2>4, <5>1
      <4>5. /\ memories'[key].trust = 0 /\ memories'[key].confidence = 0
            /\ memories'[key].last = at[w]
        BY <4>2 DEF NewMemory
      <4> HIDE DEF key, N, In
      <4> QED  BY <4>1, <4>3, <4>4, <4>5
    <3>2. CASE pc[w] = "commit_update"
      <4>1. key \in DOMAIN memories /\ seen[w] = memories[key]
        BY <3>2 DEF IndInv, SessionOK, ExactInv
      <4>2. memories'[key] = UpdatedMemory(memories[key], memories[key], at[w])
        BY <2>1, <3>2, <4>1
      <4> HIDE DEF key, N, In
      <4>3. N(key) \in Nat /\ N(key) - 1 \in Int /\ (N(key) - 1) + 1 = N(key)
        BY <2>2, <2>3
      <4>4. /\ memories'[key].trust = CountedUpTo((N(key) - 1) + 1, TrustCap)
            /\ memories'[key].confidence = CountedUpTo((N(key) - 1) + 1, ConfidenceCap)
            /\ at[w] <= memories'[key].last /\ memories[key].last <= memories'[key].last
        BY <2>4, <2>6, <4>1, <4>2, <4>3, ExactUpdate
      <4>5. memories[key].last \in Nat /\ memories'[key].last \in Nat
        <5>1. memories'[key] \in MemoryRecord
          BY <2>4, <2>6, <4>1, <4>2, UpdateType
        <5> QED  BY <2>6, <4>1, <5>1, DomainAssumption DEF MemoryRecord
      <4>6. \A r \in In(key) : r.at <= memories'[key].last
        BY <2>6, <2>7, <4>1, <4>4, <4>5
      <4> QED  BY <4>3, <4>4, <4>6
    <3> QED  BY <2>1, <3>1, <3>2
  <2>9. \A k \in DOMAIN memories' :
            /\ memories'[k].trust = CountedUpTo(M(k) - 1, TrustCap)
            /\ memories'[k].confidence = CountedUpTo(M(k) - 1, ConfidenceCap)
            /\ \A r \in Of(k) : r.at <= memories'[k].last
    <3> HIDE DEF key, N, M, In, Of
    <3> SUFFICES ASSUME NEW k \in DOMAIN memories'
                 PROVE  /\ memories'[k].trust = CountedUpTo(M(k) - 1, TrustCap)
                        /\ memories'[k].confidence = CountedUpTo(M(k) - 1, ConfidenceCap)
                        /\ \A r \in Of(k) : r.at <= memories'[k].last
      OBVIOUS
    <3>1. CASE k = key
      <4>1. M(k) - 1 = N(key)
        BY <2>2, <2>3, <3>1
      <4> QED  BY <2>5, <2>8, <3>1, <4>1
    <3>2. CASE k # key
      <4>1. k \in DOMAIN memories /\ k \in MemoryKeys /\ memories'[k] = memories[k]
        BY <2>1, <2>3, <3>2
      <4>2. M(k) = N(k) /\ Of(k) = In(k)
        BY <2>2, <2>5, <3>2, <4>1
      <4> QED  BY <2>6, <4>1, <4>2
    <3> QED  BY <3>1, <3>2
  <2>10. LastSeenIsLatest' /\ LevelsCountSources'
    BY <2>9 DEF LastSeenIsLatest, LevelsCountSources, CountedUpTo
  <2>11. ASSUME NEW v \in Workers, pc'[v] = "commit_update"
         PROVE  (seen[v] = memories[MemoryKey[req[v]]])'
    <3>1. pc[v] = "commit_update" /\ seen'[v] = seen[v] /\ req'[v] = req[v]
      BY <1>3, <2>11, StepSeen, StoresNotTables
    <3>2. seen[v] = memories[MemoryKey[req[v]]] /\ MemoryKey[req[v]] \in DOMAIN memories
      BY <3>1 DEF ExactInv, IndInv, SessionOK
    <3>3. v # w
      BY <1>3, <2>11 DEF Stores, Return, Goto, IndInv, TypeOK
    <3>4. MemoryKey[req[v]] # key
      BY <2>1, <3>1, <3>2, <3>3 DEF RowsHeldAlone, IndInv, KeysHeld
    <3>5. memories'[MemoryKey[req[v]]] = memories[MemoryKey[req[v]]]
      BY <2>1, <3>2, <3>4
    <3> QED  BY <3>1, <3>2, <3>5
  <2> QED  BY <2>10, <2>11 DEF ExactInv
<1> QED  BY <1>2, <1>3, StepStores

\* Lost updates of one memory by two transactions that both selected it are all that keeps
\* last_seen_at and the levels from being exact: as long as no two of them are about to
\* update one memory, they are, however the requests interleave, fail and crash otherwise.
THEOREM ExactUnlessShared == Spec => ExactWhileHeldAlone
<1>1. Init => ExactInv
  BY DEF Init, ExactInv, LastSeenIsLatest, LevelsCountSources
<1>2. IndInv /\ IndInv' /\ RowsHeldAlone /\ ExactInv /\ [Next]_vars => ExactInv'
  BY ExactStep
<1>3. ExactInv => LastSeenIsLatest /\ LevelsCountSources
  BY DEF ExactInv
<1> QED  BY <1>1, <1>2, <1>3, Invariance, PTL DEF Spec, ExactWhileHeldAlone

\* A single request thread never shares a memory with another: its last_seen_at is the
\* latest instant of the stored sources, in whatever order they arrive.
THEOREM LatestWhenSequential ==
    ASSUME \A v, w \in Workers : v = w PROVE Spec => []LastSeenIsLatest
<1>1. RowsHeldAlone
  BY DEF RowsHeldAlone
<1> QED  BY <1>1, ExactUnlessShared, PTL DEF ExactWhileHeldAlone

\* And its levels count the stored sources after the first, exactly, up to their caps.
THEOREM CountedWhenSequential ==
    ASSUME \A v, w \in Workers : v = w PROVE Spec => []LevelsCountSources
<1>1. RowsHeldAlone
  BY DEF RowsHeldAlone
<1> QED  BY <1>1, ExactUnlessShared, PTL DEF ExactWhileHeldAlone

=============================================================================
