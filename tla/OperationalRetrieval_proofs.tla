--------------------- MODULE OperationalRetrieval_proofs ---------------------
(***************************************************************************)
(* Proofs about OperationalRetrieval, for any number of events, memories   *)
(* and receipts.                                                           *)
(***************************************************************************)
EXTENDS OperationalRetrieval, FiniteSetTheorems, TLAPS

-----------------------------------------------------------------------------
(* The inductive invariant *)

\* A memory is there with an event of it, at the latest with the commit that made its row.
MemoriesHaveEvents ==
    /\ ingested \subseteq Events /\ IsFiniteSet(ingested)
    /\ lastSeen \in [Memories -> Nat]
    /\ \A m \in Memories : lastSeen[m] # 0 => Of(m, ingested) # {}

\* What the SELECTs of a retrieval returned is committed.
RowsAreCommitted ==
    /\ begun \subseteq ingested
    /\ \A m \in DOMAIN rows : m \in Memories /\ Of(m, ingested) # {}
    /\ pc # "answer" => results = {}

IndInv == MemoriesHaveEvents /\ RowsAreCommitted /\ NewestReceiptShown

-----------------------------------------------------------------------------
(* Receipts *)

\* The receipts that may be shown, and the memories that may be found, all at once.
Shown(E) == Cuts(Links(E), Cited, Newer)
Found(q, M) == Choices({Answers(q, m, Of(m, ingested), rows[m]) : m \in M})

LEMMA OfGrows ==
    ASSUME NEW E, NEW F, E \subseteq F, NEW m PROVE Of(m, E) \subseteq Of(m, F)
BY DEF Of

\* Every event has evidence, and evidence is finite.
LEMMA LinksFinite ==
    ASSUME NEW E, E \subseteq Events, IsFiniteSet(E), E # {}
    PROVE  /\ IsFiniteSet(Links(E)) /\ Cardinality(Links(E)) \in Nat \ {0}
           /\ \A e \in E : \E l \in Links(E) : l.event = e
           /\ \A l \in Links(E) : l.event \in E /\ l.key \in Nat
<1> DEFINE Of1(e) == {[event |-> e, key |-> k] : k \in Payload[e].evidence}
<1> DEFINE F == {Of1(e) : e \in E}
<1>1. \A e \in E : Payload[e].evidence # {} /\ Payload[e].evidence \subseteq Nat
                   /\ IsFiniteSet(Payload[e].evidence)
  BY PayloadAssumption, EvidenceAssumption
<1>2. ASSUME NEW e \in E PROVE IsFiniteSet(Of1(e))
  <2> DEFINE f == [k \in Payload[e].evidence |-> [event |-> e, key |-> k]]
  <2>1. f \in Surjection(Payload[e].evidence, Of1(e))
    BY DEF Surjection
  <2> QED BY <1>1, <2>1, FS_Surjection
<1>3. IsFiniteSet(F)
  <2> DEFINE g == [e \in E |-> Of1(e)]
  <2>1. g \in Surjection(E, F)
    BY DEF Surjection
  <2> HIDE DEF F
  <2> QED BY <2>1, FS_Surjection
<1>4. IsFiniteSet(Links(E))
  <2>1. Links(E) = UNION F
    BY DEF Links
  <2> HIDE DEF Of1
  <2>2. \A S \in F : IsFiniteSet(S)
    BY <1>2
  <2> HIDE DEF F
  <2> QED BY <1>3, <2>1, <2>2, FS_UNION
<1>5. \A e \in E : \E l \in Links(E) : l.event = e
  <2> SUFFICES ASSUME NEW e \in E PROVE \E l \in Links(E) : l.event = e
    OBVIOUS
  <2>1. PICK k \in Payload[e].evidence : TRUE
    BY <1>1
  <2> DEFINE l == [event |-> e, key |-> k]
  <2>2. l \in Links(E) /\ l.event = e
    BY DEF Links
  <2> QED BY <2>2
<1>6. \A l \in Links(E) : l.event \in E /\ l.key \in Nat
  BY <1>1 DEF Links
<1>7. Links(E) # {}
  BY <1>5
<1> QED BY <1>4, <1>5, <1>6, <1>7, FS_EmptySet, FS_CardinalityType

LEMMA SmallerOf ==
    ASSUME NEW a \in Nat \ {0}, NEW b \in Nat \ {0} PROVE Min({a, b}) \in Nat \ {0}
<1>1. \E x \in {a, b} : \A y \in {a, b} : x <= y
  OBVIOUS
<1> QED BY <1>1 DEF Min

\* However many receipts are shown, one of them is as recent as any event.
LEMMA NewestCut ==
    ASSUME NEW E, E \subseteq Events, IsFiniteSet(E), E # {}, NEW R \in Shown(E)
    PROVE  R # {} /\ \A e \in E : \E l \in R : Payload[l.event].at >= Payload[e].at
<1>1. /\ R \subseteq Links(E) /\ Cardinality(R) = Min({Cited, Cardinality(Links(E))})
      /\ \A t \in R, s \in Links(E) \ R : ~Newer(s, t)
  BY DEF Shown, Cuts
<1>2. /\ IsFiniteSet(Links(E)) /\ Cardinality(Links(E)) \in Nat \ {0}
      /\ \A e \in E : \E l \in Links(E) : l.event = e
      /\ \A l \in Links(E) : l.event \in E /\ l.key \in Nat
  BY LinksFinite
<1>3. Cardinality(R) # 0
  BY <1>1, <1>2, SmallerOf, RequestAssumption
<1>4. R # {}
  BY <1>3, FS_EmptySet
<1>5. \A e \in E : Payload[e].at \in Nat
  BY PayloadAssumption
<1>6. ASSUME NEW e \in E PROVE \E l \in R : Payload[l.event].at >= Payload[e].at
  <2>1. PICK s \in Links(E) : s.event = e
    BY <1>2
  <2>2. CASE s \in R
    BY <1>5, <2>1, <2>2
  <2>3. CASE s \notin R
    <3>1. PICK t \in R : TRUE
      BY <1>4
    <3>2. ~Newer(s, t) /\ t.event \in E
      BY <1>1, <1>2, <2>3
    <3>3. Payload[t.event].at >= Payload[e].at
      <4>1. ~(Payload[s.event].at > Payload[t.event].at)
        BY <3>2 DEF Newer
      <4>2. Payload[s.event].at \in Nat /\ Payload[t.event].at \in Nat
        BY <1>5, <2>1, <3>2
      <4> QED BY <2>1, <4>1, <4>2
    <3> QED BY <3>3
  <2> QED BY <2>2, <2>3
<1> QED BY <1>4, <1>6

\* A memory that is answered is one of those that matched.
LEMMA FoundMatched ==
    ASSUME NEW q, NEW M, NEW found \in Found(q, M),
           NEW r \in found
    PROVE  r.memory \in M /\ r.receipts \in Shown(Of(r.memory, ingested))
<1> DEFINE A(m) == Answers(q, m, Of(m, ingested), rows[m])
<1>1. \A T \in {A(m) : m \in M} : \E m \in M : T = A(m)
  OBVIOUS
<1>2. \A m \in M : \A x \in A(m) :
         x.memory = m /\ x.receipts \in Shown(Of(m, ingested))
  BY DEF Answers, Shown
<1> HIDE DEF A
<1>3. PICK m \in M : r \in A(m)
  <2>1. found \in Choices({A(m) : m \in M})
    BY DEF A, Found
  <2> DEFINE S == {A(m) : m \in M}
  <2>2. PICK f \in [S -> UNION S] : found = Range(f) /\ \A T \in S : f[T] \in T
    BY <2>1 DEF Choices
  <2>3. PICK T \in S : r = f[T]
    BY <2>2 DEF Range
  <2> QED BY <1>1, <2>2, <2>3
<1> QED BY <1>2, <1>3

-----------------------------------------------------------------------------
(* Steps *)

\* Answers are of what is committed, so that they stay right while events are.
LEMMA GrowInv ==
    ASSUME IndInv, MemoriesHaveEvents', ingested \subseteq ingested', UNCHANGED retrieval
    PROVE  IndInv'
<1>1. \A m : Of(m, ingested) \subseteq Of(m, ingested')
  BY OfGrows
<1>2. /\ pc' = pc /\ asked' = asked /\ rows' = rows /\ begun' = begun /\ results' = results
  BY DEF retrieval
<1>3. RowsAreCommitted'
  BY <1>1, <1>2 DEF IndInv, RowsAreCommitted
<1>4. NewestReceiptShown'
  BY <1>2 DEF IndInv, NewestReceiptShown
<1> QED BY <1>3, <1>4 DEF IndInv

\* No answer is there.
LEMMA SilentInv ==
    ASSUME IndInv, UNCHANGED stored, results' = {}, begun' \subseteq ingested,
           \A m \in DOMAIN rows' : m \in Memories /\ Of(m, ingested) # {}
    PROVE  IndInv'
<1>1. ingested' = ingested /\ lastSeen' = lastSeen
  BY DEF stored
<1> QED BY <1>1 DEF IndInv, MemoriesHaveEvents, RowsAreCommitted, NewestReceiptShown

LEMMA CommitInv ==
    ASSUME IndInv, NEW e \in Events, CommitEvent(e) PROVE IndInv'
<1> DEFINE m == Payload[e].memory
<1>1. ingested' = ingested \cup {e} /\ UNCHANGED retrieval
  BY DEF CommitEvent
<1>2. m \in Memories /\ Payload[e].at \in Nat
  BY PayloadAssumption DEF Memories
<1>3. lastSeen' \in [Memories -> Nat] /\ \A n \in Memories \ {m} : lastSeen'[n] = lastSeen[n]
  BY <1>2 DEF CommitEvent, IndInv, MemoriesHaveEvents
<1>4. Of(m, ingested') # {}
  BY <1>1 DEF Of
<1>5. \A n \in Memories : lastSeen'[n] # 0 => Of(n, ingested') # {}
  <2> SUFFICES ASSUME NEW n \in Memories, n # m, lastSeen[n] # 0 PROVE Of(n, ingested') # {}
    BY <1>3, <1>4
  <2>1. Of(n, ingested) # {}
    BY DEF IndInv, MemoriesHaveEvents
  <2> QED BY <1>1, <2>1, OfGrows
<1>6. IsFiniteSet(ingested')
  BY <1>1, FS_AddElement DEF IndInv, MemoriesHaveEvents
<1>7. MemoriesHaveEvents'
  BY <1>1, <1>3, <1>5, <1>6 DEF IndInv, MemoriesHaveEvents
<1> QED BY <1>1, <1>7, GrowInv

LEMMA AnswerInv ==
    ASSUME IndInv, ReadLinksAndScore PROVE IndInv'
<1> DEFINE q == asked.query
           M == {m \in DOMAIN rows : Meaningful(q, Of(m, ingested))}
<1>1. /\ UNCHANGED <<ingested, lastSeen, asked, rows, begun>> /\ pc' = "answer"
  BY DEF ReadLinksAndScore, stored
<1>2. PICK found \in Found(q, M) : results' \subseteq found
  BY DEF ReadLinksAndScore, Cuts, Found
<1>3. \A r \in results' :
         r.memory \in M /\ r.receipts \in Shown(Of(r.memory, ingested))
  <2> SUFFICES ASSUME NEW r \in results'
               PROVE  /\ r.memory \in M
                      /\ r.receipts \in Shown(Of(r.memory, ingested))
    OBVIOUS
  <2>1. r \in found
    BY <1>2
  <2> HIDE DEF M, q
  <2> QED BY <1>2, <2>1, FoundMatched
<1>4. MemoriesHaveEvents' /\ RowsAreCommitted'
  BY <1>1 DEF IndInv, MemoriesHaveEvents, RowsAreCommitted
<1>5. NewestReceiptShown'
  <2> SUFFICES ASSUME NEW r \in results'
               PROVE  /\ r.receipts # {}
                      /\ \A e \in Of(r.memory, begun) :
                            \E l \in r.receipts : Payload[l.event].at >= Payload[e].at
    BY <1>1 DEF NewestReceiptShown
  <2> DEFINE E == Of(r.memory, ingested)
  <2>1. E \subseteq ingested /\ E \subseteq Events /\ E # {}
    BY <1>3 DEF Of, IndInv, MemoriesHaveEvents, RowsAreCommitted
  <2>2. IsFiniteSet(E)
    BY <2>1, FS_Subset DEF IndInv, MemoriesHaveEvents
  <2>3. Of(r.memory, begun) \subseteq E
    BY OfGrows DEF IndInv, RowsAreCommitted
  <2> HIDE DEF E
  <2>4. r.receipts # {} /\ \A e \in E : \E l \in r.receipts : Payload[l.event].at >= Payload[e].at
    BY <1>3, <2>1, <2>2, NewestCut DEF E
  <2> QED BY <2>3, <2>4
<1> QED BY <1>4, <1>5 DEF IndInv

LEMMA IndInit == Init => IndInv
BY FS_EmptySet DEF Init, IndInv, MemoriesHaveEvents, RowsAreCommitted, NewestReceiptShown

LEMMA IndStep == IndInv /\ [Next]_vars => IndInv'
<1> SUFFICES ASSUME IndInv, [Next]_vars PROVE IndInv'
  OBVIOUS
<1>1. ASSUME NEW e \in Events, SelectMemory(e) \/ FailEvent(e) PROVE IndInv'
  BY <1>1, GrowInv DEF SelectMemory, FailEvent, IndInv, MemoriesHaveEvents
<1>2. ASSUME NEW e \in Events, CommitEvent(e) PROVE IndInv'
  BY <1>2, CommitInv
<1>3. ASSUME NEW a, Ask(a) PROVE IndInv'
  BY <1>3, SilentInv DEF Ask, IndInv, RowsAreCommitted
<1>4. CASE ReadMemories
  <2>1. \A m \in DOMAIN rows' : m \in Memories /\ Of(m, ingested) # {}
    BY <1>4 DEF ReadMemories, IndInv, MemoriesHaveEvents
  <2> QED BY <1>4, <2>1, SilentInv DEF ReadMemories, IndInv, RowsAreCommitted
<1>5. CASE ReadLinksAndScore
  BY <1>5, AnswerInv
<1>6. CASE Respond
  BY <1>6, SilentInv DEF Respond
<1>7. CASE UNCHANGED vars
  BY <1>7, GrowInv DEF vars, stored, retrieval, IndInv, MemoriesHaveEvents
<1> QED BY <1>1, <1>2, <1>3, <1>4, <1>5, <1>6, <1>7 DEF Next

LEMMA Invariance == Spec => []IndInv
BY IndInit, IndStep, PTL DEF Spec

\* However few receipts fit and whatever is committed between the SELECTs, every memory is
\* answered with a receipt as recent as what was known of it (_provenance_references).
THEOREM NewestReceiptFits == Spec => []NewestReceiptShown
<1>1. IndInv => NewestReceiptShown
  BY DEF IndInv
<1> QED BY <1>1, Invariance, PTL

-----------------------------------------------------------------------------
(* Scores grow with the events they are computed from *)

LEMMA MinOfTwo ==
    ASSUME NEW a \in Nat, NEW b \in Nat PROVE Min({a, b}) = IF a <= b THEN a ELSE b
<1>1. \E x \in {a, b} : \A y \in {a, b} : x <= y
  OBVIOUS
<1> QED BY <1>1 DEF Min

LEMMA OverlapFinite ==
    ASSUME NEW q, NEW E, E \subseteq Events, IsFiniteSet(E)
    PROVE  IsFiniteSet(Overlap(q, E)) /\ Cardinality(Overlap(q, E)) \in Nat
<1> DEFINE F == {Payload[e].metrics : e \in E}
<1>1. \A S \in F : IsFiniteSet(S)
  BY PayloadAssumption, EvidenceAssumption, FS_Subset
<1>2. IsFiniteSet(F)
  <2> DEFINE g == [e \in E |-> Payload[e].metrics]
  <2>1. g \in Surjection(E, F)
    BY DEF Surjection
  <2> HIDE DEF F
  <2> QED BY <2>1, FS_Surjection
<1>3. IsFiniteSet(UNION F)
  <2> HIDE DEF F
  <2> QED BY <1>1, <1>2, FS_UNION
<1>4. Overlap(q, E) \subseteq UNION F
  BY DEF Overlap
<1> HIDE DEF F
<1> QED BY <1>3, <1>4, FS_Subset, FS_CardinalityType

LEMMA OverlapGrows ==
    ASSUME NEW q, NEW E, NEW F, E \subseteq F, F \subseteq Events, IsFiniteSet(F)
    PROVE  Cardinality(Overlap(q, E)) <= Cardinality(Overlap(q, F))
<1>1. Overlap(q, E) \subseteq Overlap(q, F)
  BY DEF Overlap
<1> QED BY <1>1, OverlapFinite, FS_Subset

LEMMA PointsGrow ==
    ASSUME NEW q, NEW f \in Fields, NEW E, NEW F, E \subseteq F
    PROVE  /\ Points(q, f, E) \in 0..Weight[f] /\ Points(q, f, F) \in 0..Weight[f]
           /\ Points(q, f, E) <= Points(q, f, F)
<1>1. Agrees(q, f, E) => Agrees(q, f, F)
  BY DEF Agrees
<1>2. Weight[f] \in Nat
  BY DEF Fields, Weight
<1> QED BY <1>1, <1>2 DEF Points

LEMMA EvidentGrows ==
    ASSUME NEW q, NEW E, NEW F, E \subseteq F, F \subseteq Events, IsFiniteSet(F)
    PROVE  Evident(q, E) \in Nat /\ Evident(q, F) \in Nat /\ Evident(q, E) <= Evident(q, F)
<1> DEFINE M(G) == Min({10, 5 * Cardinality(Overlap(q, G))})
<1>1. M(E) \in Nat /\ M(F) \in Nat /\ M(E) <= M(F)
  <2>1. IsFiniteSet(E)
    BY FS_Subset
  <2>2. /\ Cardinality(Overlap(q, E)) \in Nat /\ Cardinality(Overlap(q, F)) \in Nat
        /\ Cardinality(Overlap(q, E)) <= Cardinality(Overlap(q, F))
    BY <2>1, OverlapFinite, OverlapGrows
  <2>3. 5 * Cardinality(Overlap(q, E)) \in Nat /\ 5 * Cardinality(Overlap(q, F)) \in Nat
    BY <2>2
  <2> QED BY <2>2, <2>3, MinOfTwo
<1>2. \A f \in Fields : /\ Points(q, f, E) \in Nat /\ Points(q, f, F) \in Nat
                       /\ Points(q, f, E) <= Points(q, f, F)
  <2> SUFFICES ASSUME NEW f \in Fields
               PROVE  /\ Points(q, f, E) \in Nat /\ Points(q, f, F) \in Nat
                      /\ Points(q, f, E) <= Points(q, f, F)
    OBVIOUS
  <2> QED BY PointsGrow
<1> HIDE DEF M
<1>3. /\ Evident(q, E) = Points(q, "service", E) + Points(q, "host", E)
                            + Points(q, "environment", E) + Points(q, "category", E)
                            + Points(q, "severity", E) + M(E)
      /\ Evident(q, F) = Points(q, "service", F) + Points(q, "host", F)
                            + Points(q, "environment", F) + Points(q, "category", F)
                            + Points(q, "severity", F) + M(F)
  BY DEF Evident, M
<1>4. {"service", "host", "environment", "category", "severity"} = Fields
  BY DEF Fields
<1> QED BY <1>1, <1>2, <1>3, <1>4

\* More events never lower a score, and it stays within 100.
LEMMA ScoreGrows ==
    ASSUME NEW q, NEW seen, NEW E, NEW F, E \subseteq F, F \subseteq Events, IsFiniteSet(F)
    PROVE  /\ Score(q, E, seen) \in 0..100 /\ Score(q, F, seen) \in 0..100
           /\ Score(q, E, seen) <= Score(q, F, seen)
<1> DEFINE recent == IF seen + Window >= q.at THEN 10 ELSE 0
<1>1. recent \in Nat
  OBVIOUS
<1>2. Score(q, E, seen) = Min({100, Evident(q, E) + recent})
      /\ Score(q, F, seen) = Min({100, Evident(q, F) + recent})
  BY DEF Score
<1> HIDE DEF recent
<1>3. Evident(q, E) \in Nat /\ Evident(q, F) \in Nat /\ Evident(q, E) <= Evident(q, F)
  BY EvidentGrows
<1>4. /\ Evident(q, E) + recent \in Nat /\ Evident(q, F) + recent \in Nat
      /\ Evident(q, E) + recent <= Evident(q, F) + recent
  BY <1>1, <1>3
<1>5. \A a \in Nat : Min({100, a}) = IF 100 <= a THEN 100 ELSE a
  BY MinOfTwo
<1> QED BY <1>2, <1>4, <1>5

LEMMA MeaningfulGrows ==
    ASSUME NEW q, NEW E, NEW F, E \subseteq F, Meaningful(q, E) PROVE Meaningful(q, F)
BY DEF Meaningful, Agrees, Overlap

-----------------------------------------------------------------------------
(* What is answered and what is not *)

\* Of every memory that matched, one answer is found, with the score of what is ingested.
LEMMA FoundAll ==
    ASSUME NEW q, NEW M, NEW found \in Found(q, M), IsFiniteSet(M)
    PROVE  /\ IsFiniteSet(found)
           /\ \A m \in M : \E r \in found : r.memory = m
           /\ \A r \in found : /\ r.memory \in M /\ r.seen = rows[r.memory]
                               /\ r.score = Score(q, Of(r.memory, ingested), r.seen)
<1> DEFINE A(m) == Answers(q, m, Of(m, ingested), rows[m])
           S == {A(m) : m \in M}
<1>1. \A T \in S : \E m \in M : T = A(m)
  OBVIOUS
<1>2. \A m \in M : \A x \in A(m) :
         /\ x.memory = m /\ x.seen = rows[m] /\ x.score = Score(q, Of(m, ingested), rows[m])
  BY DEF Answers
<1>3. \A m \in M : A(m) \in S
  OBVIOUS
<1>4. IsFiniteSet(S)
  <2> DEFINE g == [m \in M |-> A(m)]
  <2>1. g \in Surjection(M, S)
    BY DEF Surjection
  <2> HIDE DEF S
  <2> QED BY <2>1, FS_Surjection
<1>5. found \in Choices(S)
  BY DEF Found
<1> HIDE DEF A, S
<1>6. PICK f \in [S -> UNION S] : found = Range(f) /\ \A T \in S : f[T] \in T
  BY <1>5 DEF Choices
<1>7. found = {f[T] : T \in S}
  BY <1>6 DEF Range
<1>8. IsFiniteSet(found)
  <2>1. f \in Surjection(S, found)
    BY <1>6, <1>7 DEF Surjection
  <2> QED BY <1>4, <2>1, FS_Surjection
<1>9. ASSUME NEW m \in M PROVE \E r \in found : r.memory = m
  BY <1>2, <1>3, <1>6, <1>7
<1>10. ASSUME NEW r \in found
       PROVE  /\ r.memory \in M /\ r.seen = rows[r.memory]
              /\ r.score = Score(q, Of(r.memory, ingested), r.seen)
  <2>1. PICK T \in S : r = f[T]
    BY <1>7
  <2>2. PICK m \in M : T = A(m)
    BY <1>1
  <2> QED BY <1>2, <1>6, <2>1, <2>2
<1> QED BY <1>8, <1>9, <1>10

\* What a cut leaves out is behind everything it keeps, and it keeps as many as it may.
LEMMA CutLeavesOut ==
    ASSUME NEW S, IsFiniteSet(S), NEW n \in Nat, NEW T \in Cuts(S, n, Ranks),
           NEW x \in S, x \notin T
    PROVE  Cardinality(T) = n /\ \A t \in T : ~Ranks(x, t)
<1>1. /\ T \subseteq S /\ Cardinality(T) = Min({n, Cardinality(S)})
      /\ \A t \in T, y \in S \ T : ~Ranks(y, t)
  BY DEF Cuts
<1>2. Cardinality(T) # Cardinality(S) /\ Cardinality(S) \in Nat
  BY <1>1, FS_Subset, FS_CardinalityType
<1> QED BY <1>1, <1>2, MinOfTwo

-----------------------------------------------------------------------------
(* Their invariance *)

AskedOK ==
    pc # "idle" => asked.query \in Queries /\ asked.limit \in Limits

RankInv == AskedOK /\ TypeOK /\ ScoreIsOfTheRetrieval /\ LimitKeepsTheBest

LEMMA RankInit == Init => RankInv
BY DEF Init, RankInv, AskedOK, TypeOK, ScoreIsOfTheRetrieval, LimitKeepsTheBest

\* The events of a memory that are committed are events, and finitely many.
LEMMA OfFinite ==
    ASSUME IndInv, NEW m PROVE Of(m, ingested) \subseteq Events /\ IsFiniteSet(Of(m, ingested))
<1>1. Of(m, ingested) \subseteq ingested
  BY DEF Of
<1> QED BY <1>1, FS_Subset DEF IndInv, MemoriesHaveEvents

LEMMA RowsFinite == ASSUME IndInv PROVE IsFiniteSet(DOMAIN rows)
<1> DEFINE M == {Payload[e].memory : e \in ingested}
           g == [e \in ingested |-> Payload[e].memory]
<1>1. g \in Surjection(ingested, M)
  BY DEF Surjection
<1>2. DOMAIN rows \subseteq M
  BY DEF IndInv, RowsAreCommitted, Of
<1> HIDE DEF M, g
<1> QED BY <1>1, <1>2, FS_Surjection, FS_Subset DEF IndInv, MemoriesHaveEvents

\* While events are ingested the answer stays.
LEMMA RankGrows ==
    ASSUME IndInv, IndInv', RankInv, UNCHANGED retrieval, ingested \subseteq ingested',
           DOMAIN pending' \subseteq Events \ ingested'
    PROVE  RankInv'
<1>1. /\ pc' = pc /\ asked' = asked /\ rows' = rows /\ begun' = begun /\ results' = results
  BY DEF retrieval
<1>2. AskedOK' /\ LimitKeepsTheBest'
  BY <1>1 DEF RankInv, AskedOK, LimitKeepsTheBest
<1>3. TypeOK'
  BY <1>1 DEF RankInv, TypeOK, IndInv, MemoriesHaveEvents
<1>4. ScoreIsOfTheRetrieval'
  <2> SUFFICES ASSUME NEW r \in results
               PROVE  /\ r.score >= Score(asked.query, Of(r.memory, begun), r.seen)
                      /\ r.score <= Score(asked.query, Of(r.memory, ingested'), r.seen)
    BY <1>1 DEF ScoreIsOfTheRetrieval
  <2>1. /\ r.score >= Score(asked.query, Of(r.memory, begun), r.seen)
        /\ r.score <= Score(asked.query, Of(r.memory, ingested), r.seen)
        /\ r.score \in 0..100
    BY DEF RankInv, ScoreIsOfTheRetrieval, TypeOK
  <2>2. Of(r.memory, ingested') \subseteq Events /\ IsFiniteSet(Of(r.memory, ingested'))
    <3>1. Of(r.memory, ingested') \subseteq ingested'
      BY DEF Of
    <3> QED BY <3>1, FS_Subset DEF IndInv, MemoriesHaveEvents
  <2>3. Of(r.memory, ingested) \subseteq Of(r.memory, ingested')
    BY OfGrows
  <2>4. /\ Score(asked.query, Of(r.memory, ingested), r.seen) \in 0..100
        /\ Score(asked.query, Of(r.memory, ingested'), r.seen) \in 0..100
        /\ Score(asked.query, Of(r.memory, ingested), r.seen)
             <= Score(asked.query, Of(r.memory, ingested'), r.seen)
    BY <2>2, <2>3, ScoreGrows
  <2> QED BY <2>1, <2>4
<1> QED BY <1>2, <1>3, <1>4 DEF RankInv

LEMMA RankAnswer == ASSUME IndInv, RankInv, ReadLinksAndScore PROVE RankInv'
<1> DEFINE q == asked.query
           M == {m \in DOMAIN rows : Meaningful(q, Of(m, ingested))}
<1>1. /\ UNCHANGED <<ingested, lastSeen, pending, asked, rows, begun>>
      /\ pc = "links" /\ pc' = "answer"
  BY DEF ReadLinksAndScore, stored
<1>2. PICK found \in Found(q, M) : results' \in Cuts(found, asked.limit, Ranks)
  BY DEF ReadLinksAndScore, Found
<1>3. asked.limit \in Nat \ {0} /\ q \in Queries
  BY <1>1, RequestAssumption DEF RankInv, AskedOK
<1>4. IsFiniteSet(M)
  BY RowsFinite, FS_Subset
<1>5. /\ IsFiniteSet(found)
      /\ \A m \in M : \E r \in found : r.memory = m
      /\ \A r \in found : /\ r.memory \in M /\ r.seen = rows[r.memory]
                          /\ r.score = Score(q, Of(r.memory, ingested), r.seen)
  <2> HIDE DEF M, q
  <2> QED BY <1>2, <1>4, FoundAll
<1>6. results' \subseteq found
  BY <1>2 DEF Cuts
<1>7. ASSUME NEW m, NEW seen
      PROVE  /\ Score(q, Of(m, ingested), seen) \in 0..100
             /\ Score(q, Of(m, begun), seen) \in 0..100
             /\ Score(q, Of(m, begun), seen) <= Score(q, Of(m, ingested), seen)
  <2>1. Of(m, begun) \subseteq Of(m, ingested)
    BY OfGrows DEF IndInv, RowsAreCommitted
  <2> QED BY <2>1, OfFinite, ScoreGrows
<1>8. AskedOK'
  BY <1>1 DEF RankInv, AskedOK
<1>9. TypeOK'
  BY <1>1, <1>5, <1>6, <1>7 DEF RankInv, TypeOK
<1>10. ScoreIsOfTheRetrieval'
  BY <1>1, <1>5, <1>6, <1>7 DEF ScoreIsOfTheRetrieval
<1>11. LimitKeepsTheBest'
  <2> SUFFICES ASSUME NEW m \in DOMAIN rows, m \notin {r.memory : r \in results'},
                      Meaningful(q, Of(m, begun))
               PROVE  /\ Cardinality(results') = asked.limit
                      /\ \A r \in results' : r.score >= Score(q, Of(m, begun), rows[m])
    BY <1>1 DEF LimitKeepsTheBest
  <2>1. m \in M
    <3>1. Of(m, begun) \subseteq Of(m, ingested)
      BY OfGrows DEF IndInv, RowsAreCommitted
    <3> QED BY <3>1, MeaningfulGrows
  <2>2. PICK x \in found : x.memory = m
    BY <1>5, <2>1
  <2>3. x \notin results'
    BY <2>2
  <2>4. Cardinality(results') = asked.limit /\ \A r \in results' : ~Ranks(x, r)
    BY <1>2, <1>3, <1>5, <2>3, CutLeavesOut
  <2>5. ASSUME NEW r \in results' PROVE r.score >= Score(q, Of(m, begun), rows[m])
    <3>1. ~(x.score > r.score)
      BY <2>4 DEF Ranks
    <3>2. x.score = Score(q, Of(m, ingested), rows[m])
          /\ r.score = Score(q, Of(r.memory, ingested), r.seen)
      BY <1>5, <1>6, <2>2
    <3>3. /\ r.score \in 0..100 /\ x.score \in 0..100 /\ Score(q, Of(m, begun), rows[m]) \in 0..100
          /\ Score(q, Of(m, begun), rows[m]) <= x.score
      BY <1>7, <3>2
    <3>4. \A a, b, c \in 0..100 : ~(b > a) /\ c <= b => a >= c
      OBVIOUS
    <3> HIDE DEF q
    <3> QED BY <3>1, <3>3, <3>4
  <2> QED BY <2>4, <2>5
<1> QED BY <1>8, <1>9, <1>10, <1>11 DEF RankInv

LEMMA RankStep == IndInv /\ IndInv' /\ RankInv /\ [Next]_vars => RankInv'
<1> SUFFICES ASSUME IndInv, IndInv', RankInv, [Next]_vars PROVE RankInv'
  OBVIOUS
<1>1. ASSUME NEW e \in Events, SelectMemory(e) \/ CommitEvent(e) \/ FailEvent(e) PROVE RankInv'
  <2>1. DOMAIN pending' \subseteq Events \ ingested'
    BY <1>1 DEF SelectMemory, CommitEvent, FailEvent, Drop, RankInv, TypeOK
  <2> QED BY <1>1, <2>1, RankGrows DEF SelectMemory, CommitEvent, FailEvent
<1>2. ASSUME NEW q \in Queries, NEW n \in Limits, Ask([query |-> q, limit |-> n]) PROVE RankInv'
  BY <1>2, NoneAssumption DEF Ask, stored, IndInv, RowsAreCommitted, RankInv, AskedOK, TypeOK,
     ScoreIsOfTheRetrieval, LimitKeepsTheBest
<1>3. CASE ReadMemories
  BY <1>3 DEF ReadMemories, stored, IndInv, RowsAreCommitted, RankInv, AskedOK, TypeOK,
     ScoreIsOfTheRetrieval, LimitKeepsTheBest
<1>4. CASE ReadLinksAndScore
  BY <1>4, RankAnswer
<1>5. CASE Respond
  BY <1>5 DEF Respond, stored, RankInv, AskedOK, TypeOK, ScoreIsOfTheRetrieval, LimitKeepsTheBest
<1>6. CASE UNCHANGED vars
  BY <1>6, RankGrows DEF vars, stored, retrieval, RankInv, TypeOK
<1> QED BY <1>1, <1>2, <1>3, <1>4, <1>5, <1>6 DEF Next

LEMMA RankInvariance == Spec => []RankInv
BY RankInit, RankStep, Invariance, PTL DEF Spec

\* Scores stay within 100, receipts are committed and pending events are not.
THEOREM TypeCorrect == Spec => []TypeOK
<1>1. RankInv => TypeOK
  BY DEF RankInv
<1> QED BY <1>1, RankInvariance, PTL

\* Although rows and links are read by different SELECTs, a score is one the memory had at some
\* instant of the retrieval (_score_operational_memory).
THEOREM ScoresAreOfTheRetrieval == Spec => []ScoreIsOfTheRetrieval
<1>1. RankInv => ScoreIsOfTheRetrieval
  BY DEF RankInv
<1> QED BY <1>1, RankInvariance, PTL

\* What matched and is not returned is outranked by as many memories as were asked for, however
\* many events are committed meanwhile (score_operational_memories).
THEOREM LimitIsFair == Spec => []LimitKeepsTheBest
<1>1. RankInv => LimitKeepsTheBest
  BY DEF RankInv
<1> QED BY <1>1, RankInvariance, PTL

=============================================================================
