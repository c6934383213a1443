---------------------- MODULE DocumentPipeline_proofs ----------------------
(***************************************************************************)
(* Proofs about DocumentPipeline, for any number of requests and contents  *)
(* and webhooks of any length.                                             *)
(***************************************************************************)
EXTENDS DocumentPipeline, FiniteSetTheorems, FunctionTheorems, SequenceTheorems, TLAPS

-----------------------------------------------------------------------------
(* The inductive invariant *)

Holding == {"embed", "commit"}

Filed(c) == [hash |-> Hash[c], content |-> c]

\* What a transaction has flushed, given the statement it is at.
Flushed(c, l) ==
    [documents |-> {Filed(c)}, chunks |-> ChunkRows(c),
     embeddings |-> IF l = "commit" /\ HasProvider THEN ChunkRows(c) ELSE {}]

PendingOK ==
    \A w \in Workers :
        /\ pc[w] \in Holding => pending[w] = Flushed(Current(w), pc[w])
        /\ pc[w] \notin Holding => pending[w] = NothingPending

\* A hash held by an open transaction is stored by no other, open or committed.
HashesHeld ==
    /\ \A w \in Workers : pc[w] \in Holding => Known(Hash[Current(w)]) = {}
    /\ \A v, w \in Workers : (v # w /\ pc[v] \in Holding /\ pc[w] \in Holding) =>
          Hash[Current(v)] # Hash[Current(w)]

StatementsOK ==
    \A w \in Workers :
        /\ pc[w] = "idle" => outcomes[w] = << >>
        /\ pc[w] = "embed" => HasProvider

HashesTrue == \A d \in documents : d.hash = Hash[d.content]

Kept(o, h) ==
    o.status # "failed" => Known(h) # {} /\ o.chunks = Cardinality(ChunksOf(h))

ReportsKept ==
    \A w \in Workers : \A i \in 1..Len(outcomes[w]) : Kept(outcomes[w][i], Hash[request[w][i]])

StoredByOne ==
    \A v, w \in Workers : \A i \in 1..Len(outcomes[v]), j \in 1..Len(outcomes[w]) :
        (/\ outcomes[v][i].status = "stored" /\ outcomes[w][j].status = "stored"
         /\ Hash[request[v][i]] = Hash[request[w][j]]) => v = w /\ i = j

StoreInv == OneDocumentPerHash /\ HashesTrue /\ DocumentsWhole
SessionInv == PendingOK /\ HashesHeld /\ StatementsOK
ReportInv == ReportsKept /\ StoredByOne
IndInv == TypeOK /\ StoreInv /\ SessionInv /\ ReportInv

-----------------------------------------------------------------------------
(* Types, rows and outcomes *)

LEMMA Appended ==
    ASSUME NEW S, NEW s \in Seq(S), NEW e \in S
    PROVE  /\ Append(s, e) \in Seq(S)
           /\ Len(s) \in Nat
           /\ Len(Append(s, e)) = Len(s) + 1
           /\ \A i \in 1..Len(s) : Append(s, e)[i] = s[i]
           /\ Append(s, e)[Len(s) + 1] = e
OBVIOUS

\* A request that is not answered yet is at one of its contents.
LEMMA CurrentType ==
    ASSUME TypeOK, NEW w \in Workers, pc[w] \notin {"idle", "respond"}
    PROVE  /\ Current(w) \in Contents
           /\ request[w] \in Payloads
           /\ Len(outcomes[w]) \in Nat /\ Len(request[w]) \in Nat
           /\ Len(outcomes[w]) + 1 <= Len(request[w])
<1>1. outcomes[w] \in Seq(Outcome) /\ request[w] \in Payloads \cup {<<>>}
  BY DEF TypeOK
<1>2. Len(outcomes[w]) \in Nat
  BY <1>1, LenProperties
<1>3. Len(outcomes[w]) + 1 <= Len(request[w])
  BY DEF TypeOK
<1>4. request[w] \in Payloads
  <2>1. CASE request[w] = << >>
    BY <1>2, <1>3, <2>1
  <2> QED BY <1>1, <2>1
<1>5. request[w] \in Seq(Contents) /\ Len(request[w]) \in Nat
  BY <1>4, ContentAssumption, LenProperties
<1>6. Current(w) \in Contents
  BY <1>2, <1>3, <1>5, ElementOfSeq DEF Current
<1> QED BY <1>2, <1>3, <1>4, <1>5, <1>6

LEMMA RowTypes ==
    ASSUME NEW c \in Contents
    PROVE  Filed(c) \in Document /\ ChunkRows(c) \subseteq Row
BY ContentAssumption DEF Filed, Document, ChunkRows, Row

\* One row per chunk.
LEMMA ChunkCount ==
    ASSUME NEW c \in Contents
    PROVE  /\ IsFiniteSet(ChunkRows(c))
           /\ Cardinality(ChunkRows(c)) = Cardinality(Chunks[c])
           /\ Cardinality(ChunkRows(c)) \in Nat
<1> DEFINE f == [i \in Chunks[c] |-> [hash |-> Hash[c], index |-> i]]
<1>1. IsFiniteSet(Chunks[c])
  BY ContentAssumption
<1>2. f \in [Chunks[c] -> ChunkRows(c)]
  BY DEF ChunkRows
<1>3. \A i, j \in Chunks[c] : f[i] = f[j] => i = j
  OBVIOUS
<1>4. \A r \in ChunkRows(c) : \E i \in Chunks[c] : f[i] = r
  BY DEF ChunkRows
<1>5. f \in Bijection(Chunks[c], ChunkRows(c))
  BY <1>2, <1>3, <1>4, Fun_IsBij
<1>6. IsFiniteSet(ChunkRows(c)) /\ Cardinality(ChunkRows(c)) = Cardinality(Chunks[c])
  BY <1>1, <1>5, FS_Bijection DEF ExistsBijection
<1> QED BY <1>6, FS_CardinalityType

\* The chunks stored of a hash are those of its document, or none.
LEMMA ChunksOfHash ==
    ASSUME StoreInv, documents \subseteq Document, NEW h
    PROVE  /\ Known(h) = {} => ChunksOf(h) = {}
           /\ \A d \in Known(h) : ChunksOf(h) = ChunkRows(d.content)
<1>1. \A r \in chunks : \E d \in documents : r \in ChunkRows(d.content) /\ r.hash = d.hash
  <2> SUFFICES ASSUME NEW r \in chunks
               PROVE  \E d \in documents : r \in ChunkRows(d.content) /\ r.hash = d.hash
    OBVIOUS
  <2>1. PICK d \in documents : r \in ChunkRows(d.content)
    BY DEF StoreInv, DocumentsWhole
  <2>2. r.hash = Hash[d.content]
    BY <2>1 DEF ChunkRows
  <2> QED BY <2>1, <2>2 DEF StoreInv, HashesTrue
<1>2. Known(h) = {} => ChunksOf(h) = {}
  BY <1>1 DEF Known, ChunksOf
<1>3. ASSUME NEW d \in Known(h) PROVE ChunksOf(h) = ChunkRows(d.content)
  <2>1. d \in documents /\ d.hash = h /\ Hash[d.content] = h
    BY DEF Known, StoreInv, HashesTrue
  <2>2. ASSUME NEW r \in ChunksOf(h) PROVE r \in ChunkRows(d.content)
    <3>1. PICK e \in documents : r \in ChunkRows(e.content) /\ r.hash = e.hash
      BY <1>1 DEF ChunksOf
    <3>2. e = d
      BY <2>1, <3>1 DEF ChunksOf, StoreInv, OneDocumentPerHash
    <3> QED BY <3>1, <3>2
  <2>3. ASSUME NEW r \in ChunkRows(d.content) PROVE r \in ChunksOf(h)
    <3>1. r \in chunks
      BY <2>1 DEF StoreInv, DocumentsWhole
    <3>2. r.hash = h
      BY <2>1 DEF ChunkRows
    <3> QED BY <3>1, <3>2 DEF ChunksOf
  <2> QED BY <2>2, <2>3
<1> QED BY <1>2, <1>3

\* ingest has returned or raised: one more outcome, and the next content or the answer.
LEMMA Finished ==
    ASSUME TypeOK, NEW w \in Workers, NEW o \in Outcome, Finish(w, o),
           pc[w] \notin {"idle", "respond"}
    PROVE  /\ request' = request
           /\ outcomes' \in [Workers -> Seq(Outcome)]
           /\ pc' \in [Workers -> {"idle", "lookup", "flush", "embed", "commit", "respond"}]
           /\ \A v \in Workers \ {w} : outcomes'[v] = outcomes[v] /\ pc'[v] = pc[v]
           /\ pc'[w] \in {"lookup", "respond"}
           /\ Len(outcomes[w]) \in Nat
           /\ Len(outcomes'[w]) = Len(outcomes[w]) + 1
           /\ \A i \in 1..Len(outcomes[w]) : outcomes'[w][i] = outcomes[w][i]
           /\ outcomes'[w][Len(outcomes[w]) + 1] = o
           /\ \A v \in Workers :
                 Len(outcomes'[v]) + (IF pc'[v] \in {"idle", "respond"} THEN 0 ELSE 1)
                     <= Len(request'[v])
<1>1. /\ outcomes[w] \in Seq(Outcome)
      /\ outcomes' = [outcomes EXCEPT ![w] = Append(outcomes[w], o)]
      /\ pc' = [pc EXCEPT ![w] =
                   IF Len(outcomes[w]) + 1 = Len(request[w]) THEN "respond" ELSE "lookup"]
      /\ request' = request
  BY DEF Finish, Goto, TypeOK
<1>2. /\ outcomes'[w] = Append(outcomes[w], o)
      /\ outcomes' \in [Workers -> Seq(Outcome)]
      /\ pc' \in [Workers -> {"idle", "lookup", "flush", "embed", "commit", "respond"}]
      /\ \A v \in Workers \ {w} : outcomes'[v] = outcomes[v] /\ pc'[v] = pc[v]
      /\ pc'[w] = IF Len(outcomes[w]) + 1 = Len(request[w]) THEN "respond" ELSE "lookup"
  BY <1>1, Appended DEF TypeOK
<1>3. /\ Len(outcomes[w]) \in Nat
      /\ Len(outcomes'[w]) = Len(outcomes[w]) + 1
      /\ \A i \in 1..Len(outcomes[w]) : outcomes'[w][i] = outcomes[w][i]
      /\ outcomes'[w][Len(outcomes[w]) + 1] = o
  BY <1>1, <1>2, Appended
<1>4. ASSUME NEW v \in Workers
      PROVE  Len(outcomes'[v]) + (IF pc'[v] \in {"idle", "respond"} THEN 0 ELSE 1)
                 <= Len(request'[v])
  <2>1. CASE v # w
    BY <1>1, <1>2, <2>1 DEF TypeOK
  <2>2. CASE v = w
    <3>1. Len(outcomes[w]) + 1 <= Len(request[w]) /\ Len(request[w]) \in Nat
      BY CurrentType
    <3> QED BY <1>1, <1>2, <1>3, <2>2, <3>1
  <2> QED BY <2>1, <2>2
<1> QED BY <1>1, <1>2, <1>3, <1>4

PendingType == [Workers -> [documents : SUBSET Document, chunks : SUBSET Row,
                            embeddings : SUBSET Row]]

LEMMA RolledBack ==
    ASSUME TypeOK, NEW w \in Workers, Rollback(w)
    PROVE  /\ pending' \in PendingType
           /\ pending'[w] = NothingPending
           /\ \A v \in Workers \ {w} : pending'[v] = pending[v]
BY DEF TypeOK, Rollback, PendingType, NothingPending

-----------------------------------------------------------------------------
(* Steps that change no table *)

\* ingest has stored nothing, or found the content stored.
LEMMA FinishInv ==
    ASSUME IndInv, NEW w \in Workers, pc[w] \notin {"idle", "respond"},
           NEW o \in Outcome, Finish(w, o), o.status # "stored", Kept(o, Hash[Current(w)]),
           UNCHANGED tables, broken' \in [Workers -> BOOLEAN],
           Rollback(w) \/ (pc[w] \notin Holding /\ pending' = pending)
    PROVE  IndInv'
<1>1. TypeOK /\ StoreInv /\ PendingOK /\ HashesHeld /\ ReportsKept /\ StoredByOne
  BY DEF IndInv, SessionInv, ReportInv
<1>2. /\ documents' = documents /\ chunks' = chunks /\ embeddings' = embeddings
  BY DEF tables
<1>3. /\ request' = request
      /\ outcomes' \in [Workers -> Seq(Outcome)]
      /\ pc' \in [Workers -> {"idle", "lookup", "flush", "embed", "commit", "respond"}]
      /\ \A v \in Workers \ {w} : outcomes'[v] = outcomes[v] /\ pc'[v] = pc[v]
      /\ pc'[w] \in {"lookup", "respond"}
      /\ Len(outcomes[w]) \in Nat
      /\ Len(outcomes'[w]) = Len(outcomes[w]) + 1
      /\ \A i \in 1..Len(outcomes[w]) : outcomes'[w][i] = outcomes[w][i]
      /\ outcomes'[w][Len(outcomes[w]) + 1] = o
      /\ \A v \in Workers :
            Len(outcomes'[v]) + (IF pc'[v] \in {"idle", "respond"} THEN 0 ELSE 1)
                <= Len(request'[v])
  BY <1>1, Finished
<1>4. /\ pending' \in PendingType
      /\ pending'[w] = NothingPending
      /\ \A v \in Workers \ {w} : pending'[v] = pending[v]
  BY <1>1, RolledBack DEF PendingOK, TypeOK, PendingType
<1>5. TypeOK'
  BY <1>1, <1>2, <1>3, <1>4 DEF TypeOK, PendingType
<1>6. StoreInv'
  BY <1>1, <1>2 DEF StoreInv, OneDocumentPerHash, HashesTrue, DocumentsWhole, ChunkRows
<1>7. PendingOK'
  <2>1. ASSUME NEW v \in Workers, v # w
        PROVE  /\ pc'[v] \in Holding => pending'[v] = Flushed(Current(v)', pc'[v])
               /\ pc'[v] \notin Holding => pending'[v] = NothingPending
    BY <1>1, <1>3, <1>4, <2>1 DEF PendingOK, Current
  <2>2. pc'[w] \notin Holding /\ pending'[w] = NothingPending
    BY <1>3, <1>4 DEF Holding
  <2> QED BY <2>1, <2>2 DEF PendingOK
<1>8. HashesHeld'
  <2>1. pc'[w] \notin Holding
    BY <1>3 DEF Holding
  <2>2. \A v \in Workers : pc'[v] \in Holding =>
            v # w /\ pc[v] \in Holding /\ Current(v)' = Current(v)
    BY <1>3, <2>1 DEF Current
  <2>3. \A h : Known(h)' = Known(h)
    BY <1>2 DEF Known
  <2> QED BY <1>1, <2>2, <2>3 DEF HashesHeld
<1>9. ReportsKept'
  <2>1. ASSUME NEW v \in Workers, NEW i \in 1..Len(outcomes'[v])
        PROVE  Kept(outcomes'[v][i], Hash[request[v][i]])
    <3>1. CASE v # w
      BY <1>1, <1>3, <3>1 DEF ReportsKept
    <3>2. CASE v = w /\ i \in 1..Len(outcomes[w])
      BY <1>1, <1>3, <3>2 DEF ReportsKept
    <3>3. CASE v = w /\ i = Len(outcomes[w]) + 1
      BY <1>3, <3>3 DEF Current
    <3> QED BY <1>3, <3>1, <3>2, <3>3
  <2>2. \A h : Known(h)' = Known(h) /\ ChunksOf(h)' = ChunksOf(h)
    BY <1>2 DEF Known, ChunksOf
  <2> QED BY <1>3, <2>1, <2>2 DEF ReportsKept, Kept
<1>10. StoredByOne'
  <2>1. ASSUME NEW v \in Workers, NEW i \in 1..Len(outcomes'[v]),
               outcomes'[v][i].status = "stored"
        PROVE  i \in 1..Len(outcomes[v]) /\ outcomes'[v][i] = outcomes[v][i]
    <3>1. CASE v # w
      BY <1>3, <3>1
    <3>2. CASE v = w
      BY <1>3, <2>1, <3>2
    <3> QED BY <3>1, <3>2
  <2> SUFFICES ASSUME NEW v \in Workers, NEW u \in Workers,
                      NEW i \in 1..Len(outcomes'[v]), NEW j \in 1..Len(outcomes'[u]),
                      outcomes'[v][i].status = "stored", outcomes'[u][j].status = "stored",
                      Hash[request'[v][i]] = Hash[request'[u][j]]
               PROVE  v = u /\ i = j
    BY DEF StoredByOne
  <2>2. /\ i \in 1..Len(outcomes[v]) /\ outcomes[v][i].status = "stored"
        /\ j \in 1..Len(outcomes[u]) /\ outcomes[u][j].status = "stored"
    BY <2>1
  <2>3. Hash[request[v][i]] = Hash[request[u][j]]
    BY <1>3
  <2> QED BY <1>1, <2>2, <2>3 DEF StoredByOne
<1>11. StatementsOK'
  BY <1>3 DEF IndInv, SessionInv, StatementsOK
<1> QED BY <1>5, <1>6, <1>7, <1>8, <1>9, <1>10, <1>11 DEF IndInv, SessionInv, ReportInv

-----------------------------------------------------------------------------
(* The commit *)

\* The document flushed is stored with its chunks, whatever the caller is told.
LEMMA CommitInv ==
    ASSUME IndInv, NEW w \in Workers, pc[w] = "commit", Committed(w), Rollback(w),
           NEW o \in Outcome, Finish(w, o), broken' = broken,
           o.status = "failed"
               \/ (o.status = "stored" /\ o.chunks = Cardinality(Chunks[Current(w)]))
    PROVE  IndInv'
<1>1. TypeOK /\ StoreInv /\ PendingOK /\ HashesHeld /\ ReportsKept /\ StoredByOne
  BY DEF IndInv, SessionInv, ReportInv
<1> PICK c \in Contents : c = Current(w)
  BY <1>1, CurrentType
<1>2. pc[w] \in Holding
  BY DEF Holding
<1>3. pending[w] = Flushed(c, "commit")
  BY <1>1, <1>2 DEF PendingOK
<1>4. /\ documents' = documents \cup {Filed(c)}
      /\ chunks' = chunks \cup ChunkRows(c)
      /\ embeddings' = embeddings \cup (IF HasProvider THEN ChunkRows(c) ELSE {})
  BY <1>3 DEF Committed, Flushed
<1>5. /\ request' = request
      /\ outcomes' \in [Workers -> Seq(Outcome)]
      /\ pc' \in [Workers -> {"idle", "lookup", "flush", "embed", "commit", "respond"}]
      /\ \A v \in Workers \ {w} : outcomes'[v] = outcomes[v] /\ pc'[v] = pc[v]
      /\ pc'[w] \in {"lookup", "respond"}
      /\ Len(outcomes[w]) \in Nat
      /\ Len(outcomes'[w]) = Len(outcomes[w]) + 1
      /\ \A i \in 1..Len(outcomes[w]) : outcomes'[w][i] = outcomes[w][i]
      /\ outcomes'[w][Len(outcomes[w]) + 1] = o
      /\ \A v \in Workers :
            Len(outcomes'[v]) + (IF pc'[v] \in {"idle", "respond"} THEN 0 ELSE 1)
                <= Len(request'[v])
  BY <1>1, Finished
<1>6. /\ pending' \in PendingType
      /\ pending'[w] = NothingPending
      /\ \A v \in Workers \ {w} : pending'[v] = pending[v]
  BY <1>1, RolledBack
<1>7. Known(Hash[c]) = {} /\ ChunksOf(Hash[c]) = {}
  BY <1>1, <1>2, ChunksOfHash DEF HashesHeld, TypeOK
<1>8. \A h : h # Hash[c] => Known(h)' = Known(h) /\ ChunksOf(h)' = ChunksOf(h)
  BY <1>4 DEF Known, ChunksOf, Filed, ChunkRows
<1>9. Known(Hash[c])' # {} /\ ChunksOf(Hash[c])' = ChunkRows(c)
  <2>1. Filed(c) \in Known(Hash[c])'
    BY <1>4 DEF Known, Filed
  <2>2. \A r \in ChunkRows(c) : r.hash = Hash[c]
    BY DEF ChunkRows
  <2>3. \A r : r \in ChunksOf(Hash[c])' <=> r \in ChunkRows(c)
    <3>1. ChunksOf(Hash[c])' = {r \in chunks \cup ChunkRows(c) : r.hash = Hash[c]}
      BY <1>4 DEF ChunksOf
    <3> QED BY <1>7, <2>2, <3>1 DEF ChunksOf
  <2>4. ChunksOf(Hash[c])' = ChunkRows(c)
    BY <2>3
  <2> QED BY <2>1, <2>4
<1>10. TypeOK'
  <2>1. Filed(c) \in Document /\ ChunkRows(c) \subseteq Row
    BY <1>2, RowTypes
  <2>2. documents' \subseteq Document /\ chunks' \subseteq Row /\ embeddings' \subseteq Row
    BY <1>1, <1>4, <2>1 DEF TypeOK
  <2> QED BY <1>1, <1>5, <1>6, <2>2 DEF TypeOK, PendingType
<1>11. StoreInv'
  <2>1. OneDocumentPerHash'
    BY <1>1, <1>4, <1>7 DEF StoreInv, OneDocumentPerHash, Known, Filed
  <2>2. HashesTrue'
    BY <1>1, <1>4 DEF StoreInv, HashesTrue, Filed
  <2>3. DocumentsWhole'
    <3>1. chunks' = UNION {ChunkRows(d.content) : d \in documents'}
      <4>1. chunks = UNION {ChunkRows(d.content) : d \in documents}
        BY <1>1 DEF StoreInv, DocumentsWhole
      <4>2. Filed(c).content = c
        BY DEF Filed
      <4> QED BY <1>4, <4>1, <4>2
    <3>2. embeddings' = IF HasProvider THEN chunks' ELSE {}
      BY <1>1, <1>4 DEF StoreInv, DocumentsWhole
    <3> QED BY <3>1, <3>2 DEF DocumentsWhole, ChunkRows
  <2> QED BY <2>1, <2>2, <2>3 DEF StoreInv
<1>12. PendingOK'
  <2>1. ASSUME NEW v \in Workers, v # w
        PROVE  /\ pc'[v] \in Holding => pending'[v] = Flushed(Current(v)', pc'[v])
               /\ pc'[v] \notin Holding => pending'[v] = NothingPending
    BY <1>1, <1>5, <1>6, <2>1 DEF PendingOK, Current
  <2>2. pc'[w] \notin Holding /\ pending'[w] = NothingPending
    BY <1>5, <1>6 DEF Holding
  <2> QED BY <2>1, <2>2 DEF PendingOK
<1>13. HashesHeld'
  <2>1. pc'[w] \notin Holding
    BY <1>5 DEF Holding
  <2>2. \A v \in Workers : pc'[v] \in Holding =>
            v # w /\ pc[v] \in Holding /\ Current(v)' = Current(v)
    BY <1>5, <2>1 DEF Current
  <2>3. \A v \in Workers : pc'[v] \in Holding => Hash[Current(v)] # Hash[c]
    BY <1>1, <1>2, <2>2 DEF HashesHeld
  <2>4. \A v \in Workers : pc'[v] \in Holding => Known(Hash[Current(v)])' = {}
    <3> SUFFICES ASSUME NEW v \in Workers, pc'[v] \in Holding
                 PROVE  Known(Hash[Current(v)])' = {}
      OBVIOUS
    <3>1. Known(Hash[Current(v)]) = {} /\ Current(v)' = Current(v)
      BY <1>1, <2>2 DEF HashesHeld
    <3> QED BY <1>4, <2>3, <3>1 DEF Known, Filed
  <2> QED BY <1>1, <2>2, <2>4 DEF HashesHeld
<1>14. ReportsKept'
  <2>1. ASSUME NEW v \in Workers, NEW i \in 1..Len(outcomes'[v]),
               NEW h, h = Hash[request[v][i]], outcomes'[v][i].status # "failed"
        PROVE  Known(h)' # {} /\ outcomes'[v][i].chunks = Cardinality(ChunksOf(h)')
    <3>1. CASE i \in 1..Len(outcomes[v]) /\ outcomes'[v][i] = outcomes[v][i]
      <4>1. Known(h) # {} /\ outcomes[v][i].chunks = Cardinality(ChunksOf(h))
        BY <1>1, <2>1, <3>1 DEF ReportsKept, Kept
      <4> QED BY <1>7, <1>8, <3>1, <4>1
    <3>2. CASE v = w /\ i = Len(outcomes[w]) + 1
      <4>1. h = Hash[c] /\ outcomes'[v][i] = o
        BY <1>5, <2>1, <3>2 DEF Current
      <4>2. o.chunks = Cardinality(ChunkRows(c))
        BY <2>1, <4>1, ChunkCount
      <4> QED BY <1>9, <4>1, <4>2
    <3> QED BY <1>5, <3>1, <3>2
  <2> QED BY <1>5, <2>1 DEF ReportsKept, Kept
<1>15. StoredByOne'
  <2> DEFINE old(v, i) ==
          /\ i \in 1..Len(outcomes[v]) /\ outcomes[v][i].status = "stored"
          /\ Hash[request[v][i]] # Hash[c]
             new(v, i) ==
          v = w /\ i = Len(outcomes[w]) + 1 /\ Hash[request[v][i]] = Hash[c]
  <2>1. ASSUME NEW v \in Workers, NEW i \in 1..Len(outcomes'[v]),
               outcomes'[v][i].status = "stored"
        PROVE  old(v, i) \/ new(v, i)
    <3>1. CASE i \in 1..Len(outcomes[v]) /\ outcomes'[v][i] = outcomes[v][i]
      <4>1. Known(Hash[request[v][i]]) # {}
        BY <1>1, <2>1, <3>1 DEF ReportsKept, Kept
      <4> QED BY <1>7, <2>1, <3>1, <4>1
    <3>2. CASE v = w /\ i = Len(outcomes[w]) + 1
      BY <3>2 DEF Current
    <3> QED BY <1>5, <3>1, <3>2
  <2> SUFFICES ASSUME NEW v \in Workers, NEW u \in Workers,
                      NEW i \in 1..Len(outcomes'[v]), NEW j \in 1..Len(outcomes'[u]),
                      outcomes'[v][i].status = "stored", outcomes'[u][j].status = "stored",
                      Hash[request'[v][i]] = Hash[request'[u][j]]
               PROVE  v = u /\ i = j
    BY DEF StoredByOne
  <2>2. (old(v, i) \/ new(v, i)) /\ (old(u, j) \/ new(u, j))
    BY <2>1
  <2>3. Hash[request[v][i]] = Hash[request[u][j]]
    BY <1>5
  <2> QED BY <1>1, <2>2, <2>3 DEF StoredByOne
<1>16. StatementsOK'
  BY <1>5 DEF IndInv, SessionInv, StatementsOK
<1> QED BY <1>10, <1>11, <1>12, <1>13, <1>14, <1>15, <1>16 DEF IndInv, SessionInv, ReportInv

-----------------------------------------------------------------------------
(* The other steps *)

\* A step that neither stores nor reports anything keeps the store and the reports.
LEMMA NothingStored ==
    ASSUME StoreInv, ReportInv, UNCHANGED <<tables, request, outcomes>>
    PROVE  StoreInv' /\ ReportInv'
<1>1. /\ documents' = documents /\ chunks' = chunks /\ embeddings' = embeddings
      /\ request' = request /\ outcomes' = outcomes
  BY DEF tables
<1>2. StoreInv'
  BY <1>1 DEF StoreInv, OneDocumentPerHash, HashesTrue, DocumentsWhole, ChunkRows
<1>3. ReportsKept'
  <2>1. \A h : Known(h)' = Known(h) /\ ChunksOf(h)' = ChunksOf(h)
    BY <1>1 DEF Known, ChunksOf
  <2> QED BY <1>1, <2>1 DEF ReportInv, ReportsKept, Kept
<1>4. StoredByOne'
  BY <1>1 DEF ReportInv, StoredByOne
<1> QED BY <1>2, <1>3, <1>4 DEF ReportInv

\* One that moves a request to a statement at which it holds nothing.
LEMMA HoldingNothing ==
    ASSUME IndInv, NEW w \in Workers, NEW l \in {"idle", "lookup", "flush"}, Goto(w, l),
           documents' = documents, pending'[w] = NothingPending,
           l = "idle" => outcomes'[w] = << >>,
           \A v \in Workers \ {w} : pending'[v] = pending[v] /\ request'[v] = request[v]
                                        /\ outcomes'[v] = outcomes[v]
    PROVE  SessionInv'
<1>1. PendingOK /\ HashesHeld
  BY DEF IndInv, SessionInv
<1>2. pc'[w] = l /\ pc'[w] \notin Holding /\ \A v \in Workers \ {w} : pc'[v] = pc[v]
  BY DEF IndInv, TypeOK, Goto, Holding
<1>3. \A v \in Workers \ {w} : Current(v)' = Current(v)
  BY DEF Current
<1>4. PendingOK'
  <2>1. ASSUME NEW v \in Workers, v # w
        PROVE  /\ pc'[v] \in Holding => pending'[v] = Flushed(Current(v)', pc'[v])
               /\ pc'[v] \notin Holding => pending'[v] = NothingPending
    BY <1>1, <1>2, <1>3, <2>1 DEF PendingOK
  <2> QED BY <1>2, <2>1 DEF PendingOK
<1>5. HashesHeld'
  <2>1. \A v \in Workers : pc'[v] \in Holding =>
            v # w /\ pc[v] \in Holding /\ Current(v)' = Current(v)
    BY <1>2, <1>3
  <2>2. \A h : Known(h)' = Known(h)
    BY DEF Known
  <2> QED BY <1>1, <2>1, <2>2 DEF HashesHeld
<1>6. StatementsOK'
  BY <1>2 DEF IndInv, SessionInv, StatementsOK
<1> QED BY <1>4, <1>5, <1>6 DEF SessionInv

LEMMA ReceiveInv ==
    ASSUME IndInv, NEW w \in Workers, NEW p \in Payloads, Receive(w, p)
    PROVE  IndInv'
<1>1. TypeOK /\ StoreInv /\ PendingOK /\ ReportsKept /\ StoredByOne
  BY DEF IndInv, SessionInv, ReportInv
<1>2. /\ documents' = documents /\ chunks' = chunks /\ embeddings' = embeddings
      /\ request' = [request EXCEPT ![w] = p] /\ pc' = [pc EXCEPT ![w] = "lookup"]
      /\ outcomes' = outcomes /\ pending' = pending /\ broken' = broken /\ pc[w] = "idle"
  BY DEF Receive, Goto, tables
<1>3. outcomes[w] \in Seq(Outcome) /\ p \in Seq(Contents) /\ p # << >>
  BY <1>1, ContentAssumption DEF TypeOK
<1>4. outcomes[w] = << >>
  BY <1>2 DEF IndInv, SessionInv, StatementsOK
<1>5. Len(p) \in Nat \ {0}
  BY <1>3, EmptySeq
<1>6. TypeOK'
  <2>1. ASSUME NEW v \in Workers
        PROVE  Len(outcomes'[v]) + (IF pc'[v] \in {"idle", "respond"} THEN 0 ELSE 1)
                   <= Len(request'[v])
    <3>1. CASE v = w
      BY <1>1, <1>2, <1>4, <1>5, <3>1 DEF TypeOK
    <3>2. CASE v # w
      BY <1>1, <1>2, <3>2 DEF TypeOK
    <3> QED BY <3>1, <3>2
  <2> QED BY <1>1, <1>2, <2>1 DEF TypeOK
<1>7. SessionInv'
  <2>1. pending[w] = NothingPending
    BY <1>1, <1>2 DEF PendingOK, Holding
  <2>2. \A v \in Workers \ {w} : request'[v] = request[v]
    BY <1>1, <1>2 DEF TypeOK
  <2>3. Goto(w, "lookup")
    BY <1>2 DEF Goto
  <2> QED BY <1>2, <2>1, <2>2, <2>3, HoldingNothing
<1>8. StoreInv'
  BY <1>1, <1>2 DEF StoreInv, OneDocumentPerHash, HashesTrue, DocumentsWhole, ChunkRows
<1>9. \A v \in Workers : \A i : i \in 1..Len(outcomes[v]) => request'[v][i] = request[v][i]
  BY <1>1, <1>2, <1>4 DEF TypeOK
<1>10. ReportsKept'
  <2>1. \A h : Known(h)' = Known(h) /\ ChunksOf(h)' = ChunksOf(h)
    BY <1>2 DEF Known, ChunksOf
  <2> QED BY <1>1, <1>2, <1>9, <2>1 DEF ReportsKept, Kept
<1>11. StoredByOne'
  BY <1>1, <1>2, <1>9 DEF StoredByOne
<1> QED BY <1>6, <1>7, <1>8, <1>10, <1>11 DEF IndInv, ReportInv

LEMMA ParseInv ==
    ASSUME IndInv, NEW w \in Workers, Parse(w)
    PROVE  IndInv'
<1>1. TypeOK /\ PendingOK
  BY DEF IndInv, SessionInv
<1>2. /\ UNCHANGED tables /\ documents' = documents
      /\ chunks' = chunks /\ embeddings' = embeddings
      /\ request' = request /\ outcomes' = outcomes /\ pending' = pending /\ broken' = broken
      /\ Goto(w, "flush") /\ pc[w] = "lookup"
  BY DEF Parse, tables
<1>3. TypeOK'
  BY <1>1, <1>2 DEF TypeOK, Goto
<1>4. SessionInv'
  <2>1. pending[w] = NothingPending
    BY <1>1, <1>2 DEF PendingOK, Holding
  <2> QED BY <1>2, <2>1, HoldingNothing
<1> QED BY <1>2, <1>3, <1>4, NothingStored DEF IndInv

LEMMA IdleInv ==
    ASSUME IndInv, NEW w \in Workers, Idle(w)
    PROVE  IndInv'
<1>1. TypeOK /\ StoreInv /\ ReportsKept /\ StoredByOne
  BY DEF IndInv, ReportInv
<1>2. /\ documents' = documents /\ chunks' = chunks /\ embeddings' = embeddings
      /\ request' = [request EXCEPT ![w] = << >>] /\ outcomes' = [outcomes EXCEPT ![w] = << >>]
      /\ broken' = [broken EXCEPT ![w] = FALSE] /\ Goto(w, "idle") /\ Rollback(w)
  BY DEF Idle, tables
<1>3. /\ pending' \in PendingType
      /\ pending'[w] = NothingPending
      /\ \A v \in Workers \ {w} : pending'[v] = pending[v]
  BY <1>1, <1>2, RolledBack
<1>4. /\ outcomes'[w] = << >> /\ request'[w] = << >>
      /\ \A v \in Workers \ {w} : outcomes'[v] = outcomes[v] /\ request'[v] = request[v]
  BY <1>1, <1>2 DEF TypeOK
<1>5. << >> \in Seq(Outcome) /\ Len(<< >>) = 0
  OBVIOUS
<1>6. TypeOK'
  <2>1. ASSUME NEW v \in Workers
        PROVE  Len(outcomes'[v]) + (IF pc'[v] \in {"idle", "respond"} THEN 0 ELSE 1)
                   <= Len(request'[v])
    <3>1. CASE v = w
      BY <1>1, <1>2, <1>4, <1>5, <3>1 DEF TypeOK, Goto
    <3>2. CASE v # w
      BY <1>1, <1>2, <1>4, <3>2 DEF TypeOK, Goto
    <3> QED BY <3>1, <3>2
  <2> QED BY <1>1, <1>2, <1>3, <1>5, <2>1 DEF TypeOK, Goto, PendingType
<1>7. SessionInv'
  BY <1>2, <1>3, <1>4, HoldingNothing
<1>8. StoreInv'
  BY <1>1, <1>2 DEF StoreInv, OneDocumentPerHash, HashesTrue, DocumentsWhole, ChunkRows
<1>9. \A v \in Workers : \A i : i \in 1..Len(outcomes'[v]) =>
         v # w /\ i \in 1..Len(outcomes[v])
             /\ outcomes'[v][i] = outcomes[v][i] /\ request'[v][i] = request[v][i]
  BY <1>4, <1>5
<1>10. ReportsKept'
  <2>1. \A h : Known(h)' = Known(h) /\ ChunksOf(h)' = ChunksOf(h)
    BY <1>2 DEF Known, ChunksOf
  <2> QED BY <1>1, <1>9, <2>1 DEF ReportsKept, Kept
<1>11. StoredByOne'
  BY <1>1, <1>9 DEF StoredByOne
<1> QED BY <1>6, <1>7, <1>8, <1>10, <1>11 DEF IndInv, ReportInv

\* The INSERT did not have to wait: nobody else holds the hash.
LEMMA FlushInv ==
    ASSUME IndInv, NEW w \in Workers, FlushDocument(w)
    PROVE  IndInv'
<1>1. TypeOK /\ PendingOK /\ HashesHeld /\ StatementsOK /\ pc[w] = "flush"
  BY DEF IndInv, SessionInv, FlushDocument
<1> PICK c \in Contents : c = Current(w)
  BY <1>1, CurrentType
<1> DEFINE l == IF HasProvider /\ Chunks[c] # {} THEN "embed" ELSE "commit"
<1>2. /\ UNCHANGED tables /\ documents' = documents
      /\ chunks' = chunks /\ embeddings' = embeddings
      /\ request' = request /\ outcomes' = outcomes /\ broken' = broken
      /\ HashFree(w, Hash[c]) /\ Known(Hash[c]) = {}
      /\ pc' = [pc EXCEPT ![w] = l]
      /\ pending' = [pending EXCEPT ![w] =
            [documents |-> pending[w].documents \cup {Filed(c)},
             chunks |-> pending[w].chunks \cup ChunkRows(c),
             embeddings |-> pending[w].embeddings]]
  BY DEF FlushDocument, Goto, tables, Filed
<1>3. pc'[w] = l /\ l \in Holding /\ \A v \in Workers \ {w} : pc'[v] = pc[v]
  BY <1>1, <1>2 DEF TypeOK, Holding
<1>4. \A v \in Workers \ {w} : pending'[v] = pending[v]
  BY <1>1, <1>2 DEF TypeOK
<1>5. pending'[w] = Flushed(c, l)
  <2>1. pending[w] = NothingPending
    BY <1>1 DEF PendingOK, Holding
  <2>2. pending'[w] = [documents |-> {Filed(c)}, chunks |-> ChunkRows(c), embeddings |-> {}]
    BY <1>1, <1>2, <2>1 DEF TypeOK, NothingPending
  <2>3. l = "commit" /\ HasProvider => ChunkRows(c) = {}
    BY DEF ChunkRows
  <2> QED BY <2>2, <2>3 DEF Flushed
<1>6. TypeOK'
  <2>1. Filed(c) \in Document /\ ChunkRows(c) \subseteq Row
    BY RowTypes
  <2>2. pending' \in PendingType
    BY <1>1, <1>2, <2>1 DEF TypeOK, PendingType
  <2>3. /\ l \in {"embed", "commit"}
        /\ pc' \in [Workers -> {"idle", "lookup", "flush", "embed", "commit", "respond"}]
    BY <1>1, <1>2 DEF TypeOK
  <2>4. ASSUME NEW v \in Workers
        PROVE  Len(outcomes'[v]) + (IF pc'[v] \in {"idle", "respond"} THEN 0 ELSE 1)
                   <= Len(request'[v])
    BY <1>1, <1>2, <1>3, <2>3 DEF TypeOK
  <2> QED BY <1>1, <1>2, <2>2, <2>3, <2>4 DEF TypeOK, PendingType
<1>7. \A v \in Workers : Current(v)' = Current(v)
  BY <1>2 DEF Current
<1>8. PendingOK'
  <2>1. ASSUME NEW v \in Workers, v # w
        PROVE  /\ pc'[v] \in Holding => pending'[v] = Flushed(Current(v)', pc'[v])
               /\ pc'[v] \notin Holding => pending'[v] = NothingPending
    BY <1>1, <1>3, <1>4, <1>7, <2>1 DEF PendingOK
  <2> QED BY <1>3, <1>5, <1>7, <2>1 DEF PendingOK
<1>9. HashesHeld'
  <2>1. \A h : Known(h)' = Known(h)
    BY <1>2 DEF Known
  <2>2. \A v \in Workers \ {w} : pc[v] \in Holding => Hash[Current(v)] # Hash[c]
    <3> SUFFICES ASSUME NEW v \in Workers \ {w}, pc[v] \in Holding
                 PROVE  Hash[Current(v)] # Hash[c]
      OBVIOUS
    <3>1. Filed(Current(v)) \in pending[v].documents
      <4>1. pending[v] = Flushed(Current(v), pc[v])
        BY <1>1 DEF PendingOK
      <4> QED BY <4>1 DEF Flushed
    <3>2. Filed(Current(v)).hash # Hash[c]
      BY <1>2, <3>1 DEF HashFree
    <3> QED BY <3>2 DEF Filed
  <2> QED BY <1>1, <1>2, <1>3, <1>7, <2>1, <2>2 DEF HashesHeld
<1>10. StatementsOK'
  BY <1>1, <1>2, <1>3 DEF StatementsOK, Holding
<1> QED BY <1>2, <1>6, <1>8, <1>9, <1>10, NothingStored DEF IndInv, SessionInv

LEMMA EmbedInv ==
    ASSUME IndInv, NEW w \in Workers, Embed(w)
    PROVE  IndInv'
<1>1. TypeOK /\ PendingOK /\ HashesHeld /\ StatementsOK /\ pc[w] = "embed"
  BY DEF IndInv, SessionInv, Embed
<1> PICK c \in Contents : c = Current(w)
  BY <1>1, CurrentType
<1>2. /\ UNCHANGED tables /\ documents' = documents
      /\ chunks' = chunks /\ embeddings' = embeddings
      /\ request' = request /\ outcomes' = outcomes /\ broken' = broken
      /\ pc' = [pc EXCEPT ![w] = "commit"]
      /\ pending' = [pending EXCEPT ![w].embeddings = @ \cup ChunkRows(c)]
  BY DEF Embed, Goto, tables
<1>3. pc'[w] = "commit" /\ \A v \in Workers \ {w} : pc'[v] = pc[v]
  BY <1>1, <1>2 DEF TypeOK
<1>4. \A v \in Workers \ {w} : pending'[v] = pending[v]
  BY <1>1, <1>2 DEF TypeOK
<1>5. pending[w] = Flushed(c, "embed")
  BY <1>1 DEF PendingOK, Holding
<1>6. pending'[w] = Flushed(c, "commit")
  <2>1. HasProvider
    BY <1>1 DEF StatementsOK
  <2>2. pending'[w] = [pending[w] EXCEPT !.embeddings = @ \cup ChunkRows(c)]
    BY <1>1, <1>2 DEF TypeOK
  <2> QED BY <1>5, <2>1, <2>2 DEF Flushed
<1>7. TypeOK'
  <2>1. Filed(c) \in Document /\ ChunkRows(c) \subseteq Row
    BY RowTypes
  <2>2. pending'[w] \in [documents : SUBSET Document, chunks : SUBSET Row,
                         embeddings : SUBSET Row]
    BY <1>6, <2>1 DEF Flushed
  <2>3. pending' \in PendingType
    BY <1>1, <1>2, <1>4, <2>2 DEF TypeOK, PendingType
  <2>4. pc' \in [Workers -> {"idle", "lookup", "flush", "embed", "commit", "respond"}]
    BY <1>1, <1>2 DEF TypeOK
  <2>5. ASSUME NEW v \in Workers
        PROVE  Len(outcomes'[v]) + (IF pc'[v] \in {"idle", "respond"} THEN 0 ELSE 1)
                   <= Len(request'[v])
    BY <1>1, <1>2, <1>3 DEF TypeOK
  <2> QED BY <1>1, <1>2, <2>3, <2>4, <2>5 DEF TypeOK, PendingType
<1>8. \A v \in Workers : Current(v)' = Current(v)
  BY <1>2 DEF Current
<1>9. PendingOK'
  <2>1. ASSUME NEW v \in Workers, v # w
        PROVE  /\ pc'[v] \in Holding => pending'[v] = Flushed(Current(v)', pc'[v])
               /\ pc'[v] \notin Holding => pending'[v] = NothingPending
    BY <1>1, <1>3, <1>4, <1>8, <2>1 DEF PendingOK
  <2> QED BY <1>3, <1>6, <1>8, <2>1 DEF PendingOK, Holding
<1>10. HashesHeld'
  <2>1. \A h : Known(h)' = Known(h)
    BY <1>2 DEF Known
  <2>2. \A v \in Workers : pc'[v] \in Holding <=> pc[v] \in Holding
    BY <1>1, <1>3 DEF Holding
  <2> QED BY <1>1, <1>8, <2>1, <2>2 DEF HashesHeld
<1>11. StatementsOK'
  BY <1>1, <1>2, <1>3 DEF StatementsOK
<1> QED BY <1>2, <1>7, <1>9, <1>10, <1>11, NothingStored DEF IndInv, SessionInv

-----------------------------------------------------------------------------
(* Theorems *)

LEMMA IndInit == Init => IndInv
<1> SUFFICES ASSUME Init PROVE IndInv
  OBVIOUS
<1>1. TypeOK
  BY DEF Init, TypeOK, NothingPending
<1>2. StoreInv
  BY DEF Init, StoreInv, OneDocumentPerHash, HashesTrue, DocumentsWhole
<1>3. SessionInv
  BY DEF Init, SessionInv, PendingOK, HashesHeld, StatementsOK, Holding
<1>4. ReportInv
  BY DEF Init, ReportInv, ReportsKept, StoredByOne
<1> QED BY <1>1, <1>2, <1>3, <1>4 DEF IndInv

\* Each of the steps at which ingest fails, or finds its content stored, satisfies FinishInv.
LEMMA EndedInv ==
    ASSUME IndInv, NEW w \in Workers,
           \/ Recognise(w) \/ RejectContent(w) \/ LoseConnection(w) \/ FindSessionBroken(w)
           \/ RejectDocument(w) \/ FlushFails(w) \/ EmbedFails(w)
    PROVE  IndInv'
<1>1. \A cause \in {"parsing", "storing", "conflict", "provider", "connection", "session"} :
         /\ Failed(cause) \in Outcome /\ Failed(cause).status # "stored"
         /\ Kept(Failed(cause), Hash[Current(w)])
  BY DEF Failed, Outcome, Kept
<1>2. TypeOK /\ StoreInv
  BY DEF IndInv
<1>3. broken' = broken => broken' \in [Workers -> BOOLEAN]
  BY <1>2 DEF TypeOK
<1>4. CASE Recognise(w)
  <2> PICK c \in Contents : c = Current(w)
    BY <1>2, <1>4, CurrentType DEF Recognise
  <2> DEFINE o == Succeeded("duplicate", Cardinality(ChunksOf(Hash[c])))
  <2>1. PICK d \in documents : d.hash = Hash[c]
    BY <1>4 DEF Recognise, Known
  <2>2. d.content \in Contents /\ ChunksOf(Hash[c]) = ChunkRows(d.content)
    BY <1>2, <2>1, ChunksOfHash DEF Known, TypeOK, Document
  <2>3. o \in Outcome /\ o.status # "stored" /\ Kept(o, Hash[c])
    BY <1>4, <2>2, ChunkCount DEF Outcome, Succeeded, Kept, Recognise
  <2>4. /\ Finish(w, o) /\ UNCHANGED tables /\ pending' = pending /\ broken' = broken
        /\ pc[w] = "lookup"
    BY <1>4 DEF Recognise
  <2> QED BY <1>3, <2>3, <2>4, FinishInv DEF Holding
<1>5. CASE RejectContent(w)
  BY <1>1, <1>3, <1>5, FinishInv DEF RejectContent, Holding
<1>6. CASE LoseConnection(w)
  <2>1. broken' \in [Workers -> BOOLEAN]
    BY <1>2, <1>6 DEF LoseConnection, TypeOK
  <2> QED BY <1>1, <1>6, <2>1, FinishInv DEF LoseConnection
<1>7. CASE FindSessionBroken(w)
  BY <1>1, <1>3, <1>7, FinishInv DEF FindSessionBroken, Holding
<1>8. CASE RejectDocument(w)
  BY <1>1, <1>3, <1>8, FinishInv DEF RejectDocument
<1>9. CASE FlushFails(w)
  BY <1>1, <1>3, <1>9, FinishInv DEF FlushFails
<1>10. CASE EmbedFails(w)
  BY <1>1, <1>3, <1>10, FinishInv DEF EmbedFails
<1> QED BY <1>4, <1>5, <1>6, <1>7, <1>8, <1>9, <1>10

LEMMA CommittedInv ==
    ASSUME IndInv, NEW w \in Workers, Commit(w) \/ CommitFails(w)
    PROVE  IndInv'
<1>1. pc[w] = "commit" /\ broken' = broken /\ Rollback(w) /\ broken' \in [Workers -> BOOLEAN]
  BY DEF Commit, CommitFails, IndInv, TypeOK
<1> PICK c \in Contents : c = Current(w)
  BY <1>1, CurrentType DEF IndInv
<1>2. CASE Commit(w)
  <2> DEFINE o == Succeeded("stored", Cardinality(Chunks[c]))
  <2>1. o \in Outcome /\ o.status = "stored" /\ o.chunks = Cardinality(Chunks[c])
    BY ChunkCount DEF Succeeded, Outcome
  <2>2. Finish(w, o) /\ Committed(w)
    BY <1>2 DEF Commit
  <2> QED BY <1>1, <2>1, <2>2, CommitInv
<1>3. CASE CommitFails(w)
  <2> DEFINE o == Failed("connection")
  <2>1. o \in Outcome /\ o.status = "failed" /\ Kept(o, Hash[c])
    BY DEF Failed, Outcome, Kept
  <2>2. Finish(w, o)
    BY <1>3 DEF CommitFails
  <2>3. CASE Committed(w)
    BY <1>1, <2>1, <2>2, <2>3, CommitInv
  <2>4. CASE UNCHANGED tables
    BY <1>1, <2>1, <2>2, <2>4, FinishInv
  <2> QED BY <1>3, <2>3, <2>4 DEF CommitFails
<1> QED BY <1>2, <1>3

LEMMA StutterInv == IndInv /\ UNCHANGED vars => IndInv'
<1> SUFFICES ASSUME IndInv, UNCHANGED vars PROVE IndInv'
  OBVIOUS
<1>1. TypeOK'
  BY DEF vars, tables, IndInv, TypeOK
<1>2. StoreInv' /\ ReportInv'
  BY NothingStored DEF vars, tables, IndInv
<1>3. SessionInv'
  <2>1. \A v \in Workers : Current(v)' = Current(v)
    BY DEF vars, Current
  <2>2. \A h : Known(h)' = Known(h)
    BY DEF vars, tables, Known
  <2> QED BY <2>1, <2>2 DEF vars, IndInv, SessionInv, PendingOK, HashesHeld, StatementsOK
<1> QED BY <1>1, <1>2, <1>3 DEF IndInv

LEMMA IndStep == IndInv /\ [Next]_vars => IndInv'
<1> SUFFICES ASSUME IndInv, [Next]_vars PROVE IndInv'
  OBVIOUS
<1>1. ASSUME NEW w \in Workers, NEW p \in Payloads, Receive(w, p) PROVE IndInv'
  BY <1>1, ReceiveInv
<1>2. ASSUME NEW w \in Workers,
             \/ Recognise(w) \/ RejectContent(w) \/ LoseConnection(w) \/ FindSessionBroken(w)
             \/ RejectDocument(w) \/ FlushFails(w) \/ EmbedFails(w)
      PROVE  IndInv'
  BY <1>2, EndedInv
<1>3. ASSUME NEW w \in Workers, Parse(w) PROVE IndInv'
  BY <1>3, ParseInv
<1>4. ASSUME NEW w \in Workers, FlushDocument(w) PROVE IndInv'
  BY <1>4, FlushInv
<1>5. ASSUME NEW w \in Workers, Embed(w) PROVE IndInv'
  BY <1>5, EmbedInv
<1>6. ASSUME NEW w \in Workers, Commit(w) \/ CommitFails(w) PROVE IndInv'
  BY <1>6, CommittedInv
<1>7. ASSUME NEW w \in Workers, Respond(w) \/ Crash(w) PROVE IndInv'
  BY <1>7, IdleInv DEF Respond, Crash
<1>8. CASE UNCHANGED vars
  BY <1>8, StutterInv
<1> QED BY <1>1, <1>2, <1>3, <1>4, <1>5, <1>6, <1>7, <1>8 DEF Next, Continue

THEOREM Invariance == Spec => []IndInv
BY IndInit, IndStep, PTL DEF Spec

\* Every variable of the pipeline holds a value of its kind.
THEOREM TypeCorrect == Spec => []TypeOK
<1>1. IndInv => TypeOK
  BY DEF IndInv
<1> QED BY <1>1, Invariance, PTL

\* However identical contents are ingested at once, the unique index on content_hash
\* (rag/models.py) leaves one document per hash.
THEOREM HashStoredOnce == Spec => []OneDocumentPerHash
<1>1. IndInv => OneDocumentPerHash
  BY DEF IndInv, StoreInv
<1> QED BY <1>1, Invariance, PTL

\* A document is there with all its chunks and embeddings and nothing else is, though failed
\* ingests leave their session to the next alert (ingestion/pipeline.py).
THEOREM StoredWhole == Spec => []DocumentsWhole
<1>1. IndInv => DocumentsWhole
  BY DEF IndInv, StoreInv
<1> QED BY <1>1, Invariance, PTL

\* What the routes of api/routes/ingest.py report as stored or duplicate is stored, with the
\* number of chunks they report, and is reported as stored to one caller only.
THEOREM ReportsAreTrue == Spec => []ReportedIsStored
<1>1. IndInv => ReportedIsStored
  <2> SUFFICES ASSUME IndInv PROVE ReportedIsStored
    OBVIOUS
  <2>1. \A w \in Workers : DOMAIN outcomes[w] = 1..Len(outcomes[w])
    BY LenProperties DEF IndInv, TypeOK
  <2> SUFFICES ASSUME NEW w \in Workers, NEW i \in 1..Len(outcomes[w]),
                      outcomes[w][i].status # "failed"
               PROVE  LET h == Hash[request[w][i]] IN
                      /\ Known(h) # {}
                      /\ outcomes[w][i].chunks = Cardinality(ChunksOf(h))
                      /\ outcomes[w][i].status = "stored" =>
                            \A v \in Workers : \A j \in DOMAIN outcomes[v] :
                                (outcomes[v][j].status = "stored" /\ Hash[request[v][j]] = h) =>
                                    v = w /\ i = j
    BY <2>1 DEF ReportedIsStored
  <2>2. Kept(outcomes[w][i], Hash[request[w][i]])
    BY DEF IndInv, ReportInv, ReportsKept
  <2>3. ASSUME outcomes[w][i].status = "stored", NEW v \in Workers, NEW j \in DOMAIN outcomes[v],
               outcomes[v][j].status = "stored", Hash[request[v][j]] = Hash[request[w][i]]
        PROVE  v = w /\ i = j
    <3>1. j \in 1..Len(outcomes[v])
      BY <2>1
    <3> QED BY <2>3, <3>1 DEF IndInv, ReportInv, StoredByOne
  <2> QED BY <2>2, <2>3 DEF Kept
<1> QED BY <1>1, Invariance, PTL

=============================================================================
