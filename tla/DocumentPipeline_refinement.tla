--------------------- MODULE DocumentPipeline_refinement ---------------------
(***************************************************************************)
(* DocumentPipeline implements ContentStore: every commit stores one new   *)
(* content whole, and everything else callers see is a report from the     *)
(* store or a failure.                                                     *)
(***************************************************************************)
EXTENDS DocumentPipeline_proofs

-----------------------------------------------------------------------------
(* The mapping *)

Brief(o) == [status |-> o.status, chunks |-> o.chunks]

Briefs(s) == [i \in DOMAIN s |-> Brief(s[i])]

Told == [w \in Workers |-> Briefs(outcomes[w])]

Library == {[hash |-> d.hash,
             chunks |-> {r.index : r \in {s \in chunks : s.hash = d.hash}},
             embedded |-> {r.index : r \in {s \in embeddings : s.hash = d.hash}}] :
               d \in documents}

LEMMA SameCardinality == \A S : Store!Cardinality(S) = Cardinality(S)
BY DEF Store!Cardinality, Cardinality

LEMMA FunctionIsSequence ==
    ASSUME NEW S, NEW n \in Nat, NEW f \in [1..n -> S]
    PROVE  f \in Seq(S) /\ Len(f) = n
OBVIOUS

\* One more outcome is one more thing told.
LEMMA BriefAppended ==
    ASSUME NEW s \in Seq(Outcome), NEW o \in Outcome
    PROVE  Briefs(Append(s, o)) = Append(Briefs(s), Brief(o))
<1> DEFINE T == [status : {"stored", "duplicate", "failed"}, chunks : Nat]
<1>1. /\ Append(s, o) \in Seq(Outcome) /\ Len(s) \in Nat
      /\ Len(Append(s, o)) = Len(s) + 1
      /\ \A i \in 1..Len(s) : Append(s, o)[i] = s[i]
      /\ Append(s, o)[Len(s) + 1] = o
  BY Appended
<1>2. DOMAIN s = 1..Len(s) /\ DOMAIN Append(s, o) = 1..(Len(s) + 1)
  BY <1>1, LenProperties
<1>3. \A i \in 1..Len(s) : s[i] \in Outcome
  BY ElementOfSeq
<1>4. \A x \in Outcome : Brief(x) \in T
  BY DEF Brief, Outcome
<1>5. Briefs(s) \in [1..Len(s) -> T]
  BY <1>2, <1>3, <1>4 DEF Briefs
<1>6. Briefs(s) \in Seq(T) /\ Len(Briefs(s)) = Len(s)
  BY <1>1, <1>5, FunctionIsSequence
<1>7. /\ Append(Briefs(s), Brief(o)) \in Seq(T)
      /\ Len(Append(Briefs(s), Brief(o))) = Len(s) + 1
      /\ \A i \in 1..Len(s) : Append(Briefs(s), Brief(o))[i] = Briefs(s)[i]
      /\ Append(Briefs(s), Brief(o))[Len(s) + 1] = Brief(o)
  BY <1>4, <1>6, Appended
<1>8. Append(Briefs(s), Brief(o)) \in [1..(Len(s) + 1) -> T]
  BY <1>7, LenProperties
<1>9. Briefs(Append(s, o)) \in [1..(Len(s) + 1) -> T]
  BY <1>1, <1>2, <1>4, ElementOfSeq DEF Briefs
<1>10. \A i \in 1..(Len(s) + 1) : Briefs(Append(s, o))[i] = Append(Briefs(s), Brief(o))[i]
  <2> SUFFICES ASSUME NEW i \in 1..(Len(s) + 1)
               PROVE  Briefs(Append(s, o))[i] = Append(Briefs(s), Brief(o))[i]
    OBVIOUS
  <2>1. Briefs(Append(s, o))[i] = Brief(Append(s, o)[i])
    BY <1>2 DEF Briefs
  <2>2. CASE i \in 1..Len(s)
    BY <1>1, <1>2, <1>7, <2>1, <2>2 DEF Briefs
  <2>3. CASE i = Len(s) + 1
    BY <1>1, <1>7, <2>1, <2>3
  <2>4. i \in 1..Len(s) \/ i = Len(s) + 1
    BY <1>1
  <2> QED BY <2>2, <2>3, <2>4
<1> QED BY <1>8, <1>9, <1>10

\* The store is that of the documents, each whole.
LEMMA LibraryIsWhole == IndInv => Library = {Store!Whole(d.content) : d \in documents}
<1> SUFFICES ASSUME IndInv, NEW d \in documents
             PROVE  [hash |-> d.hash,
                     chunks |-> {r.index : r \in {s \in chunks : s.hash = d.hash}},
                     embedded |-> {r.index : r \in {s \in embeddings : s.hash = d.hash}}]
                    = Store!Whole(d.content)
  BY DEF Library
<1>1. d.hash = Hash[d.content] /\ d.content \in Contents
  BY DEF IndInv, StoreInv, HashesTrue, TypeOK, Document
<1>2. ChunksOf(d.hash) = ChunkRows(d.content)
  BY ChunksOfHash DEF IndInv, TypeOK, Known
<1>3. {r.index : r \in {s \in chunks : s.hash = d.hash}} = Chunks[d.content]
  <2> DEFINE kept == {s \in chunks : s.hash = d.hash}
  <2>1. kept = ChunkRows(d.content)
    BY <1>2 DEF ChunksOf
  <2>2. \A i \in Chunks[d.content] : \E r \in ChunkRows(d.content) : r.index = i
    <3> SUFFICES ASSUME NEW i \in Chunks[d.content]
                 PROVE  \E r \in ChunkRows(d.content) : r.index = i
      OBVIOUS
    <3> DEFINE r == [hash |-> Hash[d.content], index |-> i]
    <3>1. r \in ChunkRows(d.content) /\ r.index = i
      BY DEF ChunkRows
    <3> QED BY <3>1
  <2>3. \A r \in ChunkRows(d.content) : r.index \in Chunks[d.content]
    BY DEF ChunkRows
  <2> HIDE DEF kept
  <2> QED BY <2>1, <2>2, <2>3 DEF kept
<1>4. {r.index : r \in {s \in embeddings : s.hash = d.hash}}
        = IF HasProvider THEN Chunks[d.content] ELSE {}
  BY <1>3 DEF IndInv, StoreInv, DocumentsWhole
<1> QED BY <1>1, <1>3, <1>4 DEF Store!Whole

LEMMA LibraryWholeNext ==
    ASSUME IndInv' PROVE Library' = {Store!Whole(d.content) : d \in documents'}
<1>1. (IndInv => Library = {Store!Whole(d.content) : d \in documents})'
  BY LibraryIsWhole, PTL
<1> QED BY <1>1 DEF Store!Whole

\* A hash the database knows is one the store knows.
LEMMA KnownIsStored ==
    ASSUME IndInv, NEW c \in Contents
    PROVE  /\ Known(Hash[c]) = {} => Store!SameHash(c) = {}
           /\ Known(Hash[c]) # {} =>
                 \E e \in Store!SameHash(c) : Cardinality(e.chunks) = Cardinality(ChunksOf(Hash[c]))
<1>1. Store!SameHash(c) = {e \in Library : e.hash = Hash[c]}
  BY DEF Store!SameHash, Library
<1>2. Library = {Store!Whole(d.content) : d \in documents}
  BY LibraryIsWhole
<1>3. \A d \in documents : Store!Whole(d.content).hash = d.hash
                           /\ Store!Whole(d.content).chunks = Chunks[d.content]
  BY DEF Store!Whole, IndInv, StoreInv, HashesTrue
<1>4. ASSUME Known(Hash[c]) = {} PROVE Store!SameHash(c) = {}
  BY <1>1, <1>2, <1>3, <1>4 DEF Known
<1>5. ASSUME Known(Hash[c]) # {}
      PROVE  \E e \in Store!SameHash(c) : Cardinality(e.chunks) = Cardinality(ChunksOf(Hash[c]))
  <2>1. PICK d \in documents : d.hash = Hash[c]
    BY <1>5 DEF Known
  <2>2. d.content \in Contents
    BY DEF IndInv, TypeOK, Document
  <2>3. ChunksOf(Hash[c]) = ChunkRows(d.content)
    BY <2>1, ChunksOfHash DEF IndInv, TypeOK, Known
  <2>4. Cardinality(Store!Whole(d.content).chunks) = Cardinality(ChunksOf(Hash[c]))
    BY <1>3, <2>2, <2>3, ChunkCount
  <2>5. Store!Whole(d.content) \in Store!SameHash(c)
    BY <1>1, <1>2, <1>3, <2>1
  <2> QED BY <2>4, <2>5
<1> QED BY <1>4, <1>5

-----------------------------------------------------------------------------
(* Steps *)

LEMMA TellStep ==
    ASSUME TypeOK, NEW w \in Workers, NEW o \in Outcome, Finish(w, o)
    PROVE  Store!Tell(w, o.status, o.chunks)
<1>1. outcomes \in [Workers -> Seq(Outcome)]
      /\ outcomes' = [outcomes EXCEPT ![w] = Append(outcomes[w], o)]
  BY DEF TypeOK, Finish
<1>2. Briefs(outcomes'[w]) = Append(Briefs(outcomes[w]), Brief(o))
  BY <1>1, BriefAppended
<1>3. \A v \in Workers \ {w} : Briefs(outcomes'[v]) = Briefs(outcomes[v])
  BY <1>1
<1>4. Told' = [Told EXCEPT ![w] = Append(Told[w], Brief(o))]
  BY <1>2, <1>3 DEF Told
<1> QED BY <1>4 DEF Store!Tell, Told, Briefs, Brief

LEMMA ForgetStep ==
    ASSUME TypeOK, NEW w \in Workers, Idle(w) PROVE Store!Forget(w)
<1>1. outcomes' = [outcomes EXCEPT ![w] = << >>] /\ UNCHANGED tables
  BY DEF Idle
<1>2. Briefs(<< >>) = << >>
  BY DEF Briefs
<1>3. Briefs(outcomes'[w]) = << >> /\ \A v \in Workers \ {w} : Briefs(outcomes'[v]) = Briefs(outcomes[v])
  BY <1>1, <1>2 DEF TypeOK
<1>4. Told' = [Told EXCEPT ![w] = << >>]
  BY <1>3 DEF Told
<1> QED BY <1>1, <1>4 DEF Store!Forget, Told, Briefs, Brief, tables

LEMMA QuietStep ==
    ASSUME UNCHANGED <<tables, outcomes>> PROVE UNCHANGED Store!svars
BY DEF Store!svars, tables

LEMMA StoreStep ==
    ASSUME IndInv, IndInv', NEW w \in Workers, pc[w] = "commit", Committed(w),
           NEW c \in Contents, c = Current(w),
           Store!Tell(w, "stored", Cardinality(Chunks[c])) \/ Store!Tell(w, "failed", 0)
    PROVE  Store!Store(w, c)
<1>1. Store!SameHash(c) = {}
  <2>1. Known(Hash[c]) = {}
    BY DEF IndInv, SessionInv, HashesHeld, Holding
  <2> QED BY <2>1, KnownIsStored
<1>2. documents' = documents \cup {Filed(c)}
  <2>1. pending[w] = Flushed(c, pc[w])
    BY DEF IndInv, SessionInv, PendingOK, Holding
  <2>2. pending[w].documents = {Filed(c)}
    BY <2>1 DEF Flushed
  <2> QED BY <2>2 DEF Committed
<1>3. Library' = Library \cup {Store!Whole(c)}
  <2>1. Library = {Store!Whole(d.content) : d \in documents}
    BY LibraryIsWhole
  <2>2. Library' = {Store!Whole(d.content) : d \in documents'}
    BY LibraryWholeNext
  <2>3. Filed(c).content = c
    BY DEF Filed
  <2> QED BY <1>2, <2>1, <2>2, <2>3
<1> QED BY <1>1, <1>3, SameCardinality DEF Store!Store, Library

LEMMA ContentStep ==
    ASSUME IndInv, IndInv', [Next]_vars PROVE [Store!Next]_(Store!svars)
<1>0. TypeOK
  BY DEF IndInv
<1>1. ASSUME NEW w \in Workers, UNCHANGED tables,
             NEW cause \in {"parsing", "storing", "conflict", "provider", "connection", "session"},
             Finish(w, Failed(cause))
      PROVE  Store!Fail(w)
  <2>1. Failed(cause) \in Outcome /\ Failed(cause).status = "failed" /\ Failed(cause).chunks = 0
    BY DEF Failed, Outcome
  <2>2. Store!Tell(w, "failed", 0)
    BY <1>0, <1>1, <2>1, TellStep
  <2> QED BY <1>1, <2>2 DEF Store!Fail, tables
<1>2. ASSUME NEW w \in Workers, Recognise(w) PROVE \E c \in Contents : Store!Recognise(w, c)
  <2>1. PICK c \in Contents : c = Current(w)
    BY <1>0, <1>2, CurrentType DEF Recognise
  <2> DEFINE o == Succeeded("duplicate", Cardinality(ChunksOf(Hash[c])))
  <2>2. Known(Hash[c]) # {} /\ Finish(w, o) /\ UNCHANGED tables
    BY <1>2, <2>1 DEF Recognise
  <2>3. PICK e \in Store!SameHash(c) : Cardinality(e.chunks) = Cardinality(ChunksOf(Hash[c]))
    BY <2>2, KnownIsStored
  <2>4. PICK d \in documents : ChunksOf(Hash[c]) = ChunkRows(d.content) /\ d.content \in Contents
    BY <2>2, ChunksOfHash DEF Known, IndInv, TypeOK, Document
  <2>5. o \in Outcome /\ o.status = "duplicate" /\ o.chunks = Cardinality(e.chunks)
    BY <2>3, <2>4, ChunkCount DEF Succeeded, Outcome
  <2>6. Store!Tell(w, "duplicate", Cardinality(e.chunks))
    BY <1>0, <2>2, <2>5, TellStep
  <2> QED BY <2>2, <2>6, SameCardinality DEF Store!Recognise, tables
<1>3. ASSUME NEW w \in Workers, Commit(w) \/ CommitFails(w)
      PROVE  Store!Fail(w) \/ \E c \in Contents : Store!Store(w, c)
  <2>1. PICK c \in Contents : c = Current(w)
    BY <1>0, <1>3, CurrentType DEF Commit, CommitFails
  <2>2. CASE Commit(w)
    <3> DEFINE o == Succeeded("stored", Cardinality(Chunks[c]))
    <3>1. o \in Outcome /\ o.status = "stored" /\ o.chunks = Cardinality(Chunks[c])
      BY ChunkCount DEF Succeeded, Outcome
    <3>2. pc[w] = "commit" /\ Committed(w) /\ Finish(w, o)
      BY <2>1, <2>2 DEF Commit
    <3>3. Store!Tell(w, "stored", Cardinality(Chunks[c]))
      BY <1>0, <3>1, <3>2, TellStep
    <3> QED BY <2>1, <3>2, <3>3, StoreStep
  <2>3. CASE CommitFails(w)
    <3>1. Failed("connection") \in Outcome /\ Failed("connection").status = "failed"
          /\ Failed("connection").chunks = 0
      BY DEF Failed, Outcome
    <3>2. pc[w] = "commit" /\ Finish(w, Failed("connection")) /\ (Committed(w) \/ UNCHANGED tables)
      BY <2>3 DEF CommitFails
    <3>3. Store!Tell(w, "failed", 0)
      BY <1>0, <3>1, <3>2, TellStep
    <3> QED BY <1>1, <2>1, <3>2, <3>3, StoreStep
  <2> QED BY <1>3, <2>2, <2>3
<1>4. ASSUME NEW w \in Workers,
             \/ RejectContent(w) \/ LoseConnection(w) \/ FindSessionBroken(w)
             \/ RejectDocument(w) \/ FlushFails(w) \/ EmbedFails(w)
      PROVE  Store!Fail(w)
  BY <1>1, <1>4 DEF RejectContent, LoseConnection, FindSessionBroken, RejectDocument, FlushFails,
                    EmbedFails
<1>5. ASSUME NEW w \in Workers,
             (\E p \in Payloads : Receive(w, p)) \/ Parse(w) \/ FlushDocument(w) \/ Embed(w)
      PROVE  UNCHANGED Store!svars
  BY <1>5, QuietStep DEF Receive, Parse, FlushDocument, Embed
<1>6. ASSUME NEW w \in Workers, Respond(w) \/ Crash(w) PROVE Store!Forget(w)
  BY <1>0, <1>6, ForgetStep DEF Respond, Crash
<1>7. CASE UNCHANGED vars
  BY <1>7, QuietStep DEF vars
<1> QED BY <1>2, <1>3, <1>4, <1>5, <1>6, <1>7 DEF Next, Continue, Store!Next

\* The pipeline implements the store it promises: a content hash is stored once and whole, and
\* callers are told of what is stored or of a failure (ingestion/pipeline.py).
THEOREM ImplementsStore == Spec => ImplementsContentStore
<1>1. Init => Store!Init
  BY DEF Init, Store!Init
<1>2. IndInv /\ IndInv' /\ [Next]_vars => [Store!Next]_(Store!svars)
  BY ContentStep
<1> QED BY <1>1, <1>2, Invariance, PTL DEF Spec, ImplementsContentStore, Store!Spec

=============================================================================
