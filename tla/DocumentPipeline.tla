-------------------------- MODULE DocumentPipeline --------------------------
(***************************************************************************)
(* IngestionPipeline.ingest (ingestion/pipeline.py) run by concurrent      *)
(* requests behind the routes /ingest, /ingest/file (one content each) and *)
(* /ingest/webhook/prometheus (one content per alert, one session for all) *)
(* of api/routes/ingest.py.                                                *)
(*                                                                         *)
(* Rows flushed by an open transaction are pending: nobody else sees them, *)
(* the next commit of the same session stores them and a rollback drops    *)
(* them.  The unique index on content_hash makes an INSERT wait for a      *)
(* pending row of the same hash.                                           *)
(*                                                                         *)
(* A content stands for its text, source_type and title.  Left out: what   *)
(* parsing and chunking compute (Chunks gives the chunk indexes they end   *)
(* up with), titles, URIs, metadata, logging.                              *)
(***************************************************************************)
EXTENDS Naturals, Sequences, FiniteSets

CONSTANTS
    Workers,     \* requests in progress, each with its own session
    Contents,    \* what callers may submit, any number of times
    Hashes,
    Hash,        \* content -> SHA-256 of its text, whatever its source_type
    Chunks,      \* content -> the indexes of the chunks it is split into
    Defect,      \* content -> why it cannot be stored, if it cannot
    Payloads,    \* sequences of contents one request may carry
    HasProvider  \* an embedding provider is configured

\* unstorable: text PostgreSQL rejects (a NUL character, a heading longer than its column).
Defects == {"none", "unparsable", "unstorable"}

ASSUME ContentAssumption ==
    /\ Hash \in [Contents -> Hashes]
    /\ Chunks \in [Contents -> SUBSET Nat]
    /\ \A c \in Contents : IsFiniteSet(Chunks[c])
    /\ Defect \in [Contents -> Defects]
    /\ Payloads \subseteq Seq(Contents) \ {<<>>}
    /\ HasProvider \in BOOLEAN

VARIABLES
    documents,   \* committed rows of documents
    chunks,      \* committed rows of chunks
    embeddings,  \* committed rows of chunk_embeddings
    pc,          \* the next statement of each worker
    request,     \* the contents of the request each worker handles
    outcomes,    \* what became of those it has finished, in order
    pending,     \* rows its open transaction has flushed
    broken       \* its session has a lost connection nobody rolled back

tables == <<documents, chunks, embeddings>>
vars   == <<tables, pc, request, outcomes, pending, broken>>

-----------------------------------------------------------------------------
(* Rows and outcomes *)

Document == [hash : Hashes, content : Contents]
Row      == [hash : Hashes, index : Nat]

Outcome ==
    [status : {"stored", "duplicate", "failed"}, chunks : Nat,
     cause : {"none", "parsing", "storing", "conflict", "provider", "connection", "session"}]

Succeeded(status, n) == [status |-> status, chunks |-> n, cause |-> "none"]
Failed(cause) == [status |-> "failed", chunks |-> 0, cause |-> cause]

NothingPending == [documents |-> {}, chunks |-> {}, embeddings |-> {}]

ChunkRows(c) == [hash : {Hash[c]}, index : Chunks[c]]

\* The content a worker is at.
Current(w) == request[w][Len(outcomes[w]) + 1]

Known(h)    == {d \in documents : d.hash = h}
ChunksOf(h) == {r \in chunks : r.hash = h}

NoUniqueHash(w, h) == TRUE  \* variant: no unique constraint
HashFree(w, h) == \A v \in Workers \ {w} : \A d \in pending[v].documents : d.hash # h

-----------------------------------------------------------------------------
Init ==
    /\ documents = {} /\ chunks = {} /\ embeddings = {}
    /\ pc = [w \in Workers |-> "idle"]
    /\ request = [w \in Workers |-> <<>>]
    /\ outcomes = [w \in Workers |-> <<>>]
    /\ pending = [w \in Workers |-> NothingPending]
    /\ broken = [w \in Workers |-> FALSE]

Goto(w, l) == pc' = [pc EXCEPT ![w] = l]

\* Variant: one alert too many.
FinishLate(w, o) ==
    /\ outcomes' = [outcomes EXCEPT ![w] = Append(@, o)]
    /\ Goto(w, IF Len(outcomes[w]) = Len(request[w]) THEN "respond" ELSE "lookup")
    /\ UNCHANGED request

\* ingest returns or raises.  The webhook goes on with its next alert in the same session.
Finish(w, o) ==
    /\ outcomes' = [outcomes EXCEPT ![w] = Append(@, o)]
    /\ Goto(w, IF Len(outcomes[w]) + 1 = Len(request[w]) THEN "respond" ELSE "lookup")
    /\ UNCHANGED request

Rollback(w) == pending' = [pending EXCEPT ![w] = NothingPending]

Receive(w, p) ==
    /\ pc[w] = "idle"
    /\ request' = [request EXCEPT ![w] = p]
    /\ Goto(w, "lookup")
    /\ UNCHANGED <<tables, outcomes, pending, broken>>

\* Variant: the chunks of the submitted content are counted.
RecogniseCountsOwn(w) ==
    /\ pc[w] = "lookup" /\ ~broken[w]
    /\ Known(Hash[Current(w)]) # {}
    /\ Finish(w, Succeeded("duplicate", Cardinality(Chunks[Current(w)])))
    /\ UNCHANGED <<tables, pending, broken>>

\* The lookup finds a document with the same hash.
Recognise(w) ==
    LET h == Hash[Current(w)] IN
    /\ pc[w] = "lookup" /\ ~broken[w]
    /\ Known(h) # {}
    /\ Finish(w, Succeeded("duplicate", Cardinality(ChunksOf(h))))
    /\ UNCHANGED <<tables, pending, broken>>

\* The lookup finds nothing; no parser takes the source type, or parsing or chunking raises.
RejectContent(w) ==
    /\ pc[w] = "lookup" /\ ~broken[w]
    /\ Known(Hash[Current(w)]) = {}
    /\ Defect[Current(w)] = "unparsable"
    /\ Finish(w, Failed("parsing"))
    /\ UNCHANGED <<tables, pending, broken>>

\* The lookup finds nothing and the content is parsed and chunked.
Parse(w) ==
    /\ pc[w] = "lookup" /\ ~broken[w]
    /\ Known(Hash[Current(w)]) = {}
    /\ Defect[Current(w)] # "unparsable"
    /\ Goto(w, "flush")
    /\ UNCHANGED <<tables, request, outcomes, pending, broken>>

\* The connection is lost under the lookup, which no try of ingest surrounds: nothing rolls
\* the session back, and whatever else this request asks of it fails.
LoseConnection(w) ==
    /\ pc[w] = "lookup" /\ ~broken[w]
    /\ broken' = [broken EXCEPT ![w] = TRUE]
    /\ Rollback(w)
    /\ Finish(w, Failed("connection"))
    /\ UNCHANGED tables

FindSessionBroken(w) ==
    /\ pc[w] = "lookup" /\ broken[w]
    /\ Finish(w, Failed("session"))
    /\ UNCHANGED <<tables, pending, broken>>

\* flush of the document and its chunks: it waits for a pending document of the same hash,
\* then raises if one was committed since the lookup, as it does for a text that cannot be
\* stored; every exception is rolled back.
FlushDocument(w) ==
    LET c == Current(w) IN
    /\ pc[w] = "flush"
    /\ HashFree(w, Hash[c])
    /\ Known(Hash[c]) = {} /\ Defect[c] # "unstorable"
    /\ pending' = [pending EXCEPT ![w] =
          [documents |-> @.documents \cup {[hash |-> Hash[c], content |-> c]},
           chunks |-> @.chunks \cup ChunkRows(c),
           embeddings |-> @.embeddings]]
    /\ Goto(w, IF HasProvider /\ Chunks[c] # {} THEN "embed" ELSE "commit")
    /\ UNCHANGED <<tables, request, outcomes, broken>>

RejectDocument(w) ==
    LET c == Current(w) IN
    /\ pc[w] = "flush"
    /\ HashFree(w, Hash[c])
    /\ Known(Hash[c]) # {} \/ Defect[c] = "unstorable"
    /\ Rollback(w)
    /\ Finish(w, Failed(IF Defect[c] = "unstorable" THEN "storing" ELSE "conflict"))
    /\ UNCHANGED <<tables, broken>>

\* The connection is lost under the flush: that, ingest does roll back.
FlushFails(w) ==
    /\ pc[w] = "flush"
    /\ Rollback(w)
    /\ Finish(w, Failed("connection"))
    /\ UNCHANGED <<tables, broken>>

\* _embed_chunks: the provider is called while the transaction is open.
Embed(w) ==
    /\ pc[w] = "embed"
    /\ pending' = [pending EXCEPT ![w].embeddings = @ \cup ChunkRows(Current(w))]
    /\ Goto(w, "commit")
    /\ UNCHANGED <<tables, request, outcomes, broken>>

\* Variant: an EmbeddingError is raised without a rollback.
EmbedFailsUnrolled(w) ==
    /\ pc[w] = "embed"
    /\ Finish(w, Failed("provider"))
    /\ UNCHANGED <<tables, pending, broken>>

\* The provider fails, answers too few vectors, or vectors of the wrong dimension.
EmbedFails(w) ==
    /\ pc[w] = "embed"
    /\ Rollback(w)
    /\ Finish(w, Failed("provider"))
    /\ UNCHANGED <<tables, broken>>

Committed(w) ==
    /\ documents' = documents \cup pending[w].documents
    /\ chunks' = chunks \cup pending[w].chunks
    /\ embeddings' = embeddings \cup pending[w].embeddings

\* Variant: one commit for all the alerts of a request.
CommitAtTheEnd(w) ==
    /\ pc[w] = "commit"
    /\ IF Len(outcomes[w]) + 1 = Len(request[w])
       THEN Committed(w) /\ Rollback(w)
       ELSE UNCHANGED <<tables, pending>>
    /\ Finish(w, Succeeded("stored", Cardinality(Chunks[Current(w)])))
    /\ UNCHANGED broken

Commit(w) ==
    /\ pc[w] = "commit"
    /\ Committed(w)
    /\ Rollback(w)
    /\ Finish(w, Succeeded("stored", Cardinality(Chunks[Current(w)])))
    /\ UNCHANGED broken

\* Variant: the exception of the commit is not raised.
CommitFailsSilently(w) ==
    /\ pc[w] = "commit"
    /\ UNCHANGED tables
    /\ Rollback(w)
    /\ Finish(w, Succeeded("stored", Cardinality(Chunks[Current(w)])))
    /\ UNCHANGED broken

\* The connection is lost under the commit, before or after the database has done it.
CommitFails(w) ==
    /\ pc[w] = "commit"
    /\ Committed(w) \/ UNCHANGED tables
    /\ Rollback(w)
    /\ Finish(w, Failed("connection"))
    /\ UNCHANGED broken

Idle(w) ==
    /\ Goto(w, "idle")
    /\ request' = [request EXCEPT ![w] = <<>>]
    /\ outcomes' = [outcomes EXCEPT ![w] = <<>>]
    /\ broken' = [broken EXCEPT ![w] = FALSE]
    /\ Rollback(w)
    /\ UNCHANGED tables

\* The answer leaves (it may get lost) and the session is closed.
Respond(w) == pc[w] = "respond" /\ Idle(w)

\* The process dies: its open transaction is undone and the caller gets no answer.
Crash(w) == pc[w] \notin {"idle", "respond"} /\ Idle(w)

Continue(w) ==
    \/ Recognise(w) \/ RejectContent(w) \/ Parse(w) \/ FindSessionBroken(w)
    \/ FlushDocument(w) \/ RejectDocument(w) \/ Embed(w) \/ EmbedFails(w)
    \/ Commit(w) \/ CommitFails(w) \/ Respond(w)

Next ==
    \E w \in Workers :
        \/ \E p \in Payloads : Receive(w, p)
        \/ Continue(w) \/ LoseConnection(w) \/ FlushFails(w) \/ Crash(w)

Spec == Init /\ [][Next]_vars

\* A thread that can run is eventually run, and the database and the provider answer, well
\* or badly (the providers give up after a bounded number of retries).
FairSpec == Spec /\ \A w \in Workers : WF_vars(Continue(w))

-----------------------------------------------------------------------------
(* Properties *)

\* Every variable holds a value of its kind, and outcomes never outnumber contents.
TypeOK ==
    /\ documents \subseteq Document /\ chunks \subseteq Row /\ embeddings \subseteq Row
    /\ pc \in [Workers -> {"idle", "lookup", "flush", "embed", "commit", "respond"}]
    /\ request \in [Workers -> Payloads \cup {<<>>}]
    /\ outcomes \in [Workers -> Seq(Outcome)]
    /\ pending \in [Workers -> [documents : SUBSET Document, chunks : SUBSET Row,
                                embeddings : SUBSET Row]]
    /\ broken \in [Workers -> BOOLEAN]
    /\ \A w \in Workers :
          Len(outcomes[w]) + (IF pc[w] \in {"idle", "respond"} THEN 0 ELSE 1) <= Len(request[w])

\* Whatever the interleaving of identical contents, a content hash is stored once.
OneDocumentPerHash == \A d, e \in documents : d.hash = e.hash => d = e

\* Documents are stored whole: each with exactly its chunks and, with a provider, one
\* embedding per chunk.  No row is left of a failed ingest, not even of an alert that failed
\* in the session in which the next alert of the same webhook was committed.
DocumentsWhole ==
    /\ chunks = UNION {ChunkRows(d.content) : d \in documents}
    /\ embeddings = IF HasProvider THEN chunks ELSE {}

\* What a request reports as stored or as a duplicate is committed, with as many chunks as
\* it says, and no two requests report having stored the same content.
ReportedIsStored ==
    \A w \in Workers : \A i \in DOMAIN outcomes[w] :
        LET h == Hash[request[w][i]] IN
        outcomes[w][i].status # "failed" =>
            /\ Known(h) # {}
            /\ outcomes[w][i].chunks = Cardinality(ChunksOf(h))
            /\ outcomes[w][i].status = "stored" =>
                  \A v \in Workers : \A j \in DOMAIN outcomes[v] :
                      (outcomes[v][j].status = "stored" /\ Hash[request[v][j]] = h) =>
                          v = w /\ i = j

\* Once callers stop submitting, every request ends: a request holds one content hash at a
\* time, so that no two webhooks with the same alerts wait for one another.
NoNewCalls == <>[][\A w \in Workers : pc[w] = "idle" => pc'[w] = "idle"]_vars
CallsDrain == NoNewCalls => <>[](\A w \in Workers : pc[w] = "idle")

\* The pipeline implements the store it promises.
Store ==
    INSTANCE ContentStore WITH
        Clients <- Workers,
        Embedded <- HasProvider,
        library <- {[hash |-> d.hash,
                     chunks |-> {r.index : r \in {s \in chunks : s.hash = d.hash}},
                     embedded |-> {r.index : r \in {s \in embeddings : s.hash = d.hash}}] :
                        d \in documents},
        told <- [w \in Workers |->
                    [i \in DOMAIN outcomes[w] |->
                        [status |-> outcomes[w][i].status, chunks |-> outcomes[w][i].chunks]]]
ImplementsContentStore == Store!Spec

\* Ingesting content that is already stored is a no-op, not an error.  It is one when the
\* other ingest commits between the lookup and the INSERT.
ReingestIsNoOp ==
    \A w \in Workers : \A i \in DOMAIN outcomes[w] : outcomes[w][i].cause # "conflict"

\* An alert that fails does not make the other alerts of its webhook fail.  It does when the
\* connection is lost under its lookup.
AlertsAreIndependent ==
    \A w \in Workers : \A i \in DOMAIN outcomes[w] : outcomes[w][i].cause # "session"

=============================================================================
