---------------------------- MODULE HybridSearch ----------------------------
(***************************************************************************)
(* SearchService.search (rag/search_service.py) with the vector and the    *)
(* keyword search, the fusion, the rerankers and the embedding of the      *)
(* query (embeddings/), while documents are being committed: each SELECT   *)
(* sees the chunks committed when it runs.  Requests share nothing but the *)
(* store and the latch of the reranker, so one at a time is enough.        *)
(*                                                                         *)
(* The operational memories of a query are what score_operational_memories *)
(* (OperationalRetrieval) returns for what the query mentions.  A mention  *)
(* is matched among rows without ORDER BY: one of several is taken.        *)
(*                                                                         *)
(* Left out: vectors and texts (a chunk has a similarity and a relevance   *)
(* for each query), scores shown, page and offset metadata, logging.       *)
(***************************************************************************)
EXTENDS Integers, RankFusion

CONSTANTS
    Chunks,       \* chunks that may be stored, each with one embedding
    Memories,     \* memory_ids
    Queries,
    Type,         \* chunk -> source_type of its document
    Admitted,     \* dates or metadata filter -> the chunks it admits
    Similarity,   \* query -> chunk -> cosine similarity, as an integer
    Relevance,    \* query -> chunk -> ts_rank, 0 when no keyword matches
    Mentions,     \* query -> for each service, host or category in it, its memories, ranked
    Deployments,  \* what an installation may be configured with: dialect, reranker, llm, judge
    MaxRetries,   \* of the embedding provider: 5
    None

ASSUME StoreAssumption ==
    /\ Chunks \subseteq Nat /\ Chunks \cap Memories = {}
    /\ Type \in [Chunks -> STRING]
    /\ \A f \in DOMAIN Admitted : Admitted[f] \subseteq Chunks
    /\ Similarity \in [Queries -> [Chunks -> Int]]
    /\ Relevance \in [Queries -> [Chunks -> Nat]]
    /\ \A q \in Queries : \A s \in Mentions[q] : s \in Seq(Memories) /\ IsInjective(s)

ASSUME DeploymentAssumption ==
    /\ \A d \in Deployments : /\ d.dialect \in {"postgresql", "sqlite"}
                             /\ d.reranker \in {"noop", "cross_encoder"}
    /\ MaxRetries \in Nat \ {0}

VARIABLES
    deployment,  \* the one of this installation
    stored,      \* the chunks committed
    latched,     \* CrossEncoderReranker._failed
    pc,          \* the next step of the request
    asked,       \* query, top_k, source_type, filter, enable_vector, enable_keyword
    begun,       \* the chunks that were committed when the search began
    tx,          \* whether a failed statement has left the transaction aborted
    attempt,     \* failed attempts to embed the query
    lists,       \* what the vector and the keyword search returned
    memories,    \* operational results
    documents    \* document results

searched == <<begun, tx, attempt, lists, memories, documents>>
searchVars == <<deployment, stored, latched, pc, asked, searched>>

-----------------------------------------------------------------------------
(* What a request asks for *)

WantsMemories == asked.source \in {None, "operational-memory"}
WantsDocuments == asked.source # "operational-memory" /\ (asked.vector \/ asked.keyword)

\* Variant: the source_type only.
AdmitsAnyMetadata(c) == asked.source = None \/ Type[c] = asked.source

\* The WHERE clause the four SELECTs build, each for itself.
Admits(c) ==
    /\ asked.source # None => Type[c] = asked.source
    /\ asked.filter # None => c \in Admitted[asked.filter]

First(s, n) == SubSeq(s, 1, IF n < Len(s) THEN n ELSE Len(s))

\* Memories first, then documents, cut at top_k.
Results == First(memories \o documents, asked.limit)

-----------------------------------------------------------------------------
NoLists == [vector |-> << >>, keyword |-> << >>]

SearchInit ==
    /\ deployment \in Deployments
    /\ stored = {} /\ latched = FALSE
    /\ pc = "idle" /\ asked = None
    /\ begun = {} /\ tx = "ok" /\ attempt = 0 /\ lists = NoLists
    /\ memories = << >> /\ documents = << >>

Fresh ==
    /\ begun' = stored /\ attempt' = 0 /\ lists' = NoLists
    /\ memories' = << >> /\ documents' = << >>

\* The step that follows the operational half.
DocumentSteps ==
    IF ~WantsDocuments THEN "found" ELSE IF asked.vector THEN "embed" ELSE "keyword"

FindMemories ==
    /\ pc = "operational"
    /\ pc' = DocumentSteps
    /\ IF WantsMemories /\ Mentions[asked.query] # {}
       THEN \E s \in Mentions[asked.query] : memories' = First(s, asked.limit)
       ELSE UNCHANGED memories
    /\ UNCHANGED <<deployment, stored, latched, asked, begun, tx, attempt, lists, documents>>

\* Any exception is swallowed.  That of a failed statement has aborted the transaction.
FindMemoriesFails ==
    /\ pc = "operational" /\ WantsMemories
    /\ pc' = DocumentSteps
    /\ tx' \in IF deployment.dialect = "postgresql" THEN {"ok", "aborted"} ELSE {"ok"}
    /\ UNCHANGED <<deployment, stored, latched, asked, begun, attempt, lists, memories, documents>>

EmbedQuery ==
    /\ pc = "embed"
    /\ pc' = "vector"
    /\ UNCHANGED <<deployment, stored, latched, asked, searched>>

\* Variant: the attempts start over.
RateLimitedForEver ==
    /\ pc = "embed"
    /\ attempt' = (attempt + 1) % MaxRetries
    /\ UNCHANGED <<deployment, stored, latched, pc, asked, begun, tx, lists, memories, documents>>

\* The provider is over its rate limit and the query is embedded again later.
RateLimited ==
    /\ pc = "embed"
    /\ attempt < MaxRetries - 1
    /\ attempt' = attempt + 1
    /\ UNCHANGED <<deployment, stored, latched, pc, asked, begun, tx, lists, memories, documents>>

\* It fails, or gives up, or returns a vector of the wrong dimension.
EmbedFails ==
    /\ pc = "embed"
    /\ pc' = "failed"
    /\ UNCHANGED <<deployment, stored, latched, asked, searched>>

Matching(score, least) == {c \in stored : Admits(c) /\ score[c] >= least}

\* pgvector returns the nearest it meets, whatever their similarity: the scan of the HNSW index
\* is approximate, stops after so many rows and is filtered afterwards, so that any row may be
\* missing.  numpy scans the whole table and returns those above 0.
NearestByPgvector(n) ==
    UNION {TopLists(S, n, Similarity[asked.query]) : S \in SUBSET {c \in stored : Admits(c)}}
NearestByNumpy(n) ==
    TopLists(Matching(Similarity[asked.query], 1), n, Similarity[asked.query])

\* LIKE on SQLite scores every match 1.0.
MatchesByRank(n) == TopLists(Matching(Relevance[asked.query], 1), n, Relevance[asked.query])
MatchesByLike(n) == TopLists(Matching(Relevance[asked.query], 1), n, [c \in Chunks |-> 1])

\* _sqlite_vector_search names a column that does not exist when there is a metadata filter.
SearchVectors ==
    /\ pc = "vector" /\ tx = "ok"
    /\ deployment.dialect = "sqlite" => asked.filter # "metadata"
    /\ \E s \in IF deployment.dialect = "sqlite" THEN NearestByNumpy(2 * asked.limit)
                  ELSE NearestByPgvector(2 * asked.limit) :
          lists' = [lists EXCEPT !.vector = s]
    /\ pc' = IF asked.keyword THEN "keyword" ELSE "hydrate"
    /\ UNCHANGED <<deployment, stored, latched, asked, begun, tx, attempt, memories, documents>>

SearchKeywords ==
    /\ pc = "keyword" /\ tx = "ok"
    /\ \E s \in IF deployment.dialect = "sqlite" THEN MatchesByLike(2 * asked.limit)
                  ELSE MatchesByRank(2 * asked.limit) :
          lists' = [lists EXCEPT !.keyword = s]
    /\ pc' = "hydrate"
    /\ UNCHANGED <<deployment, stored, latched, asked, begun, tx, attempt, memories, documents>>

\* The candidates that are still stored, in fused order.
Candidates ==
    Fused(Foremost(lists.vector, lists.keyword, 2 * asked.limit) \cap stored,
          lists.vector, lists.keyword)

\* Variant: swallowed, as in the operational half.
SelectFailsQuietly ==
    /\ pc \in {"vector", "keyword"} \/ (pc = "hydrate" /\ Candidates # << >>)
    /\ pc' = "found"
    /\ UNCHANGED <<deployment, stored, latched, asked, searched>>

\* A SELECT fails: because the transaction is aborted, because of the metadata
\* filter of _sqlite_vector_search, or for any other reason.
SelectFails ==
    /\ pc \in {"vector", "keyword"} \/ (pc = "hydrate" /\ Candidates # << >>)
    /\ pc' = "failed"
    /\ UNCHANGED <<deployment, stored, latched, asked, searched>>

\* The reranker does nothing, or has failed before.
Hydrate ==
    /\ pc = "hydrate" /\ tx = "ok"
    /\ deployment.reranker = "noop" \/ latched \/ Candidates = << >>
    /\ documents' = First(Candidates, asked.limit)
    /\ pc' = "found"
    /\ UNCHANGED <<deployment, stored, latched, asked, begun, tx, attempt, lists, memories>>

\* The cross-encoder orders the candidates as it likes.
Rerank ==
    /\ pc = "hydrate" /\ tx = "ok"
    /\ deployment.reranker = "cross_encoder" /\ ~latched /\ Candidates # << >>
    /\ \E s \in Orders(ToSet(Candidates)) : documents' = First(s, asked.limit)
    /\ pc' = "found"
    /\ UNCHANGED <<deployment, stored, latched, asked, begun, tx, attempt, lists, memories>>

\* It is not installed, or does not load or predict: from now on the fused order stays.
RerankFails ==
    /\ pc = "hydrate" /\ tx = "ok"
    /\ deployment.reranker = "cross_encoder" /\ ~latched /\ Candidates # << >>
    /\ latched' = TRUE
    /\ documents' = First(Candidates, asked.limit)
    /\ pc' = "found"
    /\ UNCHANGED <<deployment, stored, asked, begun, tx, attempt, lists, memories>>

Search ==
    \/ FindMemories \/ FindMemoriesFails \/ EmbedQuery \/ RateLimited \/ EmbedFails
    \/ SearchVectors \/ SearchKeywords \/ SelectFails \/ Hydrate \/ Rerank \/ RerankFails

=============================================================================
