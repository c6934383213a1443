# A verification project for memory-with-receipts

TLA+ models of `memory-with-receipts`, the TLC runs that check them and the
TLAPS proofs about them. Paths are those of the repository; Python modules are
given relative to `src/memory_with_receipts/`.

## The system

A FastAPI application over one PostgreSQL database. It stores operational
events as memories with receipts (which event, which evidence), ingests
documents for retrieval, answers questions with citations, and runs a
database-engineer agent that diagnoses incidents and writes its findings back.

| Component | State | Operations | Interacts with |
|---|---|---|---|
| Operational ingestion (`memory/ingestion.py`, `api/routes/operational_memory.py`) | `source_records`, `evidence_records`, `memory_records`, `provenance_links` | `ingest_operational_event` | called by its route and by the diagnosis; one session per request |
| Document pipeline (`ingestion/pipeline.py`, `api/routes/ingest.py`) | `documents`, `chunks`, `chunk_embeddings` | `IngestionPipeline.ingest` behind `/ingest`, `/ingest/file` and the Prometheus webhook | parsers, chunker, embedding provider; called by the diagnosis and the scripts |
| DBE diagnosis (`api/routes/dbe.py`, `dbe_agent/`) | none of its own | `run_dbe_diagnostics`: search, agent loop, notifications, two write-backs | search service, LLM, tools, both ingestions; passes its session to the SQL tool |
| Operational retrieval (`retrieval/scoring.py`) | none | `score_operational_memories` | reads what ingestion commits, by several SELECTs |
| Hybrid search (`rag/search_service.py`, `fusion.py`, `vector_search.py`, `keyword_search.py`, rerankers) | the rerankers' `_failed` latch | `search` | operational retrieval, embedding provider, document tables |
| Generation (`llm/generation.py`, `citations.py`, `prompts.py`) | none | `ask` | search, LLM |
| LLM and embedding providers (`llm/`, `embeddings/`) | lazily loaded models | `generate`, `embed`, `embed_single` with retries | external services |
| Chunkers and parsers (`ingestion/chunking/`, `ingestion/parsers/`) | none | `chunk`, `parse` | pure functions of a text |
| Evaluation (`evaluation/`, `api/routes/eval.py`) | none | `run_case`, `run_all`, metrics | generation, LLM as a judge |
| Application (`api/app.py`, `api/dependencies.py`, `api/rag_dependencies.py`) | `app.state`: engines, providers, services, created on first use | correlation ids, sessions | everything |
| Sandbox (`dbe_agent/sandbox.py`) | none | `validate_sql`, `validate_bash` | the agent's tools |
| Scripts, dashboard, migrations, `memory/models.py` | - | clients of the API, static definitions, unused tables | - |

What makes them correct:

- **Operational ingestion**: an event is recorded once, with its whole
  provenance; retries change nothing and are answered from what is recorded;
  trust counts sources; the seen window is that of the sources; every call ends.
- **Document pipeline**: a text is stored once and whole, a report to the caller
  matches the store, one alert does not affect another, every request ends.
- **Diagnosis**: a retry reports the same memory, what is reported has
  receipts, nothing is remembered of a diagnosis that failed, the loop ends.
- **Retrieval**: each memory with a score of some instant of the retrieval and
  its newest receipts, none crowded out by a weaker one; only anchored memories,
  which the code ensures only for queries that name an anchor.
- **Search**: each result once and of the kind asked for; what ranks better in
  both searches comes first; nothing is reported absent because something failed.
- **Generation**: every citation is a receipt of the passage it names.
- **Chunkers and parsers**: no text lost, chunks within the limit, offsets and
  heading paths that are those of the text.
- **Evaluation**: a report covers its dataset; the metrics measure what was
  retrieved.

What makes that hard: requests interleave between the statements of a
transaction at READ COMMITTED; rows are selected, kept and written back later;
unique indexes make transactions wait for one another; sessions are shared by
the alerts of a webhook and by the tools and write-backs of a diagnosis, and
keep the state a swallowed exception left them in; connections are lost between
a commit and its answer; callers retry. `PROJECT.json` lists the hazards line by
line.

## Modules

| Module | What it models |
|---|---|
| `EventLedger` | what operational ingestion promises (`docs/ARCHITECTURE.md`, "Idempotency strategy"), with one step per call |
| `OperationalIngestion` | `ingest_operational_event` run by any number of threads, one step per observable statement |
| `OperationalIngestion_proofs` | its inductive invariant and safety theorems |
| `OperationalIngestion_refinement` | that it implements `EventLedger` |
| `ContentStore` | what document ingestion promises |
| `DocumentPipeline` | `IngestionPipeline.ingest` run by concurrent requests of one or several contents |
| `DocumentPipeline_proofs`, `DocumentPipeline_refinement` | its invariant and safety theorems; that it implements `ContentStore` |
| `DBEDiagnosis` | the diagnosis handler with its agent and tools, composed with `EventLedger` and `ContentStore` |
| `DBEDiagnosis_proofs` | its safety theorems |
| `OperationalRetrieval` | `score_operational_memories` while events are ingested |
| `OperationalRetrieval_proofs` | its invariants: scores of the retrieval, a fair limit, newest receipts |
| `RankFusion` | ranked lists and Reciprocal Rank Fusion (`rag/fusion.py`), as operators |
| `HybridSearch` (extends `RankFusion`) | `SearchService.search`: both halves, both dialects, rerankers |
| `Generation` (extends `HybridSearch`) | `GenerationService.ask` and citation receipts |
| `Evaluation` (extends `Generation`) | the routes of search, ask and evaluation, the services they create, the runner and the metrics: the composition that is checked |
| `Evaluation_proofs` | its inductive invariant and safety theorems: results, ranking, absence, receipts, reports |
| `Chunking` | four parsers and three chunkers, one step per turn of a loop |
| `Chunking_proofs` | its inductive invariants and safety theorems: heading paths, coverage, sizes, ranges |
| `MCOperationalIngestion`, `MCDocumentPipeline`, `MCDBEDiagnosis`, `MCOperationalRetrieval`, `MCEvaluation`, `MCChunking` | the instances TLC checks |

Definitions named "Variant" are plausible bugs, used to check that each
property can fail; they belong to no specification.

### OperationalIngestion

`sources`, `evidence`, `links` and `memories` are the committed rows; a row
carries its keys and the fields that properties tell apart. `pc`, `req`, `at`,
`seen`, `reply` are a request's local state: its next statement, payload,
parsed `occurred_at`, the memory row its SELECT returned, its answer. What a
transaction has flushed is a function of `pc` and `req`, and it becomes visible
at the commit.

| Action | Code (`memory/ingestion.py`) |
|---|---|
| `RejectPayload`, `RejectTime`, `RejectMetrics` | `_validate_payload`, `_parse_event_time`, the metrics check of `_extract_evidence` |
| `ReplayKnown`, `StartSource` | the first lookup, found or not (60-89) |
| `FlushSource`, `FindAfterRace` | the INSERT of the source, its `IntegrityError` and the second lookup (90-111) |
| `SelectMemory` | evidence flushed, memory selected by key (120-144) |
| `FlushMemory`, `CommitNewMemory` | a new memory (145-159), the links and the commit (178) |
| `CommitUpdatedMemory` | the UPDATE of a memory from the row selected earlier, the links and the commit |
| `LookupFails`, `StatementFails` | a statement of a live request fails: nothing catches it, and the route answers 500 (`api/routes/operational_memory.py:56-66`) |
| `CommitFails` | the last flush or the COMMIT fails, or succeeds with its outcome lost (178): a 500 whether the event is stored or not |
| `Respond`, `Crash` | the session is closed (`api/dependencies.py`), with or without an answer |

A unique index is modelled by what PostgreSQL does: an INSERT waits while
another open transaction holds the key (`SourceFree`, `MemoryFree`), then fails
if the key was committed. An UPDATE is modelled as SQLAlchemy writes it: only
the columns whose value changed, with values computed from the row selected
(`Written`); so concurrent updates are partly lost, as in the code.
Trust and confidence are counted in steps: 0.5 + 0.1n and 0.8 + 0.03n capped at
1.0. Left out: texts, summaries, `freshness_score` (always 1.0), logging.

Two kinds of failure get the same 500. `failed` is a refusal by a database that
served the request: a memory key that another transaction committed since the
SELECT, or that is longer than its column. `unavailable` is a statement or a
COMMIT that did not succeed, at any point of any request; the event may be
stored all the same, and its retry is then a replay (`RecordUnheard` of
`EventLedger`). `FailureIsTransient` is about the first kind, as nothing in the
code can prevent the second: a sound event is refused only if its memory exists
by then, and once the memory is stored and the calls for it have ended, no event
of that memory is ever refused again. The other properties hold whichever kinds
of failure occur.

### DocumentPipeline

`documents`, `chunks`, `embeddings` are committed rows, `pending` those flushed
by an open transaction, `broken` a session whose connection was lost outside
the try block of `ingest`. A request carries a sequence of contents, one for the
JSON and file routes, one per alert for the webhook, in one session. The actions
are the lookup (`Recognise`, `RejectContent`, `Parse`, `LoseConnection`,
`FindSessionBroken`), the flush (`FlushDocument`, `RejectDocument`,
`FlushFails`), the embedding (`Embed`, `EmbedFails`), the commit (`Commit`,
`CommitFails`, which may have been done by the database all the same), and
`Respond` and `Crash`. What parsing and chunking compute is the constant
`Chunks`; a content may have no chunks.

### DBEDiagnosis

The handler in the order of its code: `Receive`, `Search` or `SearchAborts`, the
agent (`RunSql`, `RunOtherTool`, `Conclude`, `GiveUp`), `Notify`, the two
write-backs, `Respond`, `Crash`. Its own state is that of its two sessions:
`opTx`, which the SQL tool makes read-only or leaves aborted, and `ragTx`, which a
failed search leaves aborted. `Notify` is the attempt: a send that fails or has no
webhook configured returns False and the handler goes on, so "notified" never says
that anybody was reached. The write-backs are actions of `EventLedger` and
`ContentStore`, so the composition rests on the two refinements, both proved. A
write-back in a session that cannot write is refused (`RememberRefused`); with a
sound session it may still meet a fault (`RememberFails`, `WriteDocumentFails`),
or be stored with its outcome lost (`RememberUnheard`), which is answered without
a memory id. PostgreSQL is modelled; on SQLite, which the tests use, `SET
TRANSACTION READ ONLY` is a syntax error the SQL tool reports as its observation,
and the session stays usable. With the mock provider the handler has no await
inside the loop, so two diagnoses interleave between processes only; with ADK they
interleave within one.

### OperationalRetrieval

`rows` is what the first SELECT of `score_operational_memories` returned,
`ingested` what is committed. `ReadMemories` and `ReadLinksAndScore` are two
steps because the second SELECT (`selectinload`) sees what was committed
meanwhile. An ingestion is reduced to the two steps a reader can tell apart,
`SelectMemory` and `CommitEvent`, with the same update of `last_seen_at` from
the row selected as in `OperationalIngestion`; `FailEvent` stands for everything
that commits nothing. Scoring is operators: `Evident` adds the weights, `Score`
the recency and the cap, `Meaningful` is the anchor rule, `Cuts` a LIMIT among
equals: any of the cuts the ordering admits. A retrieval writes nothing, so one
of them at a time is enough.

### HybridSearch, Generation, Evaluation

One request at a time passes through the steps of its route: services are
created (`CreateServices`, `CreateServicesFails`), the operational half answers
or fails (`FindMemories`, `FindMemoriesFails`, which may leave the transaction
aborted: `tx`), the query is embedded (`EmbedQuery`, `RateLimited`,
`EmbedFails`), the vector and keyword searches fill `lists`, `Hydrate`, `Rerank`
or `RerankFails` make `documents`, and the LLM answers (`Generate`,
`GenerateMarker`, `GenerateFails`, `NoContext`). An evaluation (`LoadDataset`,
`AskCase`, `ScoreCase`, `ReportCases`) asks each case through the same steps on
one session. `Ingest` commits a chunk at any moment between them. What requests
share is `stored`, the services `built` and the reranker's latch.

A chunk has an integer similarity and relevance per query, so that ranks, ties
and thresholds are those of the code; the SELECTs return any list that their
ORDER BY and LIMIT admit. On PostgreSQL the vector search returns such a list of
any subset of the chunks the filters admit, the empty one included: its HNSW index
(`migrations/versions/003_add_chunk_embeddings.py:48-52`) is approximate, and
filtered after the scan. On SQLite numpy compares every chunk. So what an answer
without evidence proves is limited: `AbsenceIsReal` says that no stored document
matched a keyword, and only on SQLite that none was near the question.

Fused scores are exact fractions: the code rounds to
eight digits, far below the difference of two ranks. An LLM may answer any
numbers in brackets and any terms; the mock provider cites every `[n]` that
begins a line of the prompt, those inside chunks included. A metric is whether
it passes; its score, weighting and text are left out.

### Chunking

A text is a sequence of blocks (headings with a level, paragraphs) of so many
words; offsets count words, and a separator counts for one. Every turn of the
loops of `markdown_parser.py`, `structure_aware.py`, `fixed_size.py` and
`semantic.py` is an action, with the code's integer estimate of tokens
(`int(1.33 * words)`, at least 1). The text, JSON and PDF parsers make a section
of a paragraph, an item or a page; a web page reaches the Markdown parser as
Markdown. For the semantic chunker a block is a sentence, and whether two are
similar is a nondeterministic choice. Blank paragraphs are left out. The
hard split looks for the first word of a piece in the paragraph
(`fixed_size.py:143`), and `text.find` returns the first place it occurs, which
may be before the piece: each piece but the last gets any offset up to its own
(`Finds`), the last that of the paragraph, as in the code.
Only the structure-aware chunker is used by the application.

## Runs

| Run | Instance | Shows |
|---|---|---|
| `ingest_race` | 2 threads, 9 payloads, 5 identifiers, 2 + 1 memory keys, 3 instants, caps 2 and 3 | all safety properties, `ExactWhileHeldAlone`, `CallsDrain`, refinement of `EventLedger` |
| `ingest_last_seen` | as `ingest_race` | violation of `LastSeenIsLatest` |
| `documents` | 2 requests, 6 contents of 5 hashes, 6 payloads of up to 3 contents | all safety properties, `CallsDrain`, refinement of `ContentStore` |
| `documents_reingest` | as `documents` | violation of `ReingestIsNoOp` |
| `documents_alerts` | as `documents` | violation of `AlertsAreIndependent` |
| `diagnosis` | 2 requests, 2 incidents, 1 correlation id, `max_steps` 2 | retries, receipts, order of the write-backs, termination |
| `diagnosis_remembered` | as `diagnosis`, both providers, `max_steps` 1 and 2, nothing fails | violation of `RcaIsRemembered` |
| `retrieval` | 3 events of 2 memories, 3 queries, limits 1 and 2 | scores of one instant, newest receipts, no better memory crowded out |
| `retrieval_anchor` | as `retrieval` | violation of `AnsweredByAnchor` |
| `answers` | 3 chunks, 2 memories, 3 installations, 5 requests and 2 datasets | results, ranking, absence, receipts, whole reports; every request ends |
| `eval_recall` | as `answers` | violation of `RecallMeasuresRetrieval` |
| `chunks` | every text of up to 4 blocks of 5 kinds, and of up to 3 with paragraphs of 13 words; 4 parsers, 3 chunkers | heading paths, no word lost, sizes, offsets and sections |

**Bounds.** Two requests are enough for the conflicts of the stores: each is
between two transactions about one key, and a third would only repeat the position
of one of them (the proofs hold for any number). Payloads are chosen so that every
pair of them that can collide does: same identifier with same or other memory,
other identifier with same memory, every defect; `c` carries no `occurred_at`, so
two submissions of it get different instants. Runs are bounded by the finite sets
of identifiers, not by a number of calls: any of them may be submitted again at
any time. The trust caps are scaled down from 6 and 7, the numbers of steps the
doubles of the code take to 1.0, to 2 and 3, which four sources reach; the proofs
hold for any caps. The webhooks `<<x, y>>` and `<<y, x>>` are there for deadlock,
`<<odd, nul, y>>` for failures before a success in one session. `Modulus` counts
tool calls modulo a number no `max_steps` reaches: a loop without a bound is then
a cycle that TLC sees as never ending. A diagnosis of `max_steps` 2 can query the
database and still conclude. In `retrieval` the first memory has two events that
differ in host, severity, metrics and instant, so that its score, receipts and
anchors depend on which are read; `Cited` is 2 rather than 5 so that receipts are
cut, `Window` 1 so that recency differs. In `answers` chunks 2 and 3 rank in
opposite orders in the two searches, ties and a similarity below zero occur,
limits of 1 to 3 cut the lists, the three installations have the two dialects, the
cross-encoder, both LLMs and the judge among them, and a dataset has two cases or
is malformed; the embedding provider gives up after 2 attempts rather than 5. In
`chunks` a limit of 6 and an overlap of 3 stand for 512 and 50: paragraphs of 3, 5
and 9 words fit together, alone, or not at all, and four blocks reach every order
of flush, overlap, hard split and heading levels; 3-word paragraphs are there
because three of them estimate as less apart than joined, and paragraphs of 13
words because they are split into three pieces, of which the middle one is given
an offset by a search.

**Fairness.** `FairSpec` assumes weak fairness of each request's own steps: a
thread that can run is run, and the database, the providers and the tools answer,
well or badly. The code sees to that in part: bash commands, metrics queries and
webhooks have timeouts and the embedding provider gives up after five attempts;
that the database answers (the SQL tool sets no timeout) and the LLM too is
assumed. Nobody is obliged to submit, to fail, to crash or to lose a connection.
`CallsDrain` is stated for behaviours in which callers eventually stop: PostgreSQL
wakes waiting INSERTs one at a time, and a stream of new callers could pass one
over for ever. `DiagnosisEnds` is stated for the mock provider; nothing in the
code ends a run of ADK. `RequestsEnd` assumes weak fairness of the handling of a
request (`Handle`), retries of the embedding provider included: it is their bound
that ends them. `OperationalRetrieval` and `Chunking` state no liveness: their
steps are a straight line and a loop over a finite text.

**Deadlock** is checked in every run but `chunks`: a request can always be
received, whereas a text is parsed once and then is done.

## Disagreements between the code and what is said of it

- `last_seen_at` may move back when two events of one memory are ingested
  concurrently (`memory/ingestion.py:161`). While no two requests are about to
  update one memory it does not (`ExactWhileHeldAlone`), and in every case it is
  an instant of a stored source.
- Ingesting a text while another request ingests it fails with a 400 rather than
  reporting a duplicate (`ingestion/pipeline.py:180`, against `rag/models.py:70`).
- A connection lost at the lookup of one alert fails the next alerts of the
  webhook (`api/routes/ingest.py:315` promises to go on).
- On PostgreSQL a diagnosis whose agent used the SQL tool is not remembered
  (`dbe_agent/tools.py:41` and the shared session, against `README.md:28`).
- A query that names no service, host, category or metric is answered with every
  active memory (`retrieval/scoring.py:134`), where `docs/ARCHITECTURE.md:176` and
  the docstring of that function say that an environment, a severity or recency
  alone are not enough.
- The evaluation's `context_recall_at_k` and `context_precision` are computed from
  an empty list: `evaluation/runner.py:87` reads an attribute that answers never
  have (against `evaluation/metrics.py:9`).

Each of these is a run that shows it. Seen while reading, without a run:

- `max_steps` is not handed to ADK (`dbe_agent/agent.py:158` against 257-284).
- An answer that cites nothing is returned with no receipts
  (`llm/generation.py:174`), where `README.md:13` says that without receipts there
  is no answer; the confidence threshold of `README.md:181` is not in the code.
- The judge metrics of `README.md:64` are never run by the evaluation route, which
  hands the runner no LLM (`api/routes/eval.py:74`); that route also fails until
  some request has used `/v1/ask` (`api/routes/eval.py:38`).
- On SQLite a metadata filter names a column that does not exist
  (`rag/vector_search.py:159`); the model has the failure.
- The structure-aware chunker drops the page number of its sections, and a section
  with a heading and no content is in no chunk.
- A filtered vector search on PostgreSQL may return nothing although chunks that
  the filter admits are stored (`rag/vector_search.py:107-116` over the HNSW index
  of `migrations/versions/003_add_chunk_embeddings.py:48-52`); without a keyword
  match the answer is then that there is not enough evidence.
- A piece of a paragraph that the fixed-size chunker had to split starts, by its
  receipt, where its first word first occurs in the paragraph, even inside another
  word (`ingestion/chunking/fixed_size.py:143`), and the last piece where the
  paragraph starts (154). The next chunk is taken to start at the paragraph's end
  (73), which is in no section or in the one before it. `RangesEncloseText` states
  what is left: the range of a piece is of its length and begins in its paragraph,
  no later than the piece.

## Proofs

TLAPS proves the following for every value of the constants that satisfies the
modules' assumptions, which say what columns, validation and settings guarantee
and are evaluated by the runs.

| Module | Theorem | Property |
|---|---|---|
| `OperationalIngestion_proofs` | `TypeCorrect` | `TypeOK` |
| | `Idempotent` | `StoredOnce` |
| | `EveryMemoryHasReceipts` | `GraphComplete` |
| | `OnlyNewSourcesChangeMemories` | `ChangedOnlyByNewSource` |
| | `TrustNeverInflated` | `NoTrustInflation` |
| | `WindowAlwaysSupported` | `SeenWindowSupported` |
| | `ExactUnlessShared` | `ExactWhileHeldAlone` |
| | `LatestWhenSequential` | `LastSeenIsLatest`, of one thread |
| | `CountedWhenSequential` | `LevelsCountSources`, of one thread |
| `OperationalIngestion_refinement` | `AcknowledgedStored` | `AcknowledgedIsStored` |
| | `FailuresAreTransient` | `FailureIsTransient` |
| | `ImplementsEventLedger` | `ImplementsLedger` |
| `DocumentPipeline_proofs` | `TypeCorrect` | `TypeOK` |
| | `HashStoredOnce` | `OneDocumentPerHash` |
| | `StoredWhole` | `DocumentsWhole` |
| | `ReportsAreTrue` | `ReportedIsStored` |
| `DocumentPipeline_refinement` | `ImplementsStore` | `ImplementsContentStore` |
| `DBEDiagnosis_proofs` | `TypeCorrect` | `TypeOK` |
| | `RetriesAgree` | `RetryKeepsMemory` |
| | `ReceiptsForAnswers` | `AnsweredMemoryHasReceipts` |
| | `NotifiedFirst` | `OnlyNotifiedIsRemembered` |
| `OperationalRetrieval_proofs` | `TypeCorrect` | `TypeOK` |
| | `NewestReceiptFits` | `NewestReceiptShown` |
| | `ScoresAreOfTheRetrieval` | `ScoreIsOfTheRetrieval` |
| | `LimitIsFair` | `LimitKeepsTheBest` |
| `Evaluation_proofs` | `TypeCorrect` | `TypeOK` |
| | `ResultsAsAsked` | `ResultsAreThoseAskedFor` |
| | `FusionRespectsRanks` | `BetterComesFirst` |
| | `AbsenceIsNoFailure` | `AbsenceIsReal` |
| | `ReceiptsAreOfPassages` | `ReceiptsNamePassages` |
| | `ReportsAreWhole` | `ReportIsWhole` |
| `Chunking_proofs` | `TypeCorrect` | `TypeOK` |
| | `PathsNameAncestors` | `PathsAreAncestors` |
| | `ChunksAlwaysFit` | `ChunksFit` |
| | `NoTextLost` | `TextIsCovered` |
| | `RangesAlwaysEnclose` | `RangesEncloseText` |

**Operational ingestion.** None of the properties is inductive. `StoredOnce`
needs what the unique index gives: between the INSERT of a source and its commit,
nobody else holds or has committed the identifier, and likewise for a memory key.
`IndInv` adds these two facts and that a memory selected for an update exists;
`Invariance` proves it by one step per action. `LevelInv` and `WindowInv` add what
is known of the row a thread keeps in `seen`: its levels are below the number of
sources at the time, which only grows, and its instants are of stored sources. The
action property and the refinement need no more than these: each step maps to
`Record`, `RecordUnheard`, `Replay`, `Refuse`, `Forget` or a stutter of
`EventLedger`. `FailuresAreTransient` follows every call for a memory: a call that
begins when the memory is stored selects it, so it never comes to an INSERT of the
memory, and the calls that began before are those whose end the property waits for.

`LastSeenIsLatest` and `LevelsCountSources` are violated by concurrent requests
(the run `ingest_last_seen`). `ExactUnlessShared` says by what alone: as long as no
two transactions are about to update one memory (`RowsHeldAlone`, what a row lock
taken by the SELECT would ensure and the code does not), the row a transaction
selected is the one stored when it commits (`ExactInv`), so the update adds its
event to an exact row, however the requests interleave or fail otherwise. One
thread shares a memory with nobody; those are the two corollaries. The run
`ingest_race` checks the same property, with and without the hypothesis becoming
false.

**Document pipeline.** A commit stores whatever its session has pending, so
`DocumentsWhole` needs to know what that is: exactly the rows of the current
content, from the flush to the commit, and nothing at any other statement
(`PendingOK`). That is where the rollbacks of failed ingests count: a row left
pending by one alert would be committed by the next. `HashesHeld` is what the
unique index gives, as above. A report stays true because documents are never
removed (`ReportsKept`), and a second report of "stored" for a hash would come
from a session holding a hash that is known (`StoredByOne`). For the refinement,
`LibraryIsWhole` shows that the mapped store is that of the documents, each whole;
a commit is `Store`, whether or not its answer is known, a lookup that finds the
hash is `Recognise`, every other end of an ingest is `Fail`.

**Diagnosis.** `AnswersOK` ties what a request was answered, in `memory` and in
`heard`, to a diagnosis of the same correlation id in the ledger, and `LedgerOK`
says that a correlation id identifies one; so a retry is answered from the first
recorded. `OrderOK` carries the order of the code: a report is there from the
notification on, and its notifications were attempted from the write-backs on.

**Retrieval.** A row with a `last_seen_at` has a committed event, rows and `begun`
are committed, and committed events stay; so a memory that was read has links.
`NewestCut` is about any cut of the receipts: one of those kept is as recent as
any dropped. A score is a sum of the weights (`Points`) and the recency of a set
of events, each at least as high of a larger set; the events scored lie between
`begun` and `ingested`, which gives `ScoreIsOfTheRetrieval` without computing a
score. `RankInv` adds the types, and that a limit is at least 1, as the schemas
require.

**Evaluation.** `IndInv` ties the state of a request to what it asked. Everything
searched, fused or reranked is within `Eligible`, the stored chunks that the
request admits, which only grows; so a document was stored and of the kind asked
for whenever it was found. An empty list of the keyword search, and on SQLite of
the vector search, means that nothing eligible matched at the start, unless
something failed, which is reported otherwise (`AbsenceOK`); an empty list of
pgvector means nothing. An answer's receipts are of the documents it was given
(`AnswerOK`), the services a step uses are there (`ServicesOK`), and the report is
of the first cases of the dataset, as many as it has (`CasesOK`). The order of
`RankFusion` is defined by counting (`Precedes`, `Foremost`, `Orders`): the
position of a chunk is the number of chunks that come before it, so that a fused
list exists and is in order for any number of chunks. `BetterComesFirst` then
needs that a chunk which ranks better in both lists has the higher fraction;
rounding to eight digits cannot undo that, as one rank changes a score by more
than 3.9e-5 in lists of up to 100, the most that the schemas' `top_k` of at most
50 lets the code fetch. `Bodies` and `RouteAssumption` say what a request can be:
`top_k` is at least 1 by its schema, and generation always asks for both searches
(`llm/generation.py`).

**Chunking.** A text, its paragraphs and the sizes are of any length. The open
headings (`stack`) are those that enclose the next block, outermost first: this is
stated of every point between two blocks, with the headings that the one being
read has yet to close (`PathInv`). The sections tile the text (`Tiling`). While
the blocks are chunked, what is still to be taken is what lies from `Ahead` on,
and the buffer holds the last blocks before it (`LoopInv`); its `current_tokens`
are the sum of theirs. `ChunkInv` says that the chunks made so far and the buffer
together hold the words of the blocks before that point (`Chunked`): a flush moves
the buffer to the chunks and keeps an overlap that is in both, a hard split adds
the pieces of one paragraph, which a lemma cuts into `Pieces` without gap.
`RangeInv` says where what is new in the buffer begins (`Carried`) and that each
chunk has the range of what it adds to the one before (`RangesAfter`); what is
known of pieces, wherever their first words are found, and of the chunk after
them is part of it. The sums
(`Total`) need induction, stated of a set of naturals (`Least`, `AllNaturals`) and
not of an operator: a set that contains 0 and successors contains every natural.

Only model-checked: liveness (`CallsDrain`, `DiagnosisEnds`, `RequestsEnd`), which
the prover does not reach. Every invariant and every other safety property that a
passing run checks is a theorem.

## Plan

Every module planned is written, and every safety property of a passing run is
proved. What could still be added: that `RowsHeldAlone` would follow from a lock, in
a variant of `SelectMemory`; retries of embedding batches as steps of the document
pipeline; two searches at once on one reranker, whose only shared state is a latch
that is set once.

## Not modelled, and why

- The sandbox and the regular expressions of the parsers: pure functions over
  strings, put together character by character.
- The vector and keyword scans: the database's. The LLM and embedding services:
  external, their answers are nondeterministic choices.
- The wording of prompts, summaries and reports; scores and weights of metrics
  beyond whether they pass; text extraction from HTML and PDF.
- The metrics route of the diagnosis: reads of statistics views.
- How the event loop and the thread pool schedule handlers: blocking calls in
  async routes delay others, which no model here can say.
- The scripts and the dashboard: clients of operations that are modelled.
  `memory/models.py`: tables no code uses. Migrations and configuration: static.
