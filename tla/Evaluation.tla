----------------------------- MODULE Evaluation -----------------------------
(***************************************************************************)
(* The routes /v1/search, /v1/ask and /v1/eval/run (api/routes/), with the *)
(* services they create on first use (api/rag_dependencies.py) and the     *)
(* evaluation (evaluation/): EvalRunner asks every case of a dataset in    *)
(* turn, on one session, and scores each answer by the metrics.            *)
(*                                                                         *)
(* Other requests store documents, and create services, meanwhile.  A      *)
(* service is there or not: two requests that create the same one at once  *)
(* leave one of two that are alike.                                        *)
(*                                                                         *)
(* Left out: scores and details of metrics (only whether they pass), text  *)
(* of the report, paths of datasets.                                       *)
(***************************************************************************)
EXTENDS Generation

CONSTANTS
    Requests,  \* bodies of requests, with their route
    Datasets,  \* dataset_path -> its cases, and whether load_golden_dataset can read them
    Title      \* chunk or memory -> the title of its document

ASSUME EvaluationAssumption ==
    /\ Title \in [Chunks \cup Memories -> STRING]
    /\ \A d \in DOMAIN Datasets :
          /\ Datasets[d].readable \in BOOLEAN
          /\ Datasets[d].cases \in Seq([query : Queries, expected : SUBSET STRING,
                 terms : SUBSET Terms, forbidden : SUBSET Terms, least : Nat])
    /\ \A d \in Deployments : d.judge \in BOOLEAN

\* The bodies of the routes; top_k is 1 or more.
Bodies ==
    [route : {"search", "ask", "eval"}, query : {None} \cup Queries, limit : Nat \ {0},
     source : {None} \cup STRING, filter : {None} \cup DOMAIN Admitted,
     vector : BOOLEAN, keyword : BOOLEAN, dataset : {None} \cup DOMAIN Datasets]

\* The generation service always asks for both searches.
ASSUME RouteAssumption ==
    /\ Requests \subseteq Bodies /\ None \notin Bodies
    /\ \A r \in Requests :
          /\ r.route = "eval" => r.dataset \in DOMAIN Datasets
          /\ r.route # "eval" => r.query \in Queries
          /\ r.route # "search" => r.vector /\ r.keyword

VARIABLES
    built,   \* what app.state holds
    cases,   \* the dataset being run
    report   \* the results of its cases so far

evalVars == <<built, cases, report>>
vars == <<searchVars, answer, evalVars>>

-----------------------------------------------------------------------------
(* Services *)

\* Variant: the generation service is stored before the search service it holds.
ChainGenerationFirst ==
    [search |-> <<"session_factory", "embedding_provider", "search_service">>,
     ask |-> <<"session_factory", "generation_service", "embedding_provider", "search_service">>,
     eval |-> <<"session_factory">>,
     ingest |-> <<"session_factory", "embedding_provider", "ingestion_pipeline">>]

\* What a route needs in app.state, in the order it is created.
Chain ==
    [search |-> <<"session_factory", "embedding_provider", "search_service">>,
     ask |-> <<"session_factory", "embedding_provider", "search_service", "generation_service">>,
     eval |-> <<"session_factory">>,
     ingest |-> <<"session_factory", "embedding_provider", "ingestion_pipeline">>]

Needed(route) == ToSet(Chain[route])

-----------------------------------------------------------------------------
(* Metrics of the answer to a case *)

Passages == {Results[i] : i \in 1..Len(Results)}
TitlesOf(s) == {Title[s[i]] : i \in DOMAIN s}

\* getattr(ask_result, "_retrieved_chunks", []): AskResult has no such attribute.
Retrieved == << >>

Relevant(c) == {i \in 1..Len(Retrieved) : Title[Retrieved[i]] \in c.expected}

SourceHitRate(c) == c.expected \subseteq TitlesOf(answer.receipts)
ContextRecall(c) == c.expected \subseteq TitlesOf(Retrieved)
ContextPrecision(c) ==
    c.expected = {} \/ (Retrieved # << >> /\ 2 * Cardinality(Relevant(c)) >= Len(Retrieved))
ValidCitationCoverage ==
    answer.insufficient \/ answer.used = 0
        \/ (answer.receipts # << >> /\ \A i \in DOMAIN answer.receipts : i \in 1..answer.used)
ReceiptCoverage == \A i \in DOMAIN answer.receipts : answer.receipts[i] # None
CitationCount(c) == Cardinality(DOMAIN answer.receipts) >= c.least
MustInclude(c) == c.terms \subseteq answer.terms
MustNotInclude(c) == c.forbidden \cap answer.terms = {}

Metrics(c) ==
    [source_hit_rate |-> SourceHitRate(c), context_recall_at_k |-> ContextRecall(c),
     context_precision |-> ContextPrecision(c), valid_citation_coverage |-> ValidCitationCoverage,
     receipt_coverage |-> ReceiptCoverage, citation_count_check |-> CitationCount(c),
     must_include_terms |-> MustInclude(c), must_not_include_terms |-> MustNotInclude(c)]

\* What the LLM as a judge may find; without chunks only relevance is put to it.
Judgements ==
    IF ~deployment.judge THEN {<< >>}
    ELSE [faithfulness : IF Retrieved = << >> THEN {TRUE} ELSE BOOLEAN,
          answer_relevance : BOOLEAN,
          claim_coverage : IF Retrieved = << >> THEN {TRUE} ELSE BOOLEAN]

AllPass(m) == \A n \in DOMAIN m : m[n]

-----------------------------------------------------------------------------
Init ==
    /\ SearchInit
    /\ answer = None
    /\ built = {} /\ cases = << >> /\ report = << >>

Goto(l) == pc' = l

Receive(r) ==
    /\ pc = "idle"
    /\ asked' = r
    /\ tx' = "ok"
    /\ Goto("services")
    /\ UNCHANGED <<deployment, stored, latched, begun, attempt, lists, memories, documents, answer,
                   evalVars>>

\* The services missing are created.  eval takes the generation service as it is.
CreateServices ==
    /\ pc = "services"
    /\ asked.route = "eval" => "generation_service" \in built
    /\ built' = built \cup Needed(asked.route)
    /\ Goto(IF asked.route = "eval" THEN "dataset" ELSE "operational")
    /\ Fresh
    /\ UNCHANGED <<deployment, stored, latched, asked, tx, answer, cases, report>>

\* A constructor raises, or app.state has no generation_service: those before it stay.
CreateServicesFails ==
    /\ pc = "services"
    /\ \E n \in 0..Len(Chain[asked.route]) :
          built' = built \cup ToSet(First(Chain[asked.route], n))
    /\ \/ asked.route = "eval" /\ "generation_service" \notin built
       \/ ~(Needed(asked.route) \subseteq built')
    /\ Goto("failed")
    /\ UNCHANGED <<deployment, stored, latched, asked, searched, answer, cases, report>>

\* Another request ingests a document of one chunk.
Ingest(c) ==
    /\ c \notin stored
    /\ stored' = stored \cup {c}
    /\ built' = built \cup Needed("ingest")
    /\ UNCHANGED <<deployment, latched, pc, asked, searched, answer, cases, report>>

\* 404 or 422 if there is no such dataset or a line of it is malformed.
LoadDataset ==
    /\ pc = "dataset"
    /\ LET d == Datasets[asked.dataset] IN
          IF d.readable THEN Goto("case") /\ cases' = d.cases
          ELSE Goto("failed") /\ UNCHANGED cases
    /\ UNCHANGED <<deployment, stored, latched, asked, searched, answer, built, report>>

AskCase ==
    /\ pc = "case" /\ Len(report) < Len(cases)
    /\ asked' = [asked EXCEPT !.query = cases[Len(report) + 1].query]
    /\ Fresh
    /\ Goto("operational")
    /\ UNCHANGED <<deployment, stored, latched, tx, answer, evalVars>>

ScoreCase ==
    /\ pc = "answered" /\ asked.route = "eval"
    /\ LET c == cases[Len(report) + 1] IN
          \E j \in Judgements :
             report' = Append(report,
                 [case |-> c, retrieved |-> Passages, metrics |-> Metrics(c),
                  passed |-> AllPass(Metrics(c)) /\ AllPass(j)])
    /\ answer' = None
    /\ Goto("case")
    /\ UNCHANGED <<deployment, stored, latched, asked, searched, built, cases>>

\* Variant: a failure ends the run, with what there is.
ReportCasesSoFar ==
    /\ pc \in {"case", "failed"} /\ asked.route = "eval"
    /\ pc = "case" => Len(report) = Len(cases)
    /\ Goto("reported")
    /\ UNCHANGED <<deployment, stored, latched, asked, searched, answer, evalVars>>

ReportCases ==
    /\ pc = "case" /\ Len(report) = Len(cases)
    /\ Goto("reported")
    /\ UNCHANGED <<deployment, stored, latched, asked, searched, answer, evalVars>>

\* The answer, or the error, leaves.
Respond ==
    /\ \/ pc = "found" /\ asked.route = "search"
       \/ pc = "answered" /\ asked.route = "ask"
       \/ pc \in {"reported", "failed"}
    /\ Goto("idle") /\ asked' = None /\ tx' = "ok" /\ begun' = {} /\ attempt' = 0
    /\ lists' = NoLists /\ memories' = << >> /\ documents' = << >>
    /\ answer' = None /\ cases' = << >> /\ report' = << >>
    /\ UNCHANGED <<deployment, stored, latched, built>>

Handle ==
    \/ CreateServices \/ CreateServicesFails \/ LoadDataset \/ AskCase \/ ScoreCase
    \/ ReportCases \/ Respond
    \/ Search /\ UNCHANGED <<answer, evalVars>>
    \/ GenerationStep /\ UNCHANGED evalVars

Next ==
    \/ \E r \in Requests : Receive(r)
    \/ \E c \in Chunks : Ingest(c)
    \/ Handle

Spec == Init /\ [][Next]_vars

\* The database, the providers and the reranker answer, well or badly.
FairSpec == Spec /\ WF_vars(Handle)

-----------------------------------------------------------------------------
(* Properties *)

\* Every variable holds a value of its kind, and a service is there only with those it uses.
TypeOK ==
    /\ deployment \in Deployments /\ stored \subseteq Chunks /\ begun \subseteq stored
    /\ (pc = "idle") = (asked = None)
    /\ tx \in {"ok", "aborted"} /\ attempt \in 0..(MaxRetries - 1)
    /\ ToSet(memories) \subseteq Memories
    /\ Len(report) <= Len(cases)
    /\ "generation_service" \in built => Needed("ask") \subseteq built
    /\ built \subseteq UNION {Needed(r) : r \in DOMAIN Chain}

\* No result is returned twice, whichever of the two lists found it, no more than top_k are,
\* memories come before documents, and every document is stored and of the source_type and
\* within the filter asked for, though four SELECTs each apply them.
ResultsAreThoseAskedFor ==
    pc \in {"found", "answered"} =>
        /\ IsInjective(Results) /\ Len(Results) <= asked.limit
        /\ \A i, j \in 1..Len(Results) :
              Results[i] \in Chunks /\ Results[j] \in Memories => j < i
        /\ \A c \in Passages \cap Chunks :
              /\ c \in stored
              /\ asked.source \in {None, Type[c]}
              /\ asked.filter # None => c \in Admitted[asked.filter]

\* Unless a cross-encoder reorders them, a chunk that one search ranks ahead of another, and
\* the other search does not rank behind, comes ahead of it: whatever was committed between
\* the two searches, and however their ranks add up and are cut.
BetterComesFirst ==
    (pc = "found" /\ (deployment.reranker = "noop" \/ latched)) =>
        \A c, d \in stored :
            Dominates(lists.vector, lists.keyword, c, d) /\ Contains(documents, d) =>
                Contains(documents, c) /\ Rank(documents, c) < Rank(documents, d)

\* "Not enough evidence" without asking the LLM means that no document asked for matched a
\* keyword of the question when the search began, nor, where numpy compares them all, was near
\* it: never that a provider or the database failed, though failures of the operational half
\* are swallowed.  What pgvector would have found proves nothing: its index may miss any row.
AbsenceIsReal ==
    (answer # None /\ answer.insufficient /\ answer.used = 0 /\ WantsDocuments) =>
        \A c \in begun : Admits(c) =>
            /\ Relevance[asked.query][c] = 0
            /\ deployment.dialect = "sqlite" => Similarity[asked.query][c] <= 0

\* The receipts of an answer are of the passages it cites, each under the number by which the
\* answer cites it, and an answer that declares itself insufficient shows none.  The mock
\* provider cites every passage.
ReceiptsNamePassages ==
    answer # None =>
        /\ answer.insufficient => answer.receipts = << >>
        /\ \A i \in answer.numbers : 1 <= i /\ i <= Len(Results) => i \in DOMAIN answer.receipts
        /\ \A i \in DOMAIN answer.receipts :
              i \in answer.numbers /\ answer.receipts[i] = (memories \o documents)[i]
        /\ deployment.llm = "mock" => {answer.receipts[i] : i \in DOMAIN answer.receipts} = Passages

\* A report covers every case of its dataset, in order, or there is none: a case whose
\* retrieval or generation fails is never left out of the pass rate.
ReportIsWhole ==
    pc = "reported" =>
        [i \in 1..Len(report) |-> report[i].case] = Datasets[asked.dataset].cases

\* Every request ends, however often the embedding provider is over its rate limit.
RequestsEnd == (pc # "idle") ~> (pc = "idle")

\* context_recall_at_k passes exactly when the expected titles are among those of the chunks
\* retrieved.  It does not: nothing hands the chunks retrieved to the metric.
RecallMeasuresRetrieval ==
    \A i \in 1..Len(report) :
        report[i].metrics.context_recall_at_k =
            (report[i].case.expected \subseteq {Title[c] : c \in report[i].retrieved})

=============================================================================
