---------------------------- MODULE MCEvaluation ----------------------------
(* Three chunks of two source types, two memories.  Chunks 2 and 3 rank in opposite orders  *)
(* in the two searches, 1 is second nearest but matches no keyword.  The first query        *)
(* mentions a service and a host, the other one nothing.                                    *)
EXTENDS Evaluation

CONSTANTS q1, q2, m1, m2

MCType == [c \in Chunks |-> IF c = 3 THEN "pdf" ELSE "markdown"]
MCAdmitted == [dates |-> {1, 3}, metadata |-> {1, 2}]
MCSimilarity ==
    [q \in Queries |-> IF q = q1 THEN <<1, 2, 0>> ELSE <<1, 1, -1>>]
MCRelevance ==
    [q \in Queries |-> IF q = q1 THEN <<0, 1, 2>> ELSE <<0, 1, 1>>]
MCMentions == [q \in Queries |-> IF q = q1 THEN {<<m1, m2>>, <<m2>>} ELSE {}]
MCBrackets == [r \in Chunks \cup Memories |-> IF r = 1 THEN {3} ELSE {}]
MCTitle == [r \in Chunks \cup Memories |-> IF r \in Chunks THEN "runbook" ELSE "memory"]

Deployment(dialect, reranker, llm, judge) ==
    [dialect |-> dialect, reranker |-> reranker, llm |-> llm, judge |-> judge]
MCDeployments ==
    {Deployment("postgresql", "noop", "gemini", FALSE), Deployment("sqlite", "noop", "mock", TRUE),
     Deployment("postgresql", "cross_encoder", "mock", FALSE)}

Request(route, query, limit, source, filter, vector, keyword, dataset) ==
    [route |-> route, query |-> query, limit |-> limit, source |-> source, filter |-> filter,
     vector |-> vector, keyword |-> keyword, dataset |-> dataset]
MCRequests ==
    {Request("search", q1, 1, None, "dates", TRUE, TRUE, None),
     Request("search", q2, 2, "markdown", None, FALSE, TRUE, None),
     Request("ask", q1, 3, None, None, TRUE, TRUE, None),
     Request("ask", q2, 1, None, "metadata", TRUE, TRUE, None),
     Request("ask", q1, 1, "operational-memory", None, TRUE, TRUE, None)}
        \cup {Request("eval", None, 1, None, None, TRUE, TRUE, d) : d \in DOMAIN Datasets}

Case(query, expected, terms, forbidden, least) ==
    [query |-> query, expected |-> expected, terms |-> terms, forbidden |-> forbidden,
     least |-> least]
MCDatasets ==
    [broken |-> [readable |-> FALSE, cases |-> << >>],
     golden |-> [readable |-> TRUE, cases |->
         <<Case(q2, {"runbook"}, {"lag"}, {}, 1), Case(q1, {}, {}, {"lag"}, 0)>>]]

=============================================================================
