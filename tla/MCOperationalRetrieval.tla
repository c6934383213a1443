----------------------- MODULE MCOperationalRetrieval -----------------------
(* Two events of one memory, told apart by host, severity, metrics and instant, and one of a *)
(* second memory of the same service.  A query that the first memory can match in full, one  *)
(* by host and metrics, and one with nothing but an environment.                             *)
EXTENDS OperationalRetrieval

CONSTANTS e1, e2, e3

Event(memory, host, category, severity, evidence, metrics, at) ==
    [memory |-> memory, service |-> "pg", host |-> host, environment |-> "prod",
     category |-> category, severity |-> severity, evidence |-> evidence,
     metrics |-> metrics, at |-> at]

MCPayload ==
    [e \in Events |->
        CASE e = e1 -> Event(1, None, "lag", "low", {1, 2}, {}, 4)
          [] e = e2 -> Event(1, "h1", "lag", "high", {1, 2, 3}, {3}, 3)
          [] e = e3 -> Event(2, "h1", "cpu", "low", {1, 3, 4}, {3, 4}, 2)]

Query(service, host, category, environment, severity, metrics, at) ==
    [service |-> service, host |-> host, environment |-> environment, category |-> category,
     severity |-> severity, metrics |-> metrics, at |-> at]

MCQueries ==
    {Query("pg", "h1", "lag", "prod", "high", {3}, 5),
     Query(None, "h1", None, None, "low", {3, 4}, 3),
     Query(None, None, None, "prod", None, {}, 5)}

=============================================================================
