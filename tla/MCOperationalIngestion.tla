----------------------- MODULE MCOperationalIngestion -----------------------
(* Two threads.  a, b and late share an identifier but a is of another memory, b, c, d and f *)
(* share a memory, and c carries no occurred_at.  wide, odd, empty and late are rejected at  *)
(* successive steps, late only as long as its identifier is unknown.                         *)
EXTENDS OperationalIngestion

CONSTANTS a, b, c, d, f, wide, odd, empty, late

MCSourceIdentifier ==
    [e \in Events |-> CASE e \in {a, b, late} -> 1 [] e = c -> 2 [] e = d -> 3
                        [] e = f -> 4 [] OTHER -> 5]
MCMemoryKey == [e \in Events |-> IF e = a THEN "m1" ELSE IF e = wide THEN "long" ELSE "m2"]
MCEvidence ==
    [e \in Events |-> IF e \in {b, d} THEN {"dimension", "metric"} ELSE {"dimension"}]
MCEventTimes ==
    [e \in Events |-> CASE e = c -> {1, 3} [] e = d -> {2} [] OTHER -> {1}]
MCDefect ==
    [e \in Events |-> CASE e = wide -> "memory_key" [] e = odd -> "metrics"
                        [] e = empty -> "missing" [] e = late -> "occurred_at"
                        [] OTHER -> "none"]

=============================================================================
