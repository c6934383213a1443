--------------------------- MODULE MCDBEDiagnosis ---------------------------
(* Two incidents of two categories; callers repeat a correlation id for the same incident *)
(* or for the other one.                                                                  *)
EXTENDS DBEDiagnosis

CONSTANTS lag, locks

MCCategory == [i \in Incidents |-> IF i = lag THEN "replication_lag" ELSE "deadlock_spike"]

=============================================================================
