----------------------------- MODULE EventLedger -----------------------------
(***************************************************************************)
(* What operational ingestion promises: source_identifier is the strict    *)
(* idempotency key.  An event is recorded at most once, together with the  *)
(* receipts that support its memory; a retry or a duplicate is answered    *)
(* from what is recorded and changes nothing; a refused event leaves no    *)
(* trace.  An answer that the ledger is unavailable says nothing: the      *)
(* event may have been recorded all the same, whole.                       *)
(***************************************************************************)
EXTENDS Naturals, FiniteSets

CONSTANTS Clients, Events, SourceIdentifier, MemoryKey, Evidence, None

VARIABLES ledger, receipts, answer

lvars == <<ledger, receipts, answer>>

ReceiptsOf(e) ==
    [source : {SourceIdentifier[e]}, item : Evidence[e], memory : {MemoryKey[e]}]

SameIdentity(e) == {f \in ledger : SourceIdentifier[f] = SourceIdentifier[e]}
SameMemory(e)   == {f \in ledger : MemoryKey[f] = MemoryKey[e]}

\* The graph of a recorded event, as an answer reports it.
Reported(e, status, created) ==
    [status |-> status, memory |-> MemoryKey[e], created |-> created,
     evidence |-> Cardinality(Evidence[e]), links |-> Cardinality(Evidence[e])]

Refusal(status) ==
    [status |-> status, memory |-> None, created |-> FALSE, evidence |-> 0, links |-> 0]

Init == ledger = {} /\ receipts = {} /\ answer = [c \in Clients |-> None]

\* memory_created is reported for the first event of a memory and for no other.
Record(c, e) ==
    /\ SameIdentity(e) = {}
    /\ ledger' = ledger \cup {e}
    /\ receipts' = receipts \cup ReceiptsOf(e)
    /\ answer' = [answer EXCEPT ![c] = Reported(e, "stored", SameMemory(e) = {})]

\* The event is recorded and the client does not learn it.
RecordUnheard(c, e) ==
    /\ SameIdentity(e) = {}
    /\ ledger' = ledger \cup {e}
    /\ receipts' = receipts \cup ReceiptsOf(e)
    /\ answer' = [answer EXCEPT ![c] = Refusal("unavailable")]

\* The graph reported is that of the event recorded first, not of the one submitted.
Replay(c, e) ==
    /\ \E f \in SameIdentity(e) :
          answer' = [answer EXCEPT ![c] = Reported(f, "replayed", FALSE)]
    /\ UNCHANGED <<ledger, receipts>>

Refuse(c) ==
    /\ \E status \in {"invalid", "failed", "unavailable"} :
          answer' = [answer EXCEPT ![c] = Refusal(status)]
    /\ UNCHANGED <<ledger, receipts>>

Forget(c) ==
    /\ answer' = [answer EXCEPT ![c] = None]
    /\ UNCHANGED <<ledger, receipts>>

Next ==
    \E c \in Clients :
        \/ Refuse(c)
        \/ Forget(c)
        \/ \E e \in Events : Record(c, e) \/ RecordUnheard(c, e) \/ Replay(c, e)

Spec == Init /\ [][Next]_lvars

=============================================================================
