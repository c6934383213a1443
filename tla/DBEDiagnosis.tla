---------------------------- MODULE DBEDiagnosis ----------------------------
(***************************************************************************)
(* run_dbe_diagnostics (api/routes/dbe.py), the handler of POST            *)
(* /v1/dbe/diagnose, with the agent it runs (dbe_agent/agent.py, tools.py) *)
(* against PostgreSQL.  A request has two sessions: the operational one,   *)
(* which the SQL tool and the write-back of the memory share, and that of  *)
(* the runbook search and of the write-back of the document.               *)
(*                                                                         *)
(* The two write-backs are calls of the other components, each taken as    *)
(* one step of what that component promises: an action of EventLedger      *)
(* (OperationalIngestion_refinement proves that ingestion implements it)   *)
(* and one of ContentStore.                                                *)
(*                                                                         *)
(* Left out: what prompts, thoughts and observations say, the runbooks     *)
(* found, the sandbox (a call it rejects touches no session).              *)
(***************************************************************************)
EXTENDS Naturals, Sequences

CONSTANTS
    Workers,       \* requests in progress, interleaved by threads, awaits or processes
    Correlations,  \* values of the x-correlation-id header; callers may repeat one
    Incidents,     \* values of payload.query
    Category,      \* incident -> the category extract_category_from_query finds in it
    Limits,        \* values of payload.max_steps
    Reports,       \* RCA reports an LLM may write, the empty one aside
    Providers,     \* settings.llm_provider: a deployment has one of these
    Modulus,       \* tool calls are counted modulo this, which no max_steps reaches
    None

ASSUME RequestAssumption ==
    /\ DOMAIN Category = Incidents
    /\ Modulus \in 2..11
    /\ Limits \subseteq 1..(Modulus - 1)
    /\ Providers \subseteq {"mock", "gemini"}
    /\ None \notin {Category[i] : i \in Incidents}

VARIABLES
    ledger,    \* the diagnoses recorded as operational events
    receipts,  \* their provenance
    memory,    \* what ingest_operational_event answered each request
    library,   \* the documents stored
    document,  \* what IngestionPipeline.ingest answered each request
    provider,  \* the LLM provider of the deployment
    pc,        \* the phase each request is in
    call,      \* what was requested
    calls,     \* tool calls its agent has made, modulo Modulus
    opTx,      \* the transaction of its operational session
    ragTx,     \* the transaction of its document session
    report,    \* the RCA report its agent has written
    notified,  \* diagnoses whose notifications were attempted, by any request so far
    heard      \* memory_ids answered so far, with the correlation id they answer

stores == <<ledger, receipts, memory, library, document>>
vars == <<stores, provider, pc, call, calls, opTx, ragTx, report, notified, heard>>

-----------------------------------------------------------------------------
(* The components called *)

Request == [corr : Correlations, incident : Incidents, limit : Limits]
Diagnosis == [corr : Correlations, incident : Incidents, report : Reports]

ASSUME NoneAssumption == None \notin Request

\* Variant: identified by the incident too.
SourceIdOfIncident(d) == <<d.corr, d.incident>>

\* source_identifier is f"dbe-{correlation_id}".
SourceId(d) == d.corr

Operational ==
    INSTANCE EventLedger WITH
        Clients <- Workers, Events <- Diagnosis,
        SourceIdentifier <- [d \in Diagnosis |-> SourceId(d)],
        MemoryKey <- [d \in Diagnosis |-> Category[d.incident]],
        Evidence <- [d \in Diagnosis |-> {"dimension"}],
        answer <- memory

\* The markdown of a diagnosis tells its incident, report and steps, not its correlation id.
Content == Incidents \X Reports

Documents ==
    INSTANCE ContentStore WITH
        Clients <- Workers, Contents <- Content, Hash <- [c \in Content |-> c],
        Chunks <- [c \in Content |-> {0}], Embedded <- TRUE,
        told <- document

Reported(w) == [corr |-> call[w].corr, incident |-> call[w].incident, report |-> report[w]]
Markdown(w) == <<call[w].incident, report[w]>>

Known(w) == Operational!SameIdentity(Reported(w)) # {}

\* Variant: the memory of the incident, whatever the ledger answered.
MemoryIdOfIncident(w) == IF call[w] = None THEN None ELSE Category[call[w].incident]

\* memory_id of the response: that of the answer of the ledger, if it got one.
MemoryId(w) == IF memory[w] = None THEN None ELSE memory[w].memory

Succeeded(w) == report[w] # None

-----------------------------------------------------------------------------
Init ==
    /\ Operational!Init /\ Documents!Init
    /\ provider \in Providers
    /\ pc = [w \in Workers |-> "idle"]
    /\ call = [w \in Workers |-> None]
    /\ calls = [w \in Workers |-> 0]
    /\ opTx = [w \in Workers |-> "clean"]
    /\ ragTx = [w \in Workers |-> "clean"]
    /\ report = [w \in Workers |-> None]
    /\ notified = {} /\ heard = {}

Goto(w, l) == pc' = [pc EXCEPT ![w] = l]

Receive(w, c) ==
    /\ pc[w] = "idle"
    /\ call' = [call EXCEPT ![w] = c]
    /\ Goto(w, "search")
    /\ UNCHANGED <<stores, provider, calls, opTx, ragTx, report, notified, heard>>

\* The runbook search answers, or fails outside the database: either way the agent starts.
Search(w) ==
    /\ pc[w] = "search"
    /\ Goto(w, "agent")
    /\ UNCHANGED <<stores, provider, call, calls, opTx, ragTx, report, notified, heard>>

\* One of its statements fails: the exception is swallowed, the transaction stays aborted.
SearchAborts(w) ==
    /\ pc[w] = "search"
    /\ ragTx' = [ragTx EXCEPT ![w] = "aborted"]
    /\ Goto(w, "agent")
    /\ UNCHANGED <<stores, provider, call, calls, opTx, report, notified, heard>>

\* Variant: no range(1, max_steps + 1).
StepLeftForEver(w) == TRUE

\* The loop of the mock provider has a step left; ADK is not given max_steps.
StepLeft(w) == provider = "mock" => calls[w] < call[w].limit

CountCall(w) ==
    /\ pc[w] = "agent"
    /\ StepLeft(w)
    /\ calls' = [calls EXCEPT ![w] = (@ + 1) % Modulus]

\* execute_sql of a query the sandbox lets through: SET TRANSACTION READ ONLY, then the
\* query; the exception of a query that fails is swallowed and nothing rolls back.
RunSql(w) ==
    /\ CountCall(w)
    /\ \E t \in IF opTx[w] = "aborted" THEN {"aborted"} ELSE {"read_only", "aborted"} :
          opTx' = [opTx EXCEPT ![w] = t]
    /\ UNCHANGED <<stores, provider, pc, call, ragTx, report, notified, heard>>

\* execute_bash, query_pmm_metrics, an unknown tool, or SQL the sandbox rejects.
RunOtherTool(w) ==
    /\ CountCall(w)
    /\ UNCHANGED <<stores, provider, pc, call, opTx, ragTx, report, notified, heard>>

\* The agent answers with a report, in which case it succeeded, or with an empty one.
Conclude(w) ==
    /\ pc[w] = "agent"
    /\ StepLeft(w)
    /\ \/ \E r \in Reports : report' = [report EXCEPT ![w] = r] /\ Goto(w, "notify")
       \/ Goto(w, "respond") /\ UNCHANGED report
    /\ calls' = [calls EXCEPT ![w] = 0]
    /\ UNCHANGED <<stores, provider, call, opTx, ragTx, notified, heard>>

\* The LLM provider or ADK raises, or the loop is out of steps: an unsuccessful report.
GiveUp(w) ==
    /\ pc[w] = "agent"
    /\ Goto(w, "respond")
    /\ calls' = [calls EXCEPT ![w] = 0]
    /\ UNCHANGED <<stores, provider, call, opTx, ragTx, report, notified, heard>>

\* Variant: the write-backs come first.
NotifyLast(w) == pc[w] = "notify" /\ Goto(w, "remember")
                 /\ UNCHANGED <<stores, provider, call, calls, opTx, ragTx, report, notified, heard>>

\* Both notifications are attempted: one without a configured webhook sends nothing, one that
\* fails returns False, and the handler goes on either way.
Notify(w) ==
    /\ pc[w] = "notify"
    /\ notified' = notified \cup {Reported(w)}
    /\ Goto(w, "remember")
    /\ UNCHANGED <<stores, provider, call, calls, opTx, ragTx, report, heard>>

\* A row is added only if the session can still write.
Remember(w) ==
    /\ pc[w] = "remember"
    /\ \/ opTx[w] = "clean" /\ Operational!Record(w, Reported(w))
       \/ opTx[w] # "aborted" /\ Operational!Replay(w, Reported(w))
    /\ Goto(w, "document")
    /\ UNCHANGED <<library, document, provider, call, calls, opTx, ragTx, report, notified, heard>>

\* The exception of the ingestion is swallowed: memory_id stays None.
SwallowError(w) ==
    /\ memory'[w].status \in {"failed", "unavailable"}
    /\ opTx' = [opTx EXCEPT ![w] = "aborted"]
    /\ Goto(w, "document")
    /\ UNCHANGED <<library, document, provider, call, calls, ragTx, report, notified, heard>>

\* Everything fails in an aborted transaction and the INSERT of the source in a read-only
\* one.
RememberRefused(w) ==
    /\ pc[w] = "remember"
    /\ opTx[w] = "aborted" \/ (opTx[w] = "read_only" /\ ~Known(w))
    /\ Operational!Refuse(w)
    /\ SwallowError(w)

\* Ingestion loses a race or its connection.
RememberFails(w) ==
    /\ pc[w] = "remember"
    /\ Operational!Refuse(w)
    /\ SwallowError(w)

\* Its COMMIT succeeds and the outcome is lost: remembered, and answered without memory_id.
RememberUnheard(w) ==
    /\ pc[w] = "remember"
    /\ opTx[w] = "clean"
    /\ Operational!RecordUnheard(w, Reported(w))
    /\ SwallowError(w)

WriteDocument(w) ==
    /\ pc[w] = "document"
    /\ ragTx[w] = "clean"
    /\ Documents!Store(w, Markdown(w)) \/ Documents!Recognise(w, Markdown(w))
    /\ Goto(w, "respond")
    /\ UNCHANGED <<ledger, receipts, memory, provider, call, calls, opTx, ragTx, report, notified,
                   heard>>

\* Any exception of the pipeline is swallowed and document_id stays None.
WriteDocumentFails(w) ==
    /\ pc[w] = "document"
    /\ Documents!Fail(w)
    /\ Goto(w, "respond")
    /\ UNCHANGED <<ledger, receipts, memory, provider, call, calls, opTx, ragTx, report, notified,
                   heard>>

\* Variant: the answer about the document is left to the next request.
IdleKeepsDocument(w) ==
    /\ Goto(w, "idle")
    /\ Operational!Forget(w)
    /\ call' = [call EXCEPT ![w] = None]
    /\ calls' = [calls EXCEPT ![w] = 0]
    /\ opTx' = [opTx EXCEPT ![w] = "clean"]
    /\ ragTx' = [ragTx EXCEPT ![w] = "clean"]
    /\ report' = [report EXCEPT ![w] = None]
    /\ UNCHANGED <<library, document, provider, notified>>

Idle(w) ==
    /\ Goto(w, "idle")
    /\ Operational!Forget(w) /\ Documents!Forget(w)
    /\ call' = [call EXCEPT ![w] = None]
    /\ calls' = [calls EXCEPT ![w] = 0]
    /\ opTx' = [opTx EXCEPT ![w] = "clean"]
    /\ ragTx' = [ragTx EXCEPT ![w] = "clean"]
    /\ report' = [report EXCEPT ![w] = None]
    /\ UNCHANGED <<provider, notified>>

\* The answer leaves (it may get lost) and the sessions are closed.
Respond(w) ==
    /\ pc[w] = "respond"
    /\ heard' = IF MemoryId(w) = None THEN heard
                ELSE heard \cup {[corr |-> call[w].corr, memory |-> MemoryId(w)]}
    /\ Idle(w)

\* The process dies, or its connections do, before the answer leaves.
Crash(w) == pc[w] # "idle" /\ Idle(w) /\ UNCHANGED heard

Proceed(w) ==
    \/ Search(w) \/ RunSql(w) \/ RunOtherTool(w) \/ Conclude(w) \/ GiveUp(w)
    \/ Notify(w) \/ Remember(w) \/ RememberRefused(w) \/ WriteDocument(w) \/ Respond(w)

Fault(w) ==
    SearchAborts(w) \/ RememberFails(w) \/ RememberUnheard(w) \/ WriteDocumentFails(w)

Next ==
    \E w \in Workers :
        \/ \E c \in Request : Receive(w, c)
        \/ Proceed(w) \/ Fault(w) \/ Crash(w)

Spec == Init /\ [][Next]_vars

\* The runbook search, the LLM, the tools and the databases answer, well or badly.  The code
\* sees to it by timeouts for bash commands, metrics and webhooks only: that the database
\* answers the SQL tool, which sets none, and the LLM its provider, is assumed.
FairSpec == Spec /\ \A w \in Workers : WF_vars(Proceed(w) \/ Fault(w))

\* No database, network or process fails.
HealthySpec ==
    Init /\ [][\E w \in Workers : (\E c \in Request : Receive(w, c)) \/ Proceed(w)]_vars

-----------------------------------------------------------------------------
(* Properties *)

\* Every variable holds a value of its kind.
TypeOK ==
    /\ ledger \subseteq Diagnosis
    /\ library \subseteq [hash : Content, chunks : {{0}}, embedded : {{0}}]
    /\ provider \in Providers
    /\ pc \in [Workers -> {"idle", "search", "agent", "notify", "remember", "document", "respond"}]
    /\ call \in [Workers -> Request \cup {None}]
    /\ calls \in [Workers -> 0..(Modulus - 1)]
    /\ opTx \in [Workers -> {"clean", "read_only", "aborted"}]
    /\ ragTx \in [Workers -> {"clean", "aborted"}]
    /\ report \in [Workers -> Reports \cup {None}]
    /\ notified \subseteq Diagnosis
    /\ \A w \in Workers : Len(document[w]) <= 1 /\ (pc[w] = "idle" <=> call[w] = None)

\* Retrying a diagnosis with the same correlation id keeps its memory_id: whatever the report
\* of the retry, and though the first answer got lost or the first handler died, two answers
\* that report a memory report the same one.
RetryKeepsMemory ==
    \A g, h \in heard : g.corr = h.corr => g.memory = h.memory

\* A memory_id that was answered is one that can be asked for its receipts: the ledger holds
\* a diagnosis of that correlation id with provenance to that memory, and keeps it.
AnsweredMemoryHasReceipts ==
    \A h \in heard :
        \E d \in ledger :
            /\ d.corr = h.corr
            /\ \E r \in receipts : r.source = SourceId(d) /\ r.memory = h.memory

\* Nothing is remembered, as memory or as document, of a diagnosis that failed, and nothing
\* before its notifications were attempted (successfully or not), whichever step the handler
\* dies at.
OnlyNotifiedIsRemembered ==
    /\ ledger \subseteq notified
    /\ {d.hash : d \in library} \subseteq {<<n.incident, n.report>> : n \in notified}

\* Every diagnosis run by the loop of the mock provider ends, whatever the LLM answers.
\* (ADK is not given max_steps: nothing in the code ends a run of it that keeps calling tools.)
DiagnosisEnds ==
    \A w \in Workers : (provider = "mock" /\ pc[w] # "idle") ~> (pc[w] = "idle")

\* A successful diagnosis is written back to operational memory.  It is not when the agent
\* has queried the database: its session is left in a read-only transaction.
RcaIsRemembered ==
    \A w \in Workers : (pc[w] = "respond" /\ Succeeded(w)) => MemoryId(w) # None

=============================================================================
