------------------------- MODULE DBEDiagnosis_proofs -------------------------
(***************************************************************************)
(* Proofs about DBEDiagnosis, for any number of requests, correlation ids  *)
(* and incidents.                                                          *)
(***************************************************************************)
EXTENDS DBEDiagnosis, FiniteSetTheorems, SequenceTheorems, TLAPS

-----------------------------------------------------------------------------
(* The inductive invariant *)

\* The ledger l holds a diagnosis of this correlation id, to the memory m.
Tells(l, corr, m) == \E d \in l : d.corr = corr /\ Category[d.incident] = m

\* Correlation ids identify the diagnoses recorded, each with a receipt to its memory.
LedgerOK ==
    /\ \A d, e \in ledger : d.corr = e.corr => d = e
    /\ \A d \in ledger : \E r \in receipts : r.source = d.corr /\ r.memory = Category[d.incident]

\* Whatever memory was answered, or is about to be, is the one the ledger tells.
AnswersOK ==
    /\ DOMAIN memory = Workers
    /\ \A w \in Workers : MemoryId(w) # None => call[w] # None /\ Tells(ledger, call[w].corr, MemoryId(w))
    /\ \A h \in heard : Tells(ledger, h.corr, h.memory)

\* The write-backs come after the notification, of a report that is there.
OrderOK ==
    /\ OnlyNotifiedIsRemembered
    /\ \A w \in Workers :
          /\ pc[w] \in {"notify", "remember", "document"} => report[w] \in Reports
          /\ pc[w] \in {"remember", "document"} => Reported(w) \in notified

Statuses == {"stored", "duplicate", "failed"}
Answer == [status : Statuses, chunks : Nat]

\* One answer at most about the document, and only at the end.
DocumentOK ==
    /\ document \in [Workers -> Seq(Answer)]
    /\ \A w \in Workers : pc[w] # "respond" => document[w] = << >>

IndInv == TypeOK /\ LedgerOK /\ AnswersOK /\ OrderOK /\ DocumentOK

-----------------------------------------------------------------------------
(* The components called *)

LEMMA ReportedType ==
    ASSUME TypeOK, NEW w \in Workers, pc[w] # "idle", report[w] \in Reports
    PROVE  /\ call[w] \in Request
           /\ Reported(w) \in Diagnosis
           /\ Reported(w).corr = call[w].corr
           /\ Category[Reported(w).incident] # None
           /\ Markdown(w) = <<Reported(w).incident, Reported(w).report>>
           /\ Markdown(w) \in Content
<1>1. call[w] \in Request
  BY DEF TypeOK
<1>2. Category[call[w].incident] # None
  BY <1>1, RequestAssumption DEF Request
<1> QED BY <1>1, <1>2 DEF Request, Reported, Diagnosis, Markdown, Content

LEMMA Identified ==
    ASSUME TypeOK, NEW d \in Diagnosis
    PROVE  Operational!SameIdentity(d) = {e \in ledger : e.corr = d.corr}
<1>1. \A e \in ledger : e \in Diagnosis
  BY DEF TypeOK
<1> QED BY <1>1 DEF Operational!SameIdentity, SourceId

LEMMA Recorded ==
    ASSUME TypeOK, NEW w \in Workers, NEW d \in Diagnosis, Operational!Record(w, d),
           DOMAIN memory = Workers
    PROVE  /\ \A e \in ledger : e.corr # d.corr
           /\ ledger' = ledger \cup {d}
           /\ receipts \subseteq receipts'
           /\ \E r \in receipts' : r.source = d.corr /\ r.memory = Category[d.incident]
           /\ DOMAIN memory' = Workers
           /\ memory'[w].memory = Category[d.incident]
           /\ \A v \in Workers \ {w} : memory'[v] = memory[v]
<1>1. \A e \in ledger : e.corr # d.corr
  BY Identified DEF Operational!Record
<1>2. receipts' = receipts \cup Operational!ReceiptsOf(d) /\ ledger' = ledger \cup {d}
  BY DEF Operational!Record
<1>3. Operational!ReceiptsOf(d)
        = [source : {d.corr}, item : {"dimension"}, memory : {Category[d.incident]}]
  BY DEF Operational!ReceiptsOf, SourceId
<1>4. \E r \in Operational!ReceiptsOf(d) : r.source = d.corr /\ r.memory = Category[d.incident]
  <2> DEFINE r == [source |-> d.corr, item |-> "dimension", memory |-> Category[d.incident]]
  <2>1. r \in Operational!ReceiptsOf(d) /\ r.source = d.corr /\ r.memory = Category[d.incident]
    BY <1>3
  <2> QED BY <2>1
<1>5. /\ DOMAIN memory' = Workers
      /\ memory'[w].memory = Category[d.incident]
      /\ \A v \in Workers \ {w} : memory'[v] = memory[v]
  BY DEF Operational!Record, Operational!Reported
<1> QED BY <1>1, <1>2, <1>4, <1>5

LEMMA RecordedUnheard ==
    ASSUME TypeOK, NEW w \in Workers, NEW d \in Diagnosis, Operational!RecordUnheard(w, d),
           DOMAIN memory = Workers
    PROVE  /\ \A e \in ledger : e.corr # d.corr
           /\ ledger' = ledger \cup {d}
           /\ receipts \subseteq receipts'
           /\ \E r \in receipts' : r.source = d.corr /\ r.memory = Category[d.incident]
           /\ DOMAIN memory' = Workers
           /\ memory'[w].memory = None
           /\ \A v \in Workers \ {w} : memory'[v] = memory[v]
<1>1. \A e \in ledger : e.corr # d.corr
  BY Identified DEF Operational!RecordUnheard
<1>2. receipts' = receipts \cup Operational!ReceiptsOf(d) /\ ledger' = ledger \cup {d}
  BY DEF Operational!RecordUnheard
<1>3. Operational!ReceiptsOf(d)
        = [source : {d.corr}, item : {"dimension"}, memory : {Category[d.incident]}]
  BY DEF Operational!ReceiptsOf, SourceId
<1>4. \E r \in Operational!ReceiptsOf(d) : r.source = d.corr /\ r.memory = Category[d.incident]
  <2> DEFINE r == [source |-> d.corr, item |-> "dimension", memory |-> Category[d.incident]]
  <2>1. r \in Operational!ReceiptsOf(d) /\ r.source = d.corr /\ r.memory = Category[d.incident]
    BY <1>3
  <2> QED BY <2>1
<1>5. /\ DOMAIN memory' = Workers
      /\ memory'[w].memory = None
      /\ \A v \in Workers \ {w} : memory'[v] = memory[v]
  BY DEF Operational!RecordUnheard, Operational!Refusal
<1> QED BY <1>1, <1>2, <1>4, <1>5

LEMMA Replayed ==
    ASSUME TypeOK, NEW w \in Workers, NEW d \in Diagnosis, Operational!Replay(w, d),
           DOMAIN memory = Workers
    PROVE  /\ UNCHANGED <<ledger, receipts>>
           /\ DOMAIN memory' = Workers
           /\ Tells(ledger, d.corr, memory'[w].memory)
           /\ \A v \in Workers \ {w} : memory'[v] = memory[v]
<1>1. PICK f \in Operational!SameIdentity(d) :
        memory' = [memory EXCEPT ![w] = Operational!Reported(f, "replayed", FALSE)]
  BY DEF Operational!Replay
<1>2. f \in ledger /\ f \in Diagnosis /\ f.corr = d.corr
  BY <1>1, Identified DEF TypeOK
<1>3. Operational!Reported(f, "replayed", FALSE).memory = Category[f.incident]
  BY <1>2 DEF Operational!Reported
<1> QED BY <1>1, <1>2, <1>3 DEF Tells, Operational!Replay

LEMMA Refused ==
    ASSUME NEW w \in Workers, Operational!Refuse(w), DOMAIN memory = Workers
    PROVE  /\ UNCHANGED <<ledger, receipts>>
           /\ DOMAIN memory' = Workers
           /\ memory'[w].memory = None
           /\ \A v \in Workers \ {w} : memory'[v] = memory[v]
BY DEF Operational!Refuse, Operational!Refusal

LEMMA Told ==
    ASSUME DocumentOK, NEW w \in Workers, document[w] = << >>, NEW st \in Statuses, NEW n \in Nat,
           Documents!Tell(w, st, n)
    PROVE  /\ document' \in [Workers -> Seq(Answer)]
           /\ Len(document'[w]) <= 1
           /\ \A v \in Workers \ {w} : document'[v] = document[v]
<1> DEFINE a == [status |-> st, chunks |-> n]
<1>1. a \in Answer
  BY DEF Answer
<1>2. document' = [document EXCEPT ![w] = Append(document[w], a)]
  BY DEF Documents!Tell
<1>3. Append(document[w], a) \in Seq(Answer)
      /\ Len(Append(document[w], a)) <= 1
  BY <1>1
<1> QED BY <1>2, <1>3 DEF DocumentOK

-----------------------------------------------------------------------------
(* Steps *)

\* The ledger is added to, or left alone: what it told it still tells.
LEMMA TellsOn ==
    ASSUME ledger \subseteq ledger', NEW c, NEW m, Tells(ledger, c, m) PROVE Tells(ledger', c, m)
BY DEF Tells

\* A request that calls no component: everything a component holds or answered is as it was.
LEMMA AloneInv ==
    ASSUME IndInv, NEW w \in Workers, UNCHANGED <<stores, heard>>, TypeOK',
           notified \subseteq notified', pc'[w] # "idle", pc[w] # "respond",
           \A v \in Workers \ {w} : pc'[v] = pc[v] /\ report'[v] = report[v] /\ call'[v] = call[v],
           call'[w] = call[w] \/ call[w] = None,
           pc'[w] \in {"notify", "remember", "document"} => report'[w] \in Reports,
           pc'[w] \in {"remember", "document"} => Reported(w)' \in notified'
    PROVE  IndInv'
<1>1. /\ ledger' = ledger /\ receipts' = receipts /\ memory' = memory /\ library' = library
      /\ document' = document /\ heard' = heard
  BY DEF stores
<1>2. LedgerOK'
  BY <1>1 DEF IndInv, LedgerOK
<1>3. AnswersOK'
  BY <1>1 DEF IndInv, AnswersOK, MemoryId, Tells
<1>4. OrderOK'
  BY <1>1 DEF IndInv, OrderOK, OnlyNotifiedIsRemembered, Reported
<1>5. DocumentOK'
  BY <1>1 DEF IndInv, DocumentOK, TypeOK
<1> QED BY <1>2, <1>3, <1>4, <1>5 DEF IndInv

LEMMA AgentInv ==
    ASSUME IndInv, NEW w \in Workers,
           \/ \E c \in Request : Receive(w, c)
           \/ Search(w) \/ SearchAborts(w) \/ RunSql(w) \/ RunOtherTool(w) \/ Conclude(w)
           \/ GiveUp(w) \/ Notify(w)
    PROVE  IndInv'
<1>1. TypeOK
  BY DEF IndInv
<1>2. (calls[w] + 1) % Modulus \in 0..(Modulus - 1)
  BY <1>1, RequestAssumption DEF TypeOK
<1>3. CASE \E c \in Request : Receive(w, c)
  <2>0. /\ pc' \in [Workers -> {"idle", "search", "agent", "notify", "remember", "document",
                                "respond"}]
        /\ call' \in [Workers -> Request \cup {None}]
        /\ \A v \in Workers : pc'[v] = "idle" <=> call'[v] = None
    BY <1>1, <1>3, NoneAssumption DEF TypeOK, Receive, Goto
  <2>1. TypeOK'
    BY <1>1, <1>3, <2>0 DEF TypeOK, Receive, stores
  <2>2. UNCHANGED <<stores, heard>> /\ notified' = notified /\ pc'[w] = "search"
        /\ pc[w] = "idle" /\ call[w] = None
    BY <1>1, <1>3 DEF Receive, Goto, TypeOK
  <2> QED BY <1>1, <1>3, <2>1, <2>2, AloneInv DEF Receive, Goto, TypeOK
<1>4. CASE Search(w) \/ SearchAborts(w)
  <2>1. TypeOK'
    BY <1>1, <1>4 DEF TypeOK, Search, SearchAborts, Goto, stores
  <2> QED BY <1>1, <1>4, <2>1, AloneInv DEF Search, SearchAborts, Goto, TypeOK
<1>5. CASE RunSql(w) \/ RunOtherTool(w)
  <2>1. TypeOK'
    BY <1>1, <1>2, <1>5 DEF TypeOK, RunSql, RunOtherTool, CountCall, stores
  <2> QED BY <1>1, <1>5, <2>1, AloneInv DEF RunSql, RunOtherTool, CountCall, TypeOK
<1>6. CASE Conclude(w) \/ GiveUp(w)
  <2>1. 0 \in 0..(Modulus - 1)
    BY RequestAssumption
  <2>2. /\ UNCHANGED <<stores, provider, call, opTx, ragTx, notified, heard>>
        /\ calls' = [calls EXCEPT ![w] = 0] /\ pc[w] = "agent"
    BY <1>6 DEF Conclude, GiveUp
  <2>3. \/ pc' = [pc EXCEPT ![w] = "respond"] /\ report' = report
        \/ \E r \in Reports : report' = [report EXCEPT ![w] = r] /\ pc' = [pc EXCEPT ![w] = "notify"]
    BY <1>6 DEF Conclude, GiveUp, Goto
  <2>4. /\ pc' \in [Workers -> {"idle", "search", "agent", "notify", "remember", "document",
                                "respond"}]
        /\ pc'[w] \in {"notify", "respond"}
        /\ pc'[w] = "notify" => report'[w] \in Reports
        /\ report' \in [Workers -> Reports \cup {None}]
        /\ \A v \in Workers \ {w} : pc'[v] = pc[v] /\ report'[v] = report[v]
    BY <1>1, <2>3 DEF TypeOK
  <2>5. \A v \in Workers : pc'[v] = "idle" <=> call'[v] = None
    BY <1>1, <2>2, <2>4 DEF TypeOK
  <2>6. TypeOK'
    BY <1>1, <2>1, <2>2, <2>4, <2>5 DEF TypeOK, stores
  <2> QED BY <2>2, <2>4, <2>6, AloneInv
<1>7. CASE Notify(w)
  <2>1. report[w] \in Reports /\ pc[w] = "notify"
    BY <1>7 DEF Notify, IndInv, OrderOK
  <2>2. Reported(w) \in Diagnosis
    BY <1>1, <2>1, ReportedType
  <2>3. TypeOK'
    BY <1>1, <1>7, <2>2 DEF TypeOK, Notify, Goto, stores
  <2>4. Reported(w)' = Reported(w)
    BY <1>7 DEF Notify, Reported
  <2> QED BY <1>1, <1>7, <2>1, <2>3, <2>4, AloneInv DEF Notify, Goto, TypeOK
<1> QED BY <1>3, <1>4, <1>5, <1>6, <1>7

LEMMA RememberInv ==
    ASSUME IndInv, NEW w \in Workers, Remember(w) \/ RememberRefused(w) \/ RememberFails(w)
                             \/ RememberUnheard(w)
    PROVE  IndInv'
<1>1. TypeOK /\ pc[w] = "remember" /\ DOMAIN memory = Workers
  BY DEF IndInv, AnswersOK, Remember, RememberRefused, RememberFails, RememberUnheard
<1>2. report[w] \in Reports /\ Reported(w) \in notified
  BY <1>1 DEF IndInv, OrderOK
<1> PICK d \in Diagnosis : d = Reported(w)
  BY <1>1, <1>2, ReportedType
<1>3. d.corr = call[w].corr /\ call[w] # None /\ Category[d.incident] # None
  BY <1>1, <1>2, ReportedType DEF TypeOK
<1>4. /\ UNCHANGED <<library, document, provider, call, calls, ragTx, report, notified, heard>>
      /\ pc' = [pc EXCEPT ![w] = "document"]
      /\ opTx' \in [Workers -> {"clean", "read_only", "aborted"}]
  BY <1>1 DEF Remember, RememberRefused, RememberFails, RememberUnheard, SwallowError,
       Goto, TypeOK
<1>5. /\ ledger' = ledger /\ receipts' = receipts
      \/ /\ \A e \in ledger : e.corr # d.corr
         /\ ledger' = ledger \cup {d}
         /\ receipts \subseteq receipts'
         /\ \E r \in receipts' : r.source = d.corr /\ r.memory = Category[d.incident]
  BY <1>1, Recorded, RecordedUnheard, Replayed, Refused
     DEF Remember, RememberRefused, RememberFails, RememberUnheard, SwallowError
<1>6. /\ DOMAIN memory' = Workers
      /\ \A v \in Workers \ {w} : memory'[v] = memory[v]
      /\ memory'[w].memory = None \/ Tells(ledger', d.corr, memory'[w].memory)
  <2>1. CASE Operational!Record(w, d)
    <3>1. memory'[w].memory = Category[d.incident] /\ ledger' = ledger \cup {d}
      BY <1>1, <2>1, Recorded
    <3>2. Tells(ledger', d.corr, memory'[w].memory)
      BY <3>1 DEF Tells
    <3> QED BY <1>1, <2>1, <3>2, Recorded
  <2>2. CASE Operational!Replay(w, d)
    <3>1. Tells(ledger, d.corr, memory'[w].memory) /\ ledger' = ledger
      BY <1>1, <2>2, Replayed
    <3>2. Tells(ledger', d.corr, memory'[w].memory)
      BY <3>1 DEF Tells
    <3> QED BY <1>1, <2>2, <3>2, Replayed
  <2>3. CASE Operational!Refuse(w)
    BY <1>1, <2>3, Refused
  <2>4. CASE Operational!RecordUnheard(w, d)
    BY <1>1, <2>4, RecordedUnheard
  <2> QED BY <2>1, <2>2, <2>3, <2>4
          DEF Remember, RememberRefused, RememberFails, RememberUnheard, SwallowError
<1>7. TypeOK'
  BY <1>1, <1>4, <1>5 DEF TypeOK
<1>8. LedgerOK'
  BY <1>5 DEF IndInv, LedgerOK
<1>9. AnswersOK'
  <2>1. \A h \in heard : Tells(ledger', h.corr, h.memory)
    BY <1>5, TellsOn DEF IndInv, AnswersOK
  <2>2. ASSUME NEW v \in Workers, MemoryId(v)' # None
        PROVE  call'[v] # None /\ Tells(ledger', call'[v].corr, MemoryId(v)')
    <3>1. CASE v = w
      BY <1>3, <1>4, <1>6, <2>2, <3>1 DEF MemoryId
    <3>2. CASE v # w
      <4>1. MemoryId(v)' = MemoryId(v) /\ call'[v] = call[v]
        BY <1>4, <1>6, <3>2 DEF MemoryId
      <4>2. Tells(ledger, call[v].corr, MemoryId(v)) /\ call[v] # None
        BY <2>2, <4>1 DEF IndInv, AnswersOK
      <4> QED BY <1>5, <4>1, <4>2, TellsOn
    <3> QED BY <3>1, <3>2
  <2> QED BY <1>4, <1>6, <2>1, <2>2 DEF AnswersOK
<1>10. OrderOK'
  <2>1. OnlyNotifiedIsRemembered'
    BY <1>2, <1>4, <1>5 DEF IndInv, OrderOK, OnlyNotifiedIsRemembered
  <2>2. \A v \in Workers : Reported(v)' = Reported(v)
    BY <1>4 DEF Reported
  <2> QED BY <1>1, <1>2, <1>4, <2>1, <2>2 DEF IndInv, OrderOK, TypeOK
<1>11. DocumentOK'
  BY <1>1, <1>4 DEF IndInv, DocumentOK, TypeOK
<1> QED BY <1>7, <1>8, <1>9, <1>10, <1>11 DEF IndInv

LEMMA WriteInv ==
    ASSUME IndInv, NEW w \in Workers, WriteDocument(w) \/ WriteDocumentFails(w)
    PROVE  IndInv'
<1>1. TypeOK /\ DocumentOK /\ pc[w] = "document" /\ document[w] = << >>
  BY DEF IndInv, DocumentOK, WriteDocument, WriteDocumentFails
<1>2. report[w] \in Reports /\ Reported(w) \in notified
  BY <1>1 DEF IndInv, OrderOK
<1>3. /\ Markdown(w) \in Content
      /\ Markdown(w) = <<Reported(w).incident, Reported(w).report>>
  BY <1>1, <1>2, ReportedType
<1>4. /\ UNCHANGED <<ledger, receipts, memory, provider, call, calls, opTx, ragTx, report,
                     notified, heard>>
      /\ pc' = [pc EXCEPT ![w] = "respond"]
  BY DEF WriteDocument, WriteDocumentFails, Goto
<1>5. library' = library
      \/ library' = library \cup {[hash |-> Markdown(w), chunks |-> {0}, embedded |-> {0}]}
  BY <1>3 DEF WriteDocument, WriteDocumentFails, Documents!Store, Documents!Recognise,
              Documents!Fail, Documents!Whole
<1>6. \E st \in Statuses, n \in Nat : Documents!Tell(w, st, n)
  <2>1. Documents!Cardinality({0}) = 1
    BY FS_Singleton DEF Documents!Cardinality, Cardinality
  <2>2. CASE Documents!Store(w, Markdown(w))
    <3>1. Documents!Tell(w, "stored", 1) \/ Documents!Tell(w, "failed", 0)
      BY <1>3, <2>1, <2>2 DEF Documents!Store
    <3> QED BY <3>1 DEF Statuses
  <2>3. CASE Documents!Recognise(w, Markdown(w))
    <3>1. PICK d \in library : Documents!Tell(w, "duplicate", Documents!Cardinality(d.chunks))
      BY <2>3 DEF Documents!Recognise, Documents!SameHash
    <3>2. d.chunks = {0}
      BY <1>1 DEF TypeOK
    <3>3. Documents!Tell(w, "duplicate", 1)
      BY <2>1, <3>1, <3>2
    <3> QED BY <3>3 DEF Statuses
  <2>4. CASE Documents!Fail(w)
    BY <2>4 DEF Documents!Fail, Statuses
  <2> QED BY <2>2, <2>3, <2>4 DEF WriteDocument, WriteDocumentFails
<1>7. /\ document' \in [Workers -> Seq(Answer)]
      /\ Len(document'[w]) <= 1
      /\ \A v \in Workers \ {w} : document'[v] = document[v]
  BY <1>1, <1>6, Told
<1>8. TypeOK'
  <2>1. library' \subseteq [hash : Content, chunks : {{0}}, embedded : {{0}}]
    <3> DEFINE e == [hash |-> Markdown(w), chunks |-> {0}, embedded |-> {0}]
    <3>1. e \in [hash : Content, chunks : {{0}}, embedded : {{0}}]
      BY <1>3
    <3>2. library' = library \/ library' = library \cup {e}
      BY <1>5
    <3> HIDE DEF e
    <3> QED BY <1>1, <3>1, <3>2 DEF TypeOK
  <2>2. /\ pc' \in [Workers -> {"idle", "search", "agent", "notify", "remember", "document",
                                "respond"}]
        /\ \A v \in Workers : pc'[v] = "idle" <=> call'[v] = None
    BY <1>1, <1>4 DEF TypeOK
  <2>3. \A v \in Workers : Len(document'[v]) <= 1
    BY <1>1, <1>7 DEF TypeOK
  <2> QED BY <1>1, <1>4, <2>1, <2>2, <2>3 DEF TypeOK
<1>9. LedgerOK'
  BY <1>4 DEF IndInv, LedgerOK
<1>10. AnswersOK'
  BY <1>4 DEF IndInv, AnswersOK, MemoryId, Tells
<1>11. OrderOK'
  <2>1. OnlyNotifiedIsRemembered'
    <3>1. \A e \in library' : \E n \in notified : e.hash = <<n.incident, n.report>>
      BY <1>2, <1>3, <1>5 DEF IndInv, OrderOK, OnlyNotifiedIsRemembered
    <3> QED BY <1>4, <3>1 DEF IndInv, OrderOK, OnlyNotifiedIsRemembered
  <2>2. \A v \in Workers : Reported(v)' = Reported(v)
    BY <1>4 DEF Reported
  <2> QED BY <1>1, <1>2, <1>4, <2>1, <2>2 DEF IndInv, OrderOK, TypeOK
<1>12. DocumentOK'
  BY <1>1, <1>4, <1>7 DEF DocumentOK, TypeOK
<1> QED BY <1>8, <1>9, <1>10, <1>11, <1>12 DEF IndInv

LEMMA EndInv ==
    ASSUME IndInv, NEW w \in Workers, Respond(w) \/ Crash(w) PROVE IndInv'
<1>1. TypeOK /\ DocumentOK /\ DOMAIN memory = Workers
  BY DEF IndInv, AnswersOK
<1>2. /\ pc' = [pc EXCEPT ![w] = "idle"]
      /\ memory' = [memory EXCEPT ![w] = None] /\ ledger' = ledger /\ receipts' = receipts
      /\ document' = [document EXCEPT ![w] = << >>] /\ library' = library
      /\ call' = [call EXCEPT ![w] = None] /\ calls' = [calls EXCEPT ![w] = 0]
      /\ opTx' = [opTx EXCEPT ![w] = "clean"] /\ ragTx' = [ragTx EXCEPT ![w] = "clean"]
      /\ report' = [report EXCEPT ![w] = None]
      /\ provider' = provider /\ notified' = notified
  BY DEF Respond, Crash, Idle, Goto, Operational!Forget, Documents!Forget
<1>3. heard' = heard
      \/ /\ MemoryId(w) # None
         /\ heard' = heard \cup {[corr |-> call[w].corr, memory |-> MemoryId(w)]}
  BY DEF Respond, Crash
<1>4. TypeOK'
  <2>1. 0 \in 0..(Modulus - 1)
    BY RequestAssumption
  <2>2. \A v \in Workers : Len(document'[v]) <= 1
    BY <1>1, <1>2 DEF TypeOK, DocumentOK
  <2>3. \A v \in Workers : pc'[v] = "idle" <=> call'[v] = None
    BY <1>1, <1>2 DEF TypeOK
  <2>4. /\ pc' \in [Workers -> {"idle", "search", "agent", "notify", "remember", "document",
                                "respond"}]
        /\ call' \in [Workers -> Request \cup {None}]
        /\ calls' \in [Workers -> 0..(Modulus - 1)]
        /\ opTx' \in [Workers -> {"clean", "read_only", "aborted"}]
        /\ ragTx' \in [Workers -> {"clean", "aborted"}]
        /\ report' \in [Workers -> Reports \cup {None}]
    BY <1>1, <1>2, <2>1 DEF TypeOK
  <2> QED BY <1>1, <1>2, <2>2, <2>3, <2>4 DEF TypeOK
<1>5. LedgerOK'
  BY <1>2 DEF IndInv, LedgerOK
<1>6. AnswersOK'
  <2>1. \A h \in heard' : Tells(ledger, h.corr, h.memory)
    BY <1>3 DEF IndInv, AnswersOK
  <2>2. \A h \in heard' : Tells(ledger', h.corr, h.memory)
    BY <1>2, <2>1 DEF Tells
  <2>3. \A v \in Workers : MemoryId(v)' # None =>
            v # w /\ MemoryId(v)' = MemoryId(v) /\ call'[v] = call[v]
    BY <1>1, <1>2 DEF MemoryId, TypeOK
  <2>4. \A v \in Workers : MemoryId(v)' # None =>
            call'[v] # None /\ Tells(ledger', call'[v].corr, MemoryId(v)')
    BY <1>2, <2>3 DEF IndInv, AnswersOK, Tells
  <2>5. DOMAIN memory' = Workers
    BY <1>1, <1>2
  <2> QED BY <2>2, <2>4, <2>5 DEF AnswersOK
<1>7. OrderOK'
  <2>1. \A v \in Workers \ {w} : Reported(v)' = Reported(v) /\ report'[v] = report[v]
                                 /\ pc'[v] = pc[v]
    BY <1>1, <1>2 DEF Reported, TypeOK
  <2>2. pc'[w] = "idle"
    BY <1>1, <1>2 DEF TypeOK
  <2> QED BY <1>2, <2>1, <2>2 DEF IndInv, OrderOK, OnlyNotifiedIsRemembered
<1>8. DocumentOK'
  BY <1>1, <1>2 DEF DocumentOK, TypeOK
<1> QED BY <1>4, <1>5, <1>6, <1>7, <1>8 DEF IndInv

LEMMA IndInit == Init => IndInv
<1> SUFFICES ASSUME Init PROVE IndInv
  OBVIOUS
<1>1. /\ ledger = {} /\ receipts = {} /\ memory = [w \in Workers |-> None]
      /\ library = {} /\ document = [w \in Workers |-> << >>]
  BY DEF Init, Operational!Init, Documents!Init
<1>2. 0 \in 0..(Modulus - 1)
  BY RequestAssumption
<1>3. TypeOK
  BY <1>1, <1>2 DEF Init, TypeOK
<1>4. LedgerOK /\ AnswersOK /\ OrderOK
  BY <1>1 DEF Init, LedgerOK, AnswersOK, OrderOK, OnlyNotifiedIsRemembered, MemoryId
<1>5. DocumentOK
  BY <1>1 DEF Init, DocumentOK
<1> QED BY <1>3, <1>4, <1>5 DEF IndInv

LEMMA IndStep == IndInv /\ [Next]_vars => IndInv'
<1> SUFFICES ASSUME IndInv, [Next]_vars PROVE IndInv'
  OBVIOUS
<1>1. ASSUME NEW w \in Workers,
             \/ \E c \in Request : Receive(w, c)
             \/ Search(w) \/ SearchAborts(w) \/ RunSql(w) \/ RunOtherTool(w) \/ Conclude(w)
             \/ GiveUp(w) \/ Notify(w)
      PROVE  IndInv'
  BY <1>1, AgentInv
<1>2. ASSUME NEW w \in Workers, Remember(w) \/ RememberRefused(w) \/ RememberFails(w)
                             \/ RememberUnheard(w)
      PROVE  IndInv'
  BY <1>2, RememberInv
<1>3. ASSUME NEW w \in Workers, WriteDocument(w) \/ WriteDocumentFails(w) PROVE IndInv'
  BY <1>3, WriteInv
<1>4. ASSUME NEW w \in Workers, Respond(w) \/ Crash(w) PROVE IndInv'
  BY <1>4, EndInv
<1>5. CASE UNCHANGED vars
  BY <1>5 DEF vars, stores, IndInv, TypeOK, LedgerOK, AnswersOK, OrderOK, DocumentOK, Tells,
              MemoryId, OnlyNotifiedIsRemembered, Reported
<1> QED BY <1>1, <1>2, <1>3, <1>4, <1>5 DEF Next, Proceed, Fault

-----------------------------------------------------------------------------
(* What is proved *)

LEMMA Invariance == Spec => []IndInv
BY IndInit, IndStep, PTL DEF Spec

\* Every variable of the diagnosis holds a value of its kind.
THEOREM TypeCorrect == Spec => []TypeOK
<1>1. IndInv => TypeOK
  BY DEF IndInv
<1> QED BY <1>1, Invariance, PTL

\* Two answers to one correlation id that report a memory report the same one, whatever the
\* agent wrote the second time and wherever the first handler died (api/routes/dbe.py).
THEOREM RetriesAgree == Spec => []RetryKeepsMemory
<1>1. IndInv => RetryKeepsMemory
  BY DEF IndInv, LedgerOK, AnswersOK, Tells, RetryKeepsMemory
<1> QED BY <1>1, Invariance, PTL

\* The memory a diagnosis answers is in the ledger, with the receipts that name its source.
THEOREM ReceiptsForAnswers == Spec => []AnsweredMemoryHasReceipts
<1>1. IndInv => AnsweredMemoryHasReceipts
  <2> SUFFICES ASSUME IndInv, NEW h \in heard
               PROVE  \E d \in ledger :
                         /\ d.corr = h.corr
                         /\ \E r \in receipts : r.source = SourceId(d) /\ r.memory = h.memory
    BY DEF AnsweredMemoryHasReceipts
  <2>1. PICK d \in ledger : d.corr = h.corr /\ Category[d.incident] = h.memory
    BY DEF IndInv, AnswersOK, Tells
  <2>2. \E r \in receipts : r.source = d.corr /\ r.memory = Category[d.incident]
    BY DEF IndInv, LedgerOK
  <2> QED BY <2>1, <2>2 DEF SourceId
<1> QED BY <1>1, Invariance, PTL

\* Memory and documents hold only diagnoses that succeeded and were notified before, whichever
\* step a handler dies at.
THEOREM NotifiedFirst == Spec => []OnlyNotifiedIsRemembered
<1>1. IndInv => OnlyNotifiedIsRemembered
  BY DEF IndInv, OrderOK
<1> QED BY <1>1, Invariance, PTL

=============================================================================
