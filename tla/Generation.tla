----------------------------- MODULE Generation -----------------------------
(***************************************************************************)
(* GenerationService.ask (llm/generation.py) on top of the search: the     *)
(* prompt numbers the results, the LLM cites them by number, and receipts  *)
(* are built for the numbers found in its answer (llm/citations.py).       *)
(*                                                                         *)
(* An answer is the numbers in brackets and the terms in it; the prompt is *)
(* Results, whose i-th member is passage [i].                              *)
(*                                                                         *)
(* Left out: what else prompts and answers say, token counts, timings.     *)
(***************************************************************************)
EXTENDS HybridSearch

CONSTANTS
    Brackets,  \* chunk or memory -> numbers n such that a line of its text begins with [n]
    Numbers,   \* numbers an LLM may put in brackets, 0 and those of no passage included
    Terms      \* terms that may occur in an answer

ASSUME AnswerAssumption ==
    /\ Numbers \subseteq Nat
    /\ Brackets \in [Chunks \cup Memories -> SUBSET Numbers]
    /\ \A d \in Deployments : d.llm \in {"mock", "gemini"}

VARIABLE answer  \* the AskResult

-----------------------------------------------------------------------------
Insufficient(used) ==
    [insufficient |-> TRUE, numbers |-> {}, terms |-> {}, receipts |-> << >>, used |-> used]

\* Variant: 0-based positions.
ReceiptsFromZero(numbers) ==
    [i \in {n \in numbers : n < Len(Results)} |-> Results[i + 1]]

\* A receipt for every number of a passage; numbers out of range are dropped.
Receipts(numbers) == [i \in numbers \cap 1..Len(Results) |-> Results[i]]

Grounded(numbers, terms) ==
    [insufficient |-> FALSE, numbers |-> numbers, terms |-> terms,
     receipts |-> Receipts(numbers), used |-> Len(Results)]

\* The mock provider cites every [n] at the start of a line of the prompt.
MockNumbers == 1..Len(Results) \cup UNION {Brackets[Results[i]] : i \in 1..Len(Results)}

Asking == pc = "found" /\ asked.route # "search"

AnsweredWith(a) ==
    /\ answer' = a
    /\ pc' = "answered"
    /\ UNCHANGED <<deployment, stored, latched, asked, searched>>

NoContext ==
    /\ Asking /\ Results = << >>
    /\ AnsweredWith(Insufficient(0))

Replies ==
    IF deployment.llm = "mock" THEN {Grounded(MockNumbers, {})}
    ELSE {Grounded(numbers, terms) : numbers \in SUBSET Numbers, terms \in SUBSET Terms}

Generate ==
    /\ Asking /\ Results # << >>
    /\ \E a \in Replies : AnsweredWith(a)

\* INSUFFICIENT_CONTEXT occurs in the answer, which is replaced as a whole.
GenerateMarker ==
    /\ Asking /\ Results # << >> /\ deployment.llm = "gemini"
    /\ AnsweredWith(Insufficient(Len(Results)))

\* The LLM fails, or returns no text, which the search for the marker does not survive.
GenerateFails ==
    /\ Asking /\ Results # << >> /\ deployment.llm = "gemini"
    /\ pc' = "failed"
    /\ UNCHANGED <<deployment, stored, latched, asked, searched, answer>>

GenerationStep == NoContext \/ Generate \/ GenerateMarker \/ GenerateFails

=============================================================================
