---------------------------- MODULE ContentStore ----------------------------
(***************************************************************************)
(* What document ingestion promises: a content is stored once, whole, with *)
(* all its chunks and an embedding for each; content already stored is     *)
(* reported from the store; a failure is reported as one, though what the  *)
(* caller could not be told may have been stored all the same.             *)
(***************************************************************************)
EXTENDS Naturals, Sequences, FiniteSets

CONSTANTS Clients, Contents, Hash, Chunks, Embedded

VARIABLES
    library,  \* the stored documents, as [hash, chunks, embedded]
    told      \* what each client has been told so far of the contents it sent

svars == <<library, told>>

Whole(c) ==
    [hash |-> Hash[c], chunks |-> Chunks[c], embedded |-> IF Embedded THEN Chunks[c] ELSE {}]

SameHash(c) == {d \in library : d.hash = Hash[c]}

Tell(k, status, n) ==
    told' = [told EXCEPT ![k] = Append(@, [status |-> status, chunks |-> n])]

Init == library = {} /\ told = [k \in Clients |-> <<>>]

\* The content is new: it is stored, and the client is told so if it can be told.
Store(k, c) ==
    /\ SameHash(c) = {}
    /\ library' = library \cup {Whole(c)}
    /\ Tell(k, "stored", Cardinality(Chunks[c])) \/ Tell(k, "failed", 0)

\* The content is known: the chunks counted are those stored first.
Recognise(k, c) ==
    /\ \E d \in SameHash(c) : Tell(k, "duplicate", Cardinality(d.chunks))
    /\ UNCHANGED library

Fail(k) == Tell(k, "failed", 0) /\ UNCHANGED library

Forget(k) == told' = [told EXCEPT ![k] = <<>>] /\ UNCHANGED library

Next ==
    \E k \in Clients :
        \/ Fail(k)
        \/ Forget(k)
        \/ \E c \in Contents : Store(k, c) \/ Recognise(k, c)

Spec == Init /\ [][Next]_svars

=============================================================================
