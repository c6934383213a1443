----------------------------- MODULE RankFusion -----------------------------
(***************************************************************************)
(* Ranked lists and their Reciprocal Rank Fusion (rag/fusion.py).  A list  *)
(* is a sequence without repetition, best first.  The floating-point sums  *)
(* of the code are rounded to 8 digits to make ties exact; here they are   *)
(* exact fractions <<numerator, denominator>>.  Chunk ids are naturals, in *)
(* the order of str(chunk_id).                                             *)
(***************************************************************************)
EXTENDS Naturals, FiniteSets, Sequences, SequencesExt

\* What ORDER BY score DESC LIMIT n may return: equal scores come in any order.
TopLists(S, n, score) ==
    LET m == Min({n, Cardinality(S)}) IN
    {s \in [1..m -> S] :
        /\ IsInjective(s)
        /\ \A i, j \in 1..m : i < j => score[s[i]] >= score[s[j]]
        /\ \A c \in S \ ToSet(s), i \in 1..m : score[s[i]] >= score[c]}

\* enumerate(results, start=1); 0 when it is not in the list.
Rank(s, c) == IF Contains(s, c) THEN CHOOSE i \in DOMAIN s : s[i] = c ELSE 0

Share(r) == IF r = 0 THEN <<0, 1>> ELSE <<1, 60 + r>>

\* Variant: a keyword rank replaces the vector rank instead of adding to it.
RrfReplaced(v, k, c) == Share(IF Rank(k, c) # 0 THEN Rank(k, c) ELSE Rank(v, c))

Rrf(v, k, c) ==
    LET x == Share(Rank(v, c))
        y == Share(Rank(k, c))
    IN  <<x[1] * y[2] + y[1] * x[2], x[2] * y[2]>>

Higher(p, q) == p[1] * q[2] > q[1] * p[2]

\* The sort key (-rrf_score, str(chunk_id)).
Precedes(v, k, c, d) ==
    \/ Higher(Rrf(v, k, c), Rrf(v, k, d))
    \/ ~Higher(Rrf(v, k, d), Rrf(v, k, c)) /\ c < d

\* The first n of the two lists once they are fused.
Foremost(v, k, n) ==
    LET found == ToSet(v) \cup ToSet(k) IN
    {c \in found : Cardinality({d \in found : Precedes(v, k, d, c)}) < n}

Orders(S) == {s \in [1..Cardinality(S) -> S] : IsInjective(s)}

\* The chunks of S in their fused order.
Fused(S, v, k) ==
    CHOOSE s \in Orders(S) : \A i, j \in DOMAIN s : i < j => Precedes(v, k, s[i], s[j])

\* c is in no list behind d, and in one ahead of it.
Better(s, c, d) == Contains(s, c) /\ (Contains(s, d) => Rank(s, c) < Rank(s, d))
NoWorse(s, c, d) == Better(s, c, d) \/ (~Contains(s, c) /\ ~Contains(s, d))
Dominates(v, k, c, d) ==
    /\ NoWorse(v, c, d) /\ NoWorse(k, c, d)
    /\ Better(v, c, d) \/ Better(k, c, d)

=============================================================================
