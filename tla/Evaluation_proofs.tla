-------------------------- MODULE Evaluation_proofs --------------------------
(***************************************************************************)
(* Proofs about searching, answering and evaluating, for any store,        *)
(* deployments, requests and datasets: the results of a request are those  *)
(* asked for and in an order both searches agree with, an answer without   *)
(* evidence means that there is none, receipts name the passages cited,    *)
(* and a report covers its dataset.                                        *)
(*                                                                         *)
(* The order of the fused results is that of a count: as many chunks come  *)
(* before one as its position tells, which makes the sequence that Fused   *)
(* chooses exist without an induction.                                     *)
(***************************************************************************)
EXTENDS Evaluation, SequenceTheorems, FiniteSetTheorems, TLAPS

-----------------------------------------------------------------------------
(* Sequences *)

LEMMA Members ==
    ASSUME NEW S, NEW s \in Seq(S)
    PROVE  /\ DOMAIN s = 1..Len(s) /\ Len(s) \in Nat
           /\ ToSet(s) \subseteq S
           /\ \A e : Contains(s, e) <=> e \in ToSet(s)
           /\ s \in Seq(ToSet(s))
<1>1. DOMAIN s = 1..Len(s) /\ Len(s) \in Nat /\ \A i \in 1..Len(s) : s[i] \in S
  BY LenProperties, ElementOfSeq
<1>2. \A i \in 1..Len(s) : s[i] \in ToSet(s)
  BY <1>1 DEF ToSet
<1>3. s \in Seq(ToSet(s))
  <2>1. s \in [1..Len(s) -> ToSet(s)]
    BY <1>1, <1>2
  <2> QED BY <1>1, <2>1, SeqDef
<1> QED BY <1>1, <1>3 DEF ToSet, Contains

LEMMA FirstMembers ==
    ASSUME NEW S, NEW s \in Seq(S), NEW n \in Nat
    PROVE  /\ First(s, n) \in Seq(S)
           /\ Len(First(s, n)) = IF n < Len(s) THEN n ELSE Len(s)
           /\ \A i \in 1..Len(First(s, n)) : First(s, n)[i] = s[i]
           /\ ToSet(First(s, n)) \subseteq ToSet(s)
           /\ IsInjective(s) => IsInjective(First(s, n))
<1> DEFINE m == IF n < Len(s) THEN n ELSE Len(s)
<1>1. Len(s) \in Nat /\ m \in 0..Len(s) /\ DOMAIN s = 1..Len(s)
  BY LenProperties
<1>2. /\ First(s, n) \in Seq(S) /\ Len(First(s, n)) = m
      /\ \A i \in 1..m : First(s, n)[i] = s[i]
  BY <1>1, SubSeqProperties DEF First
<1>3. DOMAIN First(s, n) = 1..m
  BY <1>2, LenProperties
<1> HIDE DEF m
<1>4. ToSet(First(s, n)) \subseteq ToSet(s)
  BY <1>1, <1>2, <1>3 DEF ToSet
<1>5. ASSUME IsInjective(s) PROVE IsInjective(First(s, n))
  BY <1>1, <1>2, <1>3, <1>5 DEF IsInjective
<1> QED BY <1>2, <1>4, <1>5 DEF m

LEMMA Ranks ==
    ASSUME NEW S, NEW s \in Seq(S), NEW c
    PROVE  /\ Rank(s, c) \in Nat
           /\ Contains(s, c) => Rank(s, c) \in 1..Len(s) /\ s[Rank(s, c)] = c
           /\ ~Contains(s, c) => Rank(s, c) = 0
<1>1. DOMAIN s = 1..Len(s) /\ Len(s) \in Nat
  BY Members
<1>2. CASE Contains(s, c)
  <2>1. \E i \in DOMAIN s : s[i] = c
    BY <1>1, <1>2 DEF Contains
  <2> QED BY <1>1, <1>2, <2>1 DEF Rank
<1>3. CASE ~Contains(s, c)
  BY <1>3 DEF Rank
<1> QED BY <1>2, <1>3

LEMMA RankOfMember ==
    ASSUME NEW S, NEW s \in Seq(S), IsInjective(s), NEW i \in 1..Len(s)
    PROVE  Contains(s, s[i]) /\ Rank(s, s[i]) = i
<1>1. Contains(s, s[i]) /\ DOMAIN s = 1..Len(s)
  BY Members DEF Contains
<1> QED BY <1>1, Ranks DEF IsInjective

LEMMA FiniteMembers ==
    ASSUME NEW S, NEW s \in Seq(S)
    PROVE  IsFiniteSet(ToSet(s))
<1>1. DOMAIN s = 1..Len(s) /\ Len(s) \in Nat
  BY Members
<1>2. IsFiniteSet(1..Len(s))
  BY <1>1, FS_Interval
<1> DEFINE T == {s[i] : i \in 1..Len(s)}
<1>3. s \in Surjection(1..Len(s), T)
  BY <1>1, LenProperties DEF Surjection
<1>4. IsFiniteSet(T)
  BY <1>2, <1>3, FS_Surjection
<1> QED BY <1>1, <1>4 DEF ToSet

-----------------------------------------------------------------------------
(* Fractions *)

LEMMA NotHigher ==
    ASSUME NEW p, NEW q, NEW r, ~Higher(p, q), ~Higher(q, r),
           \A f \in {p, q, r} : f[1] \in Nat /\ f[2] \in Nat \ {0}
    PROVE  ~Higher(p, r)
<1>1. PICK a \in Nat, b \in Nat \ {0} : p[1] = a /\ p[2] = b
  OBVIOUS
<1>2. PICK c \in Nat, d \in Nat \ {0} : q[1] = c /\ q[2] = d
  OBVIOUS
<1>3. PICK e \in Nat, f \in Nat \ {0} : r[1] = e /\ r[2] = f
  OBVIOUS
<1>4. a * d <= c * b /\ c * f <= e * d
  BY <1>1, <1>2, <1>3 DEF Higher
<1>5. (a * d) * f <= (c * b) * f /\ (c * f) * b <= (e * d) * b
  BY <1>4
<1>6. d * (a * f) <= d * (e * b)
  BY <1>5
<1>7. a * f <= e * b
  BY <1>6
<1> QED BY <1>1, <1>3, <1>7 DEF Higher

LEMMA SumsOfFractions ==
    ASSUME NEW a \in Nat, NEW b \in Nat \ {0}, NEW c \in Nat, NEW d \in Nat \ {0},
           NEW e \in Nat, NEW f \in Nat \ {0}, NEW g \in Nat, NEW h \in Nat \ {0},
           a * d >= c * b, e * h >= g * f, a * d > c * b \/ e * h > g * f
    PROVE  (a * f + e * b) * (d * h) > (c * h + g * d) * (b * f)
<1>1. (a * d) * (f * h) >= (c * b) * (f * h) /\ (e * h) * (b * d) >= (g * f) * (b * d)
  OBVIOUS
<1>2. \/ (a * d) * (f * h) > (c * b) * (f * h)
      \/ (e * h) * (b * d) > (g * f) * (b * d)
  OBVIOUS
<1> QED BY <1>1, <1>2

LEMMA SeqOfSubset == ASSUME NEW S, NEW T, S \subseteq T PROVE Seq(S) \subseteq Seq(T)
OBVIOUS

-----------------------------------------------------------------------------
(* The fused order *)

LEMMA Scores ==
    ASSUME NEW S, NEW v \in Seq(S), NEW k \in Seq(S), NEW c
    PROVE  /\ Rrf(v, k, c)[1] \in Nat /\ Rrf(v, k, c)[2] \in Nat \ {0}
<1> DEFINE x == Share(Rank(v, c))
           y == Share(Rank(k, c))
<1>1. /\ x[1] \in Nat /\ x[2] \in Nat \ {0}
      /\ y[1] \in Nat /\ y[2] \in Nat \ {0}
  <2>1. \A r \in Nat : Share(r)[1] \in Nat /\ Share(r)[2] \in Nat \ {0}
    BY DEF Share
  <2> QED BY <2>1, Ranks
<1>2. /\ Rrf(v, k, c)[1] = x[1] * y[2] + y[1] * x[2]
      /\ Rrf(v, k, c)[2] = x[2] * y[2]
  BY DEF Rrf
<1> HIDE DEF x, y
<1>3. \A a, b \in Nat : a * b \in Nat /\ (a # 0 /\ b # 0 => a * b # 0)
  OBVIOUS
<1>4. /\ x[1] * y[2] \in Nat /\ y[1] * x[2] \in Nat
      /\ x[2] * y[2] \in Nat /\ x[2] * y[2] # 0
  BY <1>1, <1>3
<1> QED BY <1>2, <1>4

LEMMA StrictOrder ==
    ASSUME NEW S, NEW v \in Seq(S), NEW k \in Seq(S)
    PROVE  /\ \A c \in Nat : ~Precedes(v, k, c, c)
           /\ \A c, d \in Nat : c = d \/ Precedes(v, k, c, d) \/ Precedes(v, k, d, c)
           /\ \A c, d, e \in Nat :
                 Precedes(v, k, c, d) /\ Precedes(v, k, d, e) => Precedes(v, k, c, e)
<1> DEFINE NoHigher(c, d) == ~Higher(Rrf(v, k, c), Rrf(v, k, d))
<1>1. \A c, d : NoHigher(c, d) \/ NoHigher(d, c)
  BY Scores DEF Higher
<1>2. ASSUME NEW c, NEW d, NEW e, NoHigher(c, d), NoHigher(d, e)
      PROVE  NoHigher(c, e)
  <2> DEFINE p == Rrf(v, k, c)
             q == Rrf(v, k, d)
             r == Rrf(v, k, e)
  <2>1. /\ p[1] \in Nat /\ p[2] \in Nat \ {0} /\ q[1] \in Nat /\ q[2] \in Nat \ {0}
        /\ r[1] \in Nat /\ r[2] \in Nat \ {0}
    BY Scores
  <2>2. ~Higher(p, q) /\ ~Higher(q, r)
    BY <1>2
  <2> HIDE DEF p, q, r
  <2>3. ~Higher(p, r)
    BY <2>1, <2>2, NotHigher
  <2> QED BY <2>3 DEF p, r
<1>3. \A c, d : Precedes(v, k, c, d) <=> ~NoHigher(c, d) \/ (NoHigher(d, c) /\ c < d)
  BY DEF Precedes
<1> HIDE DEF NoHigher
<1> QED BY <1>1, <1>2, <1>3

\* As many of S come before c.
LEMMA Positions ==
    ASSUME NEW S \in SUBSET Nat, IsFiniteSet(S), NEW L, NEW v \in Seq(L), NEW k \in Seq(L)
    PROVE  LET ahead(c) == Cardinality({d \in S : Precedes(v, k, d, c)}) IN
           /\ \A c \in S : ahead(c) \in 0..(Cardinality(S) - 1)
           /\ \A c, d \in S : Precedes(v, k, c, d) => ahead(c) < ahead(d)
<1> DEFINE Ahead(c) == {d \in S : Precedes(v, k, d, c)}
<1>1. \A c : Ahead(c) \subseteq S /\ IsFiniteSet(Ahead(c))
  BY FS_Subset
<1>2. \A c \in S : c \notin Ahead(c)
  BY StrictOrder
<1>3. \A c, d \in S : Precedes(v, k, c, d) => Ahead(c) \subseteq Ahead(d) /\ c \in Ahead(d)
  BY StrictOrder
<1> HIDE DEF Ahead
<1>4. \A c \in S : Cardinality(Ahead(c)) \in Nat /\ Cardinality(Ahead(c)) < Cardinality(S)
  BY <1>1, <1>2, FS_CardinalityType, FS_Subset
<1>5. \A c, d \in S : Precedes(v, k, c, d) => Cardinality(Ahead(c)) < Cardinality(Ahead(d))
  <2> SUFFICES ASSUME NEW c \in S, NEW d \in S, Precedes(v, k, c, d)
               PROVE  Cardinality(Ahead(c)) < Cardinality(Ahead(d))
    OBVIOUS
  <2>1. Ahead(c) \subseteq Ahead(d) /\ Ahead(c) # Ahead(d)
    BY <1>2, <1>3
  <2>2. /\ Cardinality(Ahead(c)) <= Cardinality(Ahead(d))
        /\ Cardinality(Ahead(c)) # Cardinality(Ahead(d))
    BY <1>1, <2>1, FS_Subset
  <2> QED BY <1>4, <2>2
<1>6. Cardinality(S) \in Nat
  BY FS_CardinalityType
<1> QED BY <1>4, <1>5, <1>6 DEF Ahead

LEMMA FusedExists ==
    ASSUME NEW S \in SUBSET Nat, IsFiniteSet(S), NEW L, NEW v \in Seq(L), NEW k \in Seq(L)
    PROVE  \E s \in Orders(S) : \A i, j \in DOMAIN s : i < j => Precedes(v, k, s[i], s[j])
<1> DEFINE n == Cardinality(S)
           pos == [c \in S |-> Cardinality({d \in S : Precedes(v, k, d, c)}) + 1]
<1>1. n \in Nat
  BY FS_CardinalityType
<1>2. /\ \A c \in S : pos[c] \in 1..n
      /\ \A c, d \in S : Precedes(v, k, c, d) => pos[c] < pos[d]
  <2> DEFINE ahead(c) == Cardinality({d \in S : Precedes(v, k, d, c)})
  <2>1. /\ \A c \in S : ahead(c) \in 0..(n - 1)
        /\ \A c, d \in S : Precedes(v, k, c, d) => ahead(c) < ahead(d)
    BY Positions
  <2>2. \A c \in S : pos[c] = ahead(c) + 1
    OBVIOUS
  <2> HIDE DEF ahead, pos, n
  <2> QED BY <1>1, <2>1, <2>2
<1>3. pos \in [S -> 1..n]
  <2>1. pos = [c \in S |-> pos[c]]
    OBVIOUS
  <2> HIDE DEF pos, n
  <2> QED BY <1>2, <2>1
<1> HIDE DEF pos
<1>4. \A c, d \in S : pos[c] = pos[d] => c = d
  <2> SUFFICES ASSUME NEW c \in S, NEW d \in S, c # d PROVE pos[c] # pos[d]
    OBVIOUS
  <2>1. Precedes(v, k, c, d) \/ Precedes(v, k, d, c)
    BY StrictOrder
  <2>2. pos[c] \in Nat /\ pos[d] \in Nat /\ (pos[c] < pos[d] \/ pos[d] < pos[c])
    BY <1>1, <1>2, <2>1
  <2> HIDE DEF n
  <2> QED BY <2>2
<1>5. pos \in Surjection(S, 1..n)
  <2>1. pos \in Injection(S, 1..n)
    BY <1>3, <1>4 DEF Injection, IsInjective
  <2>2. IsFiniteSet(1..n) /\ Cardinality(1..n) = n
    BY <1>1, FS_Interval
  <2> QED BY <2>1, <2>2, FS_Injection
<1> DEFINE s == [i \in 1..n |-> CHOOSE c \in S : pos[c] = i]
<1>6. \A i \in 1..n : s[i] \in S /\ pos[s[i]] = i
  <2>1. \A i \in 1..n : \E c \in S : pos[c] = i
    BY <1>5 DEF Surjection
  <2> HIDE DEF pos, n
  <2> QED BY <2>1
<1>7. s \in [1..n -> S] /\ DOMAIN s = 1..n
  BY <1>6
<1> HIDE DEF s
<1>8. s \in Orders(S)
  BY <1>6, <1>7 DEF Orders, IsInjective
<1>9. ASSUME NEW i \in 1..n, NEW j \in 1..n, i < j
      PROVE  Precedes(v, k, s[i], s[j])
  <2>1. s[i] \in S /\ s[j] \in S /\ pos[s[i]] = i /\ pos[s[j]] = j
    BY <1>6
  <2>2. i \in Nat /\ j \in Nat
    BY <1>1
  <2>3. CASE s[i] = s[j]
    BY <2>1, <2>2, <2>3, <1>9
  <2>4. CASE Precedes(v, k, s[j], s[i])
    <3>1. j < i
      BY <1>2, <2>1, <2>4
    <3> QED BY <1>9, <2>2, <3>1
  <2> QED BY <2>1, <2>3, <2>4, StrictOrder
<1> QED BY <1>7, <1>8, <1>9

\* The members of a set in an order of theirs.
LEMMA OrdersProperties ==
    ASSUME NEW S, IsFiniteSet(S), NEW s \in Orders(S)
    PROVE  /\ s \in Seq(S) /\ Len(s) = Cardinality(S) /\ IsInjective(s)
           /\ ToSet(s) = S
<1>1. Cardinality(S) \in Nat /\ IsFiniteSet(1..Cardinality(S))
      /\ Cardinality(1..Cardinality(S)) = Cardinality(S)
  BY FS_CardinalityType, FS_Interval
<1>2. s \in [1..Cardinality(S) -> S] /\ IsInjective(s) /\ DOMAIN s = 1..Cardinality(S)
  BY DEF Orders
<1>3. s \in Seq(S) /\ Len(s) = Cardinality(S)
  BY <1>1, <1>2, SeqDef, LenProperties
<1>4. s \in Surjection(1..Cardinality(S), S)
  <2>1. s \in Injection(1..Cardinality(S), S)
    BY <1>2 DEF Injection
  <2> QED BY <1>1, <2>1, FS_Injection
<1>5. ToSet(s) = S
  BY <1>2, <1>4 DEF ToSet, Surjection
<1> QED BY <1>2, <1>3, <1>5

LEMMA FusedProperties ==
    ASSUME NEW S \in SUBSET Nat, IsFiniteSet(S), NEW L, NEW v \in Seq(L), NEW k \in Seq(L)
    PROVE  /\ Fused(S, v, k) \in Seq(S) /\ IsInjective(Fused(S, v, k))
           /\ ToSet(Fused(S, v, k)) = S
           /\ \A i, j \in 1..Len(Fused(S, v, k)) :
                 i < j => Precedes(v, k, Fused(S, v, k)[i], Fused(S, v, k)[j])
<1>1. /\ Fused(S, v, k) \in Orders(S)
      /\ \A i, j \in DOMAIN Fused(S, v, k) :
            i < j => Precedes(v, k, Fused(S, v, k)[i], Fused(S, v, k)[j])
  BY FusedExists DEF Fused
<1>2. DOMAIN Fused(S, v, k) = 1..Len(Fused(S, v, k))
  BY <1>1, OrdersProperties, LenProperties
<1> QED BY <1>1, <1>2, OrdersProperties

\* Whoever comes before one of the foremost is one of them, and there is one.
LEMMA ForemostProperties ==
    ASSUME NEW L \in SUBSET Nat, NEW v \in Seq(L), NEW k \in Seq(L), NEW n \in Nat \ {0}
    PROVE  /\ Foremost(v, k, n) \subseteq ToSet(v) \cup ToSet(k)
           /\ \A c \in ToSet(v) \cup ToSet(k), d \in Foremost(v, k, n) :
                 Precedes(v, k, c, d) => c \in Foremost(v, k, n)
           /\ ToSet(v) \cup ToSet(k) # {} => Foremost(v, k, n) # {}
<1> DEFINE S == ToSet(v) \cup ToSet(k)
           ahead(c) == Cardinality({d \in S : Precedes(v, k, d, c)})
<1>1. S \in SUBSET Nat /\ IsFiniteSet(S)
  BY Members, FiniteMembers, FS_Union
<1>2. Foremost(v, k, n) = {c \in S : ahead(c) < n}
  BY DEF Foremost
<1>3. /\ \A c \in S : ahead(c) \in Nat
      /\ \A c, d \in S : Precedes(v, k, c, d) => ahead(c) < ahead(d)
  <2>1. /\ \A c \in S : ahead(c) \in 0..(Cardinality(S) - 1)
        /\ \A c, d \in S : Precedes(v, k, c, d) => ahead(c) < ahead(d)
    <3> HIDE DEF S
    <3> QED BY <1>1, Positions
  <2> HIDE DEF S, ahead
  <2>2. Cardinality(S) \in Nat
    BY <1>1, FS_CardinalityType
  <2> QED BY <2>1, <2>2
<1>4. ASSUME S # {} PROVE \E c \in S : ahead(c) = 0
  <2> DEFINE s == Fused(S, v, k)
  <2>1. /\ s \in Seq(S) /\ ToSet(s) = S /\ IsInjective(s)
        /\ \A i, j \in 1..Len(s) : i < j => Precedes(v, k, s[i], s[j])
    <3> HIDE DEF S
    <3> QED BY <1>1, FusedProperties
  <2>2. DOMAIN s = 1..Len(s) /\ Len(s) \in Nat
    <3> HIDE DEF S, s
    <3> QED BY <2>1, LenProperties
  <2> HIDE DEF s
  <2>3. 1 \in 1..Len(s) /\ s[1] \in S
    <3> HIDE DEF S
    <3> QED BY <1>4, <2>1, <2>2 DEF ToSet
  <2>4. \A d \in S : ~Precedes(v, k, d, s[1])
    <3> SUFFICES ASSUME NEW d \in S, Precedes(v, k, d, s[1]) PROVE FALSE
      OBVIOUS
    <3>1. PICK i \in 1..Len(s) : s[i] = d
      <4> HIDE DEF S
      <4> QED BY <2>1, <2>2 DEF ToSet
    <3>2. i = 1 \/ Precedes(v, k, s[1], d)
      BY <2>1, <2>2, <2>3, <3>1
    <3>3. s[1] \in Nat /\ d \in Nat
      BY <1>1, <2>3
    <3> QED BY <3>1, <3>2, <3>3, StrictOrder
  <2>5. {d \in S : Precedes(v, k, d, s[1])} = {}
    BY <2>4
  <2>6. ahead(s[1]) = 0
    BY <2>5, FS_EmptySet
  <2> QED BY <2>3, <2>6
<1> HIDE DEF S, ahead
<1>5. ASSUME NEW c \in S, NEW d \in Foremost(v, k, n), Precedes(v, k, c, d)
      PROVE  c \in Foremost(v, k, n)
  BY <1>2, <1>3, <1>5
<1> QED BY <1>2, <1>4, <1>5 DEF S

\* A chunk that neither search ranks behind another, and one ranks ahead, has a higher score.
LEMMA DominatesHigher ==
    ASSUME NEW L, NEW v \in Seq(L), NEW k \in Seq(L), NEW c, NEW d, Dominates(v, k, c, d)
    PROVE  Higher(Rrf(v, k, c), Rrf(v, k, d))
<1>1. ASSUME NEW s \in Seq(L)
      PROVE  /\ Share(Rank(s, c))[1] \in Nat /\ Share(Rank(s, c))[2] \in Nat \ {0}
             /\ Share(Rank(s, d))[1] \in Nat /\ Share(Rank(s, d))[2] \in Nat \ {0}
             /\ Better(s, c, d) => Higher(Share(Rank(s, c)), Share(Rank(s, d)))
             /\ NoWorse(s, c, d) => ~Higher(Share(Rank(s, d)), Share(Rank(s, c)))
  <2>1. /\ Rank(s, c) \in Nat /\ Rank(s, d) \in Nat
        /\ Better(s, c, d) => Rank(s, c) # 0 /\ (Rank(s, d) # 0 => Rank(s, c) < Rank(s, d))
        /\ NoWorse(s, c, d) => Better(s, c, d) \/ (Rank(s, c) = 0 /\ Rank(s, d) = 0)
    BY <1>1, Ranks, Members DEF Better, NoWorse
  <2>2. \A i, j \in Nat : /\ i # 0 /\ (j # 0 => i < j) => Higher(Share(i), Share(j))
                          /\ i # 0 /\ (j # 0 => i < j) => ~Higher(Share(j), Share(i))
    BY DEF Higher, Share
  <2>3. ~Higher(Share(0), Share(0))
    BY DEF Higher, Share
  <2>4. \A r \in Nat : Share(r)[1] \in Nat /\ Share(r)[2] \in Nat \ {0}
    BY DEF Share
  <2> QED BY <2>1, <2>2, <2>3, <2>4
<1>2. PICK a \in Nat, b \in Nat \ {0} : Share(Rank(v, c))[1] = a /\ Share(Rank(v, c))[2] = b
  BY <1>1
<1>3. PICK a1 \in Nat, b1 \in Nat \ {0} : Share(Rank(v, d))[1] = a1 /\ Share(Rank(v, d))[2] = b1
  BY <1>1
<1>4. PICK e \in Nat, f \in Nat \ {0} : Share(Rank(k, c))[1] = e /\ Share(Rank(k, c))[2] = f
  BY <1>1
<1>5. PICK e1 \in Nat, f1 \in Nat \ {0} : Share(Rank(k, d))[1] = e1 /\ Share(Rank(k, d))[2] = f1
  BY <1>1
<1>6. /\ ~(a1 * b > a * b1) /\ ~(e1 * f > e * f1)
      /\ a * b1 > a1 * b \/ e * f1 > e1 * f
  <2>1. /\ ~Higher(Share(Rank(v, d)), Share(Rank(v, c)))
        /\ ~Higher(Share(Rank(k, d)), Share(Rank(k, c)))
        /\ \/ Higher(Share(Rank(v, c)), Share(Rank(v, d)))
           \/ Higher(Share(Rank(k, c)), Share(Rank(k, d)))
    BY <1>1 DEF Dominates
  <2> QED BY <2>1, <1>2, <1>3, <1>4, <1>5 DEF Higher
<1>7. a * b1 >= a1 * b /\ e * f1 >= e1 * f
  BY <1>6
<1>8. (a * f + e * b) * (b1 * f1) > (a1 * f1 + e1 * b1) * (b * f)
  BY <1>6, <1>7, SumsOfFractions
<1>9. /\ Rrf(v, k, c)[1] = a * f + e * b /\ Rrf(v, k, c)[2] = b * f
      /\ Rrf(v, k, d)[1] = a1 * f1 + e1 * b1 /\ Rrf(v, k, d)[2] = b1 * f1
  BY <1>2, <1>3, <1>4, <1>5 DEF Rrf
<1> QED BY <1>8, <1>9 DEF Higher

\* However the fused lists are cut, once before and once after what is no longer stored goes.
LEMMA BetterStaysFirst ==
    ASSUME NEW L \in SUBSET Nat, NEW v \in Seq(L), NEW k \in Seq(L), NEW T,
           NEW n \in Nat \ {0}, NEW m \in Nat, NEW c \in T, NEW d, Dominates(v, k, c, d),
           Contains(First(Fused(Foremost(v, k, n) \cap T, v, k), m), d)
    PROVE  LET s == First(Fused(Foremost(v, k, n) \cap T, v, k), m) IN
           Contains(s, c) /\ Rank(s, c) < Rank(s, d)
<1> DEFINE S == Foremost(v, k, n) \cap T
           s == Fused(S, v, k)
           t == First(s, m)
<1>1. S \in SUBSET Nat /\ IsFiniteSet(S) /\ S \subseteq ToSet(v) \cup ToSet(k)
  <2>1. IsFiniteSet(ToSet(v) \cup ToSet(k))
    BY FiniteMembers, FS_Union
  <2>2. ToSet(v) \cup ToSet(k) \subseteq Nat
    BY Members
  <2>3. S \subseteq ToSet(v) \cup ToSet(k)
    BY ForemostProperties
  <2> QED BY <2>1, <2>2, <2>3, FS_Subset
<1>2. /\ s \in Seq(S) /\ IsInjective(s) /\ ToSet(s) = S
      /\ \A i, j \in 1..Len(s) : i < j => Precedes(v, k, s[i], s[j])
  <2> HIDE DEF S
  <2> QED BY <1>1, FusedProperties
<1> HIDE DEF s
<1>3. /\ t \in Seq(S) /\ IsInjective(t) /\ Len(t) = IF m < Len(s) THEN m ELSE Len(s)
      /\ \A i \in 1..Len(t) : t[i] = s[i]
      /\ Len(s) \in Nat /\ DOMAIN s = 1..Len(s) /\ Len(t) \in Nat /\ DOMAIN t = 1..Len(t)
  <2>1. /\ t \in Seq(S) /\ IsInjective(t) /\ Len(t) = IF m < Len(s) THEN m ELSE Len(s)
        /\ \A i \in 1..Len(t) : t[i] = s[i]
    BY <1>2, FirstMembers
  <2> HIDE DEF S, t
  <2> QED BY <1>2, <2>1, LenProperties
<1> HIDE DEF t
<1>4. PICK j \in 1..Len(t) : t[j] = d
  BY DEF Contains, t, s
<1>5. d \in S /\ s[j] = d /\ j \in 1..Len(s)
  <2>1. j \in 1..Len(s) /\ s[j] = d
    BY <1>3, <1>4
  <2> HIDE DEF S
  <2> QED BY <1>2, <1>3, <2>1 DEF ToSet
<1>6. Precedes(v, k, c, d)
  BY DominatesHigher DEF Precedes
<1>7. c \in S
  <2>1. c \in ToSet(v) \cup ToSet(k)
    BY Members DEF Dominates, Better
  <2> QED BY <1>5, <1>6, <2>1, ForemostProperties
<1>8. PICK i \in 1..Len(s) : s[i] = c
  <2> HIDE DEF S
  <2> QED BY <1>2, <1>3, <1>7 DEF ToSet
<1>9. i < j
  <2>1. c \in Nat /\ d \in Nat
    BY <1>1, <1>5, <1>7
  <2>2. i # j
    BY <1>5, <1>6, <1>8, <2>1, StrictOrder
  <2>3. ~(j < i)
    <3> SUFFICES ASSUME j < i PROVE FALSE
      OBVIOUS
    <3>1. Precedes(v, k, d, c)
      BY <1>2, <1>5, <1>8
    <3> QED BY <1>6, <2>1, <3>1, StrictOrder
  <2> QED BY <1>3, <2>2, <2>3
<1>10. i \in 1..Len(t) /\ t[i] = c
  BY <1>3, <1>4, <1>8, <1>9
<1>11. /\ Contains(t, t[i]) /\ Rank(t, t[i]) = i
       /\ Contains(t, t[j]) /\ Rank(t, t[j]) = j
  <2> HIDE DEF S
  <2> QED BY <1>3, <1>4, <1>10, RankOfMember
<1>12. Contains(t, c) /\ Rank(t, c) < Rank(t, d)
  BY <1>4, <1>9, <1>10, <1>11
<1> QED BY <1>12 DEF t, s

\* A SELECT ... LIMIT n returns rows of the table, and none only if there is none.
LEMMA TopListsProperties ==
    ASSUME NEW S, IsFiniteSet(S), NEW n \in Nat \ {0}, NEW score, NEW s \in TopLists(S, n, score)
    PROVE  s \in Seq(S) /\ (s = << >> => S = {})
<1> DEFINE m == Min({n, Cardinality(S)})
<1>1. Cardinality(S) \in Nat /\ (S # {} => Cardinality(S) # 0)
  BY FS_CardinalityType, FS_EmptySet
<1>2. m \in Nat /\ (S # {} => m # 0)
  <2>1. m = IF n <= Cardinality(S) THEN n ELSE Cardinality(S)
    <3> DEFINE r == IF n <= Cardinality(S) THEN n ELSE Cardinality(S)
    <3>1. r \in {n, Cardinality(S)} /\ \A y \in {n, Cardinality(S)} : r <= y
      BY <1>1
    <3>2. \A x \in {n, Cardinality(S)} : (\A y \in {n, Cardinality(S)} : x <= y) => x = r
      BY <1>1
    <3> HIDE DEF r
    <3>3. m = r
      BY <3>1, <3>2 DEF Min
    <3> QED BY <3>3 DEF r
  <2> QED BY <1>1, <2>1
<1>3. s \in [1..m -> S]
  BY DEF TopLists
<1> HIDE DEF m
<1> QED BY <1>2, <1>3, SeqDef

-----------------------------------------------------------------------------
(* The inductive invariant *)

\* The steps between asking a case and scoring its answer.
Asked == {"operational", "embed", "vector", "keyword", "hydrate", "found", "answered"}

RequestOK ==
    /\ (pc = "idle") = (asked = None)
    /\ pc # "idle" =>
          /\ asked \in Bodies
          /\ asked.route = "eval" => asked.dataset \in DOMAIN Datasets
          /\ asked.route # "search" => asked.vector /\ asked.keyword
          /\ asked.route # "eval" \/ pc \in Asked => asked.query \in Queries

\* The report so far is of the first cases of the dataset.
Covers == \A i \in 1..Len(report) : report[i].case = cases[i]

CasesOK ==
    /\ Len(report) \in Nat /\ Len(cases) \in Nat /\ Len(report) <= Len(cases)
    /\ pc \in {"dataset", "case", "reported"} => asked.route = "eval"
    /\ pc \in {"idle", "services", "dataset"} => report = << >>
    /\ (pc \in Asked \cup {"case", "reported"} /\ asked.route = "eval") =>
          /\ cases = Datasets[asked.dataset].cases
          /\ report \in Seq({report[i] : i \in DOMAIN report})
          /\ Covers
          /\ pc \in Asked => Len(report) < Len(cases)
          /\ pc = "reported" => Len(report) = Len(cases)

StoreOK ==
    /\ deployment \in Deployments
    /\ stored \subseteq Chunks /\ IsFiniteSet(stored) /\ begun \subseteq stored
    /\ tx \in {"ok", "aborted"} /\ attempt \in 0..(MaxRetries - 1)
    /\ memories \in Seq(Memories) /\ documents \in Seq(Chunks)
    /\ lists.vector \in Seq(Chunks) /\ lists.keyword \in Seq(Chunks)
    /\ lists = [vector |-> lists.vector, keyword |-> lists.keyword]

Eligible == {c \in stored : Admits(c)}

\* All that has been found stays eligible, because nothing that is stored goes away.
ResultsOK ==
    pc \in Asked =>
        /\ lists.vector \in Seq(Eligible) /\ lists.keyword \in Seq(Eligible)
        /\ documents \in Seq(Eligible)
        /\ IsInjective(memories) /\ IsInjective(documents)
        /\ pc \notin {"found", "answered"} => documents = << >>

\* What the searches did not find is not there: a SELECT that matches nothing is one that
\* returns nothing, but for the index of pgvector.
Distant == \A c \in begun : Admits(c) => Similarity[asked.query][c] <= 0
Unmatched == \A c \in begun : Admits(c) => Relevance[asked.query][c] = 0

AbsenceOK ==
    pc \in Asked =>
        /\ (/\ pc \in {"keyword", "hydrate"} /\ asked.vector /\ deployment.dialect = "sqlite"
            /\ lists.vector = << >>) => Distant
        /\ pc = "hydrate" /\ asked.keyword /\ lists.keyword = << >> => Unmatched
        /\ pc \in {"found", "answered"} /\ WantsDocuments /\ documents = << >> =>
              /\ asked.vector /\ deployment.dialect = "sqlite" => Distant
              /\ asked.keyword => Unmatched

AnswerOK ==
    answer # None =>
        /\ pc = "answered" /\ asked.route # "search"
        /\ \/ Results = << >> /\ answer = Insufficient(0)
           \/ Results # << >> /\ deployment.llm # "mock" /\ answer = Insufficient(Len(Results))
           \/ \E numbers \in SUBSET Nat, terms \in SUBSET Terms :
                 /\ answer = Grounded(numbers, terms)
                 /\ Results # << >>
                 /\ deployment.llm = "mock" => 1..Len(Results) \subseteq numbers

ServicesOK ==
    /\ "generation_service" \in built => Needed("ask") \subseteq built
    /\ built \subseteq UNION {Needed(r) : r \in DOMAIN Chain}

IndInv ==
    RequestOK /\ CasesOK /\ StoreOK /\ ResultsOK /\ AbsenceOK /\ AnswerOK /\ ServicesOK
        /\ BetterComesFirst

-----------------------------------------------------------------------------
(* What the steps of the search and of the generation leave alone *)

LEMMA SearchFrame ==
    ASSUME Search
    PROVE  /\ asked' = asked /\ deployment' = deployment /\ stored' = stored /\ begun' = begun
           /\ pc \in Asked \ {"found", "answered"}
           /\ pc' \in (Asked \ {"answered"}) \cup {"failed"}
BY DEF Search, FindMemories, FindMemoriesFails, EmbedQuery, RateLimited, EmbedFails, SearchVectors,
       SearchKeywords, SelectFails, Hydrate, Rerank, RerankFails, DocumentSteps, Asked, searched

LEMMA GenerationFrame ==
    ASSUME GenerationStep
    PROVE  /\ UNCHANGED <<deployment, stored, latched, asked, searched>>
           /\ pc = "found" /\ asked.route # "search" /\ pc' \in {"answered", "failed"}
BY DEF GenerationStep, NoContext, Generate, GenerateMarker, GenerateFails, Asking, AnsweredWith

-----------------------------------------------------------------------------
(* Requests and reports *)

LEMMA ReceivedRequest ==
    ASSUME NEW r \in Requests
    PROVE  /\ r \in Bodies /\ r # None
           /\ r.route = "eval" => r.dataset \in DOMAIN Datasets
           /\ r.route # "eval" => r.query \in Queries
           /\ r.route # "search" => r.vector /\ r.keyword
BY RouteAssumption

LEMMA Fields ==
    ASSUME NEW r \in Bodies
    PROVE  /\ r.limit \in Nat \ {0} /\ 2 * r.limit \in Nat \ {0}
           /\ r.route \in {"search", "ask", "eval"}
           /\ r.vector \in BOOLEAN /\ r.keyword \in BOOLEAN
BY DEF Bodies

LEMMA CaseQueries ==
    ASSUME NEW d \in DOMAIN Datasets, NEW i \in 1..Len(Datasets[d].cases)
    PROVE  Datasets[d].cases[i].query \in Queries
<1> DEFINE C == [query : Queries, expected : SUBSET STRING, terms : SUBSET Terms,
                 forbidden : SUBSET Terms, least : Nat]
<1>1. Datasets[d].cases \in Seq(C)
  BY EvaluationAssumption
<1>2. Datasets[d].cases[i] \in C
  <2> HIDE DEF C
  <2> QED BY <1>1, ElementOfSeq
<1> QED BY <1>2

LEMMA RequestStep == ASSUME RequestOK, CasesOK, [Next]_vars PROVE RequestOK'
<1>1. ASSUME NEW r \in Requests, Receive(r) PROVE RequestOK'
  BY <1>1, ReceivedRequest DEF Receive, Goto, RequestOK, Asked
<1>2. CASE CreateServices
  <2>1. /\ asked' = asked /\ pc = "services"
        /\ pc' = IF asked.route = "eval" THEN "dataset" ELSE "operational"
    BY <1>2 DEF CreateServices, Goto
  <2> QED BY <2>1 DEF RequestOK, Asked
<1>3. CASE CreateServicesFails
  BY <1>3 DEF CreateServicesFails, Goto, RequestOK, Asked
<1>4. ASSUME NEW c \in Chunks, Ingest(c) PROVE RequestOK'
  BY <1>4 DEF Ingest, RequestOK
<1>5. CASE LoadDataset
  <2>1. asked' = asked /\ pc = "dataset" /\ pc' \in {"case", "failed"}
    BY <1>5 DEF LoadDataset, Goto
  <2> QED BY <2>1 DEF RequestOK, Asked
<1>6. CASE AskCase
  <2> DEFINE q == cases[Len(report) + 1].query
  <2>1. /\ pc = "case" /\ pc' = "operational" /\ Len(report) < Len(cases)
        /\ asked' = [asked EXCEPT !.query = q]
    BY <1>6 DEF AskCase, Goto
  <2>2. /\ asked \in Bodies /\ asked.route = "eval" /\ asked.dataset \in DOMAIN Datasets
        /\ asked.vector /\ asked.keyword
        /\ cases = Datasets[asked.dataset].cases /\ Len(report) \in Nat /\ Len(cases) \in Nat
    BY <2>1 DEF RequestOK, CasesOK
  <2>3. q \in Queries
    BY <2>1, <2>2, CaseQueries
  <2> HIDE DEF q
  <2>4. /\ asked' \in Bodies /\ asked'.query = q /\ asked'.route = "eval"
        /\ asked'.dataset = asked.dataset /\ asked'.vector /\ asked'.keyword
    BY <2>1, <2>2, <2>3 DEF Bodies
  <2> QED BY <2>1, <2>2, <2>3, <2>4, RouteAssumption DEF RequestOK
<1>7. CASE ScoreCase
  BY <1>7 DEF ScoreCase, Goto, RequestOK, Asked
<1>8. CASE ReportCases
  BY <1>8 DEF ReportCases, Goto, RequestOK, Asked
<1>9. CASE Respond
  BY <1>9 DEF Respond, Goto, RequestOK
<1>10. CASE Search
  BY <1>10, SearchFrame DEF RequestOK, Asked
<1>11. CASE GenerationStep
  BY <1>11, GenerationFrame DEF RequestOK, Asked
<1>12. CASE UNCHANGED vars
  BY <1>12 DEF vars, searchVars, RequestOK
<1> QED BY <1>1, <1>2, <1>3, <1>4, <1>5, <1>6, <1>7, <1>8, <1>9, <1>10, <1>11, <1>12
        DEF Next, Handle

LEMMA OneMore ==
    ASSUME NEW s, s \in Seq({s[i] : i \in DOMAIN s}), NEW e
    PROVE  LET t == Append(s, e) IN
           /\ t \in Seq({t[i] : i \in DOMAIN t})
           /\ Len(s) \in Nat /\ Len(t) = Len(s) + 1
           /\ \A i \in 1..Len(s) : t[i] = s[i]
           /\ t[Len(s) + 1] = e
<1> DEFINE S == {s[i] : i \in DOMAIN s} \cup {e}
           t == Append(s, e)
           T == {t[i] : i \in DOMAIN t}
<1>1. s \in Seq(S)
  <2> DEFINE R == {s[i] : i \in DOMAIN s}
  <2>1. s \in Seq(R) /\ R \subseteq S
    OBVIOUS
  <2> HIDE DEF R, S
  <2> QED BY <2>1
<1>2. e \in S
  OBVIOUS
<1> HIDE DEF S
<1>3. /\ t \in Seq(S) /\ Len(s) \in Nat /\ Len(t) = Len(s) + 1
      /\ \A i \in 1..Len(s) : t[i] = s[i]
      /\ t[Len(s) + 1] = e
  BY <1>1, <1>2
<1>4. t \in Seq(T)
  <2>1. t \in [1..Len(t) -> S] /\ DOMAIN t = 1..Len(t) /\ Len(t) \in Nat
    BY <1>3, LenProperties
  <2> HIDE DEF t
  <2>2. \A i \in 1..Len(t) : t[i] \in T
    BY <2>1
  <2> HIDE DEF T
  <2>3. t \in [1..Len(t) -> T]
    BY <2>1, <2>2
  <2> QED BY <2>1, <2>3
<1> QED BY <1>3, <1>4

LEMMA CasesAreSequences ==
    ASSUME NEW d \in DOMAIN Datasets
    PROVE  Len(Datasets[d].cases) \in Nat
           /\ DOMAIN Datasets[d].cases = 1..Len(Datasets[d].cases)
<1> DEFINE C == [query : Queries, expected : SUBSET STRING, terms : SUBSET Terms,
                 forbidden : SUBSET Terms, least : Nat]
<1>1. Datasets[d].cases \in Seq(C)
  BY EvaluationAssumption
<1> HIDE DEF C
<1> QED BY <1>1, LenProperties

\* Searching and generating go on with the same case, or fail.
LEMMA AskedInv ==
    ASSUME CasesOK, UNCHANGED <<asked, evalVars>>, pc \in Asked, pc' \in Asked \cup {"failed"}
    PROVE  CasesOK'
BY DEF CasesOK, Covers, evalVars, Asked

LEMMA ScoreInv == ASSUME RequestOK, CasesOK, ScoreCase PROVE CasesOK'
<1>1. /\ pc = "answered" /\ pc' = "case" /\ asked.route = "eval"
      /\ asked' = asked /\ cases' = cases
  BY DEF ScoreCase, Goto
<1>2. PICK e : e.case = cases[Len(report) + 1] /\ report' = Append(report, e)
  BY DEF ScoreCase
<1>3. /\ cases = Datasets[asked.dataset].cases /\ asked.dataset \in DOMAIN Datasets
      /\ report \in Seq({report[i] : i \in DOMAIN report})
      /\ Covers /\ Len(report) < Len(cases)
  BY <1>1 DEF RequestOK, CasesOK, Asked
<1>4. /\ report' \in Seq({report'[i] : i \in DOMAIN report'})
      /\ Len(report) \in Nat /\ Len(report') = Len(report) + 1
      /\ \A i \in 1..Len(report) : report'[i] = report[i]
      /\ report'[Len(report) + 1] = e
  BY <1>2, <1>3, OneMore
<1>5. Covers'
  <2> SUFFICES ASSUME NEW i \in 1..Len(report') PROVE report'[i].case = cases'[i]
    BY DEF Covers
  <2>1. CASE i \in 1..Len(report)
    BY <1>1, <1>3, <1>4, <2>1 DEF Covers
  <2>2. CASE i = Len(report) + 1
    BY <1>1, <1>2, <1>4, <2>2
  <2> QED BY <1>4, <2>1, <2>2
<1>6. Len(report') \in Nat /\ Len(cases') \in Nat /\ Len(report') <= Len(cases')
  BY <1>1, <1>3, <1>4, CasesAreSequences
<1> QED BY <1>1, <1>3, <1>4, <1>5, <1>6 DEF CasesOK, Asked

LEMMA LoadInv == ASSUME RequestOK, CasesOK, LoadDataset PROVE CasesOK'
<1>1. /\ asked' = asked /\ report' = report /\ report = << >> /\ pc # "idle"
      /\ asked.route = "eval" /\ asked.dataset \in DOMAIN Datasets
      /\ \/ pc' = "failed" /\ cases' = cases
         \/ pc' = "case" /\ cases' = Datasets[asked.dataset].cases
  BY DEF LoadDataset, Goto, RequestOK, CasesOK
<1>2. report' \in Seq({report'[i] : i \in DOMAIN report'}) /\ Len(report') = 0
  BY <1>1
<1>3. Len(cases') \in Nat
  BY <1>1, CasesAreSequences DEF CasesOK
<1> QED BY <1>1, <1>2, <1>3 DEF CasesOK, Covers, Asked

LEMMA AskInv == ASSUME RequestOK, CasesOK, AskCase PROVE CasesOK'
<1>1. /\ pc = "case" /\ pc' = "operational" /\ Len(report) < Len(cases)
      /\ report' = report /\ cases' = cases
      /\ asked' = [asked EXCEPT !.query = cases[Len(report) + 1].query]
  BY DEF AskCase, Goto, evalVars
<1>2. asked \in Bodies /\ asked.route = "eval" /\ asked.dataset \in DOMAIN Datasets
  BY <1>1 DEF RequestOK, CasesOK
<1>3. asked'.route = "eval" /\ asked'.dataset = asked.dataset
  BY <1>1, <1>2 DEF Bodies
<1> QED BY <1>1, <1>2, <1>3 DEF CasesOK, Covers, Asked

LEMMA CasesStep == ASSUME RequestOK, CasesOK, [Next]_vars PROVE CasesOK'
<1>1. ASSUME NEW r \in Requests, Receive(r) PROVE CasesOK'
  BY <1>1 DEF Receive, Goto, evalVars, CasesOK, Asked
<1>2. CASE CreateServices
  <2>1. /\ asked' = asked /\ report' = report /\ cases' = cases /\ pc = "services"
        /\ pc' = IF asked.route = "eval" THEN "dataset" ELSE "operational"
    BY <1>2 DEF CreateServices, Goto
  <2> QED BY <2>1 DEF CasesOK, Asked
<1>3. CASE CreateServicesFails
  BY <1>3 DEF CreateServicesFails, Goto, CasesOK, Asked
<1>4. ASSUME NEW c \in Chunks, Ingest(c) PROVE CasesOK'
  BY <1>4 DEF Ingest, CasesOK, Covers, Asked
<1>5. CASE ReportCases
  BY <1>5 DEF ReportCases, Goto, evalVars, CasesOK, Covers, Asked
<1>6. CASE Respond
  <2>1. pc' = "idle" /\ cases' = << >> /\ report' = << >> /\ Len(<< >>) = 0
    BY <1>6 DEF Respond, Goto
  <2> QED BY <2>1 DEF CasesOK, Asked
<1>7. CASE UNCHANGED vars
  BY <1>7 DEF vars, searchVars, evalVars, CasesOK, Covers, Asked
<1>8. CASE Search /\ UNCHANGED <<answer, evalVars>>
  BY <1>8, SearchFrame, AskedInv
<1>9. CASE GenerationStep /\ UNCHANGED evalVars
  BY <1>9, GenerationFrame, AskedInv DEF Asked
<1> QED BY <1>1, <1>2, <1>3, <1>4, <1>5, <1>6, <1>7, <1>8, <1>9, ScoreInv, LoadInv, AskInv
        DEF Next, Handle

-----------------------------------------------------------------------------
(* The search *)

NothingFound == lists.vector = << >> /\ lists.keyword = << >>

\* What a step of the search may take from the lists that have been found.
LEMMA CandidatesProperties ==
    ASSUME RequestOK, StoreOK, ResultsOK, pc = "hydrate"
    PROVE  /\ Candidates \in Seq(Eligible) /\ IsInjective(Candidates)
           /\ IsFiniteSet(ToSet(Candidates)) /\ ToSet(Candidates) \subseteq Eligible
           /\ ~NothingFound => ToSet(Candidates) # {}
           /\ Candidates = << >> => NothingFound
<1> DEFINE n == 2 * asked.limit
           F == Foremost(lists.vector, lists.keyword, n)
<1>1. /\ lists.vector \in Seq(Eligible) /\ lists.keyword \in Seq(Eligible)
      /\ n \in Nat \ {0} /\ Eligible \in SUBSET Nat /\ Eligible \subseteq stored
      /\ IsFiniteSet(stored) /\ stored \subseteq Nat
  BY Fields, StoreAssumption DEF RequestOK, StoreOK, ResultsOK, Asked, Eligible
<1>2. ToSet(lists.vector) \cup ToSet(lists.keyword) \subseteq Eligible
  BY <1>1, Members
<1>3. /\ F \subseteq ToSet(lists.vector) \cup ToSet(lists.keyword)
      /\ ToSet(lists.vector) \cup ToSet(lists.keyword) # {} => F # {}
  <2> HIDE DEF n
  <2> QED BY <1>1, ForemostProperties
<1>4. F \cap stored = F
  BY <1>1, <1>2, <1>3
<1>5. F \in SUBSET Nat /\ IsFiniteSet(F) /\ F \subseteq Eligible
  <2>1. F \subseteq Eligible /\ F \subseteq stored
    BY <1>1, <1>2, <1>3
  <2> QED BY <1>1, <2>1, FS_Subset
<1>6. Candidates = Fused(F, lists.vector, lists.keyword)
  BY <1>4 DEF Candidates
<1> HIDE DEF F
<1>7. Candidates \in Seq(F) /\ IsInjective(Candidates) /\ ToSet(Candidates) = F
  BY <1>1, <1>5, <1>6, FusedProperties
<1>8. Candidates \in Seq(Eligible)
  BY <1>5, <1>7, SeqOfSubset
<1>9. ASSUME ~NothingFound PROVE F # {}
  <2>1. CASE lists.vector # << >>
    <3>1. lists.vector[1] \in ToSet(lists.vector)
      BY <1>1, <2>1, LenProperties DEF ToSet
    <3> QED BY <1>3, <3>1
  <2>2. CASE lists.keyword # << >>
    <3>1. lists.keyword[1] \in ToSet(lists.keyword)
      BY <1>1, <2>2, LenProperties DEF ToSet
    <3> QED BY <1>3, <3>1
  <2> QED BY <1>9, <2>1, <2>2 DEF NothingFound
<1>10. Candidates = << >> => ToSet(Candidates) = {}
  BY DEF ToSet
<1> QED BY <1>5, <1>7, <1>8, <1>9, <1>10

\* The top_k of them, in whatever order.
LEMMA TopOfCandidates ==
    ASSUME RequestOK, StoreOK, ResultsOK, pc = "hydrate",
           NEW s \in Seq(Eligible), IsInjective(s), ~NothingFound => s # << >>
    PROVE  /\ First(s, asked.limit) \in Seq(Eligible) /\ IsInjective(First(s, asked.limit))
           /\ First(s, asked.limit) \in Seq(Chunks)
           /\ First(s, asked.limit) = << >> => NothingFound
<1>1. asked.limit \in Nat \ {0} /\ Eligible \subseteq Chunks
  BY Fields DEF RequestOK, StoreOK, Eligible
<1>2. /\ First(s, asked.limit) \in Seq(Eligible) /\ IsInjective(First(s, asked.limit))
      /\ Len(First(s, asked.limit)) = IF asked.limit < Len(s) THEN asked.limit ELSE Len(s)
  BY <1>1, FirstMembers
<1>3. Len(s) \in Nat /\ (s # << >> => Len(s) # 0) /\ Len(<< >>) = 0
  BY LenProperties, EmptySeq
<1>4. First(s, asked.limit) = << >> => s = << >>
  BY <1>1, <1>2, <1>3
<1> QED BY <1>1, <1>2, <1>4

LEMMA HydrateDocuments ==
    ASSUME RequestOK, StoreOK, ResultsOK, Hydrate \/ Rerank \/ RerankFails
    PROVE  /\ pc = "hydrate" /\ pc' = "found"
           /\ UNCHANGED <<deployment, stored, asked, begun, tx, attempt, lists, memories>>
           /\ documents' \in Seq(Eligible) /\ IsInjective(documents')
           /\ documents' \in Seq(Chunks)
           /\ documents' = << >> => NothingFound
           /\ ~Rerank => documents' = First(Candidates, asked.limit)
<1>1. /\ pc = "hydrate" /\ pc' = "found"
      /\ UNCHANGED <<deployment, stored, asked, begun, tx, attempt, lists, memories>>
  BY DEF Hydrate, Rerank, RerankFails
<1>2. PICK s : /\ documents' = First(s, asked.limit)
               /\ s = Candidates \/ (s \in Orders(ToSet(Candidates)) /\ Rerank)
               /\ ~Rerank => s = Candidates
  BY DEF Hydrate, Rerank, RerankFails
<1>3. s \in Seq(Eligible) /\ IsInjective(s) /\ (~NothingFound => s # << >>)
  <2>1. CASE s = Candidates
    BY <1>1, <2>1, CandidatesProperties
  <2>2. CASE s \in Orders(ToSet(Candidates))
    <3>1. s \in Seq(ToSet(Candidates)) /\ IsInjective(s) /\ ToSet(s) = ToSet(Candidates)
      BY <1>1, <2>2, CandidatesProperties, OrdersProperties
    <3>2. s = << >> => ToSet(s) = {}
      BY DEF ToSet
    <3> QED BY <1>1, <3>1, <3>2, CandidatesProperties
  <2> QED BY <1>2, <2>1, <2>2
<1> QED BY <1>1, <1>2, <1>3, TopOfCandidates

\* What a SELECT of either search returns.
LEMMA Selected ==
    ASSUME RequestOK, StoreOK, SearchVectors \/ SearchKeywords
    PROVE  /\ lists'.vector = lists.vector \/ lists'.vector \in Seq(Eligible)
           /\ lists'.keyword = lists.keyword \/ lists'.keyword \in Seq(Eligible)
           /\ lists' = [vector |-> lists'.vector, keyword |-> lists'.keyword]
           /\ (SearchVectors /\ deployment.dialect = "sqlite" /\ lists'.vector = << >>) =>
                 Matching(Similarity[asked.query], 1) = {}
           /\ SearchKeywords /\ lists'.keyword = << >> =>
                 Matching(Relevance[asked.query], 1) = {}
<1> DEFINE n == 2 * asked.limit
<1>1. n \in Nat \ {0} /\ IsFiniteSet(Eligible)
  <2>1. n \in Nat \ {0}
    BY Fields DEF RequestOK, SearchVectors, SearchKeywords
  <2>2. IsFiniteSet(Eligible)
    BY FS_Subset DEF StoreOK, Eligible
  <2> QED BY <2>1, <2>2
<1> HIDE DEF n
<1>2. ASSUME NEW score, NEW least, NEW rank, NEW s \in TopLists(Matching(score, least), n, rank)
      PROVE  s \in Seq(Eligible) /\ (s = << >> => Matching(score, least) = {})
  <2>1. Matching(score, least) \subseteq Eligible
    BY DEF Matching, Eligible
  <2>2. s \in Seq(Matching(score, least)) /\ (s = << >> => Matching(score, least) = {})
    BY <1>1, <2>1, FS_Subset, TopListsProperties
  <2> QED BY <2>1, <2>2
<1>3. ASSUME NEW s \in NearestByPgvector(n) PROVE s \in Seq(Eligible)
  <2>1. PICK S \in SUBSET Eligible : s \in TopLists(S, n, Similarity[asked.query])
    BY DEF NearestByPgvector, Eligible
  <2>2. s \in Seq(S)
    BY <1>1, <2>1, FS_Subset, TopListsProperties
  <2> QED BY <2>1, <2>2
<1>4. CASE SearchVectors
  <2>1. PICK s \in IF deployment.dialect = "sqlite" THEN NearestByNumpy(n)
                   ELSE NearestByPgvector(n) :
           lists' = [lists EXCEPT !.vector = s]
    BY <1>4 DEF SearchVectors, n
  <2>2. lists'.vector = s /\ lists'.keyword = lists.keyword
        /\ lists' = [vector |-> lists'.vector, keyword |-> lists'.keyword]
    BY <2>1 DEF StoreOK
  <2>3. s \in Seq(Eligible)
    BY <1>2, <1>3, <2>1 DEF NearestByNumpy
  <2>4. deployment.dialect = "sqlite" /\ s = << >> => Matching(Similarity[asked.query], 1) = {}
    BY <1>2, <2>1 DEF NearestByNumpy
  <2>5. ~SearchKeywords
    BY <1>4 DEF SearchVectors, SearchKeywords
  <2> QED BY <2>2, <2>3, <2>4, <2>5
<1>5. CASE SearchKeywords
  <2>1. PICK s \in IF deployment.dialect = "sqlite" THEN MatchesByLike(n) ELSE MatchesByRank(n) :
           lists' = [lists EXCEPT !.keyword = s]
    BY <1>5 DEF SearchKeywords, n
  <2>2. lists'.keyword = s /\ lists'.vector = lists.vector
        /\ lists' = [vector |-> lists'.vector, keyword |-> lists'.keyword]
    BY <2>1 DEF StoreOK
  <2>3. s \in Seq(Eligible) /\ (s = << >> => Matching(Relevance[asked.query], 1) = {})
    BY <1>2, <2>1 DEF MatchesByLike, MatchesByRank
  <2>4. ~SearchVectors
    BY <1>5 DEF SearchVectors, SearchKeywords
  <2> QED BY <2>2, <2>3, <2>4
<1> QED BY <1>4, <1>5

LEMMA FoundMemories ==
    ASSUME RequestOK, StoreOK, FindMemories
    PROVE  memories' = memories \/ (memories' \in Seq(Memories) /\ IsInjective(memories'))
<1>1. asked.limit \in Nat /\ asked.query \in Queries
  BY Fields DEF RequestOK, FindMemories, Asked
<1>2. CASE memories' = memories
  BY <1>2
<1>3. CASE \E s \in Mentions[asked.query] : memories' = First(s, asked.limit)
  <2>1. PICK s \in Mentions[asked.query] : memories' = First(s, asked.limit)
    BY <1>3
  <2>2. s \in Seq(Memories) /\ IsInjective(s)
    BY <1>1, StoreAssumption
  <2> QED BY <1>1, <2>1, <2>2, FirstMembers
<1> QED BY <1>2, <1>3 DEF FindMemories

LEMMA StoreStep == ASSUME RequestOK, StoreOK, ResultsOK, [Next]_vars PROVE StoreOK'
<1> USE DEF StoreOK
<1>1. ASSUME NEW r \in Requests, Receive(r) PROVE StoreOK'
  BY <1>1 DEF Receive
<1>2. CASE CreateServices \/ AskCase
  <2>1. /\ UNCHANGED <<deployment, stored, tx>> /\ begun' = stored /\ attempt' = 0
        /\ lists' = NoLists /\ memories' = << >> /\ documents' = << >>
    BY <1>2 DEF CreateServices, AskCase, Fresh
  <2>2. 0 \in 0..(MaxRetries - 1)
    BY DeploymentAssumption
  <2> QED BY <2>1, <2>2 DEF NoLists
<1>3. CASE CreateServicesFails \/ LoadDataset \/ ScoreCase \/ ReportCases
  BY <1>3 DEF CreateServicesFails, LoadDataset, ScoreCase, ReportCases, searched
<1>4. ASSUME NEW c \in Chunks, Ingest(c) PROVE StoreOK'
  <2>1. stored' = stored \cup {c} /\ UNCHANGED <<deployment, searched>>
    BY <1>4 DEF Ingest
  <2>2. IsFiniteSet(stored')
    BY <2>1, FS_AddElement
  <2> QED BY <2>1, <2>2 DEF searched
<1>5. CASE Respond
  <2>1. /\ UNCHANGED <<deployment, stored>> /\ begun' = {} /\ attempt' = 0 /\ tx' = "ok"
        /\ lists' = NoLists /\ memories' = << >> /\ documents' = << >>
    BY <1>5 DEF Respond
  <2>2. 0 \in 0..(MaxRetries - 1)
    BY DeploymentAssumption
  <2> QED BY <2>1, <2>2 DEF NoLists
<1>6. CASE FindMemories
  <2>1. memories' \in Seq(Memories)
    BY <1>6, FoundMemories
  <2> QED BY <1>6, <2>1 DEF FindMemories
<1>7. CASE FindMemoriesFails
  BY <1>7 DEF FindMemoriesFails
<1>8. CASE EmbedQuery \/ EmbedFails \/ SelectFails
  BY <1>8 DEF EmbedQuery, EmbedFails, SelectFails, searched
<1>9. CASE RateLimited
  BY <1>9, DeploymentAssumption DEF RateLimited
<1>10. CASE SearchVectors \/ SearchKeywords
  <2>1. UNCHANGED <<deployment, stored, begun, tx, attempt, memories, documents>>
    BY <1>10 DEF SearchVectors, SearchKeywords
  <2>2. /\ lists'.vector \in Seq(Chunks) /\ lists'.keyword \in Seq(Chunks)
        /\ lists' = [vector |-> lists'.vector, keyword |-> lists'.keyword]
    <3>1. Eligible \subseteq Chunks
      BY DEF Eligible
    <3> QED BY <1>10, <3>1, Selected, SeqOfSubset
  <2> QED BY <2>1, <2>2
<1>11. CASE Hydrate \/ Rerank \/ RerankFails
  BY <1>11, HydrateDocuments
<1>12. CASE GenerationStep
  BY <1>12, GenerationFrame DEF searched
<1>13. CASE UNCHANGED vars
  BY <1>13 DEF vars, searchVars, searched
<1> QED BY <1>1, <1>2, <1>3, <1>4, <1>5, <1>6, <1>7, <1>8, <1>9, <1>10, <1>11, <1>12, <1>13
        DEF Next, Handle, Search

\* What is found for a request, or for the case of an evaluation, stays eligible for it.
LEMMA StillEligible ==
    ASSUME stored \subseteq stored', asked' = asked
    PROVE  Eligible \subseteq Eligible' /\ Seq(Eligible) \subseteq Seq(Eligible')
<1>1. Eligible \subseteq Eligible'
  BY DEF Eligible, Admits
<1> QED BY <1>1, SeqOfSubset

LEMMA ResultsStep == ASSUME RequestOK, StoreOK, ResultsOK, [Next]_vars PROVE ResultsOK'
<1>1. ASSUME NEW r \in Requests, Receive(r) PROVE ResultsOK'
  BY <1>1 DEF Receive, Goto, ResultsOK, Asked
<1>2. CASE CreateServices \/ AskCase
  <2>1. lists' = NoLists /\ memories' = << >> /\ documents' = << >>
    BY <1>2 DEF CreateServices, AskCase, Fresh
  <2> QED BY <2>1 DEF NoLists, ResultsOK, IsInjective
<1>3. CASE CreateServicesFails \/ LoadDataset \/ ScoreCase \/ ReportCases \/ Respond
  <2>1. pc' \notin Asked
    BY <1>3 DEF CreateServicesFails, LoadDataset, ScoreCase, ReportCases, Respond, Goto, Asked
  <2> QED BY <2>1 DEF ResultsOK
<1>4. ASSUME NEW c \in Chunks, Ingest(c) PROVE ResultsOK'
  <2>1. stored \subseteq stored' /\ UNCHANGED <<pc, asked, lists, memories, documents>>
    BY <1>4 DEF Ingest, searched
  <2> QED BY <2>1, StillEligible DEF ResultsOK
<1>5. CASE FindMemories
  <2>1. /\ pc = "operational" /\ pc' \in Asked
        /\ UNCHANGED <<stored, asked, lists, documents>>
    BY <1>5 DEF FindMemories, DocumentSteps, Asked
  <2>2. IsInjective(memories')
    BY <1>5, <2>1, FoundMemories DEF ResultsOK, Asked
  <2> QED BY <2>1, <2>2, StillEligible DEF ResultsOK, Asked
<1>6. CASE FindMemoriesFails \/ EmbedQuery \/ EmbedFails \/ SelectFails \/ RateLimited
  <2>1. /\ UNCHANGED <<stored, asked, lists, memories, documents>>
        /\ pc \in Asked /\ (pc' \in Asked => pc \notin {"found", "answered"})
    BY <1>6 DEF FindMemoriesFails, EmbedQuery, EmbedFails, SelectFails, RateLimited,
                searched, Asked, DocumentSteps
  <2> QED BY <2>1, StillEligible DEF ResultsOK
<1>7. CASE SearchVectors \/ SearchKeywords
  <2>1. /\ UNCHANGED <<stored, asked, memories, documents>>
        /\ pc \in {"vector", "keyword"} /\ pc' \in {"keyword", "hydrate"}
    BY <1>7 DEF SearchVectors, SearchKeywords
  <2>2. lists'.vector \in Seq(Eligible) /\ lists'.keyword \in Seq(Eligible)
    BY <1>7, <2>1, Selected DEF ResultsOK, Asked
  <2> QED BY <2>1, <2>2, StillEligible DEF ResultsOK, Asked
<1>8. CASE Hydrate \/ Rerank \/ RerankFails
  BY <1>8, HydrateDocuments, StillEligible DEF ResultsOK, Asked
<1>9. CASE GenerationStep
  BY <1>9, GenerationFrame, StillEligible DEF searched, ResultsOK, Asked
<1>10. CASE UNCHANGED vars
  BY <1>10, StillEligible DEF vars, searchVars, searched, ResultsOK
<1> QED BY <1>1, <1>2, <1>3, <1>4, <1>5, <1>6, <1>7, <1>8, <1>9, <1>10 DEF Next, Handle, Search

\* The query that is searched for is one, and it has a score for every chunk.
LEMMA QueryOf ==
    ASSUME RequestOK, pc \in Asked
    PROVE  /\ \A c \in Chunks : Similarity[asked.query][c] \in Int
           /\ \A c \in Chunks : Relevance[asked.query][c] \in Nat
BY StoreAssumption DEF RequestOK, Asked

\* A search that finds nothing leaves out nothing that was there when it began.
LEMMA NoneMatching ==
    ASSUME StoreOK, NEW score, \A c \in Chunks : score[c] \in Int, Matching(score, 1) = {}
    PROVE  \A c \in begun : Admits(c) => score[c] <= 0
<1> SUFFICES ASSUME NEW c \in begun, Admits(c) PROVE score[c] <= 0
  OBVIOUS
<1>1. c \in stored /\ score[c] \in Int
  BY DEF StoreOK
<1>2. ~(score[c] >= 1)
  BY <1>1 DEF Matching
<1> QED BY <1>1, <1>2

LEMMA AbsenceStep ==
    ASSUME RequestOK, StoreOK, ResultsOK, AbsenceOK, [Next]_vars
    PROVE  AbsenceOK'
<1>1. ASSUME NEW r \in Requests, Receive(r) PROVE AbsenceOK'
  BY <1>1 DEF Receive, Goto, AbsenceOK
<1>2. CASE CreateServices \/ CreateServicesFails \/ LoadDataset \/ AskCase \/ ScoreCase
           \/ ReportCases \/ Respond
  <2>1. pc' \notin {"keyword", "hydrate", "found", "answered"}
    BY <1>2 DEF CreateServices, CreateServicesFails, LoadDataset, AskCase, ScoreCase, ReportCases,
                Respond, Goto
  <2> QED BY <2>1 DEF AbsenceOK, Asked
<1>3. ASSUME NEW c \in Chunks, Ingest(c) PROVE AbsenceOK'
  BY <1>3 DEF Ingest, searched, AbsenceOK, WantsDocuments, Admits, Distant, Unmatched
<1>4. CASE FindMemories \/ FindMemoriesFails
  <2>1. asked' = asked /\ pc' = DocumentSteps
    BY <1>4 DEF FindMemories, FindMemoriesFails
  <2> QED BY <2>1 DEF DocumentSteps, AbsenceOK, WantsDocuments
<1>5. CASE EmbedQuery \/ EmbedFails \/ SelectFails \/ RateLimited
  <2>1. pc' \in {"vector", "failed", "embed"}
    BY <1>5 DEF EmbedQuery, EmbedFails, SelectFails, RateLimited
  <2> QED BY <2>1 DEF AbsenceOK
<1>6. CASE SearchVectors
  <2>1. /\ asked' = asked /\ begun' = begun /\ deployment' = deployment
        /\ pc' = IF asked.keyword THEN "keyword" ELSE "hydrate"
    BY <1>6 DEF SearchVectors
  <2>2. ASSUME deployment.dialect = "sqlite", lists'.vector = << >> PROVE Distant
    <3>1. /\ Matching(Similarity[asked.query], 1) = {}
          /\ \A c \in Chunks : Similarity[asked.query][c] \in Int
      BY <1>6, <2>2, Selected, QueryOf DEF SearchVectors, Asked
    <3> QED BY <3>1, NoneMatching DEF Distant
  <2> QED BY <2>1, <2>2 DEF AbsenceOK, Distant, Unmatched, Admits
<1>7. CASE SearchKeywords
  <2>1. /\ asked' = asked /\ begun' = begun /\ deployment' = deployment /\ pc = "keyword"
        /\ pc' = "hydrate" /\ lists'.vector = lists.vector
    BY <1>7 DEF SearchKeywords, StoreOK
  <2>2. ASSUME lists'.keyword = << >> PROVE Unmatched
    <3>1. /\ Matching(Relevance[asked.query], 1) = {}
          /\ \A c \in Chunks : Relevance[asked.query][c] \in Nat
      BY <1>7, <2>2, Selected, QueryOf DEF SearchKeywords, Asked
    <3>2. \A c \in Chunks : Relevance[asked.query][c] \in Int
      BY <3>1
    <3>3. \A c \in begun : Admits(c) => Relevance[asked.query][c] <= 0
      BY <3>1, <3>2, NoneMatching
    <3>4. begun \subseteq Chunks
      BY DEF StoreOK
    <3> QED BY <3>1, <3>3, <3>4 DEF Unmatched
  <2> QED BY <2>1, <2>2 DEF AbsenceOK, Distant, Unmatched, Admits, Asked
<1>8. CASE Hydrate \/ Rerank \/ RerankFails
  <2>1. documents' = << >> => NothingFound
    BY <1>8, HydrateDocuments
  <2> QED BY <1>8, <2>1, HydrateDocuments
          DEF AbsenceOK, NothingFound, Distant, Unmatched, Admits, Asked
<1>9. CASE GenerationStep
  BY <1>9, GenerationFrame
  DEF searched, AbsenceOK, WantsDocuments, Admits, Distant, Unmatched, Asked
<1>10. CASE UNCHANGED vars
  BY <1>10
  DEF vars, searchVars, searched, AbsenceOK, WantsDocuments, Admits, Distant, Unmatched
<1> QED BY <1>1, <1>2, <1>3, <1>4, <1>5, <1>6, <1>7, <1>8, <1>9, <1>10 DEF Next, Handle, Search

LEMMA BetterStep ==
    ASSUME RequestOK, StoreOK, ResultsOK, BetterComesFirst, [Next]_vars
    PROVE  BetterComesFirst'
<1>1. CASE pc' # "found"
  BY <1>1 DEF BetterComesFirst
<1>2. CASE Hydrate \/ RerankFails
  <2>1. /\ pc = "hydrate" /\ lists' = lists /\ stored' = stored
        /\ documents' = First(Candidates, asked.limit)
    BY <1>2 DEF Hydrate, RerankFails
  <2>2. /\ lists.vector \in Seq(Chunks) /\ lists.keyword \in Seq(Chunks) /\ Chunks \in SUBSET Nat
        /\ 2 * asked.limit \in Nat \ {0} /\ asked.limit \in Nat
    BY <2>1, Fields, StoreAssumption DEF RequestOK, StoreOK
  <2>3. \A c \in stored : \A d :
           Dominates(lists.vector, lists.keyword, c, d) /\ Contains(documents', d) =>
               Contains(documents', c) /\ Rank(documents', c) < Rank(documents', d)
    BY <2>1, <2>2, BetterStaysFirst DEF Candidates
  <2> QED BY <2>1, <2>3 DEF BetterComesFirst
<1>3. CASE Rerank
  <2>1. deployment'.reranker = "cross_encoder" /\ ~latched'
    BY <1>3 DEF Rerank
  <2> QED BY <2>1 DEF BetterComesFirst
<1>4. CASE FindMemories \/ FindMemoriesFails
  <2>1. documents' = documents /\ pc = "operational"
    BY <1>4 DEF FindMemories, FindMemoriesFails
  <2>2. documents = << >>
    BY <2>1 DEF ResultsOK, Asked
  <2>3. \A d : ~Contains(documents', d)
    BY <2>1, <2>2 DEF Contains
  <2> QED BY <2>3 DEF BetterComesFirst
<1>5. ASSUME NEW x \in Chunks, Ingest(x), pc = "found" PROVE BetterComesFirst'
  <2>1. /\ stored' = stored \cup {x} /\ UNCHANGED <<deployment, latched, lists, documents, pc>>
    BY <1>5 DEF Ingest, searched
  <2>2. /\ lists.vector \in Seq(stored) /\ lists.keyword \in Seq(stored)
        /\ documents \in Seq(stored)
    <3>1. Eligible \subseteq stored
      BY DEF Eligible
    <3> QED BY <1>5, <3>1, SeqOfSubset DEF ResultsOK, Asked
  <2>3. \A c, d : /\ Dominates(lists.vector, lists.keyword, c, d) => c \in stored
                  /\ Contains(documents, d) => d \in stored
    BY <2>2, Members DEF Dominates, Better
  <2> QED BY <2>1, <2>3 DEF BetterComesFirst
<1>6. CASE UNCHANGED vars
  BY <1>6 DEF vars, searchVars, searched, BetterComesFirst
<1>7. CASE pc' = "found" /\ (GenerationStep \/ EmbedQuery \/ RateLimited \/ EmbedFails
                             \/ SearchVectors \/ SearchKeywords \/ SelectFails)
  BY <1>7, GenerationFrame DEF EmbedQuery, RateLimited, EmbedFails, SearchVectors, SearchKeywords,
                               SelectFails
<1>8. CASE pc' = "found" /\ \/ CreateServices \/ CreateServicesFails \/ LoadDataset \/ AskCase
                            \/ ScoreCase \/ ReportCases \/ Respond
                            \/ \E r \in Requests : Receive(r)
  BY <1>8 DEF CreateServices, CreateServicesFails, LoadDataset, AskCase, ScoreCase, ReportCases,
              Respond, Receive, Goto
<1>9. ASSUME NEW x \in Chunks, Ingest(x), pc # "found" PROVE pc' # "found"
  BY <1>9 DEF Ingest
<1> QED BY <1>1, <1>2, <1>3, <1>4, <1>5, <1>6, <1>7, <1>8, <1>9 DEF Next, Handle, Search

-----------------------------------------------------------------------------
(* Answers and services *)

LEMMA ResultsProperties ==
    ASSUME RequestOK, StoreOK, pc # "idle"
    PROVE  /\ memories \o documents \in Seq(Memories \cup Chunks)
           /\ Results \in Seq(Memories \cup Chunks)
           /\ Len(Results) \in Nat /\ DOMAIN Results = 1..Len(Results)
           /\ Len(Results) <= asked.limit /\ Len(Results) <= Len(memories) + Len(documents)
           /\ \A i \in 1..Len(Results) : Results[i] = (memories \o documents)[i]
           /\ Results = << >> => documents = << >>
<1> DEFINE all == memories \o documents
<1>1. asked.limit \in Nat \ {0}
  BY Fields DEF RequestOK
<1>2. memories \in Seq(Memories \cup Chunks) /\ documents \in Seq(Memories \cup Chunks)
  BY SeqOfSubset DEF StoreOK
<1>3. /\ all \in Seq(Memories \cup Chunks) /\ Len(all) = Len(memories) + Len(documents)
      /\ Len(memories) \in Nat /\ Len(documents) \in Nat
  BY <1>2, ConcatProperties, LenProperties
<1>4. documents # << >> => Len(documents) # 0
  BY <1>2, EmptySeq
<1>5. Results = First(all, asked.limit)
  BY DEF Results
<1> HIDE DEF all
<1>6. /\ Results \in Seq(Memories \cup Chunks)
      /\ Len(Results) = IF asked.limit < Len(all) THEN asked.limit ELSE Len(all)
      /\ \A i \in 1..Len(Results) : Results[i] = all[i]
  BY <1>1, <1>3, <1>5, FirstMembers
<1>7. Len(Results) \in Nat /\ DOMAIN Results = 1..Len(Results)
  BY <1>6, LenProperties
<1>8. Len(<< >>) = 0
  OBVIOUS
<1> QED BY <1>1, <1>3, <1>4, <1>6, <1>7, <1>8 DEF all

LEMMA AnswerStep == ASSUME RequestOK, StoreOK, AnswerOK, [Next]_vars PROVE AnswerOK'
<1>1. CASE answer' = None
  BY <1>1 DEF AnswerOK
<1>2. CASE answer' = answer /\ pc # "answered"
  BY <1>1, <1>2 DEF AnswerOK
<1>3. ASSUME UNCHANGED <<answer, pc, asked, memories, documents, deployment>> PROVE AnswerOK'
  <2>1. Results' = Results
    BY <1>3 DEF Results
  <2> QED BY <1>3, <2>1 DEF AnswerOK, Insufficient, Grounded, Receipts
<1>4. ASSUME NEW r \in Requests, Receive(r) PROVE AnswerOK'
  BY <1>2, <1>4 DEF Receive
<1>5. CASE CreateServices \/ CreateServicesFails \/ LoadDataset \/ AskCase \/ ReportCases
  BY <1>2, <1>5 DEF CreateServices, CreateServicesFails, LoadDataset, AskCase, ReportCases
<1>6. ASSUME NEW c \in Chunks, Ingest(c) PROVE AnswerOK'
  BY <1>3, <1>6 DEF Ingest, searched
<1>7. CASE ScoreCase \/ Respond
  BY <1>1, <1>7 DEF ScoreCase, Respond
<1>8. CASE Search /\ answer' = answer
  BY <1>2, <1>8, SearchFrame DEF Asked
<1>9. CASE GenerationStep
  <2>1. /\ UNCHANGED <<deployment, asked, memories, documents>> /\ pc = "found"
        /\ asked.route # "search"
    BY <1>9, GenerationFrame DEF searched
  <2>2. Results' = Results
    BY <2>1 DEF Results
  <2>3. /\ Results \in Seq(Memories \cup Chunks) /\ Len(Results) \in Nat
    BY <2>1, ResultsProperties
  <2>4. CASE NoContext
    BY <2>1, <2>2, <2>4 DEF NoContext, AnsweredWith, AnswerOK, Insufficient
  <2>5. CASE GenerateMarker
    BY <2>1, <2>2, <2>5 DEF GenerateMarker, AnsweredWith, AnswerOK, Insufficient
  <2>6. CASE Generate
    <3>1. Results # << >> /\ pc' = "answered" /\ \E a \in Replies : answer' = a
      BY <2>6 DEF Generate, AnsweredWith
    <3>2. \A numbers, terms : Grounded(numbers, terms)' = Grounded(numbers, terms)
      BY <2>2 DEF Grounded, Receipts
    <3>3. PICK numbers \in SUBSET Nat, terms \in SUBSET Terms :
             /\ answer' = Grounded(numbers, terms)
             /\ deployment.llm = "mock" => 1..Len(Results) \subseteq numbers
      <4>1. CASE deployment.llm = "mock"
        <5>1. answer' = Grounded(MockNumbers, {})
          BY <3>1, <4>1 DEF Replies
        <5>2. \A i \in 1..Len(Results) : Brackets[Results[i]] \subseteq Nat
          <6>1. \A i \in 1..Len(Results) : Results[i] \in Chunks \cup Memories
            BY <2>3, ElementOfSeq
          <6> QED BY <6>1, AnswerAssumption
        <5>3. MockNumbers \in SUBSET Nat /\ 1..Len(Results) \subseteq MockNumbers
          BY <2>3, <5>2 DEF MockNumbers
        <5> QED BY <5>1, <5>3
      <4>2. CASE deployment.llm # "mock"
        <5>1. \E numbers \in SUBSET Numbers, terms \in SUBSET Terms :
                 answer' = Grounded(numbers, terms)
          BY <3>1, <4>2 DEF Replies
        <5> QED BY <4>2, <5>1, AnswerAssumption
      <4> QED BY <4>1, <4>2
    <3>4. answer' = Grounded(numbers, terms)'
      BY <3>2, <3>3
    <3> QED BY <2>1, <2>2, <3>1, <3>3, <3>4 DEF AnswerOK
  <2>7. CASE GenerateFails
    BY <1>2, <2>1, <2>7 DEF GenerateFails
  <2> QED BY <1>9, <2>4, <2>5, <2>6, <2>7 DEF GenerationStep
<1>10. CASE UNCHANGED vars
  BY <1>3, <1>10 DEF vars, searchVars, searched
<1> QED BY <1>4, <1>5, <1>6, <1>7, <1>8, <1>9, <1>10 DEF Next, Handle

LEMMA ServicesStep == ASSUME RequestOK, ServicesOK, [Next]_vars PROVE ServicesOK'
<1> USE DEF ServicesOK
<1>1. /\ DOMAIN Chain = {"search", "ask", "eval", "ingest"}
      /\ Needed("search") = {"session_factory", "embedding_provider", "search_service"}
      /\ Needed("ask") = {"session_factory", "embedding_provider", "search_service",
                          "generation_service"}
      /\ Needed("eval") = {"session_factory"}
      /\ Needed("ingest") = {"session_factory", "embedding_provider", "ingestion_pipeline"}
  BY DEF Chain, Needed, ToSet
<1>2. CASE built' = built
  BY <1>2
<1>3. ASSUME NEW r \in DOMAIN Chain, built' = built \cup Needed(r) PROVE ServicesOK'
  BY <1>1, <1>3
<1>4. CASE CreateServices
  <2>1. asked.route \in {"search", "ask", "eval"} /\ built' = built \cup Needed(asked.route)
    BY <1>4, Fields DEF CreateServices, RequestOK
  <2> QED BY <1>1, <1>3, <2>1
<1>5. CASE CreateServicesFails
  <2>1. asked.route \in {"search", "ask", "eval"}
    BY <1>5, Fields DEF CreateServicesFails, RequestOK
  <2>2. PICK n \in 0..Len(Chain[asked.route]) :
           built' = built \cup ToSet(First(Chain[asked.route], n))
    BY <1>5 DEF CreateServicesFails
  <2> DEFINE Names ==
        {"session_factory", "embedding_provider", "search_service", "generation_service"}
  <2>3. /\ Len(Chain[asked.route]) \in Nat /\ Chain[asked.route] \in Seq(Names)
        /\ DOMAIN Chain[asked.route] = 1..Len(Chain[asked.route])
    <3>1. /\ Chain["search"] = <<"session_factory", "embedding_provider", "search_service">>
          /\ Chain["ask"] = <<"session_factory", "embedding_provider", "search_service",
                              "generation_service">>
          /\ Chain["eval"] = <<"session_factory">>
      BY DEF Chain
    <3>2. /\ Chain["search"] \in Seq(Names) /\ Chain["ask"] \in Seq(Names)
          /\ Chain["eval"] \in Seq(Names)
      BY <3>1
    <3>3. Chain[asked.route] \in Seq(Names)
      BY <2>1, <3>2
    <3> QED BY <3>3, LenProperties
  <2> DEFINE p == First(Chain[asked.route], n)
  <2>4. /\ Len(p) = n /\ DOMAIN p = 1..n
        /\ \A i \in 1..n : p[i] = Chain[asked.route][i]
        /\ ToSet(p) \subseteq Needed(asked.route)
    <3>1. /\ p \in Seq(Names)
          /\ Len(p) = IF n < Len(Chain[asked.route]) THEN n ELSE Len(Chain[asked.route])
          /\ \A i \in 1..Len(p) : p[i] = Chain[asked.route][i]
          /\ ToSet(p) \subseteq Needed(asked.route)
      BY <2>3, FirstMembers DEF Needed
    <3> HIDE DEF p
    <3>2. Len(p) = n
      BY <2>3, <3>1
    <3> QED BY <3>1, <3>2, LenProperties
  <2> HIDE DEF p
  <2>5. "generation_service" \in ToSet(p) => ToSet(p) = Needed("ask")
    <3> SUFFICES ASSUME NEW i \in 1..n, p[i] = "generation_service"
                 PROVE  Needed("ask") \subseteq ToSet(p) /\ asked.route = "ask"
      BY <2>4 DEF ToSet
    <3>1. asked.route = "ask"
      BY <1>1, <2>1, <2>4 DEF ToSet
    <3>2. Len(Chain["ask"]) = 4 /\ \A j \in 1..3 : Chain["ask"][j] # "generation_service"
      BY DEF Chain
    <3>3. i = 4 /\ n = 4
      BY <2>4, <3>1, <3>2
    <3>4. \A j \in 1..4 : p[j] = Chain["ask"][j]
      BY <2>4, <3>1, <3>3
    <3>5. Needed("ask") = {Chain["ask"][1], Chain["ask"][2], Chain["ask"][3], Chain["ask"][4]}
      BY <1>1 DEF Chain
    <3> QED BY <2>4, <3>1, <3>3, <3>4, <3>5 DEF ToSet
  <2>6. built' = built \cup ToSet(p)
    BY <2>2 DEF p
  <2> QED BY <1>1, <2>1, <2>4, <2>5, <2>6
<1>6. CASE \E c \in Chunks : Ingest(c)
  BY <1>1, <1>3, <1>6 DEF Ingest
<1>7. CASE Respond \/ UNCHANGED vars
  BY <1>2, <1>7 DEF Respond, vars, evalVars
<1>8. CASE LoadDataset \/ AskCase \/ ScoreCase \/ ReportCases \/ \E r \in Requests : Receive(r)
  BY <1>2, <1>8 DEF LoadDataset, AskCase, ScoreCase, ReportCases, Receive, evalVars
<1>9. CASE UNCHANGED evalVars
  BY <1>2, <1>9 DEF evalVars
<1> QED BY <1>4, <1>5, <1>6, <1>7, <1>8, <1>9 DEF Next, Handle

-----------------------------------------------------------------------------
(* The invariant and what follows from it *)

LEMMA IndInit == Init => IndInv
<1> SUFFICES ASSUME Init PROVE IndInv
  OBVIOUS
<1>1. 0 \in 0..(MaxRetries - 1)
  BY DeploymentAssumption
<1>2. StoreOK
  BY <1>1, FS_EmptySet DEF Init, SearchInit, StoreOK, NoLists
<1>3. BetterComesFirst
  BY DEF Init, SearchInit, BetterComesFirst
<1>4. RequestOK /\ CasesOK /\ ResultsOK /\ AbsenceOK /\ AnswerOK /\ ServicesOK
  BY DEF Init, SearchInit, RequestOK, CasesOK, ResultsOK, AbsenceOK, AnswerOK, ServicesOK, Asked
<1> QED BY <1>2, <1>3, <1>4 DEF IndInv

LEMMA IndStep == IndInv /\ [Next]_vars => IndInv'
BY RequestStep, CasesStep, StoreStep, ResultsStep, AbsenceStep, AnswerStep, ServicesStep, BetterStep
   DEF IndInv

LEMMA Invariance == Spec => []IndInv
BY IndInit, IndStep, PTL DEF Spec

\* Every variable keeps its type: in particular no answer outlives its request, and the
\* generation service is never there without what it uses (api/rag_dependencies.py).
THEOREM TypeCorrect == Spec => []TypeOK
<1>1. IndInv => TypeOK
  <2> SUFFICES ASSUME IndInv PROVE TypeOK
    OBVIOUS
  <2>1. ToSet(memories) \subseteq Memories
    BY Members DEF IndInv, StoreOK
  <2> QED BY <2>1 DEF IndInv, TypeOK, StoreOK, RequestOK, CasesOK, ServicesOK
<1> QED BY <1>1, Invariance, PTL

\* What a request gets was asked for, each result once: of the four SELECTs that apply the
\* filters none is without one, and fusing, reranking and cutting add and repeat nothing
\* (rag/search_service.py).
THEOREM ResultsAsAsked == Spec => []ResultsAreThoseAskedFor
<1>1. IndInv => ResultsAreThoseAskedFor
  <2> SUFFICES ASSUME IndInv, pc \in {"found", "answered"}
               PROVE  /\ IsInjective(Results) /\ Len(Results) <= asked.limit
                      /\ \A i, j \in 1..Len(Results) :
                            Results[i] \in Chunks /\ Results[j] \in Memories => j < i
                      /\ \A c \in Passages \cap Chunks :
                            /\ c \in stored
                            /\ asked.source \in {None, Type[c]}
                            /\ asked.filter # None => c \in Admitted[asked.filter]
    BY DEF ResultsAreThoseAskedFor
  <2> DEFINE m == Len(memories)
             n == Len(documents)
             all == memories \o documents
  <2>1. /\ IsInjective(memories) /\ IsInjective(documents)
        /\ m \in Nat /\ DOMAIN memories = 1..m /\ \A i \in 1..m : memories[i] \in Memories
        /\ n \in Nat /\ DOMAIN documents = 1..n
        /\ \A i \in 1..n : documents[i] \in Chunks /\ documents[i] \in Eligible
    <3>1. /\ memories \in Seq(Memories) /\ documents \in Seq(Chunks) /\ documents \in Seq(Eligible)
          /\ IsInjective(memories) /\ IsInjective(documents)
      BY DEF IndInv, StoreOK, ResultsOK, Asked
    <3> QED BY <3>1, LenProperties, ElementOfSeq
  <2>2. \A i \in 1..(m + n) : all[i] = IF i <= m THEN memories[i] ELSE documents[i - m]
    BY ConcatProperties DEF IndInv, StoreOK
  <2>3. /\ Len(Results) \in Nat /\ DOMAIN Results = 1..Len(Results)
        /\ Len(Results) <= asked.limit /\ Len(Results) <= m + n
        /\ \A i \in 1..Len(Results) : Results[i] = all[i]
    BY ResultsProperties DEF IndInv
  <2> HIDE DEF m, n, all
  <2>4. Chunks \cap Memories = {}
    BY StoreAssumption
  <2>5. \A i \in 1..Len(Results) :
           \/ i \in 1..m /\ Results[i] = memories[i] /\ Results[i] \in Memories
           \/ /\ i > m /\ i - m \in 1..n /\ Results[i] = documents[i - m]
              /\ Results[i] \in Chunks /\ Results[i] \in Eligible
    BY <2>1, <2>2, <2>3
  <2>6. \A i, j \in 1..Len(Results) :
           Results[i] \in Chunks /\ Results[j] \in Memories => j < i
    BY <2>1, <2>3, <2>4, <2>5
  <2>7. IsInjective(Results)
    <3> SUFFICES ASSUME NEW i \in 1..Len(Results), NEW j \in 1..Len(Results),
                        Results[i] = Results[j]
                 PROVE  i = j
      BY <2>3 DEF IsInjective
    <3>1. CASE i \in 1..m /\ j \in 1..m
      BY <2>1, <2>4, <2>5, <3>1 DEF IsInjective
    <3>2. CASE i > m /\ j > m
      <4>1. i - m = j - m
        BY <2>1, <2>4, <2>5, <3>2 DEF IsInjective
      <4> QED BY <2>1, <2>3, <4>1
    <3> QED BY <2>4, <2>5, <3>1, <3>2
  <2>8. ASSUME NEW c \in Passages \cap Chunks
        PROVE  /\ c \in stored
               /\ asked.source \in {None, Type[c]}
               /\ asked.filter # None => c \in Admitted[asked.filter]
    <3>1. PICK i \in 1..Len(Results) : c = Results[i]
      BY DEF Passages
    <3>2. c \in Eligible
      BY <2>4, <2>5, <3>1
    <3> QED BY <3>2 DEF Eligible, Admits
  <2> QED BY <2>3, <2>6, <2>7, <2>8
<1> QED BY <1>1, Invariance, PTL

\* The fused order respects both searches, whatever their lists hold and wherever they are cut
\* (rag/fusion.py, rag/search_service.py).
THEOREM FusionRespectsRanks == Spec => []BetterComesFirst
BY Invariance, PTL DEF IndInv

\* An answer that there is not enough evidence, given without asking the LLM, is never the
\* effect of a failure, nor of a document committed between the searches: every keyword match
\* would have been found (llm/generation.py, rag/search_service.py).
THEOREM AbsenceIsNoFailure == Spec => []AbsenceIsReal
<1>1. IndInv => AbsenceIsReal
  <2> SUFFICES ASSUME IndInv, answer # None, answer.insufficient, answer.used = 0,
                      WantsDocuments
               PROVE  Unmatched /\ (deployment.dialect = "sqlite" => Distant)
    BY DEF AbsenceIsReal, Unmatched, Distant
  <2>1. pc = "answered" /\ asked.route # "search"
    BY DEF IndInv, AnswerOK
  <2>2. asked.vector /\ asked.keyword
    BY <2>1 DEF IndInv, RequestOK
  <2>3. Results = << >>
    <3>1. Results # << >> => Len(Results) # 0
      BY <2>1, ResultsProperties, EmptySeq DEF IndInv
    <3> QED BY <3>1 DEF IndInv, AnswerOK, Insufficient, Grounded
  <2>4. documents = << >>
    BY <2>1, <2>3, ResultsProperties DEF IndInv
  <2> QED BY <2>1, <2>2, <2>4 DEF IndInv, AbsenceOK, Asked
<1> QED BY <1>1, Invariance, PTL

\* A receipt is of the passage whose number the answer cites, and an answer declared
\* insufficient has none (llm/citations.py, llm/generation.py).
THEOREM ReceiptsAreOfPassages == Spec => []ReceiptsNamePassages
<1>1. IndInv => ReceiptsNamePassages
  <2> SUFFICES ASSUME IndInv, answer # None
               PROVE  /\ answer.insufficient => answer.receipts = << >>
                      /\ \A i \in answer.numbers :
                            1 <= i /\ i <= Len(Results) => i \in DOMAIN answer.receipts
                      /\ \A i \in DOMAIN answer.receipts :
                            i \in answer.numbers /\ answer.receipts[i] = (memories \o documents)[i]
                      /\ deployment.llm = "mock" =>
                            {answer.receipts[i] : i \in DOMAIN answer.receipts} = Passages
    BY DEF ReceiptsNamePassages
  <2>1. /\ Len(Results) \in Nat
        /\ \A i \in 1..Len(Results) : Results[i] = (memories \o documents)[i]
    BY ResultsProperties DEF IndInv, AnswerOK
  <2>2. ASSUME NEW used, answer = Insufficient(used),
               deployment.llm = "mock" => Results = << >>
        PROVE  /\ answer.receipts = << >> /\ answer.numbers = {} /\ DOMAIN answer.receipts = {}
               /\ deployment.llm = "mock" =>
                     {answer.receipts[i] : i \in DOMAIN answer.receipts} = Passages
    <3>1. answer.receipts = << >> /\ answer.numbers = {} /\ DOMAIN answer.receipts = {}
      BY <2>2 DEF Insufficient
    <3>2. Results = << >> => Passages = {}
      BY DEF Passages
    <3> QED BY <2>2, <3>1, <3>2
  <2>3. ASSUME NEW numbers \in SUBSET Nat, NEW terms, answer = Grounded(numbers, terms),
               deployment.llm = "mock" => 1..Len(Results) \subseteq numbers
        PROVE  /\ ~answer.insufficient /\ answer.numbers = numbers
               /\ DOMAIN answer.receipts = numbers \cap 1..Len(Results)
               /\ \A i \in DOMAIN answer.receipts : answer.receipts[i] = Results[i]
               /\ deployment.llm = "mock" =>
                     {answer.receipts[i] : i \in DOMAIN answer.receipts} = Passages
    <3>1. /\ ~answer.insufficient /\ answer.numbers = numbers
          /\ DOMAIN answer.receipts = numbers \cap 1..Len(Results)
          /\ \A i \in DOMAIN answer.receipts : answer.receipts[i] = Results[i]
      BY <2>3 DEF Grounded, Receipts
    <3>2. deployment.llm = "mock" => DOMAIN answer.receipts = 1..Len(Results)
      BY <2>3, <3>1
    <3> QED BY <3>1, <3>2 DEF Passages
  <2>4. CASE \E used : answer = Insufficient(used) /\ (deployment.llm = "mock" => Results = << >>)
    BY <2>2, <2>4
  <2>5. CASE \E numbers \in SUBSET Nat, terms \in SUBSET Terms :
                /\ answer = Grounded(numbers, terms)
                /\ deployment.llm = "mock" => 1..Len(Results) \subseteq numbers
    <3>1. PICK numbers \in SUBSET Nat, terms \in SUBSET Terms :
             /\ answer = Grounded(numbers, terms)
             /\ deployment.llm = "mock" => 1..Len(Results) \subseteq numbers
      BY <2>5
    <3> DEFINE G == /\ ~answer.insufficient /\ answer.numbers = numbers
                    /\ DOMAIN answer.receipts = numbers \cap 1..Len(Results)
                    /\ \A i \in DOMAIN answer.receipts : answer.receipts[i] = Results[i]
                    /\ deployment.llm = "mock" =>
                          {answer.receipts[i] : i \in DOMAIN answer.receipts} = Passages
    <3>2. G
      BY <2>3, <3>1
    <3>3. ~answer.insufficient
      BY <3>2
    <3>4. \A i \in answer.numbers : 1 <= i /\ i <= Len(Results) => i \in DOMAIN answer.receipts
      <4>1. numbers \subseteq Nat /\ answer.numbers = numbers
            /\ DOMAIN answer.receipts = numbers \cap 1..Len(Results)
        BY <3>1, <3>2
      <4> SUFFICES ASSUME NEW i \in numbers, 1 <= i, i <= Len(Results)
                   PROVE  i \in DOMAIN answer.receipts
        BY <4>1
      <4>2. i \in 1..Len(Results)
        BY <2>1, <4>1
      <4> QED BY <4>1, <4>2
    <3>5. \A i \in DOMAIN answer.receipts :
             i \in answer.numbers /\ answer.receipts[i] = (memories \o documents)[i]
      BY <2>1, <3>2
    <3> QED BY <3>2, <3>3, <3>4, <3>5
  <2> QED BY <2>4, <2>5 DEF IndInv, AnswerOK
<1> QED BY <1>1, Invariance, PTL

\* A report has a result for every case of its dataset, in order: whatever fails while a case
\* is retrieved, generated or judged, it is not left out (evaluation/runner.py).
THEOREM ReportsAreWhole == Spec => []ReportIsWhole
<1>1. IndInv => ReportIsWhole
  <2> SUFFICES ASSUME IndInv, pc = "reported"
               PROVE  [i \in 1..Len(report) |-> report[i].case] = Datasets[asked.dataset].cases
    BY DEF ReportIsWhole
  <2>1. /\ cases = Datasets[asked.dataset].cases /\ asked.dataset \in DOMAIN Datasets
        /\ Covers /\ Len(report) = Len(cases)
    BY DEF IndInv, RequestOK, CasesOK
  <2>2. DOMAIN cases = 1..Len(cases) /\ cases = [i \in DOMAIN cases |-> cases[i]]
    <3> DEFINE C == [query : Queries, expected : SUBSET STRING, terms : SUBSET Terms,
                     forbidden : SUBSET Terms, least : Nat]
    <3>1. cases \in Seq(C)
      BY <2>1, EvaluationAssumption
    <3> HIDE DEF C
    <3> QED BY <3>1, LenProperties
  <2> QED BY <2>1, <2>2 DEF Covers
<1> QED BY <1>1, Invariance, PTL

=============================================================================
