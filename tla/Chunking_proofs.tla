--------------------------- MODULE Chunking_proofs ---------------------------
(***************************************************************************)
(* Proofs about parsing and chunking, for texts of any length, paragraphs  *)
(* and limits of any size: heading paths name the enclosing headings, no   *)
(* word is lost, chunks fit, and their ranges enclose what they add.       *)
(***************************************************************************)
EXTENDS Chunking, SequenceTheorems, FiniteSetTheorems, TLAPS

-----------------------------------------------------------------------------
(* Induction, stated of a set of naturals *)

LEMMA Least == ASSUME NEW T \in SUBSET Nat, T # {} PROVE \E x \in T : \A y \in T : x <= y
<1> DEFINE F == {0..n : n \in T}
<1>1. F \subseteq FiniteSubsetsOf(Nat) /\ F # {}
  <2>1. \A n \in T : IsFiniteSet(0..n)
    BY FS_Interval
  <2>2. F \subseteq FiniteSubsetsOf(Nat)
    BY <2>1 DEF FiniteSubsetsOf
  <2> QED BY <2>2
<1>2. PICK X \in F : \A Y \in F : <<Y, X>> \notin StrictSubsetOrdering(Nat)
  <2> HIDE DEF F
  <2> QED BY <1>1, FS_StrictSubsetOrderingWellFounded, WFMin
<1>3. PICK x \in T : X = 0..x
  OBVIOUS
<1>4. ASSUME NEW y \in T, ~(x <= y) PROVE FALSE
  <2>1. 0..y \subseteq 0..x /\ 0..y # 0..x
    BY <1>4
  <2>2. 0..y \in F /\ 0..y \subseteq Nat
    OBVIOUS
  <2>3. <<0..y, 0..x>> \in StrictSubsetOrdering(Nat)
    BY <2>1, <1>4 DEF StrictSubsetOrdering
  <2> QED BY <1>2, <1>3, <2>2, <2>3
<1> QED BY <1>4

LEMMA AllNaturals ==
    ASSUME NEW S, 0 \in S, \A n \in Nat : n \in S => n + 1 \in S PROVE Nat \subseteq S
<1> SUFFICES ASSUME Nat \ S # {} PROVE FALSE
  OBVIOUS
<1>1. PICK x \in Nat \ S : \A y \in Nat \ S : x <= y
  BY Least
<1>2. x # 0 /\ x - 1 \in Nat /\ (x - 1) + 1 = x /\ ~(x <= x - 1)
  BY <1>1
<1> QED BY <1>1, <1>2

-----------------------------------------------------------------------------
(* Sums *)

LEMMA TotalDef ==
    ASSUME NEW n
    PROVE  Total(n, 0) = 0 /\ \A k \in Nat : Total(n, k + 1) = Total(n, k) + n[k + 1]
<1> DEFINE Step(g, i) == IF i = 0 THEN 0 ELSE g[i - 1] + n[i]
           IsSum(m, g) == g = [i \in 0..m |-> Step(g, i)]
           G(m) == CHOOSE g : IsSum(m, g)
           f == [i \in Nat |-> G(i)[i]]
<1>1. \A m \in Nat : \E g : IsSum(m, g)
  <2> DEFINE S == {m \in Nat : \E g : IsSum(m, g)}
  <2>1. 0 \in S
    <3>1. IsSum(0, [i \in 0..0 |-> 0])
      OBVIOUS
    <3> QED BY <3>1
  <2>2. ASSUME NEW m \in Nat, m \in S PROVE m + 1 \in S
    <3>1. PICK g : IsSum(m, g)
      BY <2>2
    <3> DEFINE h == [i \in 0..(m + 1) |-> IF i = m + 1 THEN g[m] + n[m + 1] ELSE g[i]]
    <3>2. ASSUME NEW i \in 0..(m + 1) PROVE h[i] = Step(h, i)
      <4>1. CASE i = m + 1
        <5>1. h[m] = g[m] /\ i - 1 = m /\ i # 0
          BY <4>1
        <5> QED BY <4>1, <5>1
      <4>2. CASE i # m + 1
        <5>1. i \in 0..m /\ h[i] = g[i] /\ g[i] = Step(g, i)
          BY <3>1, <4>2
        <5>2. i # 0 => h[i - 1] = g[i - 1]
          BY <4>2
        <5> QED BY <5>1, <5>2
      <4> QED BY <4>1, <4>2
    <3>3. IsSum(m + 1, h)
      <4>1. \A i \in 0..(m + 1) : h[i] = Step(h, i)
        BY <3>2
      <4>2. h = [i \in 0..(m + 1) |-> h[i]]
        OBVIOUS
      <4> HIDE DEF h
      <4> QED BY <4>1, <4>2
    <3> HIDE DEF h, IsSum
    <3> QED BY <3>3
  <2> HIDE DEF S
  <2>3. Nat \subseteq S
    BY <2>1, <2>2, AllNaturals
  <2> QED BY <2>3 DEF S
<1>2. \A m \in Nat : IsSum(m, G(m))
  BY <1>1
<1>3. \A m \in Nat, i \in Nat : i <= m => G(m)[i] = Step(G(m), i)
  <2> SUFFICES ASSUME NEW m \in Nat, NEW i \in Nat, i <= m PROVE G(m)[i] = Step(G(m), i)
    OBVIOUS
  <2>1. G(m) = [j \in 0..m |-> Step(G(m), j)]
    BY <1>2
  <2>2. i \in 0..m
    OBVIOUS
  <2> HIDE DEF G
  <2> QED BY <2>1, <2>2
<1> HIDE DEF G, IsSum
<1>4. \A i \in Nat : \A m, k \in Nat : i <= m /\ i <= k => G(m)[i] = G(k)[i]
  <2> DEFINE S == {i \in Nat : \A m, k \in Nat : i <= m /\ i <= k => G(m)[i] = G(k)[i]}
  <2>1. 0 \in S
    BY <1>3
  <2>2. ASSUME NEW i \in Nat, i \in S PROVE i + 1 \in S
    <3> SUFFICES ASSUME NEW m \in Nat, NEW k \in Nat, i + 1 <= m, i + 1 <= k
                 PROVE  G(m)[i + 1] = G(k)[i + 1]
      OBVIOUS
    <3>1. G(m)[i] = G(k)[i]
      BY <2>2
    <3>2. (i + 1) - 1 = i /\ i + 1 # 0 /\ i + 1 \in Nat
      OBVIOUS
    <3>3. G(m)[i + 1] = G(m)[i] + n[i + 1] /\ G(k)[i + 1] = G(k)[i] + n[i + 1]
      BY <1>3, <3>2
    <3> QED BY <3>1, <3>3
  <2> HIDE DEF S
  <2>3. Nat \subseteq S
    BY <2>1, <2>2, AllNaturals
  <2> QED BY <2>3 DEF S
<1>5. ASSUME NEW i \in Nat PROVE f[i] = Step(f, i)
  <2>1. CASE i = 0
    BY <1>3, <2>1
  <2>2. CASE i # 0
    <3>1. i - 1 \in Nat /\ i - 1 <= i /\ i - 1 <= i - 1 /\ i <= i
      BY <2>2
    <3>2. f[i] = G(i)[i - 1] + n[i] /\ f[i - 1] = G(i - 1)[i - 1]
      BY <1>3, <2>2, <3>1
    <3>3. G(i)[i - 1] = G(i - 1)[i - 1]
      BY <1>4, <3>1
    <3> QED BY <2>2, <3>2, <3>3
  <2> QED BY <2>1, <2>2
<1> DEFINE s == CHOOSE s : s = [i \in Nat |-> IF i = 0 THEN 0 ELSE s[i - 1] + n[i]]
<1>6. s = [i \in Nat |-> IF i = 0 THEN 0 ELSE s[i - 1] + n[i]]
  <2>1. f = [i \in Nat |-> IF i = 0 THEN 0 ELSE f[i - 1] + n[i]]
    <3>1. f = [i \in Nat |-> f[i]]
      OBVIOUS
    <3> HIDE DEF f
    <3> QED BY <1>5, <3>1
  <2> HIDE DEF f
  <2> QED BY <2>1
<1>7. \A k : Total(n, k) = s[k]
  BY DEF Total
<1> HIDE DEF s
<1>8. s[0] = 0 /\ \A k \in Nat : s[k + 1] = s[k] + n[k + 1]
  <2>1. \A k \in Nat : k + 1 \in Nat /\ k + 1 # 0 /\ (k + 1) - 1 = k
    OBVIOUS
  <2> QED BY <1>6, <2>1
<1> QED BY <1>7, <1>8

LEMMA TotalSame ==
    ASSUME NEW n, NEW m, NEW k \in Nat, \A i \in 1..k : n[i] = m[i]
    PROVE  Total(n, k) = Total(m, k)
<1> DEFINE S == {j \in Nat : j <= k => Total(n, j) = Total(m, j)}
<1>1. 0 \in S
  BY TotalDef
<1>2. ASSUME NEW j \in Nat, j \in S PROVE j + 1 \in S
  <2> SUFFICES ASSUME j + 1 <= k PROVE Total(n, j + 1) = Total(m, j + 1)
    OBVIOUS
  <2>1. Total(n, j) = Total(m, j) /\ j + 1 \in 1..k
    BY <1>2
  <2>2. n[j + 1] = m[j + 1]
    BY <2>1
  <2>3. Total(n, j + 1) = Total(n, j) + n[j + 1] /\ Total(m, j + 1) = Total(m, j) + m[j + 1]
    BY TotalDef
  <2> QED BY <2>1, <2>2, <2>3
<1> HIDE DEF S
<1>3. Nat \subseteq S
  BY <1>1, <1>2, AllNaturals
<1> QED BY <1>3 DEF S

\* A bounded set of naturals has a largest and a smallest member.
LEMMA MaxMember ==
    ASSUME NEW S \in SUBSET Nat, S # {}, NEW b \in Nat, \A x \in S : x <= b
    PROVE  Max(S) \in S /\ \A x \in S : x <= Max(S)
<1> DEFINE T == {b - x : x \in S}
<1>1. T \in SUBSET Nat /\ T # {}
  <2>1. \A x \in S : b - x \in Nat
    OBVIOUS
  <2> QED BY <2>1
<1>2. PICK y \in T : \A z \in T : y <= z
  <2> HIDE DEF T
  <2> QED BY <1>1, Least
<1>3. PICK x \in S : y = b - x
  BY <1>2
<1>4. \A z \in S : x >= z
  BY <1>2, <1>3
<1> QED BY <1>4 DEF Max

LEMMA MinMember ==
    ASSUME NEW S \in SUBSET Nat, S # {}
    PROVE  Min(S) \in S /\ \A x \in S : Min(S) <= x
<1>1. PICK x \in S : \A y \in S : x <= y
  BY Least
<1> QED BY <1>1 DEF Min

LEMMA MinIs ==
    ASSUME NEW S \in SUBSET Nat, NEW m \in S, \A x \in S : m <= x PROVE Min(S) = m
<1>1. Min(S) \in S /\ Min(S) <= m /\ m <= Min(S)
  BY MinMember
<1>2. Min(S) \in Nat /\ m \in Nat
  BY <1>1
<1> QED BY <1>1, <1>2

LEMMA MaxIs ==
    ASSUME NEW S \in SUBSET Nat, NEW m \in S, \A x \in S : x <= m PROVE Max(S) = m
<1>1. Max(S) \in S /\ Max(S) <= m /\ m <= Max(S)
  BY MaxMember
<1>2. Max(S) \in Nat /\ m \in Nat
  BY <1>1
<1> QED BY <1>1, <1>2

-----------------------------------------------------------------------------
(* Offsets *)

LEMMA TextBlocks ==
    ASSUME text \in Texts
    PROVE  /\ Len(text) \in Nat /\ DOMAIN text = 1..Len(text)
           /\ \A b \in 1..Len(text) : text[b].level \in Nat /\ text[b].words \in Nat \ {0}
<1> DEFINE block == [level : 0..6, words : Nat \ {0}]
<1>1. text \in Seq(block)
  BY TextAssumption
<1>2. Len(text) \in Nat /\ DOMAIN text = 1..Len(text)
  BY <1>1, LenProperties
<1>3. \A i \in 1..Len(text) : text[i] \in block
  BY <1>1, ElementOfSeq
<1> QED BY <1>2, <1>3

LEMMA OffsetStep ==
    ASSUME text \in Texts
    PROVE  /\ Offset(1) = 0
           /\ \A b \in 1..Len(text) : Offset(b + 1) = Offset(b) + (text[b].words + 1)
<1> DEFINE n == [i \in DOMAIN text |-> text[i].words + 1]
<1>1. \A b : Offset(b) = Total(n, b - 1)
  BY DEF Offset
<1>2. \A b \in 1..Len(text) : n[b] = text[b].words + 1
  BY TextBlocks
<1> HIDE DEF n
<1>3. ASSUME NEW b \in 1..Len(text) PROVE Offset(b + 1) = Offset(b) + (text[b].words + 1)
  <2>1. b - 1 \in Nat /\ (b - 1) + 1 = b /\ (b + 1) - 1 = b
    BY TextBlocks
  <2>2. Total(n, (b - 1) + 1) = Total(n, b - 1) + n[(b - 1) + 1]
    BY <2>1, TotalDef
  <2> QED BY <1>1, <1>2, <2>1, <2>2
<1>4. Offset(1) = 0
  <2>1. 1 - 1 = 0
    OBVIOUS
  <2> QED BY <1>1, <2>1, TotalDef
<1> QED BY <1>3, <1>4

LEMMA OffsetType ==
    ASSUME text \in Texts
    PROVE  \A b \in 1..(Len(text) + 1) : Offset(b) \in Nat
<1> DEFINE S == {n \in Nat : n <= Len(text) => Offset(n + 1) \in Nat}
<1>1. 0 \in S
  <2>1. 0 + 1 = 1
    OBVIOUS
  <2> QED BY <2>1, OffsetStep
<1>2. ASSUME NEW n \in Nat, n \in S PROVE n + 1 \in S
  <2> SUFFICES ASSUME n + 1 <= Len(text) PROVE Offset((n + 1) + 1) \in Nat
    OBVIOUS
  <2>1. Offset(n + 1) \in Nat /\ n + 1 \in 1..Len(text)
    BY <1>2, TextBlocks
  <2>2. Offset((n + 1) + 1) = Offset(n + 1) + (text[n + 1].words + 1)
    BY <2>1, OffsetStep
  <2>3. text[n + 1].words \in Nat
    BY <2>1, TextBlocks
  <2> QED BY <2>1, <2>2, <2>3
<1> HIDE DEF S
<1>3. Nat \subseteq S
  BY <1>1, <1>2, AllNaturals
<1> SUFFICES ASSUME NEW b \in 1..(Len(text) + 1) PROVE Offset(b) \in Nat
  OBVIOUS
<1>4. b - 1 \in Nat /\ b - 1 <= Len(text) /\ (b - 1) + 1 = b
  BY TextBlocks
<1> QED BY <1>3, <1>4 DEF S

\* A block ends before the next one starts.
LEMMA OffsetOrder ==
    ASSUME text \in Texts, NEW a \in 1..Len(text), NEW b \in 1..(Len(text) + 1), a < b
    PROVE  EndOf(a) < Offset(b)
<1> DEFINE S == {n \in Nat : a + 1 + n <= Len(text) + 1 => EndOf(a) < Offset(a + 1 + n)}
<1>0. Len(text) \in Nat /\ a \in Nat /\ b \in Nat
  BY TextBlocks
<1>1. EndOf(a) \in Nat /\ EndOf(a) + 1 = Offset(a + 1)
  <2>1. /\ Offset(a) \in Nat /\ text[a].words \in Nat
        /\ Offset(a + 1) = Offset(a) + (text[a].words + 1)
    BY <1>0, TextBlocks, OffsetType, OffsetStep
  <2> QED BY <2>1 DEF EndOf
<1>2. 0 \in S
  <2>1. a + 1 + 0 = a + 1
    BY <1>0
  <2>2. EndOf(a) < Offset(a + 1)
    BY <1>1
  <2> QED BY <2>1, <2>2
<1>3. ASSUME NEW n \in Nat, n \in S PROVE n + 1 \in S
  <2> DEFINE c == a + 1 + n
  <2> SUFFICES ASSUME a + 1 + (n + 1) <= Len(text) + 1 PROVE EndOf(a) < Offset(a + 1 + (n + 1))
    OBVIOUS
  <2>1. a + 1 + (n + 1) = c + 1 /\ c \in 1..Len(text) /\ c <= Len(text) + 1
    BY <1>0
  <2>2. EndOf(a) < Offset(c)
    BY <1>3, <2>1
  <2> HIDE DEF c
  <2>3. /\ Offset(c + 1) = Offset(c) + (text[c].words + 1)
        /\ text[c].words \in Nat /\ Offset(c) \in Nat
    BY <1>0, <2>1, OffsetStep, OffsetType, TextBlocks
  <2> QED BY SMTT(20), <1>1, <2>1, <2>2, <2>3
<1> HIDE DEF S
<1>4. Nat \subseteq S
  BY <1>2, <1>3, AllNaturals
<1>5. b - (a + 1) \in Nat /\ a + 1 + (b - (a + 1)) = b /\ b <= Len(text) + 1
  BY <1>0
<1> QED BY <1>4, <1>5 DEF S

\* All that is needed of offsets.
LEMMA Offsets ==
    ASSUME text \in Texts
    PROVE  /\ Offset(1) = 0
           /\ \A b \in 1..(Len(text) + 1) : Offset(b) \in Nat
           /\ \A b \in 1..Len(text) : EndOf(b) = Offset(b) + text[b].words /\ EndOf(b) \in Nat
           /\ \A b \in 1..Len(text) : EndOf(b) + 1 = Offset(b + 1)
           /\ \A a \in 1..Len(text), b \in 1..(Len(text) + 1) : a < b => EndOf(a) < Offset(b)
           /\ text # << >> => EndOfText = EndOf(Len(text))
           /\ \A b \in 1..Len(text) : EndOf(b) <= EndOfText /\ Offset(b) <= EndOfText
           /\ EndOfText \in Nat
<1>1. ASSUME NEW b \in 1..Len(text)
      PROVE  EndOf(b) = Offset(b) + text[b].words /\ EndOf(b) \in Nat /\ Offset(b) <= EndOf(b)
             /\ EndOf(b) + 1 = Offset(b + 1) /\ Len(text) + 1 \in Nat
  <2>1. Offset(b) \in Nat /\ text[b].words \in Nat /\ Len(text) \in Nat
        /\ Offset(b + 1) = Offset(b) + (text[b].words + 1)
    BY TextBlocks, OffsetType, OffsetStep
  <2> QED BY <2>1 DEF EndOf
<1>2. text # << >> => EndOfText = EndOf(Len(text))
  BY DEF EndOfText
<1>3. ASSUME NEW b \in 1..Len(text) PROVE EndOf(b) <= EndOfText /\ Offset(b) <= EndOfText
  <2>1. Len(text) \in Nat /\ Len(text) \in 1..Len(text) /\ text # << >>
    <3>1. text \in Seq([level : 0..6, words : Nat \ {0}])
      BY TextAssumption
    <3>2. Len(text) \in Nat
      BY TextBlocks
    <3> QED BY <3>1, <3>2
  <2>2. EndOfText = EndOf(Len(text))
    BY <1>2, <2>1
  <2>3. b = Len(text) \/ b < Len(text)
    BY <2>1
  <2>4. CASE b = Len(text)
    <3>1. EndOf(b) \in Nat /\ Offset(b) \in Nat /\ Offset(b) <= EndOf(b)
      BY <1>1, <2>1, OffsetType
    <3> QED BY <2>2, <2>4, <3>1
  <2>5. CASE b < Len(text)
    <3>1. EndOf(b) < Offset(Len(text))
      BY <2>1, <2>5, OffsetOrder
    <3>2. /\ Offset(b) \in Nat /\ EndOf(b) \in Nat /\ Offset(b) <= EndOf(b)
          /\ Offset(Len(text)) \in Nat /\ EndOf(Len(text)) \in Nat
          /\ Offset(Len(text)) <= EndOf(Len(text))
      BY <1>1, <2>1, OffsetType
    <3> QED BY <2>2, <3>1, <3>2
  <2> QED BY <2>3, <2>4, <2>5
<1>4. EndOfText \in Nat
  <2>1. CASE text = << >>
    BY <2>1 DEF EndOfText
  <2>2. CASE text # << >>
    <3>1. Len(text) \in 1..Len(text)
      <4>1. text \in Seq([level : 0..6, words : Nat \ {0}])
        BY TextAssumption
      <4>2. Len(text) \in Nat \ {0}
        BY <2>2, <4>1, EmptySeq
      <4> QED BY <4>2
    <3> QED BY <1>1, <1>2, <2>2, <3>1
  <2> QED BY <2>1, <2>2
<1> QED BY <1>1, <1>2, <1>3, <1>4, OffsetStep, OffsetType, OffsetOrder

-----------------------------------------------------------------------------
(* Words and tokens of blocks *)

LEMMA Estimate ==
    ASSUME NEW w \in Nat
    PROVE  /\ EstimateTokens(w) \in Nat
           /\ w <= EstimateTokens(w)
           /\ w # 0 => EstimateTokens(w) = (133 * w) \div 100
<1> DEFINE e == (133 * w) \div 100
<1>1. e \in Nat /\ w <= e
  OBVIOUS
<1>2. w # 0 => e >= 1
  BY <1>1
<1> HIDE DEF e
<1>3. EstimateTokens(w) = IF e <= 1 THEN 1 ELSE e
  <2>1. EstimateTokens(w) = Max({1, e})
    BY DEF EstimateTokens, e
  <2>2. CASE e <= 1
    <3>1. {1, e} \in SUBSET Nat /\ 1 \in {1, e} /\ \A x \in {1, e} : x <= 1
      BY <1>1, <2>2
    <3>2. Max({1, e}) = 1
      BY <3>1, MaxIs
    <3> QED BY <2>1, <2>2, <3>2
  <2>3. CASE ~(e <= 1)
    <3>1. {1, e} \in SUBSET Nat /\ e \in {1, e} /\ \A x \in {1, e} : x <= e
      BY <1>1, <2>3
    <3>2. Max({1, e}) = e
      BY <3>1, MaxIs
    <3> QED BY <2>1, <2>3, <3>2
  <2> QED BY <2>2, <2>3
<1>4. w # 0 => EstimateTokens(w) = e
  BY <1>1, <1>2, <1>3
<1> QED BY <1>1, <1>3, <1>4 DEF e

\* int(1.33 * words) of a sum loses at most one token at each join.
LEMMA Sums ==
    ASSUME text \in Texts, NEW bs \in Seq(1..Len(text))
    PROVE  /\ Words(bs) \in Nat /\ TokensIn(bs) \in Nat
           /\ bs # << >> => Words(bs) # 0
           /\ bs # << >> => EstimateTokens(Words(bs)) <= TokensIn(bs) + (Len(bs) - 1)
<1> DEFINE w == [i \in DOMAIN bs |-> text[bs[i]].words]
           t == [i \in DOMAIN bs |-> TokensOf(bs[i])]
           P(k) == /\ Total(w, k) \in Nat /\ Total(t, k) \in Nat
                   /\ k # 0 => Total(w, k) # 0
                   /\ k # 0 => (133 * Total(w, k)) \div 100 <= Total(t, k) + (k - 1)
           S == {k \in Nat : k <= Len(bs) => P(k)}
<1>1. Len(bs) \in Nat /\ DOMAIN bs = 1..Len(bs) /\ \A i \in 1..Len(bs) : bs[i] \in 1..Len(text)
  OBVIOUS
<1>2. \A i \in 1..Len(bs) : /\ w[i] \in Nat \ {0} /\ t[i] = (133 * w[i]) \div 100
                            /\ t[i] \in Nat
  <2> SUFFICES ASSUME NEW i \in 1..Len(bs)
               PROVE  w[i] \in Nat \ {0} /\ t[i] = (133 * w[i]) \div 100 /\ t[i] \in Nat
    OBVIOUS
  <2>1. w[i] = text[bs[i]].words /\ t[i] = EstimateTokens(text[bs[i]].words)
    BY <1>1 DEF TokensOf
  <2>2. text[bs[i]].words \in Nat \ {0}
    BY <1>1, TextBlocks
  <2> HIDE DEF w, t
  <2> QED BY ZenonT(60), <2>1, <2>2, Estimate
<1> HIDE DEF w, t
<1>3. 0 \in S
  BY SMTT(20), TotalDef
<1>4. ASSUME NEW k \in Nat, k \in S PROVE k + 1 \in S
  <2> SUFFICES ASSUME k + 1 <= Len(bs) PROVE P(k + 1)
    OBVIOUS
  <2>1. P(k) /\ k + 1 \in 1..Len(bs)
    BY <1>1, <1>4
  <2>2. Total(w, k + 1) = Total(w, k) + w[k + 1] /\ Total(t, k + 1) = Total(t, k) + t[k + 1]
    BY TotalDef
  <2>3. PICK a, b, c, d : a = Total(w, k) /\ b = w[k + 1] /\ c = Total(t, k) /\ d = t[k + 1]
    OBVIOUS
  <2>4. a \in Nat /\ b \in Nat \ {0} /\ c \in Nat /\ d \in Nat /\ d = (133 * b) \div 100
    BY <1>2, <2>1, <2>3
  <2>5. CASE k = 0
    <3>1. a = 0 /\ c = 0
      BY <2>3, <2>5, TotalDef
    <3> QED BY SMTT(20), <2>2, <2>3, <2>4, <2>5, <3>1
  <2>6. CASE k # 0
    <3>1. (133 * a) \div 100 <= c + (k - 1)
      BY <2>1, <2>3, <2>6
    <3>2. (133 * (a + b)) \div 100 <= c + d + k
      BY <2>4, <3>1
    <3>3. (k + 1) - 1 = k /\ a + b \in Nat \ {0} /\ c + d \in Nat
      BY <2>4
    <3> QED BY <2>2, <2>3, <3>2, <3>3
  <2> QED BY <2>5, <2>6
<1> HIDE DEF S, P
<1>5. Nat \subseteq S
  BY <1>3, <1>4, AllNaturals
<1>6. P(Len(bs))
  BY <1>1, <1>5 DEF S
<1>7. Words(bs) = Total(w, Len(bs)) /\ TokensIn(bs) = Total(t, Len(bs))
  BY DEF Words, TokensIn, w, t
<1>8. bs # << >> => Len(bs) # 0
  OBVIOUS
<1> QED BY <1>6, <1>7, <1>8, Estimate DEF P

LEMMA SumsOfNone == Words(<< >>) = 0 /\ TokensIn(<< >>) = 0
<1>1. Len(<< >>) = 0
  OBVIOUS
<1> QED BY <1>1, TotalDef DEF Words, TokensIn

LEMMA SumsOfAppend ==
    ASSUME NEW S, NEW bs \in Seq(S), NEW b \in S
    PROVE  /\ Words(Append(bs, b)) = Words(bs) + text[b].words
           /\ TokensIn(Append(bs, b)) = TokensIn(bs) + TokensOf(b)
<1> DEFINE cs == Append(bs, b)
           k == Len(bs)
           w == [i \in DOMAIN bs |-> text[bs[i]].words]
           v == [i \in DOMAIN cs |-> text[cs[i]].words]
           t == [i \in DOMAIN bs |-> TokensOf(bs[i])]
           u == [i \in DOMAIN cs |-> TokensOf(cs[i])]
<1>1. /\ k \in Nat /\ Len(cs) = k + 1 /\ DOMAIN cs = 1..(k + 1) /\ DOMAIN bs = 1..k
      /\ \A i \in 1..k : cs[i] = bs[i]
      /\ cs[k + 1] = b
  OBVIOUS
<1> HIDE DEF cs, k
<1>2. \A i \in 1..k : i \in 1..(k + 1)
  BY <1>1
<1>3. (\A i \in 1..k : v[i] = w[i] /\ u[i] = t[i]) /\ k + 1 \in 1..(k + 1)
  BY <1>1, <1>2
<1>4. v[k + 1] = text[b].words /\ u[k + 1] = TokensOf(b)
  BY <1>1, <1>3
<1> HIDE DEF w, v, t, u
<1>5. Total(v, k) = Total(w, k) /\ Total(u, k) = Total(t, k)
  BY <1>1, <1>3, TotalSame
<1>6. Total(v, k + 1) = Total(v, k) + v[k + 1] /\ Total(u, k + 1) = Total(u, k) + u[k + 1]
  BY <1>1, TotalDef
<1>7. /\ Words(cs) = Total(v, k + 1) /\ TokensIn(cs) = Total(u, k + 1)
      /\ Words(bs) = Total(w, k) /\ TokensIn(bs) = Total(t, k)
  BY <1>1 DEF Words, TokensIn, v, u, w, t, k
<1> QED BY <1>4, <1>5, <1>6, <1>7 DEF cs

LEMMA SumsOfOne ==
    ASSUME text \in Texts, NEW b \in 1..Len(text)
    PROVE  Words(<<b>>) = text[b].words /\ TokensIn(<<b>>) = TokensOf(b)
<1>1. Append(<< >>, b) = <<b>> /\ << >> \in Seq({b})
  OBVIOUS
<1>2. text[b].words \in Nat /\ TokensOf(b) \in Nat
  BY TextBlocks, Estimate DEF TokensOf
<1>3. /\ Words(<<b>>) = Words(<< >>) + text[b].words
      /\ TokensIn(<<b>>) = TokensIn(<< >>) + TokensOf(b)
  BY <1>1, SumsOfAppend
<1> QED BY <1>2, <1>3, SumsOfNone

-----------------------------------------------------------------------------
(* The words of a chunk *)

ChunkRecord == [index : Nat, blocks : Seq(Nat), skip : Nat, words : Nat,
                start : Nat, end : Nat, section : Nat]

\* A chunk is of consecutive blocks, all of them whole, or of a part of one.
ChunkOK(c) ==
    /\ c \in ChunkRecord /\ c.blocks # << >> /\ c.words # 0
    /\ \A i \in 1..Len(c.blocks) :
          c.blocks[i] \in 1..Len(text) /\ c.blocks[i] = c.blocks[1] + (i - 1)
    /\ IF Len(c.blocks) = 1 THEN c.skip + c.words <= text[c.blocks[1]].words
       ELSE c.skip = 0 /\ c.words = Words(c.blocks)

FirstWord(c) == Offset(c.blocks[1]) + (c.skip + 1)
LastWord(c) ==
    IF Len(c.blocks) = 1 THEN Offset(c.blocks[1]) + (c.skip + c.words)
    ELSE EndOf(c.blocks[Len(c.blocks)])

WordsOf(S) == UNION {{Offset(b) + w : w \in 1..text[b].words} : b \in S}

LEMMA WordsOfBlocks ==
    ASSUME text \in Texts, NEW S \in SUBSET (1..Len(text)), NEW x
    PROVE  x \in WordsOf(S) <=> x \in Nat /\ \E b \in S : Offset(b) < x /\ x <= EndOf(b)
<1>1. ASSUME x \in WordsOf(S)
      PROVE  x \in Nat /\ \E b \in S : Offset(b) < x /\ x <= EndOf(b)
  <2>1. PICK b \in S : \E w \in 1..text[b].words : x = Offset(b) + w
    BY <1>1 DEF WordsOf
  <2>2. PICK w \in 1..text[b].words : x = Offset(b) + w
    BY <2>1
  <2>3. b \in 1..(Len(text) + 1) /\ text[b].words \in Nat
    BY TextBlocks
  <2>4. Offset(b) \in Nat /\ EndOf(b) = Offset(b) + text[b].words
    BY <2>3, Offsets
  <2> QED BY <2>2, <2>3, <2>4
<1>2. ASSUME x \in Nat, NEW b \in S, Offset(b) < x, x <= EndOf(b)
      PROVE  x \in WordsOf(S)
  <2>1. b \in 1..(Len(text) + 1) /\ text[b].words \in Nat
    BY TextBlocks
  <2>2. Offset(b) \in Nat /\ EndOf(b) = Offset(b) + text[b].words
    BY <2>1, Offsets
  <2>3. x - Offset(b) \in 1..text[b].words /\ Offset(b) + (x - Offset(b)) = x
    BY <1>2, <2>1, <2>2
  <2> QED BY <2>3 DEF WordsOf
<1> QED BY <1>1, <1>2

-----------------------------------------------------------------------------
(* Heading paths *)

\* No heading between a and the end of the first n blocks closes a.
OpenAfter(a, n) ==
    /\ text[a].level > 0
    /\ \A k \in (a + 1)..n : text[k].level > 0 => text[k].level > text[a].level

\* The next block is a heading that closes a.
ClosedNext(a) ==
    next <= Len(text) /\ text[next].level > 0 /\ text[a].level >= text[next].level

SectionRecord == [first : Nat, last : Nat, path : Seq(Nat)]

ParserOK ==
    /\ next \in Nat /\ 1 <= next /\ next <= Len(text) + 1
    /\ stack \in Seq(Nat)
    /\ sections \in Seq(SectionRecord)

\* The stack holds the open headings, outermost first, but for those already popped because
\* the heading being read closes them.
StackIsOpen ==
    parser = "markdown" =>
        /\ \A i \in 1..Len(stack) : stack[i] \in 1..(next - 1) /\ OpenAfter(stack[i], next - 1)
        /\ \A i, j \in 1..Len(stack) : i < j => stack[i] < stack[j]
        /\ \A a \in 1..(next - 1) :
              OpenAfter(a, next - 1) =>
                  ClosedNext(a) \/ \E i \in 1..Len(stack) : stack[i] = a

\* The path of a section, as PathsAreAncestors has it.
PathOK(s) ==
    s.path # << >> =>
        /\ ToSet(s.path) = Ancestors(s.first - 1)
        /\ \A m, n \in DOMAIN s.path : m < n => s.path[m] < s.path[n]

SectionsOK == \A i \in DOMAIN sections : PathOK(sections[i])

PathInv == text \in Texts /\ ParserOK /\ StackIsOpen /\ SectionsOK

LEMMA Appended ==
    ASSUME NEW S, NEW s \in Seq(S), NEW e \in S
    PROVE  /\ Append(s, e) \in Seq(S)
           /\ Len(s) \in Nat
           /\ Len(Append(s, e)) = Len(s) + 1
           /\ DOMAIN Append(s, e) = 1..(Len(s) + 1)
           /\ \A i \in 1..Len(s) : Append(s, e)[i] = s[i]
           /\ Append(s, e)[Len(s) + 1] = e
OBVIOUS

LEMMA Shortened ==
    ASSUME NEW S, NEW s \in Seq(S), s # << >>
    PROVE  /\ Front(s) \in Seq(S)
           /\ Len(s) \in Nat \ {0}
           /\ Len(Front(s)) = Len(s) - 1
           /\ \A i \in 1..Len(Front(s)) : Front(s)[i] = s[i]
<1>1. Len(s) \in Nat \ {0}
  BY EmptySeq
<1>2. \A n \in Nat \ {0} :
         /\ n - 1 \in Int /\ n - 1 - 1 + 1 = n - 1
         /\ (IF 1 <= n - 1 THEN n - 1 - 1 + 1 ELSE 0) = n - 1
         /\ 1..(n - 1) \subseteq 1..n
  OBVIOUS
<1>3. \A i \in Nat : 1 + i - 1 = i
  OBVIOUS
<1>4. 1 \in Int /\ Len(s) - 1 \in Int /\ \A i \in 1..(Len(s) - 1) : s[i] \in S
  BY <1>1, <1>2, ElementOfSeq
<1>5. /\ Front(s) \in Seq(S)
      /\ Len(Front(s)) = IF 1 <= Len(s) - 1 THEN Len(s) - 1 - 1 + 1 ELSE 0
      /\ \A i \in 1..(Len(s) - 1 - 1 + 1) : Front(s)[i] = s[1 + i - 1]
  BY <1>4, SubSeqProperties DEF Front
<1>6. Len(Front(s)) = Len(s) - 1 /\ Len(s) - 1 - 1 + 1 = Len(s) - 1
  BY <1>1, <1>2, <1>5
<1>7. \A i \in 1..Len(Front(s)) : Front(s)[i] = s[i]
  <2> SUFFICES ASSUME NEW i \in 1..Len(Front(s)) PROVE Front(s)[i] = s[i]
    OBVIOUS
  <2>1. i \in Nat /\ i \in 1..(Len(s) - 1 - 1 + 1)
    BY <1>1, <1>6
  <2> QED BY <1>3, <1>5, <2>1
<1> QED BY <1>1, <1>5, <1>6, <1>7

LEMMA TextType ==
    ASSUME text \in Texts
    PROVE  /\ Len(text) \in Nat
           /\ \A i \in 1..Len(text) : text[i].level \in Nat
<1> DEFINE block == [level : 0..6, words : Nat \ {0}]
<1>1. text \in Seq(block)
  BY TextAssumption
<1>2. Len(text) \in Nat
  BY <1>1, LenProperties
<1>3. \A i \in 1..Len(text) : text[i] \in block
  BY <1>1, ElementOfSeq
<1> QED BY <1>2, <1>3

\* One more block leaves a heading open unless it is a heading that closes it.
LEMMA OpenStep ==
    ASSUME text \in Texts, NEW n \in 1..Len(text), NEW a \in 1..(n - 1)
    PROVE  OpenAfter(a, n) <=>
               /\ OpenAfter(a, n - 1)
               /\ text[n].level > 0 => text[n].level > text[a].level
<1>1. n \in Nat /\ a \in Nat /\ a < n
  BY TextType
<1>2. \A k : k \in (a + 1)..n <=> k \in (a + 1)..(n - 1) \/ k = n
  BY <1>1
<1> QED BY <1>2 DEF OpenAfter

LEMMA OpenSelf ==
    ASSUME NEW n \in Nat, text[n].level > 0 PROVE OpenAfter(n, n)
BY DEF OpenAfter

\* An append keeps what holds of every member, if it holds of the new one.
LEMMA AppendPath ==
    ASSUME ParserOK, SectionsOK, NEW s \in SectionRecord, PathOK(s)
    PROVE  /\ Append(sections, s) \in Seq(SectionRecord)
           /\ \A i \in DOMAIN Append(sections, s) : PathOK(Append(sections, s)[i])
<1>1. sections \in Seq(SectionRecord)
  BY DEF ParserOK
<1>2. DOMAIN sections = 1..Len(sections) /\ Len(sections) \in Nat
  BY <1>1, LenProperties
<1>3. ASSUME NEW i \in 1..(Len(sections) + 1)
      PROVE  PathOK(Append(sections, s)[i])
  <2>1. CASE i \in 1..Len(sections)
    <3>1. Append(sections, s)[i] = sections[i]
      BY <1>1, <2>1, Appended
    <3> QED BY <1>2, <2>1, <3>1 DEF SectionsOK
  <2>2. CASE i = Len(sections) + 1
    <3>1. Append(sections, s)[i] = s
      BY <1>1, <2>2, Appended
    <3> QED BY <3>1
  <2> QED BY <1>2, <2>1, <2>2
<1> QED BY <1>1, <1>3, Appended

\* What a step that leaves the parser's variables alone preserves.
LEMMA PathInvStutter ==
    PathInv /\ UNCHANGED <<input, parsed>> => PathInv'
BY DEF PathInv, ParserOK, StackIsOpen, SectionsOK, PathOK, OpenAfter, ClosedNext, Ancestors, input, parsed

LEMMA PathInvInit == Init => PathInv
<1> SUFFICES ASSUME Init PROVE PathInv
  OBVIOUS
<1>1. ParserOK
  BY TextType DEF Init, ParserOK
<1>2. StackIsOpen
  BY DEF Init, StackIsOpen
<1>3. SectionsOK
  BY DEF Init, SectionsOK
<1> QED BY <1>1, <1>2, <1>3 DEF Init, PathInv

\* A block that is no heading leaves the open headings as they are.
LEMMA BodyKeepsStack ==
    ASSUME PathInv, parser = "markdown", next <= Len(text), text[next].level = 0,
           next' = next + 1, text' = text, parser' = parser, stack' = stack
    PROVE  StackIsOpen'
<1>1. next \in 1..Len(text) /\ next \in Nat /\ text \in Texts
  BY TextType DEF PathInv, ParserOK
<1>2. \A a \in 1..(next - 1) : OpenAfter(a, next) <=> OpenAfter(a, next - 1)
  BY <1>1, OpenStep
<1>3. ~OpenAfter(next, next)
  BY DEF OpenAfter
<1>4. \A i \in 1..Len(stack) : stack[i] \in 1..(next - 1) /\ OpenAfter(stack[i], next - 1)
  BY DEF PathInv, StackIsOpen
<1>5. \A i \in 1..Len(stack) : stack[i] \in 1..next /\ OpenAfter(stack[i], next)
  BY <1>1, <1>2, <1>4
<1>6. \A a \in 1..next : OpenAfter(a, next) => \E i \in 1..Len(stack) : stack[i] = a
  <2> SUFFICES ASSUME NEW a \in 1..next, OpenAfter(a, next)
               PROVE  \E i \in 1..Len(stack) : stack[i] = a
    OBVIOUS
  <2>1. a \in 1..(next - 1)
    BY <1>1, <1>3
  <2>2. ~ClosedNext(a)
    BY DEF ClosedNext
  <2> QED BY <1>2, <2>1, <2>2 DEF PathInv, StackIsOpen
<1>7. next' - 1 = next
  BY <1>1
<1>8. \A i, j \in 1..Len(stack) : i < j => stack[i] < stack[j]
  BY DEF PathInv, StackIsOpen
<1> QED BY <1>5, <1>6, <1>7, <1>8 DEF StackIsOpen, OpenAfter

\* A parser other than that of Markdown keeps no stack, and its sections have no path.
LEMMA ReadSectionInv ==
    ASSUME PathInv, NEW n \in Nat, next + n <= Len(text) + 1, ReadSection(n),
           parser = "markdown" => n = 1 /\ text[next].level = 0
    PROVE  PathInv'
<1> DEFINE s == [first |-> next, last |-> next + n - 1, path |-> << >>]
<1>1. s \in SectionRecord /\ PathOK(s)
  BY DEF PathInv, ParserOK, PathOK, SectionRecord
<1>2. /\ Append(sections, s) \in Seq(SectionRecord)
      /\ \A i \in DOMAIN Append(sections, s) : PathOK(Append(sections, s)[i])
  BY <1>1, AppendPath DEF PathInv
<1>3. /\ sections' = Append(sections, s) /\ next' = next + n
      /\ text' = text /\ parser' = parser /\ stack' = stack
  BY DEF ReadSection, input
<1>4. ParserOK'
  BY <1>2, <1>3, TextType DEF PathInv, ParserOK
<1>5. StackIsOpen'
  <2> SUFFICES ASSUME parser = "markdown" PROVE StackIsOpen'
    BY <1>3 DEF StackIsOpen
  <2>1. n = 1 /\ text[next].level = 0
    OBVIOUS
  <2> QED
    BY <1>3, <2>1, BodyKeepsStack DEF PathInv, ParserOK
<1>6. SectionsOK'
  BY <1>2, <1>3 DEF SectionsOK, PathOK, Ancestors
<1> QED BY <1>3, <1>4, <1>5, <1>6 DEF PathInv

LEMMA ReadBodyInv == PathInv /\ ReadBody => PathInv'
<1> SUFFICES ASSUME PathInv, ReadBody PROVE PathInv'
  OBVIOUS
<1>1. /\ parser = "markdown" /\ next <= Len(text) /\ text[next].level = 0
      /\ sections # << >> /\ next' = next + 1
      /\ sections' = [sections EXCEPT ![Len(sections)].last = next]
      /\ text' = text /\ parser' = parser /\ stack' = stack
  BY DEF ReadBody, Parsing, input
<1>2. /\ Len(sections) \in 1..Len(sections) /\ DOMAIN sections = 1..Len(sections)
      /\ \A i \in 1..Len(sections) : sections[i] \in SectionRecord
  BY <1>1 DEF PathInv, ParserOK
<1>3. /\ sections' \in Seq(SectionRecord)
      /\ DOMAIN sections' = DOMAIN sections
      /\ \A i \in DOMAIN sections :
            sections'[i].path = sections[i].path /\ sections'[i].first = sections[i].first
  <2> DEFINE e == [sections[Len(sections)] EXCEPT !.last = next]
  <2>1. sections \in Seq(SectionRecord) /\ sections' = [sections EXCEPT ![Len(sections)] = e]
    BY <1>1 DEF PathInv, ParserOK
  <2>2. /\ e \in SectionRecord
        /\ e.path = sections[Len(sections)].path /\ e.first = sections[Len(sections)].first
    BY <1>2 DEF PathInv, ParserOK, SectionRecord
  <2>3. /\ [sections EXCEPT ![Len(sections)] = e] \in Seq(SectionRecord)
        /\ DOMAIN [sections EXCEPT ![Len(sections)] = e] = DOMAIN sections
        /\ \A i \in 1..Len(sections) :
              [sections EXCEPT ![Len(sections)] = e][i]
                  = IF i = Len(sections) THEN e ELSE sections[i]
    BY <1>2, <2>1, <2>2, ExceptSeq
  <2> QED BY <1>2, <2>1, <2>2, <2>3
<1>4. ParserOK'
  BY <1>1, <1>3, TextType DEF PathInv, ParserOK
<1>5. StackIsOpen'
  BY <1>1, BodyKeepsStack DEF PathInv
<1>6. SectionsOK'
  BY <1>1, <1>3 DEF PathInv, SectionsOK, PathOK, Ancestors
<1> QED BY <1>1, <1>4, <1>5, <1>6 DEF PathInv

LEMMA PopHeadingInv == PathInv /\ PopHeading => PathInv'
<1> SUFFICES ASSUME PathInv, PopHeading PROVE PathInv'
  OBVIOUS
<1>1. /\ parser = "markdown" /\ next <= Len(text) /\ text[next].level > 0 /\ stack # << >>
      /\ text[stack[Len(stack)]].level >= text[next].level
      /\ stack' = Front(stack)
      /\ text' = text /\ parser' = parser /\ next' = next /\ sections' = sections
  BY DEF PopHeading, Parsing, Closes, Last, input
<1>2. /\ stack' \in Seq(Nat) /\ Len(stack) \in Nat \ {0} /\ Len(stack') = Len(stack) - 1
      /\ \A i \in 1..Len(stack') : stack'[i] = stack[i]
  BY <1>1, Shortened DEF PathInv, ParserOK
<1>3. ParserOK'
  BY <1>1, <1>2 DEF PathInv, ParserOK
<1>4. StackIsOpen'
  <2>1. (\A i \in 1..Len(stack) : stack[i] \in 1..(next - 1) /\ OpenAfter(stack[i], next - 1))'
    BY SMTT(20), <1>1, <1>2 DEF PathInv, StackIsOpen, OpenAfter
  <2>2. \A i, j \in 1..Len(stack') : i < j => stack'[i] < stack'[j]
    <3>1. 1..Len(stack') \subseteq 1..Len(stack)
      BY <1>2
    <3>2. \A i, j \in 1..Len(stack) : i < j => stack[i] < stack[j]
      BY <1>1 DEF PathInv, StackIsOpen
    <3> QED BY <1>2, <3>1, <3>2
  <2>3. ASSUME NEW a \in 1..(next - 1), OpenAfter(a, next - 1), ~ClosedNext(a)
        PROVE  \E i \in 1..Len(stack') : stack'[i] = a
    <3>1. PICK i \in 1..Len(stack) : stack[i] = a
      BY <1>1, <2>3 DEF PathInv, StackIsOpen
    <3>2. i # Len(stack)
      BY <1>1, <2>3, <3>1 DEF ClosedNext
    <3> QED BY <1>2, <3>1, <3>2
  <2> QED BY <1>1, <2>1, <2>2, <2>3 DEF StackIsOpen, OpenAfter, ClosedNext
<1>5. SectionsOK'
  BY <1>1 DEF PathInv, SectionsOK, PathOK, Ancestors
<1> QED BY <1>1, <1>3, <1>4, <1>5 DEF PathInv

\* Once no open heading closes at the next one, the stack and that heading are its ancestors.
LEMMA PushHeadingInv == PathInv /\ PushHeading => PathInv'
<1> SUFFICES ASSUME PathInv, PushHeading PROVE PathInv'
  OBVIOUS
<1> DEFINE path == Append(stack, next)
           s == [first |-> next + 1, last |-> next, path |-> path]
<1>1. /\ parser = "markdown" /\ next <= Len(text) /\ text[next].level > 0
      /\ stack # << >> => ~(text[stack[Len(stack)]].level >= text[next].level)
      /\ stack' = path /\ sections' = Append(sections, s)
      /\ text' = text /\ parser' = parser /\ next' = next + 1
  BY DEF PushHeading, Parsing, Closes, Last, input
<1>2. /\ path \in Seq(Nat) /\ Len(stack) \in Nat /\ Len(path) = Len(stack) + 1
      /\ DOMAIN path = 1..(Len(stack) + 1) /\ path # << >>
      /\ path[Len(stack) + 1] = next
      /\ \A i \in 1..Len(stack) : path[i] = stack[i]
  BY DEF PathInv, ParserOK
<1>3. next \in 1..Len(text) /\ \A i \in 1..Len(text) : text[i].level \in Nat
  BY <1>1, TextType DEF PathInv, ParserOK
<1>4. \A i \in 1..Len(stack) :
         stack[i] \in 1..(next - 1) /\ OpenAfter(stack[i], next - 1)
  BY <1>1 DEF PathInv, StackIsOpen
<1>5. \A i \in 1..Len(stack) : text[stack[i]].level < text[next].level
  <2> SUFFICES ASSUME NEW i \in 1..Len(stack)
               PROVE  text[stack[i]].level < text[next].level
    OBVIOUS
  <2> DEFINE top == stack[Len(stack)]
  <2>1. Len(stack) \in 1..Len(stack) /\ stack # << >>
    BY <1>2
  <2>2. top \in 1..(next - 1) /\ text[top].level > 0 /\ text[top].level < text[next].level
    <3>1. top \in 1..(next - 1) /\ text[top].level > 0
      BY <1>4, <2>1 DEF OpenAfter
    <3>2. text[top].level \in Nat /\ text[next].level \in Nat
      BY <1>3, <3>1
    <3> QED BY SMTT(30), <1>1, <2>1, <3>1, <3>2
  <2>3. stack[i] = top \/ stack[i] < top
    BY <1>1, <2>1 DEF PathInv, StackIsOpen
  <2>4. CASE stack[i] < top
    <3>1. top \in (stack[i] + 1)..(next - 1) /\ stack[i] \in 1..Len(text)
      BY <1>3, <1>4, <2>2, <2>4
    <3>2. text[top].level > text[stack[i]].level
      BY <1>4, <2>2, <3>1 DEF OpenAfter
    <3>3. /\ text[stack[i]].level \in Nat /\ text[top].level \in Nat
          /\ text[next].level \in Nat
      BY SMTT(30), <1>3, <2>2, <3>1
    <3> QED BY <2>2, <3>2, <3>3
  <2> QED BY <2>2, <2>3, <2>4
<1>6. \A i \in 1..Len(path) : path[i] \in 1..next /\ OpenAfter(path[i], next)
  <2>1. ASSUME NEW i \in 1..Len(stack) PROVE path[i] \in 1..next /\ OpenAfter(path[i], next)
    <3>1. /\ path[i] = stack[i] /\ stack[i] \in 1..(next - 1)
          /\ OpenAfter(stack[i], next - 1) /\ text[next].level > text[stack[i]].level
      BY <1>2, <1>4, <1>5
    <3> QED BY <1>3, <3>1, OpenStep DEF PathInv
  <2>2. OpenAfter(next, next)
    BY <1>1, <1>3, OpenSelf
  <2> QED BY <1>2, <1>3, <2>1, <2>2
<1>7. \A i, j \in 1..Len(path) : i < j => path[i] < path[j]
  BY SMTT(20), <1>1, <1>2, <1>3, <1>4 DEF PathInv, StackIsOpen
<1>8. ASSUME NEW a \in 1..next, OpenAfter(a, next)
      PROVE  \E i \in 1..Len(path) : path[i] = a
  <2>1. CASE a = next
    BY <1>2, <2>1
  <2>2. CASE a # next
    <3>1. a \in 1..(next - 1) /\ next \in (a + 1)..next
      BY <1>3, <2>2
    <3>2. OpenAfter(a, next - 1) /\ ~ClosedNext(a)
      <4>1. OpenAfter(a, next - 1) /\ text[next].level > text[a].level
        BY <1>1, <1>3, <1>8, <3>1, OpenStep DEF PathInv
      <4>2. text[next].level \in Nat /\ text[a].level \in Nat
        BY <1>3, <3>1
      <4> QED BY <4>1, <4>2 DEF ClosedNext
    <3>3. PICK i \in 1..Len(stack) : stack[i] = a
      BY <1>1, <3>1, <3>2 DEF PathInv, StackIsOpen
    <3> QED BY <1>2, <3>3
  <2> QED BY <2>1, <2>2
<1>9. PathOK(s)
  <2>1. ToSet(path) = {path[i] : i \in 1..Len(path)}
    BY <1>2 DEF ToSet
  <2>2. Ancestors(next) = {a \in 1..next : OpenAfter(a, next)}
    BY DEF Ancestors, OpenAfter
  <2>3. ToSet(path) = Ancestors(next)
    BY <1>6, <1>8, <2>1, <2>2
  <2>4. s.path = path /\ s.first - 1 = next
    BY <1>3
  <2> QED BY <1>2, <1>7, <2>3, <2>4 DEF PathOK
<1>10. s \in SectionRecord
  BY <1>2, <1>3 DEF SectionRecord
<1>11. /\ Append(sections, s) \in Seq(SectionRecord)
       /\ \A i \in DOMAIN Append(sections, s) : PathOK(Append(sections, s)[i])
  BY <1>9, <1>10, AppendPath DEF PathInv
<1>12. ParserOK'
  BY <1>1, <1>2, <1>3, <1>11 DEF ParserOK
<1>13. StackIsOpen'
  <2>1. next' - 1 = next
    BY <1>1, <1>3
  <2> QED BY <1>1, <1>6, <1>7, <1>8, <2>1 DEF StackIsOpen, OpenAfter
<1>14. SectionsOK'
  BY <1>1, <1>11 DEF SectionsOK, PathOK, Ancestors
<1> QED BY <1>1, <1>12, <1>13, <1>14 DEF PathInv

LEMMA PathInvStep == PathInv /\ [Next]_vars => PathInv'
<1> SUFFICES ASSUME PathInv, [Next]_vars PROVE PathInv'
  OBVIOUS
<1>1. CASE PopHeading BY <1>1, PopHeadingInv
<1>2. CASE PushHeading BY <1>2, PushHeadingInv
<1>3. CASE ReadBody BY <1>3, ReadBodyInv
<1>4. CASE ReadPreamble \/ ReadParagraph \/ ReadItem
  <2>1. ReadSection(1) /\ next <= Len(text) /\ (parser = "markdown" => text[next].level = 0)
    BY <1>4 DEF ReadPreamble, ReadParagraph, ReadItem, Parsing
  <2>2. next + 1 <= Len(text) + 1
    BY <2>1, TextType DEF PathInv, ParserOK
  <2> QED BY <2>1, <2>2, ReadSectionInv
<1>5. CASE ReadPage
  <2>1. PICK n \in 1..(Len(text) + 1 - next) : ReadSection(n)
    BY <1>5 DEF ReadPage
  <2>2. n \in Nat /\ next + n <= Len(text) + 1 /\ parser # "markdown"
    BY <1>5, TextType DEF PathInv, ParserOK, ReadPage, Parsing
  <2> QED BY <2>1, <2>2, ReadSectionInv
<1>6. CASE EndParse \/ TakeSection \/ SplitSection \/ TakeOversized \/ TakeInNext
           \/ TakeInCurrent \/ JoinSentence \/ CutSentence \/ EmbeddingFails
           \/ EndBlocks \/ EndSections \/ UNCHANGED vars
  <2>1. UNCHANGED <<input, parsed>>
    BY <1>6 DEF EndParse, TakeSection, SplitSection, TakeOversized, TakeInNext, TakeInCurrent,
                JoinSentence, CutSentence, EmbeddingFails, EndBlocks, EndSections, vars
  <2> QED BY <2>1, PathInvStutter
<1> QED BY <1>1, <1>2, <1>3, <1>4, <1>5, <1>6 DEF Next, Parse

\* The heading path of every section of a Markdown text (MarkdownParser._extract_sections) names
\* exactly the headings that enclose it, outermost first, for any text.
THEOREM PathsNameAncestors == Spec => []PathsAreAncestors
<1>1. PathInv => PathsAreAncestors
  BY DEF PathInv, SectionsOK, PathOK, PathsAreAncestors
<1> QED BY <1>1, PathInvInit, PathInvStep, PTL DEF Spec

-----------------------------------------------------------------------------
(* Sections tile the text *)

\* The block a section begins with: its heading, if it has one.
Lead(s) == IF s.path = << >> THEN s.first ELSE s.first - 1

SectionOK(s, n) ==
    /\ 1 <= Lead(s) /\ Lead(s) <= s.last /\ s.last < n
    /\ parser # "markdown" => s.path = << >>
    /\ parser = "markdown" =>
           /\ \A b \in s.first..s.last : text[b].level = 0
           /\ s.path # << >> => text[Lead(s)].level > 0

\* The sections ss are those of the blocks before n.
Tiling(ss, n) ==
    /\ \A i \in 1..Len(ss) :
          /\ SectionOK(ss[i], n)
          /\ Lead(ss[i]) = IF i = 1 THEN 1 ELSE ss[i - 1].last + 1
    /\ ss = << >> => n = 1
    /\ ss # << >> => ss[Len(ss)].last = n - 1

SectionsInv == PathInv /\ stack \in Seq(1..Len(text)) /\ Tiling(sections, next)

LEMMA SectionsInvInit == Init => SectionsInv
<1> SUFFICES ASSUME Init PROVE SectionsInv
  OBVIOUS
<1>1. PathInv
  BY PathInvInit
<1>2. sections = << >> /\ stack = << >> /\ next = 1 /\ Len(sections) = 0
  BY DEF Init
<1>3. Tiling(sections, next)
  BY <1>2 DEF Tiling
<1>4. stack \in Seq(1..Len(text))
  BY <1>2
<1> QED BY <1>1, <1>3, <1>4 DEF SectionsInv

LEMMA TilingRigid ==
    text' = text /\ parser' = parser => \A ss, n : Tiling(ss, n)' <=> Tiling(ss, n)
BY DEF Tiling, SectionOK, Lead

\* A section that begins with the next block and ends before the one that is next then.
LEMMA AppendTile ==
    ASSUME SectionsInv, NEW s \in SectionRecord, NEW n \in Nat, next < n, s.last = n - 1,
           Lead(s) = next, SectionOK(s, n)
    PROVE  Tiling(Append(sections, s), n)
<1> DEFINE ss == Append(sections, s)
<1>1. /\ sections \in Seq(SectionRecord) /\ Len(sections) \in Nat /\ next \in Nat
      /\ \A i \in 1..Len(sections) : sections[i] \in SectionRecord
  BY DEF SectionsInv, PathInv, ParserOK
<1>2. /\ Len(ss) = Len(sections) + 1
      /\ \A i \in 1..Len(sections) : ss[i] = sections[i]
      /\ ss[Len(sections) + 1] = s
  BY <1>1, Appended
<1> HIDE DEF ss
<1>3. ASSUME NEW i \in 1..Len(ss)
      PROVE  /\ SectionOK(ss[i], n)
             /\ Lead(ss[i]) = IF i = 1 THEN 1 ELSE ss[i - 1].last + 1
  <2>1. CASE i \in 1..Len(sections)
    <3>1. /\ SectionOK(sections[i], next)
          /\ Lead(sections[i]) = IF i = 1 THEN 1 ELSE sections[i - 1].last + 1
      BY <2>1 DEF SectionsInv, Tiling
    <3>2. ss[i] = sections[i] /\ (i # 1 => ss[i - 1] = sections[i - 1])
      BY <1>1, <1>2, <2>1
    <3>3. sections[i].last \in Nat
      BY <1>1, <2>1 DEF SectionRecord
    <3>4. SectionOK(sections[i], n)
      BY <1>1, <3>1, <3>3 DEF SectionOK
    <3> QED BY <3>1, <3>2, <3>4
  <2>2. CASE i = Len(sections) + 1
    <3>1. ss[i] = s
      BY <1>2, <2>2
    <3>2. CASE Len(sections) = 0
      <4>1. next = 1 /\ i = 1
        BY <1>1, <2>2, <3>2 DEF SectionsInv, Tiling
      <4> QED BY <3>1, <4>1
    <3>3. CASE Len(sections) # 0
      <4>1. sections # << >> /\ Len(sections) \in 1..Len(sections)
        BY <1>1, <3>3
      <4>2. sections[Len(sections)].last = next - 1
        BY <4>1 DEF SectionsInv, Tiling
      <4>3. ss[i - 1] = sections[Len(sections)] /\ i # 1
        BY <1>1, <1>2, <2>2, <3>3, <4>1
      <4>4. Lead(ss[i]) = ss[i - 1].last + 1
        BY <1>1, <3>1, <4>2, <4>3
      <4> QED BY <3>1, <4>3, <4>4
    <3> QED BY <3>2, <3>3
  <2> QED BY <1>1, <1>2, <2>1, <2>2
<1>4. ss # << >> /\ ss[Len(ss)].last = n - 1
  BY <1>1, <1>2 DEF ss
<1> QED BY <1>3, <1>4 DEF Tiling, ss

LEMMA ReadSectionTiles ==
    ASSUME SectionsInv, NEW n \in Nat \ {0}, next + n <= Len(text) + 1, ReadSection(n),
           parser = "markdown" => n = 1 /\ text[next].level = 0
    PROVE  Tiling(sections', next')
<1> DEFINE s == [first |-> next, last |-> next + n - 1, path |-> << >>]
<1>1. sections' = Append(sections, s) /\ next' = next + n
  BY DEF ReadSection
<1>2. next \in Nat /\ 1 <= next
  BY DEF SectionsInv, PathInv, ParserOK
<1>3. s \in SectionRecord /\ Lead(s) = next /\ s.first = next /\ s.last = next + n - 1
      /\ s.path = << >>
  BY <1>2 DEF SectionRecord, Lead
<1>4. s.last = next + n - 1 /\ next + n \in Nat /\ next < next + n /\ next <= s.last
      /\ s.last < next + n
  BY <1>1, <1>2, <1>3
<1> HIDE DEF s
<1>5. SectionOK(s, next + n)
  <2>1. parser = "markdown" => \A b \in s.first..s.last : b = next
    BY <1>2, <1>3
  <2> QED BY <1>2, <1>3, <1>4, <2>1 DEF SectionOK
<1>6. PICK m \in Nat : m = next + n
  BY <1>4
<1>7. s.last = m - 1 /\ next < m /\ SectionOK(s, m)
  BY <1>2, <1>4, <1>5, <1>6
<1>8. Tiling(Append(sections, s), m)
  BY <1>3, <1>7, AppendTile
<1> QED BY <1>1, <1>6, <1>8

LEMMA PushHeadingTiles ==
    ASSUME SectionsInv, PushHeading
    PROVE  Tiling(sections', next') /\ stack' \in Seq(1..Len(text))
<1> DEFINE s == [first |-> next + 1, last |-> next, path |-> stack']
<1>1. /\ parser = "markdown" /\ next <= Len(text) /\ text[next].level > 0
      /\ sections' = Append(sections, s) /\ next' = next + 1 /\ stack' = Append(stack, next)
  BY DEF PushHeading, Parsing
<1>2. next \in Nat /\ 1 <= next /\ stack \in Seq(1..Len(text)) /\ Len(text) \in Nat
      /\ stack \in Seq(Nat)
  BY TextBlocks DEF SectionsInv, PathInv, ParserOK
<1>3. stack' \in Seq(1..Len(text)) /\ stack' \in Seq(Nat) /\ stack' # << >>
  <2>1. next \in 1..Len(text)
    BY <1>1, <1>2
  <2> QED BY <1>1, <1>2, <2>1
<1>4. s \in SectionRecord /\ s.first = next + 1 /\ s.last = next /\ s.path = stack'
  BY <1>2, <1>3 DEF SectionRecord
<1> HIDE DEF s
<1>5. Lead(s) = next
  BY <1>2, <1>3, <1>4 DEF Lead
<1>6. \A b \in s.first..s.last : FALSE
  BY <1>2, <1>4
<1>7. s.last = next + 1 - 1 /\ next + 1 \in Nat /\ next < next + 1 /\ next <= s.last
      /\ s.last < next + 1
  BY <1>1, <1>2, <1>4
<1>8. SectionOK(s, next + 1)
  BY <1>1, <1>2, <1>5, <1>6, <1>7 DEF SectionOK
<1> QED BY <1>1, <1>3, <1>4, <1>5, <1>7, <1>8, AppendTile

LEMMA ReadBodyTiles ==
    ASSUME SectionsInv, ReadBody
    PROVE  Tiling(sections', next')
<1> DEFINE e == [sections[Len(sections)] EXCEPT !.last = next]
           n == Len(sections)
           ss == [sections EXCEPT ![n] = e]
<1>1. /\ parser = "markdown" /\ next <= Len(text) /\ text[next].level = 0
      /\ sections # << >> /\ next' = next + 1 /\ sections' = ss
  BY DEF ReadBody, Parsing
<1>2. /\ n \in 1..n /\ n \in Nat /\ sections \in Seq(SectionRecord)
      /\ \A i \in 1..n : sections[i] \in SectionRecord
      /\ next \in Nat
  BY <1>1 DEF SectionsInv, PathInv, ParserOK
<1>3. /\ e \in SectionRecord /\ e.first = sections[n].first /\ e.last = next
      /\ e.path = sections[n].path
  BY <1>2 DEF SectionRecord
<1>4. /\ ss \in Seq(SectionRecord) /\ Len(ss) = n
      /\ \A i \in 1..n : ss[i] = IF i = n THEN e ELSE sections[i]
  <2> HIDE DEF e
  <2> QED BY <1>1, <1>2, <1>3, ExceptSeq
<1> HIDE DEF e, ss
<1>5. Lead(e) = Lead(sections[n])
  BY <1>3 DEF Lead
<1>6. SectionOK(sections[n], next) /\ sections[n].last = next - 1 /\ sections[n].last \in Nat
      /\ sections[n].first \in Nat
  BY <1>1, <1>2 DEF SectionsInv, Tiling, SectionRecord
<1>7. SectionOK(e, next + 1)
  <2>1. \A b \in e.first..e.last : b \in sections[n].first..sections[n].last \/ b = next
    BY <1>2, <1>3, <1>6
  <2>2. \A b \in e.first..e.last : text[b].level = 0
    BY <1>1, <1>6, <2>1 DEF SectionOK
  <2>3. Lead(e) \in Int
    BY <1>3, <1>6 DEF Lead
  <2>4. 1 <= Lead(e) /\ Lead(e) <= e.last /\ e.last < next + 1
    BY <1>1, <1>2, <1>3, <1>5, <1>6, <2>3 DEF SectionOK
  <2>5. e.path # << >> => text[Lead(e)].level > 0
    BY <1>1, <1>3, <1>5, <1>6 DEF SectionOK
  <2> QED BY <1>1, <1>5, <2>2, <2>4, <2>5 DEF SectionOK
<1>8. ASSUME NEW i \in 1..n
      PROVE  /\ SectionOK(ss[i], next + 1)
             /\ Lead(ss[i]) = IF i = 1 THEN 1 ELSE ss[i - 1].last + 1
  <2>1. /\ SectionOK(sections[i], next)
        /\ Lead(sections[i]) = IF i = 1 THEN 1 ELSE sections[i - 1].last + 1
    BY DEF SectionsInv, Tiling
  <2>2. i # 1 => ss[i - 1] = sections[i - 1]
    BY <1>2, <1>4
  <2>3. CASE i = n
    BY <1>4, <1>5, <1>7, <2>1, <2>2, <2>3
  <2>4. CASE i # n
    <3>1. ss[i] = sections[i] /\ sections[i].last \in Nat
      BY <1>2, <1>4, <2>4 DEF SectionRecord
    <3>2. SectionOK(sections[i], next + 1)
      BY <1>1, <1>2, <2>1, <3>1 DEF SectionOK
    <3> QED BY <2>1, <2>2, <3>1, <3>2
  <2> QED BY <2>3, <2>4
<1>9. ss # << >> /\ ss[Len(ss)].last = next + 1 - 1
  <2>1. ss[n] = e
    BY <1>2, <1>4
  <2>2. next + 1 - 1 = next /\ ss # << >>
    BY <1>1, <1>2, <1>4
  <2> QED BY <1>3, <1>4, <2>1, <2>2
<1> HIDE DEF n
<1>10. Tiling(ss, next + 1)
  <2>1. \A i \in 1..Len(ss) :
           /\ SectionOK(ss[i], next + 1)
           /\ Lead(ss[i]) = IF i = 1 THEN 1 ELSE ss[i - 1].last + 1
    BY <1>4, <1>8
  <2>2. PICK m : m = next + 1
    OBVIOUS
  <2>3. /\ \A i \in 1..Len(ss) :
              /\ SectionOK(ss[i], m)
              /\ Lead(ss[i]) = IF i = 1 THEN 1 ELSE ss[i - 1].last + 1
        /\ ss # << >> /\ ss[Len(ss)].last = m - 1
    BY <1>2, <1>9, <2>1, <2>2
  <2>4. Tiling(ss, m)
    BY <2>3 DEF Tiling
  <2> QED BY <2>2, <2>4
<1> QED BY <1>1, <1>10

LEMMA SectionsInvStep == SectionsInv /\ [Next]_vars => SectionsInv'
<1> SUFFICES ASSUME SectionsInv, [Next]_vars PROVE SectionsInv'
  OBVIOUS
<1>1. PathInv'
  BY PathInvStep DEF SectionsInv
<1> SUFFICES /\ text' = text /\ parser' = parser /\ stack' \in Seq(1..Len(text))
             /\ Tiling(sections', next')
  <2> SUFFICES ASSUME text' = text, parser' = parser, stack' \in Seq(1..Len(text)),
                      Tiling(sections', next')
               PROVE  SectionsInv'
    OBVIOUS
  <2>1. Tiling(sections, next)'
    BY DEF Tiling, SectionOK, Lead
  <2> QED BY <1>1, <2>1 DEF SectionsInv
<1>2. CASE PushHeading
  BY <1>2, PushHeadingTiles DEF PushHeading, input
<1>3. CASE PopHeading
  <2>1. /\ text' = text /\ parser' = parser /\ next' = next /\ sections' = sections
        /\ stack # << >> /\ stack' = Front(stack)
    BY <1>3 DEF PopHeading, input
  <2>2. stack' \in Seq(1..Len(text))
    BY <2>1, Shortened DEF SectionsInv
  <2> QED BY <2>1, <2>2 DEF SectionsInv
<1>4. CASE ReadBody
  BY <1>4, ReadBodyTiles DEF ReadBody, input, SectionsInv
<1>5. CASE ReadPreamble \/ ReadParagraph \/ ReadItem
  <2>1. ReadSection(1) /\ next <= Len(text) /\ (parser = "markdown" => text[next].level = 0)
    BY <1>5 DEF ReadPreamble, ReadParagraph, ReadItem, Parsing
  <2>2. next + 1 <= Len(text) + 1
    BY <2>1, TextBlocks DEF SectionsInv, PathInv, ParserOK
  <2> QED BY <2>1, <2>2, ReadSectionTiles DEF ReadSection, input, SectionsInv
<1>6. CASE ReadPage
  <2>1. PICK n \in 1..(Len(text) + 1 - next) : ReadSection(n)
    BY <1>6 DEF ReadPage
  <2>2. n \in Nat \ {0} /\ next + n <= Len(text) + 1 /\ parser # "markdown"
    BY <1>6, TextBlocks DEF SectionsInv, PathInv, ParserOK, ReadPage, Parsing
  <2> QED BY <2>1, <2>2, ReadSectionTiles DEF ReadSection, input, SectionsInv
<1>7. CASE EndParse \/ TakeSection \/ SplitSection \/ TakeOversized \/ TakeInNext
           \/ TakeInCurrent \/ JoinSentence \/ CutSentence \/ EmbeddingFails
           \/ EndBlocks \/ EndSections \/ UNCHANGED vars
  <2>1. UNCHANGED <<input, parsed>>
    BY <1>7 DEF EndParse, TakeSection, SplitSection, TakeOversized, TakeInNext, TakeInCurrent,
                JoinSentence, CutSentence, EmbeddingFails, EndBlocks, EndSections, vars
  <2> QED BY <2>1 DEF SectionsInv, input, parsed
<1> QED BY <1>2, <1>3, <1>4, <1>5, <1>6, <1>7 DEF Next, Parse

\* Once the text is parsed the sections, one after the other, are all of its blocks.
LEMMA Tiles ==
    ASSUME SectionsInv, next = Len(text) + 1
    PROVE  /\ Len(sections) \in Nat /\ DOMAIN sections = 1..Len(sections) /\ text \in Texts
           /\ \A i \in 1..Len(sections) :
                 /\ sections[i].first \in Nat /\ sections[i].last \in 1..Len(text)
                 /\ Lead(sections[i]) \in 1..Len(text) /\ Lead(sections[i]) <= sections[i].last
                 /\ SectionOK(sections[i], Len(text) + 1)
                 /\ Lead(sections[i]) = IF i = 1 THEN 1 ELSE sections[i - 1].last + 1
           /\ sections = << >> => Len(text) = 0
           /\ sections # << >> => sections[Len(sections)].last = Len(text)
<1>1. /\ sections \in Seq(SectionRecord) /\ text \in Texts /\ Tiling(sections, Len(text) + 1)
  BY DEF SectionsInv, PathInv, ParserOK
<1>2. Len(sections) \in Nat /\ DOMAIN sections = 1..Len(sections) /\ Len(text) \in Nat
  BY <1>1, TextBlocks
<1>3. ASSUME NEW i \in 1..Len(sections)
      PROVE  /\ sections[i].first \in Nat /\ sections[i].last \in 1..Len(text)
             /\ Lead(sections[i]) \in 1..Len(text) /\ Lead(sections[i]) <= sections[i].last
             /\ SectionOK(sections[i], Len(text) + 1)
             /\ Lead(sections[i]) = IF i = 1 THEN 1 ELSE sections[i - 1].last + 1
  <2>1. /\ SectionOK(sections[i], Len(text) + 1)
        /\ Lead(sections[i]) = IF i = 1 THEN 1 ELSE sections[i - 1].last + 1
    BY <1>1 DEF Tiling
  <2>2. sections[i].first \in Nat /\ sections[i].last \in Nat
    <3>1. sections[i] \in SectionRecord
      BY <1>1
    <3> QED BY <3>1 DEF SectionRecord
  <2>3. Lead(sections[i]) \in Int
    BY <2>2 DEF Lead
  <2>4. /\ 1 <= Lead(sections[i]) /\ Lead(sections[i]) <= sections[i].last
        /\ sections[i].last < Len(text) + 1
    BY <2>1 DEF SectionOK
  <2> QED BY <1>2, <2>1, <2>2, <2>3, <2>4
<1>4. /\ sections = << >> => Len(text) = 0
      /\ sections # << >> => sections[Len(sections)].last = Len(text)
  BY <1>1, <1>2 DEF Tiling
<1> QED BY <1>1, <1>2, <1>3, <1>4

LEMMA SectionBounds ==
    ASSUME SectionsInv, next = Len(text) + 1, NEW i \in 1..Len(sections)
    PROVE  /\ SectionStart(sections[i]) = Offset(Lead(sections[i]))
           /\ SectionStart(sections[i]) \in Nat /\ SectionEnd(sections[i]) \in Nat
           /\ EndOf(sections[i].last) <= SectionEnd(sections[i])
           /\ SectionEnd(sections[i]) <= Offset(sections[i].last + 1)
<1>1. /\ text \in Texts /\ Len(text) \in Nat
      /\ sections[i].last \in 1..Len(text) /\ Lead(sections[i]) \in 1..Len(text)
  BY Tiles, TextBlocks
<1>2. SectionStart(sections[i]) = Offset(Lead(sections[i]))
  BY DEF SectionStart, Lead
<1>3. PICK l : l = sections[i].last
  OBVIOUS
<1>4. /\ EndOf(l) \in Nat /\ Offset(l + 1) \in Nat /\ EndOf(l) < Offset(l + 1)
      /\ Offset(Lead(sections[i])) \in Nat
  <2>1. l \in 1..Len(text) /\ l + 1 \in 1..(Len(text) + 1) /\ l < l + 1
        /\ Lead(sections[i]) \in 1..(Len(text) + 1)
    BY <1>1, <1>3
  <2> QED BY <1>1, <2>1, Offsets
<1>5. SectionEnd(sections[i]) \in {Offset(l + 1), EndOf(l)}
  BY <1>3 DEF SectionEnd
<1> QED BY <1>2, <1>3, <1>4, <1>5

\* Every block is in a section.
LEMMA BlockInSection ==
    ASSUME SectionsInv, next = Len(text) + 1, NEW b \in 1..Len(text)
    PROVE  \E i \in 1..Len(sections) : Lead(sections[i]) <= b /\ b <= sections[i].last
<1> DEFINE T == {i \in 1..Len(sections) : b <= sections[i].last}
<1>1. Len(text) \in Nat /\ Len(sections) \in Nat
  BY Tiles, TextBlocks
<1>2. sections # << >> /\ Len(sections) \in 1..Len(sections)
  <2>1. sections # << >>
    BY <1>1, Tiles
  <2>2. sections \in Seq(SectionRecord)
    BY DEF SectionsInv, PathInv, ParserOK
  <2> QED BY <1>1, <2>1, <2>2
<1>3. sections[Len(sections)].last = Len(text)
  BY <1>2, Tiles
<1>4. Len(sections) \in T /\ T \in SUBSET Nat
  BY <1>1, <1>2, <1>3
<1>5. PICK i \in T : \A j \in T : i <= j
  <2> HIDE DEF T
  <2> QED BY <1>4, Least
<1>6. Lead(sections[i]) <= b
  <2>1. CASE i = 1
    <3>1. Lead(sections[i]) = 1
      BY <1>2, <2>1, Tiles
    <3> QED BY <3>1
  <2>2. CASE i # 1
    <3>1. i - 1 \in 1..Len(sections) /\ i \in 1..Len(sections) /\ ~(i <= i - 1)
      BY <1>1, <2>2
    <3>2. i - 1 \notin T
      BY <1>5, <3>1
    <3>3. ~(b <= sections[i - 1].last) /\ sections[i - 1].last \in 1..Len(text)
      BY <3>1, <3>2, Tiles
    <3>4. Lead(sections[i]) = sections[i - 1].last + 1
      BY <2>2, <3>1, Tiles
    <3> QED BY <1>1, <3>3, <3>4
  <2> QED BY <2>1, <2>2
<1> QED BY <1>5, <1>6

LEMMA SectionAtType == ASSUME SectionsInv, NEW o PROVE SectionAt(o) \in Nat
<1> DEFINE in == {i \in DOMAIN sections :
                      SectionStart(sections[i]) <= o /\ o < SectionEnd(sections[i])}
<1>1. DOMAIN sections \in SUBSET Nat
  <2>1. sections \in Seq(SectionRecord)
    BY DEF SectionsInv, PathInv, ParserOK
  <2> QED BY <2>1
<1>2. in \in SUBSET Nat /\ SectionAt(o) = IF in = {} THEN 0 ELSE Min(in)
  BY <1>1 DEF SectionAt
<1> HIDE DEF in
<1>3. in # {} => Min(in) \in Nat
  BY <1>2, MinMember
<1> QED BY <1>2, <1>3

LEMMA BlockSpan ==
    ASSUME text \in Texts, NEW b \in 1..Len(text)
    PROVE  /\ Offset(b) \in Nat /\ EndOf(b) \in Nat /\ Offset(b) < EndOf(b)
           /\ Offset(b + 1) = EndOf(b) + 1 /\ EndOf(b) = Offset(b) + text[b].words
<1>1. PICK o, w, e : o = Offset(b) /\ w = text[b].words /\ e = EndOf(b)
  OBVIOUS
<1>2. b \in 1..(Len(text) + 1) /\ w \in Nat \ {0}
  BY <1>1, TextBlocks
<1>3. o \in Nat /\ e = o + w /\ Offset(b + 1) = e + 1
  BY <1>1, <1>2, Offsets
<1>4. e \in Nat /\ o < e
  BY <1>2, <1>3
<1> QED BY <1>1, <1>3, <1>4

LEMMA BlocksAscend ==
    ASSUME text \in Texts, NEW c \in 1..Len(text), NEW d \in 1..Len(text), c <= d
    PROVE  /\ Offset(c) \in Nat /\ Offset(d) \in Nat /\ EndOf(c) \in Nat /\ EndOf(d) \in Nat
           /\ Offset(c) <= Offset(d) /\ EndOf(c) <= EndOf(d)
<1>1. /\ Offset(c) \in Nat /\ EndOf(c) \in Nat /\ Offset(c) < EndOf(c)
      /\ Offset(d) \in Nat /\ EndOf(d) \in Nat /\ Offset(d) < EndOf(d)
  BY BlockSpan
<1>2. c < d => EndOf(c) < Offset(d)
  <2>1. d \in 1..(Len(text) + 1)
    BY TextBlocks
  <2> QED BY <2>1, Offsets
<1>3. c = d \/ c < d
  BY TextBlocks
<1> QED BY <1>1, <1>2, <1>3

\* The section of an offset inside a block is one that has the block.
LEMMA SectionOf ==
    ASSUME SectionsInv, next = Len(text) + 1, NEW b \in 1..Len(text), NEW o \in Nat,
           Offset(b) <= o, o < EndOf(b)
    PROVE  /\ SectionAt(o) \in 1..Len(sections)
           /\ SectionStart(sections[SectionAt(o)]) <= Offset(b)
           /\ EndOf(b) <= SectionEnd(sections[SectionAt(o)])
<1> DEFINE in == {i \in DOMAIN sections :
                      SectionStart(sections[i]) <= o /\ o < SectionEnd(sections[i])}
<1>1. /\ DOMAIN sections = 1..Len(sections) /\ Len(sections) \in Nat
      /\ text \in Texts /\ Len(text) \in Nat
  BY Tiles, TextBlocks
<1>2. in \in SUBSET Nat /\ SectionAt(o) = IF in = {} THEN 0 ELSE Min(in)
  BY <1>1 DEF SectionAt
<1>3. PICK i \in 1..Len(sections) : Lead(sections[i]) <= b /\ b <= sections[i].last
  BY BlockInSection
<1>4. ASSUME NEW c \in 1..Len(text), NEW d \in 1..Len(text), c <= d
      PROVE  /\ Offset(c) \in Nat /\ Offset(d) \in Nat /\ EndOf(c) \in Nat /\ EndOf(d) \in Nat
             /\ Offset(c) <= Offset(d) /\ EndOf(c) <= EndOf(d)
  BY <1>1, <1>4, BlocksAscend
<1>5. i \in in
  <2>1. Lead(sections[i]) \in 1..Len(text) /\ sections[i].last \in 1..Len(text)
    BY <1>3, Tiles
  <2>2. /\ Offset(Lead(sections[i])) <= Offset(b) /\ EndOf(b) <= EndOf(sections[i].last)
        /\ Offset(Lead(sections[i])) \in Nat /\ Offset(b) \in Nat /\ EndOf(b) \in Nat
        /\ EndOf(sections[i].last) \in Nat
    BY <1>3, <1>4, <2>1
  <2>3. /\ SectionStart(sections[i]) = Offset(Lead(sections[i]))
        /\ EndOf(sections[i].last) <= SectionEnd(sections[i])
        /\ SectionEnd(sections[i]) \in Nat
    BY <1>3, SectionBounds
  <2> QED BY <1>1, <1>3, <2>2, <2>3
<1>6. PICK s : s = SectionAt(o)
  OBVIOUS
<1>7. s \in in
  <2> HIDE DEF in
  <2> QED BY <1>2, <1>5, <1>6, MinMember
<1>8. s \in 1..Len(sections) /\ SectionStart(sections[s]) <= o /\ o < SectionEnd(sections[s])
  BY <1>1, <1>7
<1> HIDE DEF in
<1>9. /\ Lead(sections[s]) \in 1..Len(text) /\ sections[s].last \in 1..Len(text)
      /\ SectionStart(sections[s]) = Offset(Lead(sections[s]))
      /\ SectionEnd(sections[s]) \in Nat
      /\ EndOf(sections[s].last) <= SectionEnd(sections[s])
      /\ SectionEnd(sections[s]) <= Offset(sections[s].last + 1)
  BY <1>8, Tiles, SectionBounds
<1>10. PICK l, m \in 1..Len(text) : l = Lead(sections[s]) /\ m = sections[s].last
  BY <1>9
<1>11. l <= b
  <2> SUFFICES ASSUME ~(l <= b) PROVE FALSE
    OBVIOUS
  <2>1. b < l /\ l \in 1..(Len(text) + 1)
    BY <1>1, <1>10
  <2>2. EndOf(b) < Offset(l) /\ Offset(l) \in Nat /\ EndOf(b) \in Nat
    BY <1>1, <2>1, Offsets
  <2> QED BY <1>8, <1>9, <1>10, <2>2
<1>12. b <= m
  <2> SUFFICES ASSUME ~(b <= m) PROVE FALSE
    OBVIOUS
  <2>1. m + 1 \in 1..Len(text) /\ m + 1 <= b
    BY <1>1
  <2>2. Offset(m + 1) <= Offset(b) /\ Offset(m + 1) \in Nat /\ Offset(b) \in Nat
    BY <1>4, <2>1
  <2> QED BY <1>8, <1>9, <1>10, <2>2
<1>13. /\ Offset(l) <= Offset(b) /\ EndOf(b) <= EndOf(m)
       /\ EndOf(b) \in Nat /\ EndOf(m) \in Nat
  BY <1>4, <1>10, <1>11, <1>12, <1>3
<1> QED BY <1>6, <1>8, <1>9, <1>10, <1>13

-----------------------------------------------------------------------------
(* The loops over blocks *)

Looping(p) == p \in {"blocks", "failed"}
Stop(c) == IF chunker = "structure" THEN sections[c].last ELSE Len(text)
Floor(c) == IF chunker = "structure" THEN sections[c].first ELSE 1

\* The first block still to be chunked, in loop p, section c, with blocks r to be taken.
Ahead(p, c, r) ==
    IF Looping(p) THEN Stop(c) + 1 - Len(r)
    ELSE IF p = "sections" /\ c \in 1..Len(sections) THEN Lead(sections[c])
    ELSE IF p = "parse" THEN 1
    ELSE Len(text) + 1

\* The blocks bs are those from the n-th on.
From(bs, n) == \A i \in 1..Len(bs) : bs[i] = n + (i - 1)

\* What is to be taken are the blocks from Ahead on, and what is in the buffer the last
\* ones before it.
LoopOK(p, c, r, q) ==
    /\ p \in {"parse", "sections", "blocks", "failed", "done"}
    /\ p # "parse" => next = Len(text) + 1
    /\ p = "parse" => c = 1
    /\ p = "sections" => chunker = "structure"
    /\ p = "failed" => chunker = "semantic"
    /\ c \in 1..(Len(sections) + 1)
    /\ Looping(p) /\ chunker = "structure" => c \in 1..Len(sections)
    /\ r \in Seq(1..Len(text)) /\ q \in Seq(1..Len(text))
    /\ ~Looping(p) => r = << >> /\ q = << >>
    /\ Looping(p) =>
           /\ Floor(c) <= Ahead(p, c, r) - Len(q)
           /\ From(r, Ahead(p, c, r))
           /\ From(q, Ahead(p, c, r) - Len(q))

LEMMA FloorAndStop ==
    ASSUME SectionsInv, NEW p, NEW c, NEW r, NEW q, LoopOK(p, c, r, q), Looping(p)
    PROVE  Floor(c) \in Nat \ {0} /\ Stop(c) \in 0..Len(text) /\ Floor(c) <= Stop(c) + 1
           /\ Len(text) \in Nat
<1>1. next = Len(text) + 1 /\ text \in Texts
  BY DEF LoopOK, Looping, SectionsInv, PathInv
<1>2. Len(text) \in Nat
  BY <1>1, TextBlocks
<1>3. CASE chunker = "structure"
  <2>1. c \in 1..Len(sections) /\ Floor(c) = sections[c].first /\ Stop(c) = sections[c].last
    BY <1>3 DEF LoopOK, Floor, Stop
  <2>2. /\ sections[c].first \in Nat /\ sections[c].last \in 1..Len(text)
        /\ Lead(sections[c]) \in 1..Len(text) /\ Lead(sections[c]) <= sections[c].last
    BY <1>1, <2>1, Tiles
  <2>3. Lead(sections[c]) = sections[c].first \/ Lead(sections[c]) = sections[c].first - 1
    BY DEF Lead
  <2> QED BY <1>2, <2>1, <2>2, <2>3
<1>4. CASE chunker # "structure"
  BY <1>2, <1>4 DEF Floor, Stop
<1> QED BY <1>2, <1>3, <1>4

LEMMA AheadType ==
    ASSUME SectionsInv, NEW p, NEW c, NEW r, NEW q, LoopOK(p, c, r, q)
    PROVE  Ahead(p, c, r) \in 1..(Len(text) + 1) /\ Len(text) \in Nat
<1>1. text \in Texts /\ Len(text) \in Nat
  BY TextBlocks DEF SectionsInv, PathInv
<1>2. CASE Looping(p)
  <2>1. r \in Seq(1..Len(text)) /\ q \in Seq(1..Len(text)) /\ Len(r) \in Nat /\ Len(q) \in Nat
        /\ Ahead(p, c, r) = Stop(c) + 1 - Len(r) /\ Floor(c) <= Ahead(p, c, r) - Len(q)
    BY <1>2 DEF LoopOK, Ahead
  <2>2. Floor(c) \in Nat \ {0} /\ Stop(c) \in 0..Len(text)
    BY <1>2, FloorAndStop
  <2> QED BY <1>1, <2>1, <2>2
<1>3. CASE ~Looping(p)
  <2>1. CASE p = "sections" /\ c \in 1..Len(sections)
    <3>1. Ahead(p, c, r) = Lead(sections[c]) /\ next = Len(text) + 1
      BY <1>3, <2>1 DEF Ahead, LoopOK
    <3> QED BY <1>1, <2>1, <3>1, Tiles
  <2>2. CASE ~(p = "sections" /\ c \in 1..Len(sections))
    BY <1>1, <1>3, <2>2 DEF Ahead
  <2> QED BY <2>1, <2>2
<1> QED BY <1>1, <1>2, <1>3

LEMMA Dequeued ==
    ASSUME NEW S, NEW s \in Seq(S), s # << >>
    PROVE  /\ Tail(s) \in Seq(S) /\ Len(s) \in Nat \ {0} /\ Len(Tail(s)) = Len(s) - 1
           /\ Head(s) = s[1] /\ Head(s) \in S
           /\ \A i \in 1..(Len(s) - 1) : Tail(s)[i] = s[i + 1]
<1>1. Len(s) \in Nat \ {0}
  BY EmptySeq
<1> QED BY <1>1, HeadTailProperties

LEMMA Grown ==
    ASSUME NEW S, NEW q \in Seq(S), NEW a \in S, S \subseteq Int, From(q, a - Len(q))
    PROVE  From(Append(q, a), (a + 1) - Len(Append(q, a)))
<1>1. /\ Len(q) \in Nat /\ Len(Append(q, a)) = Len(q) + 1
      /\ \A i \in 1..Len(q) : Append(q, a)[i] = q[i]
      /\ Append(q, a)[Len(q) + 1] = a
  BY Appended
<1>2. (a + 1) - Len(Append(q, a)) = a - Len(q) /\ a \in Int
  BY <1>1
<1>3. ASSUME NEW i \in 1..(Len(q) + 1) PROVE Append(q, a)[i] = (a - Len(q)) + (i - 1)
  <2>1. CASE i \in 1..Len(q)
    <3>1. Append(q, a)[i] = q[i]
      BY <1>1, <2>1
    <3> QED BY <2>1, <3>1 DEF From
  <2>2. CASE i = Len(q) + 1
    BY <1>1, <1>2, <2>2
  <2> QED BY <1>1, <2>1, <2>2
<1> QED BY <1>1, <1>2, <1>3 DEF From

\* A turn of the loop takes the block ahead.
LEMMA TurnTakes ==
    ASSUME SectionsInv, NEW p, NEW c, NEW r, NEW q, LoopOK(p, c, r, q), p = "blocks", r # << >>
    PROVE  /\ Head(r) = Ahead(p, c, r) /\ Head(r) \in 1..Len(text)
           /\ Ahead(p, c, Tail(r)) = Head(r) + 1
           /\ Tail(r) \in Seq(1..Len(text)) /\ From(Tail(r), Head(r) + 1)
           /\ Floor(c) <= Head(r) - Len(q) /\ Floor(c) \in Nat \ {0} /\ Len(q) \in Nat
<1>1. Looping(p) /\ r \in Seq(1..Len(text)) /\ q \in Seq(1..Len(text)) /\ Len(q) \in Nat
      /\ From(r, Ahead(p, c, r)) /\ Floor(c) <= Ahead(p, c, r) - Len(q)
  BY DEF Looping, LoopOK
<1>2. Floor(c) \in Nat \ {0} /\ Stop(c) \in 0..Len(text) /\ Len(text) \in Nat
  BY <1>1, FloorAndStop
<1>3. /\ Tail(r) \in Seq(1..Len(text)) /\ Len(r) \in Nat \ {0} /\ Len(Tail(r)) = Len(r) - 1
      /\ Head(r) = r[1] /\ Head(r) \in 1..Len(text)
      /\ \A i \in 1..(Len(r) - 1) : Tail(r)[i] = r[i + 1]
  BY <1>1, Dequeued
<1>4. Ahead(p, c, r) \in Nat
  BY <1>2, AheadType
<1>5. r[1] = Ahead(p, c, r) + (1 - 1)
  <2>1. 1 \in 1..Len(r)
    BY <1>3
  <2> QED BY <1>1, <2>1 DEF From
<1>6. Head(r) = Ahead(p, c, r)
  BY <1>3, <1>4, <1>5
<1>7. Ahead(p, c, r) = Stop(c) + 1 - Len(r) /\ Ahead(p, c, Tail(r)) = Stop(c) + 1 - Len(Tail(r))
  BY <1>1 DEF Ahead
<1>8. Ahead(p, c, Tail(r)) = Head(r) + 1
  BY <1>2, <1>3, <1>6, <1>7
<1>9. ASSUME NEW i \in 1..Len(Tail(r)) PROVE Tail(r)[i] = (Head(r) + 1) + (i - 1)
  <2>1. i \in 1..(Len(r) - 1) /\ i + 1 \in 1..Len(r)
    BY <1>3
  <2>2. r[i + 1] = Ahead(p, c, r) + ((i + 1) - 1)
    BY <1>1, <2>1 DEF From
  <2> QED BY <1>3, <1>4, <1>6, <2>1, <2>2
<1>10. From(Tail(r), Head(r) + 1)
  BY <1>9 DEF From
<1> QED BY <1>1, <1>2, <1>3, <1>6, <1>8, <1>10

LEMMA TurnLeaves ==
    ASSUME SectionsInv, NEW p, NEW c, NEW r, NEW q, LoopOK(p, c, r, q), p = "blocks", r # << >>,
           NEW v \in Seq(1..Len(text)), Floor(c) <= (Head(r) + 1) - Len(v),
           From(v, (Head(r) + 1) - Len(v))
    PROVE  LoopOK(p, c, Tail(r), v)
<1>1. /\ Ahead(p, c, Tail(r)) = Head(r) + 1
      /\ Tail(r) \in Seq(1..Len(text)) /\ From(Tail(r), Head(r) + 1)
  BY TurnTakes
<1>2. /\ next = Len(text) + 1 /\ c \in 1..(Len(sections) + 1) /\ Looping(p)
      /\ chunker = "structure" => c \in 1..Len(sections)
  BY DEF LoopOK, Looping
<1>3. PICK a : a = Head(r) + 1
  OBVIOUS
<1>4. /\ Ahead(p, c, Tail(r)) = a /\ From(Tail(r), a)
      /\ Floor(c) <= a - Len(v) /\ From(v, a - Len(v))
  BY <1>1, <1>3
<1> QED BY <1>1, <1>2, <1>4 DEF LoopOK

\* What the buffer may hold after a turn.
LEMMA TurnShapes ==
    ASSUME SectionsInv, NEW p, NEW c, NEW r, NEW q, LoopOK(p, c, r, q), p = "blocks", r # << >>
    PROVE  /\ LoopOK(p, c, Tail(r), << >>)
           /\ LoopOK(p, c, Tail(r), Append(q, Head(r)))
           /\ LoopOK(p, c, Tail(r), <<Head(r)>>)
<1>1. /\ Head(r) = Ahead(p, c, r) /\ Head(r) \in 1..Len(text)
      /\ Floor(c) <= Head(r) - Len(q) /\ Floor(c) \in Nat \ {0} /\ Len(q) \in Nat
  BY TurnTakes
<1>2. q \in Seq(1..Len(text)) /\ Looping(p) /\ From(q, Ahead(p, c, r) - Len(q))
      /\ Len(text) \in Nat
  BY AheadType DEF LoopOK, Looping
<1>3. LoopOK(p, c, Tail(r), << >>)
  <2>1. Len(<< >>) = 0 /\ << >> \in Seq(1..Len(text))
    BY <1>2
  <2>2. From(<< >>, (Head(r) + 1) - Len(<< >>)) /\ Floor(c) <= (Head(r) + 1) - Len(<< >>)
    BY <1>1, <1>2, <2>1 DEF From
  <2> QED BY <2>1, <2>2, TurnLeaves
<1>4. LoopOK(p, c, Tail(r), Append(q, Head(r)))
  <2>1. From(Append(q, Head(r)), (Head(r) + 1) - Len(Append(q, Head(r))))
    BY <1>1, <1>2, Grown
  <2>2. /\ Append(q, Head(r)) \in Seq(1..Len(text))
        /\ Len(Append(q, Head(r))) = Len(q) + 1
    BY <1>1, <1>2, Appended
  <2>3. Floor(c) <= (Head(r) + 1) - Len(Append(q, Head(r)))
    BY <1>1, <1>2, <2>2
  <2>4. PICK v : v = Append(q, Head(r))
    OBVIOUS
  <2>5. v \in Seq(1..Len(text)) /\ Floor(c) <= (Head(r) + 1) - Len(v)
        /\ From(v, (Head(r) + 1) - Len(v))
    BY <2>1, <2>2, <2>3, <2>4
  <2>6. LoopOK(p, c, Tail(r), v)
    BY <2>5, TurnLeaves
  <2> QED BY <2>4, <2>6
<1>5. LoopOK(p, c, Tail(r), <<Head(r)>>)
  <2>1. <<Head(r)>> \in Seq(1..Len(text)) /\ Len(<<Head(r)>>) = 1 /\ <<Head(r)>>[1] = Head(r)
    BY <1>1
  <2>2. From(<<Head(r)>>, (Head(r) + 1) - 1) /\ Floor(c) <= (Head(r) + 1) - 1
    BY <1>1, <1>2, <2>1 DEF From
  <2> QED BY <2>1, <2>2, TurnLeaves
<1> QED BY <1>3, <1>4, <1>5

\* The last n members of a sequence.
LEMMA Tails ==
    ASSUME NEW S, NEW q \in Seq(S), NEW n \in 0..Len(q)
    PROVE  /\ SubSeq(q, Len(q) + 1 - n, Len(q)) \in Seq(S)
           /\ Len(SubSeq(q, Len(q) + 1 - n, Len(q))) = n
           /\ \A i \in 1..n : SubSeq(q, Len(q) + 1 - n, Len(q))[i] = q[Len(q) - n + i]
<1>1. PICK k \in Nat, l \in Nat : k = Len(q) /\ l = k + 1 - n /\ l >= 1
  OBVIOUS
<1>2. \A i \in l..k : q[i] \in S
  BY <1>1
<1>3. /\ SubSeq(q, l, k) \in Seq(S)
      /\ Len(SubSeq(q, l, k)) = IF l <= k THEN k - l + 1 ELSE 0
      /\ \A i \in 1..(k - l + 1) : SubSeq(q, l, k)[i] = q[l + i - 1]
  BY <1>1, <1>2, SubSeqProperties
<1>4. Len(SubSeq(q, l, k)) = n /\ k - l + 1 = n
  BY <1>1, <1>3
<1>5. \A i \in 1..n : l + i - 1 = k - n + i
  BY <1>1
<1> QED BY <1>1, <1>3, <1>4, <1>5

\* What the fixed-size chunker keeps are the last paragraphs, of at most the overlap.
LEMMA KeptFits ==
    ASSUME text \in Texts, parts \in Seq(1..Len(text)), chunker = "fixed"
    PROVE  /\ TokensIn(Kept) \in Nat /\ TokensIn(Kept) <= Overlap
           /\ \E n \in 0..Len(parts) : Kept = SubSeq(parts, Len(parts) + 1 - n, Len(parts))
<1> DEFINE tail(n) == SubSeq(parts, Len(parts) + 1 - n, Len(parts))
           T == {n \in 0..Len(parts) : TokensIn(tail(n)) <= Overlap}
<1>1. Len(parts) \in Nat /\ Overlap \in Nat
  BY SizeAssumption
<1>2. 0 \in T
  <2>1. 0 \in 0..Len(parts)
    BY <1>1
  <2>2. Len(tail(0)) = 0 /\ tail(0) \in Seq(1..Len(text))
    BY <2>1, Tails
  <2>3. tail(0) = << >>
    <3> HIDE DEF tail
    <3> QED BY <2>2, EmptySeq
  <2>4. TokensIn(tail(0)) = 0
    BY <2>3, SumsOfNone
  <2> QED BY <1>1, <2>1, <2>4
<1>3. T \in SUBSET Nat /\ \A n \in T : n <= Len(parts)
  BY <1>1
<1>4. Max(T) \in T
  <2> HIDE DEF T
  <2> QED BY <1>1, <1>2, <1>3, MaxMember
<1>5. Kept = tail(Max(T))
  BY DEF Kept
<1>6. PICK n \in 0..Len(parts) : n = Max(T) /\ TokensIn(tail(n)) <= Overlap
  BY <1>4
<1>7. tail(n) \in Seq(1..Len(text))
  BY <1>6, Tails
<1>8. TokensIn(tail(n)) \in Nat
  BY <1>7, Sums
<1> HIDE DEF T
<1> QED BY <1>5, <1>6, <1>8

LEMMA KeptShape ==
    ASSUME SectionsInv, LoopOK(pc, current, rest, parts), pc = "blocks", rest # << >>
    PROVE  /\ Kept \in Seq(1..Len(text)) /\ Len(Kept) \in Nat /\ Len(Kept) <= Len(parts)
           /\ From(Kept, Head(rest) - Len(Kept))
           /\ \A i \in 1..Len(Kept) : \E j \in 1..Len(parts) : Kept[i] = parts[j]
           /\ LoopOK(pc, current, Tail(rest), Append(Kept, Head(rest)))
           /\ chunker # "fixed" => Kept = << >>
<1>1. /\ Head(rest) = Ahead(pc, current, rest) /\ Head(rest) \in 1..Len(text)
      /\ Floor(current) <= Head(rest) - Len(parts) /\ Floor(current) \in Nat \ {0}
      /\ Len(parts) \in Nat
  BY TurnTakes
<1>2. /\ parts \in Seq(1..Len(text)) /\ From(parts, Head(rest) - Len(parts))
      /\ text \in Texts /\ Len(text) \in Nat
  BY <1>1, TextBlocks DEF LoopOK, Looping, SectionsInv, PathInv
<1>3. chunker # "fixed" => Kept = << >>
  BY DEF Kept
<1>4. PICK n \in 0..Len(parts) : Kept = SubSeq(parts, Len(parts) + 1 - n, Len(parts))
  <2>1. CASE chunker = "fixed"
    BY <1>2, <2>1, KeptFits
  <2>2. CASE chunker # "fixed"
    <3>1. 0 \in 0..Len(parts)
      BY <1>1
    <3>2. /\ Len(SubSeq(parts, Len(parts) + 1 - 0, Len(parts))) = 0
          /\ SubSeq(parts, Len(parts) + 1 - 0, Len(parts)) \in Seq(1..Len(text))
      BY <1>2, <3>1, Tails
    <3>3. SubSeq(parts, Len(parts) + 1 - 0, Len(parts)) = << >>
      BY <3>2, EmptySeq
    <3> QED BY <1>3, <2>2, <3>1, <3>3
  <2> QED BY <2>1, <2>2
<1>5. /\ Kept \in Seq(1..Len(text)) /\ Len(Kept) = n
      /\ \A i \in 1..n : Kept[i] = parts[Len(parts) - n + i]
  BY <1>2, <1>4, Tails
<1>6. PICK h \in Nat, k \in Nat : h = Head(rest) /\ k = Len(parts)
  BY <1>1, <1>2
<1>7. \A i \in 1..n : k - n + i \in 1..k /\ Kept[i] = parts[k - n + i]
  BY <1>1, <1>5, <1>6
<1>8. \A i \in 1..n : Kept[i] = (h - n) + (i - 1)
  <2> SUFFICES ASSUME NEW i \in 1..n PROVE Kept[i] = (h - n) + (i - 1)
    OBVIOUS
  <2>1. Kept[i] = (h - k) + ((k - n + i) - 1)
    BY <1>2, <1>6, <1>7 DEF From
  <2> QED BY SMTT(20), <1>6, <2>1
<1>9. From(Kept, Head(rest) - Len(Kept))
  BY <1>5, <1>6, <1>8 DEF From
<1>10. n <= Len(parts) /\ n \in Nat
  BY <1>1
<1>11. PICK v : v = Append(Kept, Head(rest))
  OBVIOUS
<1>12. v \in Seq(1..Len(text)) /\ Len(v) = n + 1
  BY <1>1, <1>5, <1>11, Appended
<1>13. From(v, (Head(rest) + 1) - Len(v))
  BY SMTT(20), <1>1, <1>5, <1>9, <1>11, <1>2, Grown
<1>14. Floor(current) <= (Head(rest) + 1) - Len(v)
  BY <1>1, <1>10, <1>12, <1>2
<1>15. LoopOK(pc, current, Tail(rest), v)
  BY <1>12, <1>13, <1>14, TurnLeaves
<1> QED BY <1>3, <1>5, <1>6, <1>7, <1>9, <1>10, <1>11, <1>15

-----------------------------------------------------------------------------
(* Loops and buffers, step by step *)

\* The buffer q, of t tokens, stays within what its chunk may have.
BufferOK(q, t) ==
    /\ chunker # "semantic" =>
           t = TokensIn(q) /\ \A i \in 1..Len(q) : TokensOf(q[i]) <= Size
    /\ chunker = "structure" => t <= Size
    /\ chunker = "fixed" => t <= Size + Overlap
    /\ chunker = "semantic" /\ Len(q) > 1 => EstimateTokens(Words(q)) <= SemanticSize

LEMMA BufferEmpty == BufferOK(<< >>, 0)
<1>1. Len(<< >>) = 0 /\ TokensIn(<< >>) = 0 /\ Size \in Nat /\ Overlap \in Nat
  BY SumsOfNone, SizeAssumption
<1> QED BY <1>1 DEF BufferOK

\* Another paragraph of at most the limit keeps the buffer within it.
LEMMA BufferGrows ==
    ASSUME text \in Texts, chunker \in {"structure", "fixed"}, NEW q \in Seq(1..Len(text)),
           NEW b \in 1..Len(text),
           \A i \in 1..Len(q) : TokensOf(q[i]) <= Size, TokensOf(b) <= Size,
           TokensIn(q) + TokensOf(b) <= Size
               \/ (chunker = "fixed" /\ TokensIn(q) <= Overlap)
    PROVE  BufferOK(Append(q, b), TokensIn(q) + TokensOf(b))
<1>1. /\ TokensIn(Append(q, b)) = TokensIn(q) + TokensOf(b)
      /\ TokensIn(q) \in Nat /\ TokensOf(b) \in Nat
      /\ Size \in Nat /\ Overlap \in Nat
  <2>1. TokensOf(b) \in Nat
    BY TextBlocks, Estimate DEF TokensOf
  <2> QED BY <2>1, Sums, SumsOfAppend, SizeAssumption
<1>2. \A i \in 1..Len(Append(q, b)) : TokensOf(Append(q, b)[i]) <= Size
  <2>1. /\ Len(q) \in Nat /\ Len(Append(q, b)) = Len(q) + 1
        /\ \A i \in 1..Len(q) : Append(q, b)[i] = q[i]
        /\ Append(q, b)[Len(q) + 1] = b
    BY Appended
  <2>2. \A i \in 1..(Len(q) + 1) : i \in 1..Len(q) \/ i = Len(q) + 1
    BY <2>1
  <2> HIDE DEF TokensOf
  <2> QED BY <2>1, <2>2
<1>3. chunker = "structure" => TokensIn(q) + TokensOf(b) <= Size
  OBVIOUS
<1>4. TokensIn(q) + TokensOf(b) <= Size + Overlap
  BY <1>1
<1> QED BY <1>1, <1>2, <1>3, <1>4 DEF BufferOK

LoopInv ==
    /\ SectionsInv /\ LoopOK(pc, current, rest, parts) /\ BufferOK(parts, tokens)
    /\ from \in 0..EndOfText
    /\ text \in Texts /\ chunker \in {"structure", "fixed", "semantic"}

LEMMA LoopRigid ==
    UNCHANGED <<input, parsed>> =>
        /\ \A p, c, r, q : LoopOK(p, c, r, q)' <=> LoopOK(p, c, r, q)
        /\ \A q, t : BufferOK(q, t)' <=> BufferOK(q, t)
        /\ \A b : Offset(b)' = Offset(b) /\ EndOf(b)' = EndOf(b)
        /\ EndOfText' = EndOfText
        /\ SectionsInv' <=> SectionsInv
<1> SUFFICES ASSUME UNCHANGED <<input, parsed>>
             PROVE  /\ \A p, c, r, q : LoopOK(p, c, r, q)' <=> LoopOK(p, c, r, q)
                    /\ \A q, t : BufferOK(q, t)' <=> BufferOK(q, t)
                    /\ \A b : Offset(b)' = Offset(b) /\ EndOf(b)' = EndOf(b)
                    /\ EndOfText' = EndOfText
                    /\ SectionsInv' <=> SectionsInv
  OBVIOUS
<1>1. /\ text' = text /\ parser' = parser /\ chunker' = chunker
      /\ next' = next /\ stack' = stack /\ sections' = sections
  BY DEF input, parsed
<1>2. \A p, c, r, q : LoopOK(p, c, r, q)' <=> LoopOK(p, c, r, q)
  BY <1>1 DEF LoopOK, Looping, Floor, Ahead, Stop, Lead, From
<1>3. \A q, t : BufferOK(q, t)' <=> BufferOK(q, t)
  BY <1>1 DEF BufferOK, TokensIn, TokensOf, Words, EstimateTokens, Total
<1>4. \A b : Offset(b)' = Offset(b)
  BY <1>1 DEF Offset, Total
<1>5. (\A b : EndOf(b)' = EndOf(b)) /\ EndOfText' = EndOfText
  BY <1>1, <1>4 DEF EndOf, EndOfText
<1>6. SectionsInv' <=> SectionsInv
  BY <1>1 DEF SectionsInv, Tiling, SectionOK, Lead, PathInv, ParserOK, StackIsOpen, SectionsOK,
              PathOK, OpenAfter, ClosedNext, Ancestors
<1> QED BY <1>2, <1>3, <1>4, <1>5, <1>6

LEMMA BlocksAre ==
    ASSUME NEW l \in Nat, NEW f \in 1..(l + 1), NEW n \in Nat, l <= n
    PROVE  /\ Blocks(f, l) \in Seq(1..n) /\ Len(Blocks(f, l)) = (l + 1) - f
           /\ From(Blocks(f, l), f)
           /\ (Blocks(f, l) = << >>) <=> (f = l + 1)
<1> DEFINE bs == Blocks(f, l)
<1>1. /\ bs = [i \in 1..((l + 1) - f) |-> f + (i - 1)]
      /\ (l + 1) - f \in Nat
      /\ \A i \in 1..((l + 1) - f) : f + (i - 1) \in 1..n
  <2>1. l + (1 - f) = (l + 1) - f
    OBVIOUS
  <2> QED BY <2>1 DEF Blocks
<1>2. bs \in Seq(1..n) /\ Len(bs) = (l + 1) - f
  <2> HIDE DEF bs
  <2>1. PICK k \in Nat : k = (l + 1) - f
    BY <1>1
  <2>2. bs = [i \in 1..k |-> f + (i - 1)] /\ \A i \in 1..k : f + (i - 1) \in 1..n
    BY <1>1, <2>1
  <2>3. bs \in Seq(1..n) /\ Len(bs) = k
    BY <2>2
  <2> QED BY <2>1, <2>3
<1>3. From(bs, f)
  BY <1>1, <1>2 DEF From
<1>4. bs = << >> <=> f = l + 1
  <2>1. bs = << >> <=> Len(bs) = 0
    <3> HIDE DEF bs
    <3> QED BY <1>2, EmptySeq
  <2> QED BY <1>2, <2>1
<1> QED BY <1>2, <1>3, <1>4

\* The blocks of a section.
LEMMA SectionBlocks ==
    ASSUME SectionsInv, next = Len(text) + 1, NEW c \in 1..Len(sections)
    PROVE  /\ sections[c].last \in 1..Len(text) /\ sections[c].first \in 1..(sections[c].last + 1)
           /\ Len(text) \in Nat
           /\ Blocks(sections[c].first, sections[c].last) \in Seq(1..Len(text))
           /\ Len(Blocks(sections[c].first, sections[c].last))
                  = (sections[c].last + 1) - sections[c].first
           /\ From(Blocks(sections[c].first, sections[c].last), sections[c].first)
           /\ (Blocks(sections[c].first, sections[c].last) = << >>)
                  <=> (sections[c].first = sections[c].last + 1)
<1> DEFINE s == sections[c]
<1>1. /\ s.first \in Nat /\ s.last \in 1..Len(text) /\ Len(text) \in Nat
      /\ Lead(s) \in 1..Len(text) /\ Lead(s) <= s.last
  BY Tiles, TextBlocks
<1>2. s.first \in 1..(s.last + 1)
  <2>1. Lead(s) = s.first \/ Lead(s) = s.first - 1
    BY DEF Lead
  <2> QED BY <1>1, <2>1
<1>3. PICK f, l : f = s.first /\ l = s.last
  OBVIOUS
<1>4. l \in Nat /\ f \in 1..(l + 1) /\ l <= Len(text)
  BY <1>1, <1>2, <1>3
<1>5. /\ Blocks(f, l) \in Seq(1..Len(text)) /\ Len(Blocks(f, l)) = (l + 1) - f
      /\ From(Blocks(f, l), f) /\ ((Blocks(f, l) = << >>) <=> (f = l + 1))
  BY <1>1, <1>4, BlocksAre
<1> QED BY <1>1, <1>2, <1>3, <1>5

\* From section to section, and to the blocks of one.
LEMMA LoopSections ==
    ASSUME SectionsInv, NEW p, NEW c, NEW r, NEW q, LoopOK(p, c, r, q), p = "sections",
           c \in 1..Len(sections)
    PROVE  /\ LoopOK("sections", c + 1, << >>, << >>)
           /\ LoopOK("blocks", c, Blocks(sections[c].first, sections[c].last), << >>)
           /\ Ahead(p, c, r) = Lead(sections[c])
           /\ Ahead("sections", c + 1, << >>) = sections[c].last + 1
           /\ Ahead("blocks", c, Blocks(sections[c].first, sections[c].last))
                  = sections[c].first
<1>1. /\ next = Len(text) + 1 /\ chunker = "structure"
      /\ Len(sections) \in Nat /\ text \in Texts /\ Len(text) \in Nat
  BY Tiles, TextBlocks DEF LoopOK
<1>2. /\ c + 1 \in 1..(Len(sections) + 1)
      /\ << >> \in Seq(1..Len(text)) /\ Len(<< >>) = 0
  BY <1>1
<1>3. Ahead(p, c, r) = Lead(sections[c])
  BY DEF Ahead, Looping
<1>4. LoopOK("sections", c + 1, << >>, << >>)
  BY <1>1, <1>2 DEF LoopOK, Looping
<1> DEFINE s == sections[c]
           bs == Blocks(s.first, s.last)
<1>5. /\ s.last \in 1..Len(text) /\ s.first \in 1..(s.last + 1)
      /\ bs \in Seq(1..Len(text)) /\ Len(bs) = (s.last + 1) - s.first /\ From(bs, s.first)
  BY <1>1, SectionBlocks
<1>6. Ahead("sections", c + 1, << >>) = s.last + 1
  <2>1. CASE c = Len(sections)
    <3>1. s.last = Len(text)
      <4>1. sections # << >>
        BY <2>1
      <4> QED BY <1>1, <2>1, <4>1, Tiles
    <3>2. c + 1 \notin 1..Len(sections)
      BY <1>1, <2>1
    <3> QED BY <3>1, <3>2 DEF Ahead, Looping
  <2>2. CASE c # Len(sections)
    <3>1. c + 1 \in 1..Len(sections) /\ c + 1 # 1 /\ (c + 1) - 1 = c
      BY <1>1, <2>2
    <3>2. Lead(sections[c + 1]) = sections[(c + 1) - 1].last + 1
      BY <1>1, <3>1, Tiles
    <3> QED BY <3>1, <3>2 DEF Ahead, Looping
  <2> QED BY <2>1, <2>2
<1>7. Ahead("blocks", c, bs) = s.first
  <2>1. Ahead("blocks", c, bs) = Stop(c) + 1 - Len(bs) /\ Stop(c) = s.last
    BY <1>1 DEF Ahead, Looping, Stop
  <2> HIDE DEF bs
  <2>2. PICK k \in Nat, l \in Nat, f \in Nat : k = Len(bs) /\ l = s.last /\ f = s.first
    BY <1>1, <1>5
  <2>3. k = (l + 1) - f /\ Ahead("blocks", c, bs) = l + 1 - k
    BY <1>5, <2>1, <2>2
  <2>4. l + 1 - k = f
    BY <2>2, <2>3
  <2> QED BY <2>2, <2>3, <2>4
<1>8. LoopOK("blocks", c, bs, << >>)
  <2>1. Floor(c) = s.first
    BY <1>1 DEF Floor
  <2>2. s.first - 0 = s.first /\ s.first <= s.first
    BY <1>5
  <2>3. Floor(c) <= s.first - Len(<< >>)
    BY <1>2, <2>1, <2>2
  <2>4. From(<< >>, s.first - Len(<< >>))
    BY <1>2 DEF From
  <2>5. PICK a : a = s.first
    OBVIOUS
  <2>6. /\ Floor(c) <= a - Len(<< >>) /\ From(<< >>, a - Len(<< >>)) /\ From(bs, a)
        /\ Ahead("blocks", c, bs) = a
    BY <1>5, <1>7, <2>3, <2>4, <2>5
  <2> HIDE DEF bs
  <2> QED BY <1>1, <1>2, <1>5, <2>6 DEF LoopOK, Looping
<1> QED BY <1>3, <1>4, <1>6, <1>7, <1>8

\* To the first section, or to the blocks of the text.
LEMMA LoopStarts ==
    ASSUME SectionsInv, next = Len(text) + 1
    PROVE  /\ chunker = "structure" => LoopOK("sections", 1, << >>, << >>)
           /\ chunker # "structure" => LoopOK("blocks", 1, Blocks(1, Len(text)), << >>)
           /\ chunker = "structure" => Ahead("sections", 1, << >>) = 1
           /\ chunker # "structure" => Ahead("blocks", 1, Blocks(1, Len(text))) = 1
<1>1. /\ Len(sections) \in Nat /\ Len(text) \in Nat
      /\ << >> \in Seq(1..Len(text)) /\ Len(<< >>) = 0
      /\ 1 \in 1..(Len(sections) + 1)
  BY Tiles, TextBlocks
<1>2. chunker = "structure" => LoopOK("sections", 1, << >>, << >>)
  BY <1>1 DEF LoopOK, Looping
<1>3. chunker = "structure" => Ahead("sections", 1, << >>) = 1
  <2>1. CASE sections = << >>
    <3>1. Len(text) = 0 /\ 1 \notin 1..Len(sections)
      BY <1>1, <2>1, Tiles
    <3> QED BY <3>1 DEF Ahead, Looping
  <2>2. CASE sections # << >>
    <3>1. 1 \in 1..Len(sections)
      <4>1. sections \in Seq(SectionRecord)
        BY DEF SectionsInv, PathInv, ParserOK
      <4> QED BY <1>1, <2>2, <4>1
    <3>2. Lead(sections[1]) = 1
      BY <3>1, Tiles
    <3> QED BY <3>1, <3>2 DEF Ahead, Looping
  <2> QED BY <2>1, <2>2
<1> DEFINE bs == Blocks(1, Len(text))
<1>4. bs \in Seq(1..Len(text)) /\ Len(bs) = (Len(text) + 1) - 1 /\ From(bs, 1)
  <2>1. 1 \in 1..(Len(text) + 1) /\ Len(text) <= Len(text)
    BY <1>1
  <2> QED BY <1>1, <2>1, BlocksAre
<1> HIDE DEF bs
<1>5. chunker # "structure" => Ahead("blocks", 1, bs) = 1
  <2> SUFFICES ASSUME chunker # "structure" PROVE Ahead("blocks", 1, bs) = 1
    OBVIOUS
  <2>1. Ahead("blocks", 1, bs) = Stop(1) + 1 - Len(bs) /\ Stop(1) = Len(text)
    BY DEF Ahead, Looping, Stop
  <2>2. Len(bs) = Len(text)
    BY <1>1, <1>4
  <2> QED BY <1>1, <2>1, <2>2
<1>6. chunker # "structure" => LoopOK("blocks", 1, bs, << >>)
  <2> SUFFICES ASSUME chunker # "structure" PROVE LoopOK("blocks", 1, bs, << >>)
    OBVIOUS
  <2>1. Ahead("blocks", 1, bs) = 1 /\ Floor(1) = 1
    BY <1>5 DEF Floor
  <2>2. From(<< >>, 1 - Len(<< >>)) /\ 1 <= 1 - Len(<< >>)
    BY <1>1 DEF From
  <2> QED BY <1>1, <1>4, <2>1, <2>2 DEF LoopOK, Looping
<1> QED BY <1>2, <1>3, <1>5, <1>6 DEF bs

\* After the last block.
LEMMA LoopEnds ==
    ASSUME SectionsInv, NEW p, NEW c, NEW q, LoopOK(p, c, << >>, q), p = "blocks"
    PROVE  /\ chunker = "structure" =>
                  /\ LoopOK("sections", c + 1, << >>, << >>)
                  /\ Ahead("sections", c + 1, << >>) = Ahead(p, c, << >>)
           /\ chunker # "structure" =>
                  /\ LoopOK("done", c, << >>, << >>)
                  /\ Ahead("done", c, << >>) = Ahead(p, c, << >>)
<1>1. /\ Looping(p) /\ next = Len(text) + 1 /\ c \in 1..(Len(sections) + 1)
      /\ << >> \in Seq(1..Len(text)) /\ Len(<< >>) = 0
      /\ Len(sections) \in Nat /\ Len(text) \in Nat
  <2>1. next = Len(text) + 1
    BY DEF LoopOK
  <2> QED BY <2>1, Tiles, TextBlocks DEF LoopOK, Looping
<1>2. Ahead(p, c, << >>) = Stop(c) + 1
  <2>1. Stop(c) \in Nat
    BY <1>1, FloorAndStop
  <2> QED BY <1>1, <2>1 DEF Ahead
<1>3. CASE chunker = "structure"
  <2>1. c \in 1..Len(sections) /\ Stop(c) = sections[c].last
    BY <1>1, <1>3 DEF LoopOK, Stop
  <2>2. LoopOK("sections", c, << >>, << >>)
    BY <1>1, <1>3 DEF LoopOK, Looping
  <2>3. /\ LoopOK("sections", c + 1, << >>, << >>)
        /\ Ahead("sections", c + 1, << >>) = sections[c].last + 1
    BY <2>1, <2>2, LoopSections
  <2> QED BY <1>2, <1>3, <2>1, <2>3
<1>4. CASE chunker # "structure"
  <2>1. LoopOK("done", c, << >>, << >>)
    BY <1>1, <1>4 DEF LoopOK, Looping
  <2>2. Stop(c) = Len(text) /\ Ahead("done", c, << >>) = Len(text) + 1
    BY <1>4 DEF Stop, Ahead, Looping
  <2> QED BY <1>2, <1>4, <2>1, <2>2
<1> QED BY <1>3, <1>4

\* After the last section.
LEMMA LoopDone ==
    ASSUME SectionsInv, NEW p, NEW c, NEW r, NEW q, LoopOK(p, c, r, q), p = "sections",
           c > Len(sections)
    PROVE  LoopOK("done", c, r, q) /\ Ahead("done", c, r) = Ahead(p, c, r)
<1>1. next = Len(text) + 1 /\ Len(sections) \in Nat /\ c \in 1..(Len(sections) + 1)
  <2>1. next = Len(text) + 1
    BY DEF LoopOK
  <2> QED BY <2>1, Tiles DEF LoopOK
<1>2. c \notin 1..Len(sections)
  BY <1>1
<1>3. Ahead("done", c, r) = Ahead(p, c, r)
  BY <1>2 DEF Ahead, Looping
<1>4. LoopOK("done", c, r, q)
  BY <1>1 DEF LoopOK, Looping
<1> QED BY <1>3, <1>4

LEMMA LoopInvInit == Init => LoopInv
<1> SUFFICES ASSUME Init PROVE LoopInv
  OBVIOUS
<1>1. SectionsInv /\ text \in Texts
  BY SectionsInvInit DEF Init
<1>2. /\ pc = "parse" /\ current = 1 /\ rest = << >> /\ parts = << >> /\ tokens = 0 /\ from = 0
      /\ sections = << >> /\ chunker \in {"structure", "fixed", "semantic"}
  BY DEF Init
<1>3. << >> \in Seq(1..Len(text)) /\ Len(<< >>) = 0
  OBVIOUS
<1>4. LoopOK("parse", 1, << >>, << >>)
  <2>1. 1 \in 1..(Len(sections) + 1)
    BY <1>2, <1>3
  <2> QED BY <1>3, <2>1 DEF LoopOK, Looping
<1>5. 0 \in 0..EndOfText
  BY <1>1, Offsets
<1> QED BY <1>1, <1>2, <1>4, <1>5, BufferEmpty DEF LoopInv

\* A step of a loop, or an idle one.
LEMMA LoopKept ==
    ASSUME LoopInv, UNCHANGED <<input, parsed>>,
           LoopOK(pc', current', rest', parts'), BufferOK(parts', tokens'), from' \in 0..EndOfText
    PROVE  LoopInv'
<1>1. LoopOK(pc, current, rest, parts)' /\ BufferOK(parts, tokens)'
  BY LoopRigid
<1>2. SectionsInv' /\ EndOfText' = EndOfText
  BY LoopRigid DEF LoopInv
<1>3. text' = text /\ chunker' = chunker
  BY DEF input
<1> QED BY <1>1, <1>2, <1>3 DEF LoopInv

LEMMA TakeOversizedLoop == LoopInv /\ TakeOversized => LoopInv'
<1> SUFFICES ASSUME LoopInv, TakeOversized PROVE LoopInv'
  OBVIOUS
<1>1. /\ pc = "blocks" /\ rest # << >> /\ pc' = pc /\ current' = current
      /\ rest' = Tail(rest) /\ parts' = << >> /\ tokens' = 0 /\ from' = EndOf(Head(rest))
      /\ UNCHANGED <<input, parsed>>
  BY DEF TakeOversized, Turn
<1>2. SectionsInv /\ LoopOK(pc, current, rest, parts) /\ text \in Texts
  BY DEF LoopInv
<1>3. LoopOK(pc, current, Tail(rest), << >>) /\ Head(rest) \in 1..Len(text)
  BY <1>1, <1>2, TurnShapes, TurnTakes
<1>4. EndOf(Head(rest)) \in 0..EndOfText
  <2>1. EndOf(Head(rest)) \in Nat /\ EndOf(Head(rest)) <= EndOfText /\ EndOfText \in Nat
    BY <1>2, <1>3, Offsets
  <2> QED BY <2>1
<1> QED BY <1>1, <1>3, <1>4, BufferEmpty, LoopKept

LEMMA HeadOffset ==
    ASSUME LoopInv, pc = "blocks", rest # << >>
    PROVE  /\ Head(rest) \in 1..Len(text) /\ Offset(Head(rest)) \in 0..EndOfText
           /\ parts \in Seq(1..Len(text)) /\ text \in Texts
<1>1. SectionsInv /\ LoopOK(pc, current, rest, parts) /\ text \in Texts
  BY DEF LoopInv
<1>2. Head(rest) \in 1..Len(text) /\ parts \in Seq(1..Len(text))
  BY <1>1, TurnTakes DEF LoopOK
<1>3. /\ Offset(Head(rest)) \in Nat /\ Offset(Head(rest)) <= EndOfText /\ EndOfText \in Nat
  BY <1>1, <1>2, Offsets, BlockSpan
<1> QED BY <1>1, <1>2, <1>3

LEMMA TakeInNextLoop == LoopInv /\ TakeInNext => LoopInv'
<1> SUFFICES ASSUME LoopInv, TakeInNext PROVE LoopInv'
  OBVIOUS
<1>1. /\ pc = "blocks" /\ rest # << >> /\ pc' = pc /\ current' = current
      /\ chunker # "semantic" /\ TokensOf(Head(rest)) <= Size
      /\ rest' = Tail(rest) /\ parts' = Append(Kept, Head(rest))
      /\ tokens' = TokensIn(Kept) + TokensOf(Head(rest)) /\ from' = Offset(Head(rest))
      /\ UNCHANGED <<input, parsed>>
  BY DEF TakeInNext, Turn
<1>2. /\ SectionsInv /\ LoopOK(pc, current, rest, parts) /\ text \in Texts
      /\ BufferOK(parts, tokens) /\ chunker \in {"structure", "fixed"}
  BY <1>1 DEF LoopInv
<1>3. /\ Head(rest) \in 1..Len(text) /\ Offset(Head(rest)) \in 0..EndOfText
      /\ parts \in Seq(1..Len(text))
  BY <1>1, HeadOffset
<1>4. /\ Kept \in Seq(1..Len(text)) /\ Len(Kept) \in Nat
      /\ LoopOK(pc, current, Tail(rest), Append(Kept, Head(rest)))
      /\ \A i \in 1..Len(Kept) : \E j \in 1..Len(parts) : Kept[i] = parts[j]
      /\ chunker # "fixed" => Kept = << >>
  BY <1>1, <1>2, KeptShape
<1>5. \A i \in 1..Len(Kept) : TokensOf(Kept[i]) <= Size
  BY <1>1, <1>2, <1>4 DEF BufferOK
<1>6. \/ TokensIn(Kept) + TokensOf(Head(rest)) <= Size
      \/ chunker = "fixed" /\ TokensIn(Kept) <= Overlap
  <2>1. CASE chunker = "fixed"
    BY <1>2, <1>3, <2>1, KeptFits
  <2>2. CASE chunker # "fixed"
    <3>1. TokensIn(Kept) = 0
      BY <1>4, <2>2, SumsOfNone
    <3>2. TokensOf(Head(rest)) \in Nat
      BY <1>2, <1>3, TextBlocks, Estimate DEF TokensOf
    <3> QED BY <1>1, <3>1, <3>2
  <2> QED BY <2>1, <2>2
<1>7. BufferOK(Append(Kept, Head(rest)), TokensIn(Kept) + TokensOf(Head(rest)))
  BY <1>1, <1>2, <1>3, <1>4, <1>5, <1>6, BufferGrows
<1> QED BY <1>1, <1>3, <1>4, <1>7, LoopKept

LEMMA TakeInCurrentLoop == LoopInv /\ TakeInCurrent => LoopInv'
<1> SUFFICES ASSUME LoopInv, TakeInCurrent PROVE LoopInv'
  OBVIOUS
<1>1. /\ pc = "blocks" /\ rest # << >> /\ pc' = pc /\ current' = current
      /\ chunker # "semantic" /\ TokensOf(Head(rest)) <= Size
      /\ parts = << >> \/ tokens + TokensOf(Head(rest)) <= Size
      /\ rest' = Tail(rest) /\ parts' = Append(parts, Head(rest))
      /\ tokens' = tokens + TokensOf(Head(rest)) /\ from' = from
      /\ UNCHANGED <<input, parsed>>
  BY DEF TakeInCurrent, Turn
<1>2. /\ SectionsInv /\ LoopOK(pc, current, rest, parts) /\ text \in Texts
      /\ BufferOK(parts, tokens) /\ chunker \in {"structure", "fixed"} /\ from \in 0..EndOfText
  BY <1>1 DEF LoopInv
<1>3. Head(rest) \in 1..Len(text) /\ parts \in Seq(1..Len(text))
  BY <1>1, HeadOffset
<1>4. LoopOK(pc, current, Tail(rest), Append(parts, Head(rest)))
  BY <1>1, <1>2, TurnShapes
<1>5. tokens = TokensIn(parts) /\ \A i \in 1..Len(parts) : TokensOf(parts[i]) <= Size
  BY <1>1, <1>2 DEF BufferOK
<1>6. TokensIn(parts) + TokensOf(Head(rest)) <= Size
  <2>1. CASE parts = << >>
    <3>1. TokensIn(parts) = 0
      BY <2>1, SumsOfNone
    <3>2. TokensOf(Head(rest)) \in Nat
      BY <1>2, <1>3, TextBlocks, Estimate DEF TokensOf
    <3> QED BY <1>1, <3>1, <3>2
  <2>2. CASE parts # << >>
    BY <1>1, <1>5, <2>2
  <2> QED BY <2>1, <2>2
<1>7. BufferOK(Append(parts, Head(rest)), TokensIn(parts) + TokensOf(Head(rest)))
  BY <1>1, <1>2, <1>3, <1>5, <1>6, BufferGrows
<1>8. BufferOK(parts', tokens')
  BY <1>1, <1>5, <1>7
<1> QED BY <1>1, <1>2, <1>4, <1>8, LoopKept

LEMMA JoinSentenceLoop == LoopInv /\ JoinSentence => LoopInv'
<1> SUFFICES ASSUME LoopInv, JoinSentence PROVE LoopInv'
  OBVIOUS
<1>1. /\ pc = "blocks" /\ rest # << >> /\ pc' = pc /\ current' = current
      /\ chunker = "semantic"
      /\ parts # << >> => EstimateTokens(Words(Append(parts, Head(rest)))) <= SemanticSize
      /\ rest' = Tail(rest) /\ parts' = Append(parts, Head(rest))
      /\ tokens' = tokens /\ from' = from
      /\ UNCHANGED <<input, parsed>>
  BY DEF JoinSentence, Turn
<1>2. SectionsInv /\ LoopOK(pc, current, rest, parts) /\ from \in 0..EndOfText
  BY DEF LoopInv
<1>3. Head(rest) \in 1..Len(text) /\ parts \in Seq(1..Len(text))
  BY <1>1, HeadOffset
<1>4. LoopOK(pc, current, Tail(rest), Append(parts, Head(rest)))
  BY <1>1, <1>2, TurnShapes
<1>5. BufferOK(Append(parts, Head(rest)), tokens)
  <2>1. parts = << >> => ~(Len(Append(parts, Head(rest))) > 1)
    <3>1. parts = << >> => Len(parts) = 0
      OBVIOUS
    <3> QED BY <1>3, <3>1, Appended
  <2> QED BY <1>1, <2>1 DEF BufferOK
<1> QED BY <1>1, <1>2, <1>4, <1>5, LoopKept

LEMMA CutSentenceLoop == LoopInv /\ CutSentence => LoopInv'
<1> SUFFICES ASSUME LoopInv, CutSentence PROVE LoopInv'
  OBVIOUS
<1>1. /\ pc = "blocks" /\ rest # << >> /\ pc' = pc /\ current' = current
      /\ chunker = "semantic" /\ rest' = Tail(rest) /\ parts' = <<Head(rest)>>
      /\ tokens' = tokens /\ from' = from
      /\ UNCHANGED <<input, parsed>>
  BY DEF CutSentence, Turn
<1>2. SectionsInv /\ LoopOK(pc, current, rest, parts) /\ from \in 0..EndOfText
  BY DEF LoopInv
<1>3. LoopOK(pc, current, Tail(rest), <<Head(rest)>>)
  BY <1>1, <1>2, TurnShapes
<1>4. BufferOK(<<Head(rest)>>, tokens)
  <2>1. ~(Len(<<Head(rest)>>) > 1)
    OBVIOUS
  <2> QED BY <1>1, <2>1 DEF BufferOK
<1> QED BY <1>1, <1>2, <1>3, <1>4, LoopKept

LEMMA SectionsLoop == LoopInv /\ (EndParse \/ TakeSection \/ SplitSection \/ EndSections) => LoopInv'
<1> SUFFICES ASSUME LoopInv, EndParse \/ TakeSection \/ SplitSection \/ EndSections
             PROVE  LoopInv'
  OBVIOUS
<1>1. /\ UNCHANGED <<input, parsed>> /\ UNCHANGED buffer
      /\ parts' = parts /\ tokens' = tokens /\ from' = from
  BY DEF EndParse, TakeSection, SplitSection, EndSections, buffer
<1>2. /\ SectionsInv /\ LoopOK(pc, current, rest, parts) /\ text \in Texts
      /\ BufferOK(parts, tokens) /\ from \in 0..EndOfText
  BY DEF LoopInv
<1> SUFFICES LoopOK(pc', current', rest', parts')
  BY <1>1, <1>2, LoopKept
<1>3. CASE EndParse
  <2>1. pc = "parse" /\ next > Len(text) /\ current' = current
    BY <1>3 DEF EndParse
  <2>2. current = 1 /\ parts = << >> /\ rest = << >>
    BY <1>2, <2>1 DEF LoopOK, Looping
  <2>3. next = Len(text) + 1
    BY <1>2, <2>1, TextBlocks DEF SectionsInv, PathInv, ParserOK
  <2>4. CASE chunker = "structure"
    <3>1. pc' = "sections" /\ rest' = rest
      BY <1>3, <2>4 DEF EndParse
    <3> QED BY <1>1, <1>2, <2>1, <2>2, <2>3, <2>4, <3>1, LoopStarts
  <2>5. CASE chunker # "structure"
    <3>1. pc' = "blocks" /\ rest' = Blocks(1, Len(text))
      BY <1>3, <2>5 DEF EndParse
    <3> QED BY <1>1, <1>2, <2>1, <2>2, <2>3, <2>5, <3>1, LoopStarts
  <2> QED BY <2>4, <2>5
<1>4. CASE TakeSection \/ SplitSection \/ EndSections
  <2>1. pc = "sections"
    BY <1>4 DEF TakeSection, SplitSection, EndSections
  <2>2. /\ parts = << >> /\ rest = << >> /\ next = Len(text) + 1
        /\ current \in 1..(Len(sections) + 1)
    BY <1>2, <2>1 DEF LoopOK, Looping
  <2>3. Len(sections) \in Nat
    BY <1>2, <2>2, Tiles
  <2>4. CASE TakeSection
    <3>1. current <= Len(sections) /\ pc' = pc /\ current' = current + 1 /\ rest' = rest
      BY <2>4 DEF TakeSection
    <3>2. current \in 1..Len(sections)
      BY <2>2, <2>3, <3>1
    <3> QED BY <1>1, <1>2, <2>1, <2>2, <3>1, <3>2, LoopSections
  <2>5. CASE SplitSection
    <3>1. /\ current <= Len(sections) /\ pc' = "blocks" /\ current' = current
          /\ rest' = Blocks(sections[current].first, sections[current].last)
      BY <2>5 DEF SplitSection
    <3>2. current \in 1..Len(sections)
      BY <2>2, <2>3, <3>1
    <3> QED BY <1>1, <1>2, <2>1, <2>2, <3>1, <3>2, LoopSections
  <2>6. CASE EndSections
    <3>1. current > Len(sections) /\ pc' = "done" /\ current' = current /\ rest' = rest
      BY <2>6 DEF EndSections
    <3> QED BY <1>1, <1>2, <2>1, <3>1, LoopDone
  <2> QED BY <1>4, <2>4, <2>5, <2>6
<1> QED BY <1>3, <1>4

LEMMA EndsLoop == LoopInv /\ (EndBlocks \/ EmbeddingFails) => LoopInv'
<1> SUFFICES ASSUME LoopInv, EndBlocks \/ EmbeddingFails PROVE LoopInv'
  OBVIOUS
<1>1. /\ SectionsInv /\ LoopOK(pc, current, rest, parts) /\ text \in Texts
      /\ BufferOK(parts, tokens) /\ from \in 0..EndOfText
  BY DEF LoopInv
<1>2. CASE EndBlocks
  <2>1. /\ pc = "blocks" /\ rest = << >> /\ rest' = rest /\ parts' = << >> /\ tokens' = 0
        /\ from' = from /\ UNCHANGED <<input, parsed>>
        /\ chunker = "structure" => pc' = "sections" /\ current' = current + 1
        /\ chunker # "structure" => pc' = "done" /\ current' = current
    BY <1>2 DEF EndBlocks
  <2>2. LoopOK(pc, current, << >>, parts)
    BY <1>1, <2>1
  <2>3. LoopOK(pc', current', rest', << >>)
    BY <1>1, <2>1, <2>2, LoopEnds
  <2> QED BY <1>1, <2>1, <2>3, BufferEmpty, LoopKept
<1>3. CASE EmbeddingFails
  <2>1. /\ pc = "blocks" /\ chunker = "semantic" /\ pc' = "failed"
        /\ current' = current /\ rest' = rest /\ parts' = parts /\ tokens' = tokens
        /\ from' = from /\ UNCHANGED <<input, parsed>>
    BY <1>3 DEF EmbeddingFails, Turn, buffer
  <2>2. \A c, r : Ahead("failed", c, r) = Ahead("blocks", c, r)
    BY DEF Ahead, Looping
  <2>3. LoopOK("failed", current, rest, parts)
    BY <1>1, <2>1, <2>2 DEF LoopOK, Looping
  <2> QED BY <1>1, <2>1, <2>3, LoopKept
<1> QED BY <1>2, <1>3

LEMMA LoopInvStep == LoopInv /\ [Next]_vars => LoopInv'
<1> SUFFICES ASSUME LoopInv, [Next]_vars PROVE LoopInv'
  OBVIOUS
<1>1. CASE TakeOversized BY <1>1, TakeOversizedLoop
<1>2. CASE TakeInNext BY <1>2, TakeInNextLoop
<1>3. CASE TakeInCurrent BY <1>3, TakeInCurrentLoop
<1>4. CASE JoinSentence BY <1>4, JoinSentenceLoop
<1>5. CASE CutSentence BY <1>5, CutSentenceLoop
<1>6. CASE EndParse \/ TakeSection \/ SplitSection \/ EndSections BY <1>6, SectionsLoop
<1>7. CASE EndBlocks \/ EmbeddingFails BY <1>7, EndsLoop
<1>8. CASE UNCHANGED vars
  <2>1. UNCHANGED <<input, parsed>> /\ UNCHANGED <<pc, current, rest, parts, tokens, from>>
    BY <1>8 DEF vars, buffer
  <2> QED BY <2>1, LoopKept DEF LoopInv
<1>9. CASE PopHeading \/ PushHeading \/ ReadPreamble \/ ReadBody
           \/ ReadParagraph \/ ReadItem \/ ReadPage
  <2>1. /\ pc = "parse" /\ text' = text /\ parser' = parser /\ chunker' = chunker
        /\ UNCHANGED <<pc, current, rest, parts, tokens, from>>
    BY <1>9 DEF PopHeading, PushHeading, ReadPreamble, ReadBody, ReadParagraph, ReadItem,
                ReadPage, ReadSection, Parsing, ChunkerUnchanged, buffer, input
  <2>2. SectionsInv'
    BY SectionsInvStep DEF LoopInv
  <2>3. current = 1 /\ rest = << >> /\ parts = << >>
    BY <2>1 DEF LoopInv, LoopOK, Looping
  <2>4. 1 \in 1..(Len(sections') + 1)
    <3>1. Len(sections') \in Nat
      BY <2>2 DEF SectionsInv, PathInv, ParserOK
    <3> QED BY <3>1
  <2>5. LoopOK("parse", 1, << >>, << >>)'
    <3>1. << >> \in Seq(1..Len(text'))
      OBVIOUS
    <3> QED BY <2>4, <3>1 DEF LoopOK, Looping
  <2>6. BufferOK(parts, tokens)' /\ EndOfText' = EndOfText
    <3>1. BufferOK(parts, tokens)
      BY DEF LoopInv
    <3> QED BY <2>1, <3>1 DEF BufferOK, TokensIn, TokensOf, Words, EstimateTokens, Total,
                              EndOfText, EndOf, Offset
  <2> QED BY <2>1, <2>2, <2>3, <2>5, <2>6 DEF LoopInv
<1> QED BY <1>1, <1>2, <1>3, <1>4, <1>5, <1>6, <1>7, <1>8, <1>9 DEF Next, Parse

\* Every variable keeps to its kind, and current_tokens is the sum of the paragraphs in
\* current_parts, through every flush, overlap and hard split of the chunkers (structure_aware.py,
\* fixed_size.py), for any text.
THEOREM TypeCorrect == Spec => []TypeOK
<1>1. LoopInv => TypeOK
  <2> SUFFICES ASSUME LoopInv PROVE TypeOK
    OBVIOUS
  <2>1. next \in 1..(Len(text) + 1) /\ stack \in Seq(1..Len(text)) /\ text \in Texts
    BY TextBlocks DEF LoopInv, SectionsInv, PathInv, ParserOK
  <2> QED BY <2>1 DEF LoopInv, LoopOK, BufferOK, TypeOK
<1> QED BY <1>1, LoopInvInit, LoopInvStep, PTL DEF Spec

LEMMA WordsOfOne ==
    ASSUME text \in Texts, NEW c, ChunkOK(c), Len(c.blocks) = 1, NEW x
    PROVE  x \in WordsIn(c) <=> /\ x \in Nat /\ FirstWord(c) <= x /\ x <= LastWord(c)
<1>1. /\ c.blocks \in Seq(Nat) /\ c.blocks # << >> /\ c.skip \in Nat /\ c.words \in Nat \ {0}
      /\ c.blocks[1] \in 1..Len(text) /\ DOMAIN c.blocks = {1}
  <2>1. c \in ChunkRecord /\ c.words # 0 /\ c.blocks # << >>
    BY DEF ChunkOK
  <2>2. c.blocks \in Seq(Nat) /\ c.skip \in Nat /\ c.words \in Nat \ {0}
    BY <2>1 DEF ChunkRecord
  <2>3. DOMAIN c.blocks = 1..1
    BY <2>2
  <2>4. 1 \in 1..Len(c.blocks)
    OBVIOUS
  <2>5. c.blocks[1] \in 1..Len(text)
    BY <2>4 DEF ChunkOK
  <2> QED BY <2>1, <2>2, <2>3, <2>5
<1>2. PICK o, s, n : o = Offset(c.blocks[1]) /\ s = c.skip /\ n = c.words
  OBVIOUS
<1>3. o \in Nat /\ s \in Nat /\ n \in Nat \ {0}
  <2>1. Offset(c.blocks[1]) \in Nat
    BY <1>1, BlockSpan
  <2> QED BY <1>1, <1>2, <2>1
<1>4. ToSet(c.blocks) = {c.blocks[1]}
  BY <1>1 DEF ToSet
<1>5. WordsIn(c) = {o + s + w : w \in 1..n}
  <2>1. WordsIn(c) = UNION {{Offset(b) + c.skip + w : w \in 1..c.words} : b \in {c.blocks[1]}}
    BY <1>4 DEF WordsIn
  <2>2. WordsIn(c) = {Offset(c.blocks[1]) + c.skip + w : w \in 1..c.words}
    BY <2>1
  <2> QED BY <1>2, <2>2
<1>6. FirstWord(c) = o + (s + 1) /\ LastWord(c) = o + (s + n)
  BY <1>2 DEF FirstWord, LastWord
<1>7. ASSUME x \in Nat, o + (s + 1) <= x, x <= o + (s + n) PROVE x \in WordsIn(c)
  <2>1. x - (o + s) \in 1..n /\ o + s + (x - (o + s)) = x
    BY <1>3, <1>7
  <2> QED BY <1>5, <2>1
<1>8. ASSUME NEW w \in 1..n, x = o + s + w
      PROVE  x \in Nat /\ o + (s + 1) <= x /\ x <= o + (s + n)
  BY <1>3, <1>8
<1> QED BY <1>5, <1>6, <1>7, <1>8

LEMMA WordsOfMany ==
    ASSUME text \in Texts, NEW c, ChunkOK(c), Len(c.blocks) # 1
    PROVE  WordsIn(c) = WordsOf(ToSet(c.blocks))
<1>1. c.skip = 0
  BY DEF ChunkOK
<1>2. \A b \in ToSet(c.blocks) : Offset(b) \in Nat
  <2> SUFFICES ASSUME NEW b \in ToSet(c.blocks) PROVE Offset(b) \in Nat
    OBVIOUS
  <2>1. c.blocks \in Seq(Nat)
    BY DEF ChunkOK, ChunkRecord
  <2>2. PICK i \in 1..Len(c.blocks) : b = c.blocks[i]
    BY <2>1 DEF ToSet
  <2>3. b \in 1..Len(text)
    BY <2>2 DEF ChunkOK
  <2> QED BY <2>3, BlockSpan
<1>3. \A b \in ToSet(c.blocks) :
         \A w \in 1..text[b].words : Offset(b) + c.skip + w = Offset(b) + w
  BY <1>1, <1>2
<1>4. \A b \in ToSet(c.blocks) :
         {Offset(b) + c.skip + w : w \in 1..text[b].words} = {Offset(b) + w : w \in 1..text[b].words}
  BY <1>3
<1>5. WordsIn(c) = UNION {{Offset(b) + c.skip + w : w \in 1..text[b].words} : b \in ToSet(c.blocks)}
  BY DEF WordsIn
<1>6. \A x : x \in WordsIn(c)
         <=> \E b \in ToSet(c.blocks) : x \in {Offset(b) + c.skip + w : w \in 1..text[b].words}
  BY <1>5
<1>7. \A x : x \in WordsOf(ToSet(c.blocks))
         <=> \E b \in ToSet(c.blocks) : x \in {Offset(b) + w : w \in 1..text[b].words}
  BY DEF WordsOf
<1> QED BY <1>4, <1>6, <1>7

LEMMA BlocksOf ==
    ASSUME NEW q \in Seq(Nat), NEW n \in Nat, From(q, n)
    PROVE  ToSet(q) = {b \in Nat : n <= b /\ b < n + Len(q)} /\ Len(q) \in Nat
<1>1. Len(q) \in Nat /\ DOMAIN q = 1..Len(q)
  OBVIOUS
<1>2. \A i \in 1..Len(q) : q[i] = n + (i - 1)
  BY DEF From
<1>3. ASSUME NEW b \in Nat, n <= b, b < n + Len(q) PROVE b \in ToSet(q)
  <2>1. (b - n) + 1 \in 1..Len(q) /\ n + (((b - n) + 1) - 1) = b
    BY <1>1, <1>3
  <2>2. q[(b - n) + 1] = b
    BY <1>2, <2>1
  <2> QED BY <1>1, <2>1, <2>2 DEF ToSet
<1>4. ASSUME NEW i \in 1..Len(q) PROVE q[i] \in Nat /\ n <= q[i] /\ q[i] < n + Len(q)
  <2>1. q[i] = n + (i - 1)
    BY <1>2
  <2>2. PICK k : k = q[i]
    OBVIOUS
  <2>3. k \in Nat /\ n <= k /\ k < n + Len(q)
    BY <1>1, <2>1, <2>2
  <2> QED BY <2>2, <2>3
<1> QED BY <1>1, <1>3, <1>4 DEF ToSet

\* The words of a chunk reach from its first to its last.
LEMMA ChunkWords ==
    ASSUME text \in Texts, NEW c, ChunkOK(c)
    PROVE  /\ FirstWord(c) \in WordsIn(c) /\ LastWord(c) \in WordsIn(c)
           /\ WordsIn(c) \in SUBSET Nat
           /\ \A x \in WordsIn(c) : FirstWord(c) <= x /\ x <= LastWord(c)
           /\ Max(WordsIn(c)) = LastWord(c)
<1>1. /\ c.blocks \in Seq(Nat) /\ c.blocks # << >> /\ c.skip \in Nat /\ c.words \in Nat \ {0}
      /\ Len(c.blocks) \in Nat \ {0}
  <2>1. c.blocks \in Seq(Nat) /\ c.blocks # << >> /\ c.skip \in Nat /\ c.words \in Nat \ {0}
    BY DEF ChunkOK, ChunkRecord
  <2> QED BY <2>1, EmptySeq
<1>2. PICK n \in 1..Len(text), k \in Nat \ {0} :
         n = c.blocks[1] /\ k = Len(c.blocks)
         /\ \A i \in 1..k : c.blocks[i] \in 1..Len(text) /\ c.blocks[i] = n + (i - 1)
  <2>1. 1 \in 1..Len(c.blocks)
    BY <1>1
  <2> QED BY <1>1, <2>1 DEF ChunkOK
<1>3. Offset(n) \in Nat /\ EndOf(n) = Offset(n) + text[n].words /\ text[n].words \in Nat \ {0}
      /\ Len(text) \in Nat
  BY BlockSpan, TextBlocks
<1> SUFFICES /\ FirstWord(c) \in WordsIn(c) /\ LastWord(c) \in WordsIn(c)
             /\ WordsIn(c) \in SUBSET Nat
             /\ \A x \in WordsIn(c) : FirstWord(c) <= x /\ x <= LastWord(c)
  BY MaxIs
<1>4. CASE k = 1
  <2>1. \A x : x \in WordsIn(c) <=> x \in Nat /\ FirstWord(c) <= x /\ x <= LastWord(c)
    BY <1>2, <1>4, WordsOfOne
  <2>2. PICK s \in Nat, w \in Nat, o \in Nat : s = c.skip /\ w = c.words /\ o = Offset(n)
    BY <1>1, <1>3
  <2>3. FirstWord(c) = o + (s + 1) /\ LastWord(c) = o + (s + w) /\ w # 0
    BY <1>1, <1>2, <1>4, <2>2 DEF FirstWord, LastWord
  <2>4. PICK f, l : f = FirstWord(c) /\ l = LastWord(c)
    OBVIOUS
  <2>5. f \in Nat /\ l \in Nat /\ f <= l /\ f <= f /\ l <= l
    <3>1. f = o + (s + 1) /\ l = o + (s + w) /\ w # 0
      BY <2>3, <2>4
    <3>2. \A a \in Nat : a <= a
      OBVIOUS
    <3>3. o + (s + 1) \in Nat /\ o + (s + w) \in Nat /\ o + (s + 1) <= o + (s + w)
      BY <3>1
    <3> QED BY <3>1, <3>2, <3>3
  <2> QED BY <2>1, <2>4, <2>5
<1>5. CASE k # 1
  <2> DEFINE S == ToSet(c.blocks)
             l == n + (k - 1)
  <2>1. WordsIn(c) = WordsOf(S)
    BY <1>2, <1>5, WordsOfMany
  <2>2. S = {b \in Nat : n <= b /\ b < n + k}
    <3>1. From(c.blocks, n) /\ n \in Nat
      BY <1>2, <1>3 DEF From
    <3> QED BY <1>1, <1>2, <3>1, BlocksOf
  <2>3. l \in 1..Len(text) /\ c.blocks[k] = l
    <3>1. k \in 1..k
      BY <1>2
    <3> QED BY <1>2, <3>1
  <2>4. S \in SUBSET (1..Len(text)) /\ n \in S /\ l \in S
    BY SMTT(20), <1>2, <1>3, <2>2, <2>3
  <2>5. FirstWord(c) = Offset(n) + 1 /\ LastWord(c) = EndOf(l)
    <3>1. c.skip = 0
      BY <1>2, <1>5 DEF ChunkOK
    <3> QED BY <1>2, <1>5, <2>3, <3>1 DEF FirstWord, LastWord
  <2>6. \A x : x \in WordsOf(S) <=> x \in Nat /\ \E b \in S : Offset(b) < x /\ x <= EndOf(b)
    BY <2>4, WordsOfBlocks
  <2>7. \A b \in S : /\ Offset(b) \in Nat /\ EndOf(b) \in Nat /\ Offset(b) < EndOf(b)
                     /\ Offset(n) <= Offset(b) /\ EndOf(b) <= EndOf(l)
    <3> SUFFICES ASSUME NEW b \in S
                 PROVE  /\ Offset(b) \in Nat /\ EndOf(b) \in Nat /\ Offset(b) < EndOf(b)
                        /\ Offset(n) <= Offset(b) /\ EndOf(b) <= EndOf(l)
      OBVIOUS
    <3>1. b \in 1..Len(text) /\ n <= b /\ b <= l
      BY <1>2, <1>3, <2>2, <2>4
    <3> QED BY <2>3, <3>1, BlockSpan, BlocksAscend
  <2> HIDE DEF S, l
  <2>8. FirstWord(c) \in WordsOf(S)
    <3>1. Offset(n) \in Nat /\ EndOf(n) \in Nat /\ Offset(n) < EndOf(n)
      BY <2>4, <2>7
    <3>2. Offset(n) + 1 \in Nat /\ Offset(n) < Offset(n) + 1 /\ Offset(n) + 1 <= EndOf(n)
      BY <3>1
    <3> QED BY <2>4, <2>5, <2>6, <3>2
  <2>9. LastWord(c) \in WordsOf(S)
    <3>1. EndOf(l) \in Nat /\ EndOf(l) <= EndOf(l) /\ Offset(l) < EndOf(l)
      BY <2>4, <2>7
    <3> QED BY <2>4, <2>5, <2>6, <3>1
  <2>10. ASSUME NEW x \in WordsOf(S) PROVE x \in Nat /\ FirstWord(c) <= x /\ x <= LastWord(c)
    <3>1. x \in Nat
      BY <2>6
    <3>2. PICK b \in S : Offset(b) < x /\ x <= EndOf(b)
      BY <2>6
    <3>3. /\ Offset(b) \in Nat /\ EndOf(b) \in Nat
          /\ Offset(n) <= Offset(b) /\ EndOf(b) <= EndOf(l)
      BY <2>7
    <3>4. EndOf(l) \in Nat /\ Offset(n) \in Nat
      BY <2>4, <2>7
    <3> QED BY <2>5, <3>1, <3>2, <3>3, <3>4
  <2> QED BY <2>1, <2>8, <2>9, <2>10
<1> QED BY <1>4, <1>5

\* A chunk of the whole blocks q, from the n-th on.
IsWhole(c, q, n) ==
    /\ ChunkOK(c) /\ WordsIn(c) = WordsOf(ToSet(q))
    /\ n \in 1..Len(text) /\ n + (Len(q) - 1) \in 1..Len(text) /\ Len(q) \in Nat \ {0}
    /\ FirstWord(c) = Offset(n) + 1 /\ LastWord(c) = EndOf(n + (Len(q) - 1))
    /\ c.blocks = q /\ c.words = Words(q) /\ c.skip = 0

LEMMA WholeChunk ==
    ASSUME text \in Texts, NEW q \in Seq(1..Len(text)), q # << >>, NEW n \in Nat, From(q, n),
           NEW st \in Nat, NEW en \in Nat, NEW sec \in Nat,
           NEW c, c = Chunk(q, 0, Words(q), st, en, sec)
    PROVE  IsWhole(c, q, n)
<1>1. /\ c.blocks = q /\ c.words = Words(q) /\ c.start = st /\ c.end = en
      /\ c.section = sec /\ c.skip = 0 /\ c.index = 0
      /\ c = [index |-> 0, blocks |-> q, skip |-> 0, words |-> Words(q),
              start |-> st, end |-> en, section |-> sec]
  BY DEF Chunk
<1>2. PICK k : k = Len(q)
  OBVIOUS
<1>3. /\ k \in Nat \ {0} /\ q \in Seq(Nat) /\ DOMAIN q = 1..k
      /\ \A i \in 1..k : q[i] \in 1..Len(text) /\ q[i] = n + (i - 1)
  <2>1. Len(q) \in Nat \ {0}
    BY EmptySeq
  <2>2. q \in Seq(Nat)
    BY TextBlocks
  <2> QED BY <1>2, <2>1, <2>2 DEF From
<1>4. q[1] = n /\ n \in 1..Len(text) /\ n + (k - 1) \in 1..Len(text) /\ q[k] = n + (k - 1)
  <2>1. 1 \in 1..k /\ k \in 1..k /\ n + (1 - 1) = n
    BY <1>3
  <2> QED BY <1>3, <2>1
<1>5. Words(q) \in Nat \ {0}
  BY Sums
<1>6. c \in ChunkRecord
  BY <1>1, <1>3, <1>5 DEF ChunkRecord
<1>7. k = 1 => q = <<n>> /\ Words(q) = text[n].words
  <2> SUFFICES ASSUME k = 1 PROVE q = <<n>> /\ Words(q) = text[n].words
    OBVIOUS
  <2>1. q = <<n>>
    BY <1>2, <1>3, <1>4
  <2> QED BY <1>4, <2>1, SumsOfOne
<1>8. ChunkOK(c)
  <2>1. \A i \in 1..Len(c.blocks) :
           c.blocks[i] \in 1..Len(text) /\ c.blocks[i] = c.blocks[1] + (i - 1)
    BY <1>1, <1>2, <1>3, <1>4
  <2>2. k = 1 => c.skip + c.words <= text[c.blocks[1]].words
    <3>1. text[n].words \in Nat /\ 0 + text[n].words <= text[n].words
      BY SMTT(20), <1>4, TextBlocks
    <3> QED BY <1>1, <1>4, <1>7, <3>1
  <2> QED BY <1>1, <1>2, <1>5, <1>6, <2>1, <2>2 DEF ChunkOK
<1>9. LastWord(c) = EndOf(n + (k - 1)) /\ FirstWord(c) = Offset(n) + 1
  <2>1. FirstWord(c) = Offset(n) + 1
    BY <1>1, <1>4 DEF FirstWord
  <2>2. CASE k = 1
    <3>1. n + (k - 1) = n /\ Offset(n) + (0 + text[n].words) = EndOf(n)
      <4>1. Offset(n) \in Nat /\ text[n].words \in Nat /\ EndOf(n) = Offset(n) + text[n].words
        BY <1>4, BlockSpan, TextBlocks
      <4> QED BY <2>2, <4>1
    <3> QED BY <1>1, <1>2, <1>4, <1>7, <2>1, <2>2, <3>1 DEF LastWord
  <2>3. CASE k # 1
    BY <1>1, <1>2, <1>4, <2>1, <2>3 DEF LastWord
  <2> QED BY <2>2, <2>3
<1>10. WordsIn(c) = WordsOf(ToSet(q))
  <2>1. CASE k # 1
    BY <1>1, <1>2, <1>8, <2>1, WordsOfMany
  <2>2. CASE k = 1
    <3>1. \A x : x \in WordsIn(c) <=> x \in Nat /\ FirstWord(c) <= x /\ x <= LastWord(c)
      BY <1>1, <1>2, <1>8, <2>2, WordsOfOne
    <3>2. n + (k - 1) = n /\ ToSet(q) = {n}
      BY <1>2, <1>3, <1>4, <2>2 DEF ToSet
    <3>3. \A x : x \in WordsOf({n}) <=> x \in Nat /\ Offset(n) < x /\ x <= EndOf(n)
      <4>1. {n} \in SUBSET (1..Len(text))
        BY <1>4
      <4>2. \A x : x \in WordsOf({n})
               <=> x \in Nat /\ \E b \in {n} : Offset(b) < x /\ x <= EndOf(b)
        BY <4>1, WordsOfBlocks
      <4> QED BY <4>2
    <3>4. \A x \in Nat : Offset(n) < x <=> Offset(n) + 1 <= x
      <4>1. Offset(n) \in Nat
        BY <1>4, BlockSpan
      <4> QED BY <4>1
    <3> QED BY <1>9, <3>1, <3>2, <3>3, <3>4
  <2> QED BY <2>1, <2>2
<1> QED BY <1>1, <1>2, <1>3, <1>4, <1>8, <1>9, <1>10 DEF IsWhole

-----------------------------------------------------------------------------
(* Sequences of chunks *)

Fits(c) ==
    /\ chunker = "structure" =>
           Len(c.blocks) = 1 \/ EstimateTokens(c.words) <= Size + (Len(c.blocks) - 1)
    /\ chunker = "semantic" => Len(c.blocks) = 1 \/ EstimateTokens(c.words) <= SemanticSize
    /\ chunker = "fixed" =>
           /\ Len(c.blocks) # 1 =>
                  EstimateTokens(c.words) <= Size + Overlap + (Len(c.blocks) - 1)
           /\ Len(c.blocks) = 1 => c.words <= Size

\* Chunks that fit, each ending after the one before, the first after lo, the last by hi.
Batch(cs, lo, hi) ==
    /\ cs \in Seq(ChunkRecord)
    /\ \A i \in 1..Len(cs) :
          ChunkOK(cs[i]) /\ Fits(cs[i]) /\ lo < LastWord(cs[i]) /\ LastWord(cs[i]) <= hi
    /\ \A i, j \in 1..Len(cs) : i < j => LastWord(cs[i]) < LastWord(cs[j])

\* The words that some of the chunks hold.
Held(cs) == UNION {WordsIn(cs[i]) : i \in DOMAIN cs}

Numbered(n, cs) == [i \in DOMAIN cs |-> [cs[i] EXCEPT !.index = n + i - 1]]

\* The number of a chunk is of no matter to what it holds.
SameButIndex(c, d) ==
    /\ d.blocks = c.blocks /\ d.skip = c.skip /\ d.words = c.words
    /\ d.start = c.start /\ d.end = c.end /\ d.section = c.section

LEMMA IndexOnly ==
    ASSUME NEW c \in ChunkRecord, NEW d \in ChunkRecord, SameButIndex(c, d)
    PROVE  /\ ChunkOK(c) => ChunkOK(d)
           /\ Fits(c) => Fits(d)
           /\ FirstWord(d) = FirstWord(c) /\ LastWord(d) = LastWord(c)
           /\ WordsIn(d) = WordsIn(c)
           /\ EndsSplit(d) <=> EndsSplit(c)
           /\ IsPiece(d) <=> IsPiece(c)
           /\ InItsParagraph(d) <=> InItsParagraph(c)
<1>1. ChunkOK(c) => ChunkOK(d)
  BY DEF ChunkOK, SameButIndex
<1>2. Fits(c) => Fits(d)
  BY DEF Fits, SameButIndex
<1>3. FirstWord(d) = FirstWord(c) /\ LastWord(d) = LastWord(c)
  BY DEF FirstWord, LastWord, SameButIndex
<1>4. WordsIn(d) = WordsIn(c)
  BY DEF WordsIn, SameButIndex
<1>5. IsPiece(d) <=> IsPiece(c)
  BY DEF IsPiece, SameButIndex
<1>6. EndsSplit(d) <=> EndsSplit(c)
  BY <1>5 DEF EndsSplit, SameButIndex
<1>7. InItsParagraph(d) <=> InItsParagraph(c)
  BY DEF InItsParagraph, SameButIndex
<1> QED BY <1>1, <1>2, <1>3, <1>4, <1>5, <1>6, <1>7

LEMMA NumberedChunks ==
    ASSUME NEW cs \in Seq(ChunkRecord), NEW n \in Nat
    PROVE  /\ Numbered(n, cs) \in Seq(ChunkRecord) /\ Len(Numbered(n, cs)) = Len(cs)
           /\ DOMAIN Numbered(n, cs) = 1..Len(cs) /\ DOMAIN cs = 1..Len(cs) /\ Len(cs) \in Nat
           /\ \A i \in 1..Len(cs) :
                 /\ Numbered(n, cs)[i] \in ChunkRecord /\ cs[i] \in ChunkRecord
                 /\ SameButIndex(cs[i], Numbered(n, cs)[i])
                 /\ Numbered(n, cs)[i].index = n + (i - 1)
<1>1. PICK k \in Nat : k = Len(cs) /\ DOMAIN cs = 1..k
  OBVIOUS
<1>2. \A i \in 1..k : cs[i] \in ChunkRecord
  BY <1>1
<1>3. Numbered(n, cs) = [i \in 1..k |-> [cs[i] EXCEPT !.index = n + i - 1]]
  BY <1>1 DEF Numbered
<1>4. ASSUME NEW i \in 1..k
      PROVE  /\ Numbered(n, cs)[i] \in ChunkRecord
             /\ SameButIndex(cs[i], Numbered(n, cs)[i])
             /\ Numbered(n, cs)[i].index = n + (i - 1)
  <2>1. PICK c \in ChunkRecord : c = cs[i]
    BY <1>2
  <2>2. PICK d : d = [c EXCEPT !.index = n + i - 1]
    OBVIOUS
  <2>3. Numbered(n, cs)[i] = d
    BY <1>3, <2>1, <2>2
  <2>4. n + i - 1 \in Nat /\ n + i - 1 = n + (i - 1)
    BY <1>1
  <2>5. /\ d \in ChunkRecord /\ d.index = n + i - 1 /\ SameButIndex(c, d)
    BY <2>2, <2>4 DEF ChunkRecord, SameButIndex
  <2> QED BY <2>1, <2>3, <2>4, <2>5
<1>5. Numbered(n, cs) \in Seq(ChunkRecord) /\ Len(Numbered(n, cs)) = k
      /\ DOMAIN Numbered(n, cs) = 1..k
  <2>1. PICK f : f = Numbered(n, cs)
    OBVIOUS
  <2>2. DOMAIN f = 1..k /\ (\A i \in 1..k : f[i] \in ChunkRecord) /\ f = [i \in 1..k |-> f[i]]
    BY <1>3, <1>4, <2>1
  <2>3. f \in Seq(ChunkRecord) /\ Len(f) = k
    BY <2>2
  <2> QED BY <2>1, <2>2, <2>3
<1> QED BY <1>1, <1>2, <1>4, <1>5

LEMMA NumberedBatch ==
    ASSUME NEW cs, NEW lo \in Nat, NEW hi \in Nat, Batch(cs, lo, hi), NEW n \in Nat
    PROVE  Batch(Numbered(n, cs), lo, hi) /\ Held(Numbered(n, cs)) = Held(cs)
<1>1. cs \in Seq(ChunkRecord)
  BY DEF Batch
<1>2. PICK k, d :
         /\ k \in Nat /\ k = Len(cs) /\ d = Numbered(n, cs) /\ d \in Seq(ChunkRecord) /\ Len(d) = k
         /\ DOMAIN d = 1..k /\ DOMAIN cs = 1..k
         /\ \A i \in 1..k : d[i] \in ChunkRecord /\ cs[i] \in ChunkRecord
                            /\ SameButIndex(cs[i], d[i])
  BY <1>1, NumberedChunks
<1>3. \A i \in 1..k :
         /\ ChunkOK(cs[i]) => ChunkOK(d[i])
         /\ Fits(cs[i]) => Fits(d[i])
         /\ LastWord(d[i]) = LastWord(cs[i]) /\ WordsIn(d[i]) = WordsIn(cs[i])
  BY <1>2, IndexOnly
<1>4. \A i \in 1..k :
         ChunkOK(cs[i]) /\ Fits(cs[i]) /\ lo < LastWord(cs[i]) /\ LastWord(cs[i]) <= hi
  BY <1>2 DEF Batch
<1>5. \A i, j \in 1..k : i < j => LastWord(cs[i]) < LastWord(cs[j])
  BY <1>2 DEF Batch
<1>6. Batch(d, lo, hi)
  BY <1>2, <1>3, <1>4, <1>5 DEF Batch
<1>7. Held(d) = Held(cs)
  <2>1. {WordsIn(d[i]) : i \in DOMAIN d} = {WordsIn(cs[i]) : i \in DOMAIN cs}
    BY <1>2, <1>3
  <2> QED BY <2>1 DEF Held
<1> QED BY <1>2, <1>6, <1>7

LEMMA Concatenated ==
    ASSUME NEW S, NEW a \in Seq(S), NEW b \in Seq(S)
    PROVE  /\ a \o b \in Seq(S) /\ Len(a) \in Nat /\ Len(b) \in Nat
           /\ Len(a \o b) = Len(a) + Len(b) /\ DOMAIN (a \o b) = 1..(Len(a) + Len(b))
           /\ \A i \in 1..Len(a) : (a \o b)[i] = a[i]
           /\ \A i \in 1..Len(b) : (a \o b)[Len(a) + i] = b[i]
           /\ \A i \in 1..(Len(a) + Len(b)) :
                 i \in 1..Len(a) \/ \E j \in 1..Len(b) : i = Len(a) + j
<1>1. PICK m \in Nat, n \in Nat : m = Len(a) /\ n = Len(b)
  OBVIOUS
<1>2. /\ a \o b \in Seq(S) /\ Len(a \o b) = m + n /\ DOMAIN (a \o b) = 1..(m + n)
      /\ \A i \in 1..(m + n) : (a \o b)[i] = IF i <= m THEN a[i] ELSE b[i - m]
  BY <1>1, ConcatProperties
<1>3. \A i \in 1..m : (a \o b)[i] = a[i]
  BY <1>2
<1>4. ASSUME NEW i \in 1..n PROVE (a \o b)[m + i] = b[i]
  <2>1. m + i \in 1..(m + n) /\ ~(m + i <= m) /\ (m + i) - m = i
    OBVIOUS
  <2> QED BY <1>2, <2>1
<1>5. ASSUME NEW i \in 1..(m + n) PROVE i \in 1..m \/ \E j \in 1..n : i = m + j
  <2>1. i \notin 1..m => i - m \in 1..n /\ i = m + (i - m)
    OBVIOUS
  <2> QED BY <2>1
<1> QED BY <1>1, <1>2, <1>3, <1>4, <1>5

LEMMA JoinedBatch ==
    ASSUME NEW lo \in Nat, NEW mid \in Nat, NEW hi \in Nat, lo <= mid, mid <= hi,
           NEW a, NEW b, Batch(a, lo, mid), Batch(b, mid, hi), text \in Texts
    PROVE  Batch(a \o b, lo, hi) /\ Held(a \o b) = Held(a) \cup Held(b)
<1>1. a \in Seq(ChunkRecord) /\ b \in Seq(ChunkRecord)
  BY DEF Batch
<1>0. PICK m, n, c : m = Len(a) /\ n = Len(b) /\ c = a \o b
  OBVIOUS
<1>2. /\ m \in Nat /\ n \in Nat /\ m = Len(a) /\ n = Len(b) /\ c = a \o b
      /\ c \in Seq(ChunkRecord) /\ Len(c) = m + n /\ DOMAIN c = 1..(m + n)
      /\ \A i \in 1..m : c[i] = a[i]
      /\ \A i \in 1..n : c[m + i] = b[i]
      /\ \A i \in 1..(m + n) : i \in 1..m \/ \E j \in 1..n : i = m + j
  BY <1>0, <1>1, Concatenated
<1>3. \A i \in 1..m : /\ ChunkOK(a[i]) /\ Fits(a[i]) /\ lo < LastWord(a[i])
                      /\ LastWord(a[i]) <= mid
  BY <1>2 DEF Batch
<1>4. \A i \in 1..n : /\ ChunkOK(b[i]) /\ Fits(b[i]) /\ mid < LastWord(b[i])
                      /\ LastWord(b[i]) <= hi
  BY <1>2 DEF Batch
<1>5. /\ \A i \in 1..m : LastWord(a[i]) \in Nat
      /\ \A i \in 1..n : LastWord(b[i]) \in Nat
  BY <1>3, <1>4, ChunkWords
<1>6. \A i \in 1..m : LastWord(a[i]) <= hi
  BY <1>3, <1>5
<1>7. \A i \in 1..n : lo < LastWord(b[i])
  BY <1>4, <1>5
<1>8. \A i \in 1..(m + n) :
         ChunkOK(c[i]) /\ Fits(c[i]) /\ lo < LastWord(c[i]) /\ LastWord(c[i]) <= hi
  <2> SUFFICES ASSUME NEW i \in 1..(m + n)
               PROVE  /\ ChunkOK(c[i]) /\ Fits(c[i]) /\ lo < LastWord(c[i])
                      /\ LastWord(c[i]) <= hi
    OBVIOUS
  <2>1. CASE i \in 1..m
    <3>1. c[i] = a[i]
      BY <1>2, <2>1
    <3> QED BY <1>3, <1>6, <2>1, <3>1
  <2>2. CASE i \notin 1..m
    <3>1. PICK j \in 1..n : c[i] = b[j]
      BY <1>2, <2>2
    <3> QED BY <1>4, <1>7, <3>1
  <2> QED BY <2>1, <2>2
<1>9. ASSUME NEW i \in 1..(m + n), NEW j \in 1..(m + n), i < j
      PROVE  LastWord(c[i]) < LastWord(c[j])
  <2>1. CASE i \in 1..m /\ j \in 1..m
    <3>1. LastWord(a[i]) < LastWord(a[j])
      BY <1>2, <1>9, <2>1 DEF Batch
    <3> QED BY <1>2, <2>1, <3>1
  <2>2. CASE i \in 1..m /\ j \notin 1..m
    <3>1. PICK k \in 1..n : j = m + k
      BY <1>2, <2>2
    <3>2. LastWord(a[i]) <= mid /\ mid < LastWord(b[k])
      BY <1>3, <1>4, <2>2
    <3>3. LastWord(a[i]) < LastWord(b[k])
      BY <1>5, <2>2, <3>2
    <3> QED BY <1>2, <2>2, <3>1, <3>3
  <2>3. CASE i \notin 1..m
    <3>1. PICK k \in 1..n, l \in 1..n : i = m + k /\ j = m + l
      <4>1. j \notin 1..m
        BY <1>2, <1>9, <2>3
      <4> QED BY <1>2, <2>3, <4>1
    <3>2. k < l
      BY <1>2, <1>9, <3>1
    <3>3. LastWord(b[k]) < LastWord(b[l])
      BY <1>2, <3>2 DEF Batch
    <3> QED BY <1>2, <3>1, <3>3
  <2> QED BY <2>1, <2>2, <2>3
<1>10. Batch(c, lo, hi)
  BY <1>2, <1>8, <1>9 DEF Batch
<1>11. \A x : x \in Held(c) <=> x \in Held(a) \/ x \in Held(b)
  <2>1. DOMAIN a = 1..m /\ DOMAIN b = 1..n
    BY <1>1, <1>2
  <2>2. /\ \A x : x \in Held(a) <=> \E i \in 1..m : x \in WordsIn(a[i])
        /\ \A x : x \in Held(b) <=> \E i \in 1..n : x \in WordsIn(b[i])
        /\ \A x : x \in Held(c) <=> \E i \in 1..(m + n) : x \in WordsIn(c[i])
    BY <1>2, <2>1 DEF Held
  <2>3. \A i \in 1..m : i \in 1..(m + n)
    BY <1>2
  <2>4. \A i \in 1..n : m + i \in 1..(m + n)
    BY <1>2
  <2>5. ASSUME NEW x, x \in Held(c) PROVE x \in Held(a) \/ x \in Held(b)
    <3>1. PICK i \in 1..(m + n) : x \in WordsIn(c[i])
      BY <2>2, <2>5
    <3> QED BY <1>2, <2>2, <3>1
  <2>6. ASSUME NEW x, x \in Held(a) PROVE x \in Held(c)
    <3>1. PICK i \in 1..m : x \in WordsIn(a[i])
      BY <2>2, <2>6
    <3>2. WordsIn(c[i]) = WordsIn(a[i]) /\ i \in 1..(m + n)
      BY <1>2, <2>3
    <3> QED BY <2>2, <3>1, <3>2
  <2>7. ASSUME NEW x, x \in Held(b) PROVE x \in Held(c)
    <3>1. PICK i \in 1..n : x \in WordsIn(b[i])
      BY <2>2, <2>7
    <3>2. WordsIn(c[m + i]) = WordsIn(b[i]) /\ m + i \in 1..(m + n)
      BY <1>2, <2>4
    <3> QED BY <2>2, <3>1, <3>2
  <2> QED BY <2>5, <2>6, <2>7
<1> QED BY <1>2, <1>10, <1>11

LEMMA NoChunks == ASSUME NEW lo, NEW hi PROVE Batch(<< >>, lo, hi) /\ Held(<< >>) = {}
<1>1. Len(<< >>) = 0 /\ DOMAIN << >> = {} /\ << >> \in Seq(ChunkRecord)
  OBVIOUS
<1> QED BY <1>1 DEF Batch, Held

LEMMA OneChunk ==
    ASSUME NEW c, ChunkOK(c), Fits(c), NEW lo, NEW hi, lo < LastWord(c), LastWord(c) <= hi
    PROVE  Batch(<<c>>, lo, hi) /\ Held(<<c>>) = WordsIn(c)
<1>1. c \in ChunkRecord
  BY DEF ChunkOK
<1>2. <<c>> \in Seq(ChunkRecord) /\ Len(<<c>>) = 1 /\ DOMAIN <<c>> = {1} /\ <<c>>[1] = c
  BY <1>1
<1>3. \A i \in 1..1 : i = 1
  OBVIOUS
<1>4. ~(1 < 1)
  OBVIOUS
<1>5. Held(<<c>>) = WordsIn(c)
  BY <1>2 DEF Held
<1> QED BY <1>2, <1>3, <1>4, <1>5 DEF Batch

\* A wider range.
LEMMA WiderBatch ==
    ASSUME NEW cs, NEW lo \in Nat, NEW hi \in Nat, NEW top \in Nat, hi <= top,
           Batch(cs, lo, hi), text \in Texts
    PROVE  Batch(cs, lo, top)
<1>1. \A i \in 1..Len(cs) : LastWord(cs[i]) \in Nat /\ LastWord(cs[i]) <= hi
  BY ChunkWords DEF Batch
<1>2. \A i \in 1..Len(cs) : LastWord(cs[i]) <= top
  BY <1>1
<1> QED BY <1>2 DEF Batch

-----------------------------------------------------------------------------
(* The hard split *)

LEMMA Multiples ==
    ASSUME NEW i \in Nat, NEW j \in Nat, NEW s \in Nat, i <= j
    PROVE  i * s <= j * s /\ i * s \in Nat /\ (i + 1) * s = i * s + s
OBVIOUS

LEMMA Ceiling ==
    ASSUME NEW t \in Nat \ {0}, NEW s \in Nat \ {0}, NEW n, n = (t + s - 1) \div s
    PROVE  n \in Nat \ {0} /\ (n - 1) * s < t /\ t <= n * s
OBVIOUS

LEMMA PieceFacts ==
    ASSUME text \in Texts, NEW b \in 1..Len(text)
    PROVE  /\ Pieces(b) \in Nat \ {0}
           /\ \A i \in 1..Pieces(b) :
                 /\ Skip(i) \in Nat /\ PieceWords(b, i) \in Nat \ {0} /\ PieceWords(b, i) <= Size
                 /\ i < Pieces(b) => PieceWords(b, i) = Size
                 /\ i = Pieces(b) => Skip(i) + PieceWords(b, i) = text[b].words
                 /\ Skip(i) + PieceWords(b, i) <= text[b].words
           /\ Skip(1) = 0
           /\ \A i \in 1..Pieces(b) : i < Pieces(b) => Skip(i + 1) = Skip(i) + Size
           /\ Pieces(b) # 1 => Skip(Pieces(b)) # 0
<1>1. PICK t, s, n : t = text[b].words /\ s = Size /\ n = Pieces(b)
  OBVIOUS
<1>2. /\ t \in Nat \ {0} /\ s \in Nat \ {0} /\ n \in Nat \ {0} /\ (n - 1) * s < t /\ t <= n * s
  <2>1. t \in Nat \ {0} /\ s \in Nat \ {0}
    BY <1>1, TextBlocks, SizeAssumption
  <2> QED BY <1>1, <2>1, Ceiling DEF Pieces
<1>3. ASSUME NEW i \in 1..n
      PROVE  /\ Skip(i) \in Nat /\ PieceWords(b, i) \in Nat \ {0} /\ PieceWords(b, i) <= s
             /\ i < n => PieceWords(b, i) = s
             /\ i = n => Skip(i) + PieceWords(b, i) = t
             /\ Skip(i) + PieceWords(b, i) <= t
  <2>1. PICK k : k = Skip(i)
    OBVIOUS
  <2>2. k = (i - 1) * s
    BY <1>1, <2>1 DEF Skip
  <2>3. i - 1 \in Nat /\ n - 1 \in Nat /\ i - 1 <= n - 1 /\ (i - 1) + 1 = i
    BY <1>2
  <2>4. k \in Nat /\ k <= (n - 1) * s /\ i * s = k + s /\ (n - 1) * s \in Nat
    BY <1>2, <2>2, <2>3, Multiples
  <2>5. t - k \in Nat \ {0}
    BY <1>2, <2>4
  <2>6. i < n => i * s <= (n - 1) * s
    BY <1>2, <2>3, Multiples
  <2>7. i < n => s <= t - k
    BY <1>2, <2>4, <2>6
  <2>8. i = n => t - k <= s
    BY <1>2, <2>4
  <2>9. PICK w : w = PieceWords(b, i)
    OBVIOUS
  <2>10. w = Min({s, t - k})
    BY <1>1, <2>1, <2>9 DEF PieceWords
  <2>11. CASE s <= t - k
    <3>1. w = s
      <4>1. {s, t - k} \in SUBSET Nat /\ s \in {s, t - k} /\ \A x \in {s, t - k} : s <= x
        BY <1>2, <2>5, <2>11
      <4> QED BY <2>10, <4>1, MinIs
    <3> QED BY <1>2, <2>1, <2>4, <2>5, <2>8, <2>9, <2>11, <3>1
  <2>12. CASE ~(s <= t - k)
    <3>1. w = t - k
      <4>1. {s, t - k} \in SUBSET Nat /\ t - k \in {s, t - k} /\ \A x \in {s, t - k} : t - k <= x
        BY <1>2, <2>5, <2>12
      <4> QED BY <2>10, <4>1, MinIs
    <3> QED BY <1>2, <2>1, <2>4, <2>5, <2>7, <2>9, <2>12, <3>1
  <2> QED BY <2>11, <2>12
<1>4. Skip(1) = 0
  <2>1. 1 - 1 = 0 /\ 0 * s = 0
    BY <1>2
  <2> QED BY <1>1, <2>1 DEF Skip
<1>5. \A i \in 1..n : i < n => Skip(i + 1) = Skip(i) + s
  <2> SUFFICES ASSUME NEW i \in 1..n PROVE Skip(i + 1) = Skip(i) + s
    OBVIOUS
  <2>1. i - 1 \in Nat /\ i - 1 <= i - 1 /\ (i - 1) + 1 = (i + 1) - 1
    BY <1>2
  <2>2. ((i - 1) + 1) * s = (i - 1) * s + s
    BY <1>2, <2>1, Multiples
  <2> QED BY <1>1, <2>1, <2>2 DEF Skip
<1>6. n # 1 => Skip(n) # 0
  <2> SUFFICES ASSUME n # 1 PROVE Skip(n) # 0
    OBVIOUS
  <2>1. 1 <= n - 1 /\ n - 1 \in Nat /\ 1 * s = s
    BY <1>2
  <2>2. s <= (n - 1) * s
    BY <1>2, <2>1, Multiples
  <2>3. (n - 1) * s # 0
    BY <1>2, <2>2
  <2> QED BY <1>1, <2>3 DEF Skip
<1> QED BY <1>1, <1>2, <1>3, <1>4, <1>5, <1>6

\* Where the pieces are found: in the paragraph, none after its place.
LEMMA FoundBy ==
    ASSUME text \in Texts, NEW b \in 1..Len(text), NEW at \in Finds(b), NEW i \in 1..Pieces(b)
    PROVE  at[i] \in Nat /\ at[i] <= Skip(i)
<1>1. PICK n \in Nat \ {0}, m \in Nat, k \in Nat :
         n = Pieces(b) /\ m = Skip(Pieces(b)) /\ k = Skip(i)
  <2>1. Pieces(b) \in Nat \ {0}
    BY PieceFacts
  <2>2. Pieces(b) \in 1..Pieces(b)
    BY <2>1
  <2> QED BY <2>1, <2>2, PieceFacts
<1>2. at[i] \in 0..m /\ at[i] <= IF i = n THEN 0 ELSE k
  BY <1>1 DEF Finds
<1>3. PICK x \in 0..m : x = at[i]
  BY <1>2
<1>4. x \in Nat /\ x <= k
  BY <1>1, <1>2, <1>3
<1> QED BY <1>1, <1>3, <1>4

LEMMA HardSplitIs ==
    ASSUME SectionsInv, text \in Texts, NEW b \in 1..Len(text), NEW at \in Finds(b)
    PROVE  /\ HardSplit(b, at) \in Seq(ChunkRecord) /\ Len(HardSplit(b, at)) = Pieces(b)
           /\ DOMAIN HardSplit(b, at) = 1..Pieces(b)
           /\ \A i \in 1..Pieces(b) : LET c == HardSplit(b, at)[i] IN
                 /\ ChunkOK(c)
                 /\ c.blocks = <<b>> /\ c.skip = Skip(i) /\ c.words = PieceWords(b, i)
                 /\ c.start = Offset(b) + at[i] /\ c.end = c.start + PieceWords(b, i)
                 /\ c.section = SectionAt(c.start)
                 /\ FirstWord(c) = Offset(b) + (Skip(i) + 1)
                 /\ LastWord(c) = Offset(b) + (Skip(i) + PieceWords(b, i))
<1>1. HardSplit(b, at) = [i \in 1..Pieces(b) |-> Piece(b, i, Offset(b) + at[i])]
  BY DEF HardSplit
<1>2. ASSUME NEW i \in 1..Pieces(b), NEW c, c = Piece(b, i, Offset(b) + at[i])
      PROVE  /\ c \in ChunkRecord /\ ChunkOK(c)
             /\ c.blocks = <<b>> /\ c.skip = Skip(i) /\ c.words = PieceWords(b, i)
             /\ c.start = Offset(b) + at[i] /\ c.end = c.start + PieceWords(b, i)
             /\ c.section = SectionAt(c.start)
             /\ FirstWord(c) = Offset(b) + (Skip(i) + 1)
             /\ LastWord(c) = Offset(b) + (Skip(i) + PieceWords(b, i))
  <2>1. PICK k, w, st, sec :
           /\ k = Skip(i) /\ w = PieceWords(b, i) /\ st = Offset(b) + at[i]
           /\ sec = SectionAt(st)
    OBVIOUS
  <2>2. k \in Nat /\ w \in Nat \ {0} /\ k + w <= text[b].words
    BY <2>1, PieceFacts
  <2>3. st \in Nat
    <3>1. Offset(b) \in Nat /\ at[i] \in Nat
      BY BlockSpan, FoundBy
    <3> QED BY <2>1, <3>1
  <2>4. sec \in Nat
    BY <2>1, SectionAtType
  <2>5. c = [index |-> 0, blocks |-> <<b>>, skip |-> k, words |-> w,
             start |-> st, end |-> st + w, section |-> sec]
    BY <1>2, <2>1 DEF Piece, Chunk
  <2>6. <<b>> \in Seq(Nat) /\ <<b>> # << >> /\ Len(<<b>>) = 1 /\ <<b>>[1] = b /\ b \in Nat
    BY TextBlocks
  <2>7. c \in ChunkRecord
    <3>1. st + w \in Nat
      BY <2>2, <2>3
    <3> QED BY <2>2, <2>3, <2>4, <2>5, <2>6, <3>1 DEF ChunkRecord
  <2>8. /\ c.blocks = <<b>> /\ c.skip = k /\ c.words = w /\ c.start = st /\ c.end = st + w
        /\ c.section = sec
    BY <2>5
  <2>9. ChunkOK(c)
    <3>1. \A j \in 1..Len(c.blocks) : /\ c.blocks[j] \in 1..Len(text)
                                      /\ c.blocks[j] = c.blocks[1] + (j - 1)
      <4>1. \A j \in 1..1 : j = 1
        OBVIOUS
      <4>2. b = b + (1 - 1)
        BY <2>6
      <4> QED BY <2>6, <2>8, <4>1, <4>2
    <3> QED BY <2>2, <2>6, <2>7, <2>8, <3>1 DEF ChunkOK
  <2>10. FirstWord(c) = Offset(b) + (k + 1) /\ LastWord(c) = Offset(b) + (k + w)
    BY <2>6, <2>8 DEF FirstWord, LastWord
  <2> QED BY <2>1, <2>7, <2>8, <2>9, <2>10
<1>3. Pieces(b) \in Nat
  BY PieceFacts
<1>4. /\ HardSplit(b, at) \in Seq(ChunkRecord) /\ Len(HardSplit(b, at)) = Pieces(b)
      /\ DOMAIN HardSplit(b, at) = 1..Pieces(b)
      /\ \A i \in 1..Pieces(b) : HardSplit(b, at)[i] = Piece(b, i, Offset(b) + at[i])
  <2>1. PICK n \in Nat : n = Pieces(b)
    BY <1>3
  <2>2. PICK h : h = [i \in 1..n |-> Piece(b, i, Offset(b) + at[i])] /\ h = HardSplit(b, at)
    BY <1>1, <2>1
  <2>3. \A i \in 1..n : Piece(b, i, Offset(b) + at[i]) \in ChunkRecord
    BY <1>2, <2>1
  <2>4. \A i \in 1..n : h[i] = Piece(b, i, Offset(b) + at[i]) /\ h[i] \in ChunkRecord
    BY <2>2, <2>3
  <2>5. h \in Seq(ChunkRecord) /\ Len(h) = n /\ DOMAIN h = 1..n
    BY <2>2, <2>4
  <2> QED BY <2>1, <2>2, <2>4, <2>5
<1> QED BY <1>2, <1>4

\* Each piece ends before the next one begins.
LEMMA PiecesAscend ==
    ASSUME text \in Texts, NEW b \in 1..Len(text), NEW i \in 1..Pieces(b), NEW j \in 1..Pieces(b),
           i < j
    PROVE  Skip(i) + PieceWords(b, i) <= Skip(j)
<1>1. Pieces(b) \in Nat /\ i < Pieces(b) /\ Size \in Nat
  BY PieceFacts, SizeAssumption
<1>2. Skip(i) + PieceWords(b, i) = Skip(i + 1)
  BY <1>1, PieceFacts
<1>3. i \in Nat /\ j - 1 \in Nat /\ i <= j - 1 /\ (i + 1) - 1 = i
  BY <1>1
<1>4. i * Size <= (j - 1) * Size
  BY <1>1, <1>3, Multiples
<1> QED BY <1>2, <1>3, <1>4 DEF Skip

LEMMA HardSplitBatch ==
    ASSUME SectionsInv, text \in Texts, NEW b \in 1..Len(text), chunker = "fixed",
           NEW at \in Finds(b)
    PROVE  /\ Batch(HardSplit(b, at), Offset(b), EndOf(b))
           /\ Held(HardSplit(b, at)) = WordsOf({b})
<1>1. PICK h, n, o, t : h = HardSplit(b, at) /\ n = Pieces(b) /\ o = Offset(b) /\ t = text[b].words
  OBVIOUS
<1>2. /\ h \in Seq(ChunkRecord) /\ Len(h) = n /\ DOMAIN h = 1..n /\ n \in Nat \ {0}
      /\ o \in Nat /\ t \in Nat \ {0} /\ EndOf(b) = o + t
  BY <1>1, HardSplitIs, PieceFacts, BlockSpan, TextBlocks
<1>3. ASSUME NEW i \in 1..n
      PROVE  /\ ChunkOK(h[i]) /\ Fits(h[i]) /\ o < LastWord(h[i]) /\ LastWord(h[i]) <= o + t
             /\ LastWord(h[i]) = o + (Skip(i) + PieceWords(b, i)) /\ Len(h[i].blocks) = 1
             /\ FirstWord(h[i]) = o + (Skip(i) + 1)
  <2>1. /\ ChunkOK(h[i]) /\ h[i].blocks = <<b>>
        /\ h[i].words = PieceWords(b, i)
        /\ LastWord(h[i]) = o + (Skip(i) + PieceWords(b, i))
        /\ FirstWord(h[i]) = o + (Skip(i) + 1)
    BY <1>1, HardSplitIs
  <2>2. /\ Skip(i) \in Nat /\ PieceWords(b, i) \in Nat \ {0} /\ PieceWords(b, i) <= Size
        /\ Skip(i) + PieceWords(b, i) <= t
    BY <1>1, PieceFacts
  <2>3. Len(h[i].blocks) = 1
    BY <2>1
  <2>4. Fits(h[i])
    BY <2>1, <2>2, <2>3 DEF Fits
  <2>5. PICK l : l = LastWord(h[i])
    OBVIOUS
  <2>6. o < l /\ l <= o + t
    BY <1>2, <2>1, <2>2, <2>5
  <2> QED BY <2>1, <2>3, <2>4, <2>5, <2>6
<1>4. ASSUME NEW i \in 1..n, NEW j \in 1..n, i < j PROVE LastWord(h[i]) < LastWord(h[j])
  <2>1. Skip(i) + PieceWords(b, i) <= Skip(j)
    BY <1>1, <1>4, PiecesAscend
  <2>2. /\ Skip(i) \in Nat /\ PieceWords(b, i) \in Nat
        /\ Skip(j) \in Nat /\ PieceWords(b, j) \in Nat \ {0}
    BY <1>1, PieceFacts
  <2>3. o + (Skip(i) + PieceWords(b, i)) < o + (Skip(j) + PieceWords(b, j))
    BY SMTT(30), <1>2, <2>1, <2>2
  <2> QED BY <1>3, <2>3
<1>5. Batch(h, o, o + t)
  BY <1>2, <1>3, <1>4 DEF Batch
<1>6. \A x : x \in WordsOf({b}) <=> x \in Nat /\ o < x /\ x <= o + t
  <2>1. {b} \in SUBSET (1..Len(text))
    OBVIOUS
  <2>2. \A x : x \in WordsOf({b}) <=> x \in Nat /\ \E c \in {b} : Offset(c) < x /\ x <= EndOf(c)
    BY <2>1, WordsOfBlocks
  <2> QED BY <1>1, <1>2, <2>2
<1>7. \A i \in 1..n : \A x : x \in WordsIn(h[i])
          <=> x \in Nat /\ o + (Skip(i) + 1) <= x /\ x <= o + (Skip(i) + PieceWords(b, i))
  <2> SUFFICES ASSUME NEW i \in 1..n, NEW x
               PROVE  x \in WordsIn(h[i])
                  <=> x \in Nat /\ o + (Skip(i) + 1) <= x /\ x <= o + (Skip(i) + PieceWords(b, i))
    OBVIOUS
  <2> QED BY <1>3, WordsOfOne
<1>8. \A x : x \in Held(h) <=> \E i \in 1..n : x \in WordsIn(h[i])
  BY <1>2 DEF Held
<1>9. ASSUME NEW x, x \in Held(h) PROVE x \in WordsOf({b})
  <2>1. PICK i \in 1..n : x \in WordsIn(h[i])
    BY <1>8, <1>9
  <2>2. x \in Nat /\ o + (Skip(i) + 1) <= x /\ x <= o + (Skip(i) + PieceWords(b, i))
    BY <1>7, <2>1
  <2>3. Skip(i) \in Nat /\ PieceWords(b, i) \in Nat /\ Skip(i) + PieceWords(b, i) <= t
    BY <1>1, PieceFacts
  <2>4. PICK s \in Nat, w \in Nat : s = Skip(i) /\ w = PieceWords(b, i)
    BY <2>3
  <2>5. s + w <= t /\ o + (s + 1) <= x /\ x <= o + (s + w)
    BY <2>2, <2>3, <2>4
  <2>6. o < x /\ x <= o + t
    BY <1>2, <2>2, <2>5
  <2> QED BY <1>6, <2>2, <2>6
\* Every word of the block is in the last piece that begins before it.
<1>10. ASSUME NEW x, x \in WordsOf({b}) PROVE x \in Held(h)
  <2>1. x \in Nat /\ o < x /\ x <= o + t
    BY <1>6, <1>10
  <2> DEFINE T == {i \in 1..n : o + (Skip(i) + 1) <= x}
  <2>2. 1 \in T
    <3>1. Skip(1) = 0 /\ 1 \in 1..n
      BY <1>2, PieceFacts
    <3> QED BY <1>2, <2>1, <3>1
  <2>3. T \in SUBSET Nat /\ \A i \in T : i <= n
    BY <1>2
  <2>4. Max(T) \in T /\ \A i \in T : i <= Max(T)
    <3> HIDE DEF T
    <3> QED BY <1>2, <2>2, <2>3, MaxMember
  <2>5. PICK i \in 1..n : i \in T /\ \A j \in T : j <= i
    BY <2>4
  <2>6. Skip(i) \in Nat /\ PieceWords(b, i) \in Nat
    BY <1>1, PieceFacts
  <2>7. x <= o + (Skip(i) + PieceWords(b, i))
    <3>1. CASE i = n
      <4>1. Skip(i) + PieceWords(b, i) = t
        BY <1>1, <3>1, PieceFacts
      <4> QED BY <2>1, <4>1
    <3>2. CASE i # n
      <4>1. i < n /\ i + 1 \in 1..n /\ ~(i + 1 <= i)
        BY <1>2, <3>2
      <4>2. Skip(i) + PieceWords(b, i) = Skip(i + 1)
        BY <1>1, <4>1, PieceFacts
      <4>3. ~(o + (Skip(i + 1) + 1) <= x)
        BY <2>5, <4>1
      <4>4. Skip(i + 1) \in Nat
        BY <1>1, <4>1, PieceFacts
      <4> QED BY <1>2, <2>1, <4>2, <4>3, <4>4
    <3> QED BY <3>1, <3>2
  <2>8. x \in WordsIn(h[i])
    BY <1>7, <2>1, <2>5, <2>7
  <2> QED BY <1>8, <2>8
<1>11. Held(h) = WordsOf({b})
  BY <1>9, <1>10
<1> QED BY <1>1, <1>2, <1>5, <1>11

-----------------------------------------------------------------------------
(* What is in the buffer, as a chunk *)

\* The offset that what is chunked ends after: the buffer's last block is new.
Fresh(a, q) == IF q = << >> THEN a ELSE a - 1

LEMMA InLoop ==
    ASSUME LoopInv, pc = "blocks", NEW a, a = Ahead(pc, current, rest)
    PROVE  /\ SectionsInv /\ text \in Texts /\ Len(text) \in Nat /\ next = Len(text) + 1
           /\ a \in 1..(Len(text) + 1) /\ parts \in Seq(1..Len(text)) /\ Len(parts) \in Nat
           /\ Floor(current) \in Nat \ {0} /\ Floor(current) <= a - Len(parts)
           /\ a - Len(parts) \in Nat \ {0} /\ From(parts, a - Len(parts))
           /\ chunker = "structure" => current \in 1..Len(sections)
           /\ from \in Nat
<1>1. /\ SectionsInv /\ LoopOK(pc, current, rest, parts) /\ text \in Texts
      /\ from \in 0..EndOfText /\ Looping(pc)
  BY DEF LoopInv, Looping
<1>2. Floor(current) \in Nat \ {0} /\ a \in 1..(Len(text) + 1) /\ Len(text) \in Nat
  BY <1>1, FloorAndStop, AheadType
<1>3. /\ parts \in Seq(1..Len(text)) /\ Len(parts) \in Nat
      /\ Floor(current) <= a - Len(parts) /\ From(parts, a - Len(parts))
      /\ chunker = "structure" => current \in 1..Len(sections)
      /\ next = Len(text) + 1
  BY <1>1 DEF LoopOK
<1>4. a - Len(parts) \in Nat \ {0}
  BY <1>2, <1>3
<1>5. from \in Nat
  BY <1>1
<1> QED BY <1>1, <1>2, <1>3, <1>4, <1>5

LEMMA FlushedIs ==
    ASSUME LoopInv, pc = "blocks", parts # << >>, NEW en \in Nat
    PROVE  \E st, e, sec \in Nat :
              /\ Flushed(en) = <<Chunk(parts, 0, Words(parts), st, e, sec)>>
              /\ chunker = "structure" =>
                     /\ st = SectionStart(sections[current]) /\ e = SectionEnd(sections[current])
                     /\ sec = current
              /\ chunker = "fixed" => st = from /\ e = en /\ sec = SectionAt(from)
              /\ chunker = "semantic" =>
                     /\ st = Offset(parts[1]) /\ e = EndOf(parts[Len(parts)])
                     /\ sec = SectionAt(st)
<1>1. PICK a : a = Ahead(pc, current, rest)
  OBVIOUS
<1>2. /\ SectionsInv /\ text \in Texts /\ next = Len(text) + 1 /\ from \in Nat
      /\ chunker = "structure" => current \in 1..Len(sections)
      /\ chunker \in {"structure", "fixed", "semantic"}
      /\ parts \in Seq(1..Len(text))
  BY <1>1, InLoop DEF LoopInv
<1>3. CASE chunker = "structure"
  <2>1. Flushed(en) = <<InSection(parts)>>
    BY <1>3 DEF Flushed
  <2>2. SectionStart(sections[current]) \in Nat /\ SectionEnd(sections[current]) \in Nat
        /\ current \in Nat
    BY <1>2, <1>3, SectionBounds, Tiles
  <2> QED BY <1>3, <2>1, <2>2 DEF InSection
<1>4. CASE chunker = "fixed"
  <2>1. Flushed(en) = <<FromBuffer(en)>>
    BY <1>4 DEF Flushed
  <2>2. SectionAt(from) \in Nat
    BY <1>2, SectionAtType
  <2> QED BY <1>2, <1>4, <2>1, <2>2 DEF FromBuffer
<1>5. CASE chunker = "semantic"
  <2>1. Flushed(en) = <<OfSentences(parts)>>
    BY <1>5 DEF Flushed
  <2>2. Len(parts) \in 1..Len(parts) /\ 1 \in 1..Len(parts)
    <3>1. Len(parts) \in Nat \ {0}
      BY <1>2, EmptySeq
    <3> QED BY <3>1
  <2>3. Offset(parts[1]) \in Nat /\ EndOf(parts[Len(parts)]) \in Nat
    <3>1. parts[1] \in 1..Len(text) /\ parts[Len(parts)] \in 1..Len(text)
      BY <1>2, <2>2
    <3> QED BY <1>2, <3>1, BlockSpan
  <2>4. SectionAt(Offset(parts[1])) \in Nat
    BY <1>2, SectionAtType
  <2>5. Head(parts) = parts[1] /\ Last(parts) = parts[Len(parts)]
    BY <1>2, HeadTailProperties DEF Last
  <2> QED BY <1>5, <2>1, <2>3, <2>4, <2>5 DEF OfSentences
<1> QED BY <1>2, <1>3, <1>4, <1>5

LEMMA FlushedFits ==
    ASSUME LoopInv, parts # << >>, NEW c, c.blocks = parts, c.words = Words(parts)
    PROVE  Fits(c)
<1>1. /\ text \in Texts /\ parts \in Seq(1..Len(text)) /\ BufferOK(parts, tokens)
      /\ Len(parts) \in Nat \ {0}
  <2>1. text \in Texts /\ parts \in Seq(1..Len(text)) /\ BufferOK(parts, tokens)
    BY DEF LoopInv, LoopOK
  <2> QED BY <2>1, EmptySeq
<1>2. PICK k, e, t : k = Len(parts) /\ e = EstimateTokens(Words(parts)) /\ t = TokensIn(parts)
  OBVIOUS
<1>3. /\ e \in Nat /\ t \in Nat /\ k \in Nat \ {0} /\ e <= t + (k - 1)
      /\ Words(parts) \in Nat /\ Words(parts) <= e
  BY <1>1, <1>2, Sums, Estimate
<1>4. Size \in Nat /\ Overlap \in Nat /\ SemanticSize \in Nat
  BY SizeAssumption
<1>5. chunker = "structure" => e <= Size + (k - 1)
  <2>1. chunker = "structure" => t <= Size
    BY <1>1, <1>2 DEF BufferOK
  <2> QED BY <1>3, <1>4, <2>1
<1>6. chunker = "semantic" => k = 1 \/ e <= SemanticSize
  BY <1>1, <1>2, <1>3 DEF BufferOK
<1>7. chunker = "fixed" => e <= Size + Overlap + (k - 1)
  <2>1. chunker = "fixed" => t <= Size + Overlap
    BY <1>1, <1>2 DEF BufferOK
  <2> QED BY <1>3, <1>4, <2>1
<1>8. chunker = "fixed" /\ k = 1 => Words(parts) <= Size
  <2> SUFFICES ASSUME chunker = "fixed", k = 1 PROVE Words(parts) <= Size
    OBVIOUS
  <2>1. PICK b \in 1..Len(text) : parts = <<b>>
    <3>1. parts = <<parts[1]>> /\ parts[1] \in 1..Len(text)
      BY <1>1, <1>2
    <3> QED BY <3>1
  <2>2. TokensOf(b) <= Size
    <3>1. \A i \in 1..Len(parts) : TokensOf(parts[i]) <= Size
      BY <1>1 DEF BufferOK
    <3>2. 1 \in 1..Len(parts) /\ parts[1] = b
      BY <1>2, <2>1
    <3> QED BY <3>1, <3>2
  <2>3. Words(parts) = text[b].words /\ TokensOf(b) = EstimateTokens(text[b].words)
    BY <1>1, <2>1, SumsOfOne DEF TokensOf
  <2>4. e <= Size
    BY <1>2, <2>2, <2>3
  <2> QED BY <1>3, <1>4, <2>4
<1> QED BY <1>2, <1>3, <1>5, <1>6, <1>7, <1>8 DEF Fits

LEMMA FlushedBatch ==
    ASSUME LoopInv, pc = "blocks", NEW en \in Nat, NEW a, a = Ahead(pc, current, rest)
    PROVE  /\ Batch(Flushed(en), Offset(Fresh(a, parts)), Offset(a))
           /\ Held(Flushed(en)) = WordsOf(ToSet(parts))
           /\ Fresh(a, parts) \in 1..(Len(text) + 1)
           /\ Offset(Fresh(a, parts)) \in Nat /\ Offset(a) \in Nat
           /\ Offset(Fresh(a, parts)) <= Offset(a)
           /\ parts = << >> => Flushed(en) = << >>
<1>1. /\ SectionsInv /\ text \in Texts /\ Len(text) \in Nat
      /\ a \in 1..(Len(text) + 1) /\ parts \in Seq(1..Len(text)) /\ Len(parts) \in Nat
      /\ a - Len(parts) \in Nat \ {0} /\ From(parts, a - Len(parts))
  BY InLoop
<1>2. Offset(a) \in Nat
  BY <1>1, Offsets
<1>3. CASE parts = << >>
  <2>1. Flushed(en) = << >> /\ Fresh(a, parts) = a
    BY <1>3 DEF Flushed, Fresh
  <2>2. ToSet(parts) = {}
    BY <1>3 DEF ToSet
  <2>3. WordsOf({}) = {}
    BY DEF WordsOf
  <2>4. \A x \in Nat : x <= x
    OBVIOUS
  <2> QED BY <1>1, <1>2, <2>1, <2>2, <2>3, <2>4, NoChunks
<1>4. CASE parts # << >>
  <2>1. PICK st \in Nat, e \in Nat, sec \in Nat :
           Flushed(en) = <<Chunk(parts, 0, Words(parts), st, e, sec)>>
    BY <1>4, FlushedIs
  <2>2. PICK c : c = Chunk(parts, 0, Words(parts), st, e, sec)
    OBVIOUS
  <2>3. PICK n \in Nat : n = a - Len(parts)
    BY <1>1
  <2>4. /\ ChunkOK(c) /\ WordsIn(c) = WordsOf(ToSet(parts)) /\ Len(parts) \in Nat \ {0}
        /\ LastWord(c) = EndOf(n + (Len(parts) - 1)) /\ n + (Len(parts) - 1) \in 1..Len(text)
        /\ c.blocks = parts /\ c.words = Words(parts)
    <3>1. PICK q \in Seq(1..Len(text)) : q = parts
      BY <1>1
    <3>2. From(q, n) /\ q # << >> /\ c = Chunk(q, 0, Words(q), st, e, sec)
      BY <1>1, <1>4, <2>2, <2>3, <3>1
    <3>3. IsWhole(c, q, n)
      BY <1>1, <3>2, WholeChunk
    <3> QED BY <3>1, <3>3 DEF IsWhole
  <2>5. n + (Len(parts) - 1) = a - 1 /\ (a - 1) + 1 = a
    BY <1>1, <2>3
  <2>6. /\ Offset(a - 1) \in Nat /\ Offset(a - 1) < EndOf(a - 1) /\ EndOf(a - 1) \in Nat
        /\ Offset(a) = EndOf(a - 1) + 1 /\ a - 1 \in 1..Len(text)
    BY <1>1, <2>4, <2>5, BlockSpan
  <2>7. /\ Offset(a - 1) < LastWord(c) /\ LastWord(c) <= Offset(a)
        /\ Offset(a - 1) <= Offset(a) /\ a - 1 \in 1..(Len(text) + 1)
    BY SMTT(20), <1>1, <2>4, <2>5, <2>6
  <2>8. Fits(c)
    BY <1>4, <2>4, FlushedFits
  <2>9. Fresh(a, parts) = a - 1
    BY <1>4 DEF Fresh
  <2>10. Batch(<<c>>, Offset(a - 1), Offset(a)) /\ Held(<<c>>) = WordsIn(c)
    BY <2>4, <2>7, <2>8, OneChunk
  <2> QED BY <1>2, <1>4, <2>1, <2>2, <2>4, <2>6, <2>7, <2>9, <2>10
<1> QED BY <1>3, <1>4

\* A chunk of one whole block.
IsBlock(c, b) ==
    /\ ChunkOK(c) /\ WordsIn(c) = WordsOf({b}) /\ Len(c.blocks) = 1
    /\ FirstWord(c) = Offset(b) + 1 /\ LastWord(c) = EndOf(b)

LEMMA WholeBlock ==
    ASSUME text \in Texts, NEW b \in 1..Len(text),
           NEW st \in Nat, NEW en \in Nat, NEW sec \in Nat,
           NEW c, c = Chunk(<<b>>, 0, Words(<<b>>), st, en, sec)
    PROVE  IsBlock(c, b)
<1>1. b \in Nat /\ <<b>> \in Seq(1..Len(text))
  BY TextBlocks
<1>2. PICK q \in Seq(1..Len(text)) : q = <<b>>
  BY <1>1
<1>3. Len(q) = 1 /\ q[1] = b /\ q # << >> /\ DOMAIN q = {1}
  BY <1>2
<1>4. From(q, b) /\ ToSet(q) = {b} /\ b + (Len(q) - 1) = b
  <2>1. b + (1 - 1) = b /\ \A i \in 1..1 : i = 1
    BY <1>1
  <2> QED BY <1>3, <2>1 DEF From, ToSet
<1>5. c = Chunk(q, 0, Words(q), st, en, sec) /\ c.blocks = q
  BY <1>2 DEF Chunk
<1>6. IsWhole(c, q, b)
  BY <1>1, <1>3, <1>4, <1>5, WholeChunk
<1>7. /\ ChunkOK(c) /\ WordsIn(c) = WordsOf(ToSet(q)) /\ FirstWord(c) = Offset(b) + 1
      /\ LastWord(c) = EndOf(b + (Len(q) - 1))
  BY <1>6 DEF IsWhole
<1> QED BY <1>3, <1>4, <1>5, <1>7 DEF IsBlock

\* A paragraph that is longer than the limit, as chunks.
LEMMA OversizedBatch ==
    ASSUME LoopInv, pc = "blocks", rest # << >>, chunker \in {"structure", "fixed"},
           NEW b, b = Head(rest), NEW cs \in Oversized(b)
    PROVE  /\ Batch(cs, Offset(b), EndOf(b))
           /\ Held(cs) = WordsOf({b})
<1>1. /\ SectionsInv /\ text \in Texts /\ LoopOK(pc, current, rest, parts)
      /\ b \in 1..Len(text) /\ next = Len(text) + 1
  BY HeadOffset DEF LoopInv, LoopOK
<1>2. CASE chunker = "fixed"
  <2>1. PICK at \in Finds(b) : cs = HardSplit(b, at)
    BY <1>2 DEF Oversized
  <2> QED BY <1>1, <1>2, <2>1, HardSplitBatch
<1>3. CASE chunker = "structure"
  <2>1. current \in 1..Len(sections) /\ current \in Nat
    BY <1>1, <1>3, Tiles DEF LoopOK, Looping
  <2>2. PICK st \in Nat, e \in Nat :
           st = SectionStart(sections[current]) /\ e = SectionEnd(sections[current])
    BY <1>1, <2>1, SectionBounds
  <2>5. PICK c : c = Chunk(<<b>>, 0, Words(<<b>>), st, e, current)
    OBVIOUS
  <2>6. cs = <<c>>
    BY <1>3, <2>2, <2>5 DEF Oversized, InSection
  <2>7. /\ ChunkOK(c) /\ WordsIn(c) = WordsOf({b}) /\ LastWord(c) = EndOf(b)
        /\ Len(c.blocks) = 1
    <3>1. IsBlock(c, b)
      BY <1>1, <2>1, <2>2, <2>5, WholeBlock
    <3> QED BY <3>1 DEF IsBlock
  <2>11. Fits(c)
    BY <1>3, <2>7 DEF Fits
  <2>12. Offset(b) < EndOf(b) /\ EndOf(b) <= EndOf(b)
    <3>1. EndOf(b) \in Nat /\ Offset(b) < EndOf(b)
      BY <1>1, BlockSpan
    <3> QED BY <3>1
  <2> QED BY <2>6, <2>7, <2>11, <2>12, OneChunk
<1> QED BY <1>2, <1>3

-----------------------------------------------------------------------------
(* What is chunked so far *)

Before(a) == {b \in Content : b < a}

\* The chunks s, with the buffer q, hold what precedes block a.
Chunked(a, q, s) ==
    /\ \A i \in 1..Len(s) : s[i].index = i - 1
    /\ Batch(s, 0, Offset(Fresh(a, q)))
    /\ Held(s) \cup WordsOf(ToSet(q)) = WordsOf(Before(a))

LEMMA WordsOfUnion ==
    /\ WordsOf({}) = {}
    /\ \A S, T : WordsOf(S \cup T) = WordsOf(S) \cup WordsOf(T)
    /\ \A S, T : S \subseteq T => WordsOf(S) \subseteq WordsOf(T)
BY DEF WordsOf

LEMMA ToSets ==
    /\ ToSet(<< >>) = {}
    /\ \A b : ToSet(<<b>>) = {b}
<1>1. DOMAIN << >> = {}
  OBVIOUS
<1>2. \A b : DOMAIN <<b>> = {1} /\ <<b>>[1] = b
  OBVIOUS
<1>3. ToSet(<< >>) = {}
  BY <1>1 DEF ToSet
<1>4. ASSUME NEW b PROVE ToSet(<<b>>) = {b}
  BY <1>2 DEF ToSet
<1> QED BY <1>3, <1>4

LEMMA ToSetAppend ==
    ASSUME NEW S, NEW q \in Seq(S), NEW b \in S
    PROVE  /\ Append(q, b) \in Seq(S) /\ Append(q, b) # << >>
           /\ ToSet(Append(q, b)) = ToSet(q) \cup {b}
<1>1. /\ Len(q) \in Nat /\ DOMAIN q = 1..Len(q) /\ DOMAIN Append(q, b) = 1..(Len(q) + 1)
      /\ \A i \in 1..Len(q) : Append(q, b)[i] = q[i]
      /\ Append(q, b)[Len(q) + 1] = b
      /\ Append(q, b) \in Seq(S) /\ Append(q, b) # << >>
  OBVIOUS
<1>2. 1..(Len(q) + 1) = (1..Len(q)) \cup {Len(q) + 1}
  BY <1>1
<1>3. ToSet(Append(q, b)) = ToSet(q) \cup {b}
  BY <1>1, <1>2 DEF ToSet
<1> QED BY <1>1, <1>3

\* Chunks that are added, numbered on.
LEMMA AddedBatch ==
    ASSUME text \in Texts, NEW s, NEW cs, NEW mid \in Nat, NEW hi \in Nat, mid <= hi,
           \A i \in 1..Len(s) : s[i].index = i - 1,
           Batch(s, 0, mid), Batch(cs, mid, hi)
    PROVE  /\ \A i \in 1..Len(s \o Numbered(Len(s), cs)) :
                 (s \o Numbered(Len(s), cs))[i].index = i - 1
           /\ Batch(s \o Numbered(Len(s), cs), 0, hi)
           /\ Held(s \o Numbered(Len(s), cs)) = Held(s) \cup Held(cs)
<1>1. s \in Seq(ChunkRecord) /\ cs \in Seq(ChunkRecord) /\ Len(s) \in Nat
  BY DEF Batch
<1>2. PICK n \in Nat : n = Len(s)
  BY <1>1
<1>3. PICK d : d = Numbered(n, cs)
  OBVIOUS
<1>4. /\ d \in Seq(ChunkRecord) /\ Len(d) = Len(cs) /\ Len(cs) \in Nat
      /\ \A i \in 1..Len(cs) : d[i].index = n + (i - 1)
  BY <1>1, <1>3, NumberedChunks
<1>5. Batch(d, mid, hi) /\ Held(d) = Held(cs)
  BY <1>3, NumberedBatch
<1>6. Batch(s \o d, 0, hi) /\ Held(s \o d) = Held(s) \cup Held(d)
  <2>1. 0 \in Nat /\ 0 <= mid
    OBVIOUS
  <2> QED BY <1>5, <2>1, JoinedBatch
<1>7. ASSUME NEW i \in 1..Len(s \o d) PROVE (s \o d)[i].index = i - 1
  <2>1. /\ i \in 1..(n + Len(d))
        /\ i \in 1..n => (s \o d)[i] = s[i]
        /\ \A j \in 1..Len(d) : (s \o d)[n + j] = d[j]
        /\ i \in 1..n \/ \E j \in 1..Len(d) : i = n + j
    BY SMTT(20), <1>1, <1>2, <1>4, <1>7, Concatenated
  <2>2. CASE i \in 1..n
    BY <1>2, <2>1, <2>2
  <2>3. CASE \E j \in 1..Len(d) : i = n + j
    <3>1. PICK j \in 1..Len(d) : i = n + j
      BY <2>3
    <3>2. (s \o d)[i] = d[j] /\ d[j].index = n + (j - 1)
      BY <1>4, <2>1, <3>1
    <3>3. n + (j - 1) = i - 1
      BY <1>4, <3>1
    <3> QED BY <3>2, <3>3
  <2> QED BY <2>1, <2>2, <2>3
<1> QED BY <1>2, <1>3, <1>5, <1>6, <1>7

ContentOf(n, a) == {b \in Content : n <= b /\ b < a}

LEMMA ContentTo ==
    ASSUME text \in Texts, NEW n \in 1..(Len(text) + 1), NEW a \in 1..(Len(text) + 1), n <= a
    PROVE  /\ WordsOf(Before(a)) = WordsOf(Before(n)) \cup WordsOf(ContentOf(n, a))
           /\ Content \subseteq 1..Len(text)
<1>1. Content \subseteq 1..Len(text)
  BY TextBlocks DEF Content
<1>2. Before(a) = Before(n) \cup ContentOf(n, a)
  <2>1. \A b \in Content : b \in Nat /\ n \in Nat /\ a \in Nat
    BY <1>1, TextBlocks
  <2>2. \A b \in Content : b < a <=> b < n \/ (n <= b /\ b < a)
    BY <2>1
  <2> QED BY <2>2 DEF Before, ContentOf
<1> QED BY <1>1, <1>2, WordsOfUnion

\* The block that a turn of the loop takes is content.
LEMMA TakesContent ==
    ASSUME LoopInv, pc = "blocks", rest # << >>
    PROVE  /\ Head(rest) = Ahead(pc, current, rest) /\ Head(rest) \in 1..Len(text)
           /\ Ahead(pc, current, Tail(rest)) = Head(rest) + 1
           /\ Head(rest) \in Content
           /\ Head(rest) + 1 \in 1..(Len(text) + 1) /\ Len(text) \in Nat
           /\ ContentOf(Head(rest), Head(rest) + 1) = {Head(rest)}
<1>1. SectionsInv /\ LoopOK(pc, current, rest, parts) /\ text \in Texts
  BY DEF LoopInv
<1>2. PICK b : b = Head(rest)
  OBVIOUS
<1>3. /\ b = Ahead(pc, current, rest) /\ b \in 1..Len(text)
      /\ Ahead(pc, current, Tail(rest)) = b + 1
      /\ Floor(current) <= b - Len(parts) /\ Floor(current) \in Nat \ {0} /\ Len(parts) \in Nat
  BY <1>1, <1>2, TurnTakes
<1>4. Len(text) \in Nat /\ DOMAIN text = 1..Len(text) /\ b + 1 \in 1..(Len(text) + 1)
  <2>1. Len(text) \in Nat /\ DOMAIN text = 1..Len(text)
    BY <1>1, TextBlocks
  <2> QED BY <1>3, <2>1
<1>5. Floor(current) <= b
  BY <1>3, <1>4
<1>6. b \in Content
  <2>1. CASE ~(chunker = "structure" /\ parser = "markdown")
    BY <1>3, <1>4, <2>1 DEF Content
  <2>2. CASE chunker = "structure" /\ parser = "markdown"
    <3>1. current \in 1..Len(sections) /\ next = Len(text) + 1
      BY <1>1, <2>2 DEF LoopOK, Looping
    <3>2. PICK s : s = sections[current]
      OBVIOUS
    <3>3. /\ s.first \in Nat /\ s.last \in 1..Len(text) /\ SectionOK(s, Len(text) + 1)
      BY <1>1, <3>1, <3>2, Tiles
    <3>4. Floor(current) = s.first /\ Stop(current) = s.last
      BY <2>2, <3>2 DEF Floor, Stop
    <3>5. b <= s.last
      <4>1. b = s.last + 1 - Len(rest)
        BY <1>3, <3>4 DEF Ahead, Looping
      <4>2. Len(rest) \in Nat \ {0}
        <5>1. rest \in Seq(1..Len(text))
          BY <1>1 DEF LoopOK
        <5> QED BY <5>1, EmptySeq
      <4> QED BY <1>3, <3>3, <4>1, <4>2
    <3>6. b \in s.first..s.last
      BY <1>3, <1>4, <1>5, <3>3, <3>4, <3>5
    <3>7. text[b].level = 0
      BY <2>2, <3>3, <3>6 DEF SectionOK
    <3> QED BY <1>3, <1>4, <3>7 DEF Content
  <2> QED BY <2>1, <2>2
<1>7. ContentOf(b, b + 1) = {b}
  <2>1. Content \subseteq Nat
    BY <1>4 DEF Content
  <2>2. \A c \in Nat : b <= c /\ c < b + 1 <=> c = b
    BY <1>3, <1>4
  <2> QED BY <1>6, <2>1, <2>2 DEF ContentOf
<1> QED BY <1>2, <1>3, <1>4, <1>6, <1>7

LEMMA ChunkedRigid ==
    UNCHANGED <<input, parsed>> =>
        /\ \A a, q, s : Chunked(a, q, s)' <=> Chunked(a, q, s)
        /\ \A p, c, r : Ahead(p, c, r)' = Ahead(p, c, r)
<1> SUFFICES ASSUME UNCHANGED <<input, parsed>>
             PROVE  /\ \A a, q, s : Chunked(a, q, s)' <=> Chunked(a, q, s)
                    /\ \A p, c, r : Ahead(p, c, r)' = Ahead(p, c, r)
  OBVIOUS
<1>1. /\ text' = text /\ parser' = parser /\ chunker' = chunker
      /\ next' = next /\ stack' = stack /\ sections' = sections
  BY DEF input, parsed
<1>2. \A p, c, r : Ahead(p, c, r)' = Ahead(p, c, r)
  BY <1>1 DEF Looping, Ahead, Stop, Lead
<1>3. \A b : Offset(b)' = Offset(b) /\ EndOf(b)' = EndOf(b)
  BY LoopRigid
<1>4. \A S : WordsOf(S)' = WordsOf(S)
  BY <1>1, <1>3 DEF WordsOf
<1>5. \A c : WordsIn(c)' = WordsIn(c)
  BY <1>1, <1>3 DEF WordsIn
<1>6. \A c : LastWord(c)' = LastWord(c)
  BY <1>3 DEF LastWord
<1>7. \A c : ChunkOK(c)' <=> ChunkOK(c)
  BY <1>1 DEF ChunkOK, Words, Total
<1>8. \A c : Fits(c)' <=> Fits(c)
  BY <1>1 DEF Fits
<1>9. \A cs, lo, hi : Batch(cs, lo, hi)' <=> Batch(cs, lo, hi)
  BY <1>6, <1>7, <1>8 DEF Batch
<1>10. \A s : Held(s)' = Held(s)
  BY <1>5 DEF Held
<1>11. \A a : Before(a)' = Before(a)
  BY <1>1 DEF Before, Content
<1>12. \A a, q : Fresh(a, q)' = Fresh(a, q)
  BY DEF Fresh
<1>13. \A a, q, s : Chunked(a, q, s)' <=> Chunked(a, q, s)
  BY <1>3, <1>4, <1>9, <1>10, <1>11, <1>12 DEF Chunked
<1> QED BY <1>2, <1>13

\* A turn that begins the buffer anew, and adds chunks of all before it.
LEMMA ChunkedAnew ==
    ASSUME LoopInv, NEW a \in 1..(Len(text) + 1), NEW q \in Seq(1..Len(text)), NEW s,
           Chunked(a, q, s),
           NEW n \in 1..(Len(text) + 1), a <= n, NEW v \in Seq(1..Len(text)),
           Fresh(n, v) \in 1..(Len(text) + 1), Fresh(a, q) \in 1..(Len(text) + 1),
           Offset(Fresh(a, q)) <= Offset(Fresh(n, v)),
           NEW cs, Batch(cs, Offset(Fresh(a, q)), Offset(Fresh(n, v))),
           WordsOf(ToSet(q)) \cup WordsOf(ContentOf(a, n)) = Held(cs) \cup WordsOf(ToSet(v))
    PROVE  Chunked(n, v, s \o Numbered(Len(s), cs))
<1>1. text \in Texts /\ Offset(Fresh(a, q)) \in Nat /\ Offset(Fresh(n, v)) \in Nat
  BY Offsets DEF LoopInv
<1>2. PICK d : d = s \o Numbered(Len(s), cs)
  OBVIOUS
<1>3. /\ \A i \in 1..Len(s) : s[i].index = i - 1
      /\ Batch(s, 0, Offset(Fresh(a, q)))
      /\ Held(s) \cup WordsOf(ToSet(q)) = WordsOf(Before(a))
  BY DEF Chunked
<1>4. /\ \A i \in 1..Len(d) : d[i].index = i - 1
      /\ Batch(d, 0, Offset(Fresh(n, v)))
      /\ Held(d) = Held(s) \cup Held(cs)
  BY <1>1, <1>2, <1>3, AddedBatch
<1>5. WordsOf(Before(n)) = WordsOf(Before(a)) \cup WordsOf(ContentOf(a, n))
  BY <1>1, ContentTo
<1>6. Held(d) \cup WordsOf(ToSet(v)) = WordsOf(Before(n))
  BY <1>3, <1>4, <1>5
<1> QED BY <1>2, <1>4, <1>6 DEF Chunked

ChunkInv ==
    /\ LoopInv
    /\ pc = "parse" => chunks = << >>
    /\ Chunked(Ahead(pc, current, rest), parts, chunks)

LEMMA OffsetsAscend ==
    ASSUME text \in Texts, NEW m \in 1..(Len(text) + 1), NEW n \in 1..(Len(text) + 1), m <= n
    PROVE  Offset(m) \in Nat /\ Offset(n) \in Nat /\ Offset(m) <= Offset(n)
<1>1. Len(text) \in Nat /\ Offset(m) \in Nat /\ Offset(n) \in Nat
  BY Offsets, TextBlocks
<1>2. CASE m = n
  BY <1>1, <1>2
<1>3. CASE m # n
  <2>1. m < n /\ m \in 1..Len(text)
    BY <1>1, <1>3
  <2>2. EndOf(m) < Offset(n) /\ Offset(m) < EndOf(m) /\ EndOf(m) \in Nat
    BY <2>1, Offsets, BlockSpan
  <2> QED BY <1>1, <2>2
<1> QED BY <1>2, <1>3

LEMMA AddNothing ==
    ASSUME NEW s \in Seq(ChunkRecord) PROVE s \o Numbered(Len(s), << >>) = s
<1>1. Numbered(Len(s), << >>) = << >>
  <2>1. << >> \in Seq(ChunkRecord) /\ Len(<< >>) = 0 /\ Len(s) \in Nat
    OBVIOUS
  <2>2. PICK d : d = Numbered(Len(s), << >>)
    OBVIOUS
  <2>3. d \in Seq(ChunkRecord) /\ Len(d) = 0
    BY <2>1, <2>2, NumberedChunks
  <2>4. d = << >>
    BY <2>3, EmptySeq
  <2> QED BY <2>2, <2>4
<1>2. s \o << >> = s
  OBVIOUS
<1> QED BY <1>1, <1>2

LEMMA ChunkKept ==
    ASSUME ChunkInv, LoopInv', UNCHANGED <<input, parsed>>, pc' # "parse",
           Chunked(Ahead(pc', current', rest'), parts', chunks')
    PROVE  ChunkInv'
<1>1. Chunked(Ahead(pc, current, rest), parts, chunks)'
  <2>1. Ahead(pc, current, rest)' = Ahead(pc', current', rest')
    BY ChunkedRigid
  <2> QED BY <2>1, ChunkedRigid
<1> QED BY <1>1 DEF ChunkInv

LEMMA ChunkInvInit == Init => ChunkInv
<1> SUFFICES ASSUME Init PROVE ChunkInv
  OBVIOUS
<1>1. LoopInv /\ text \in Texts /\ pc = "parse" /\ chunks = << >> /\ parts = << >>
  BY LoopInvInit DEF Init
<1>2. Ahead(pc, current, rest) = 1
  BY <1>1 DEF Ahead, Looping
<1>3. WordsOf(Before(1)) = {} /\ ToSet(<< >>) = {}
  <2>1. Content \subseteq 1..Len(text) /\ Len(text) \in Nat
    BY <1>1, TextBlocks DEF Content
  <2>2. \A b \in 1..Len(text) : ~(b < 1)
    BY <2>1
  <2>3. Before(1) = {}
    BY <2>1, <2>2 DEF Before
  <2>4. DOMAIN << >> = {}
    OBVIOUS
  <2> QED BY <2>3, <2>4, WordsOfUnion DEF ToSet
<1>4. Chunked(1, << >>, << >>)
  <2>1. Len(<< >>) = 0 /\ \A i \in 1..0 : FALSE
    OBVIOUS
  <2>2. Batch(<< >>, 0, Offset(Fresh(1, << >>))) /\ Held(<< >>) = {}
    BY NoChunks
  <2> QED BY <1>3, <2>1, <2>2, WordsOfUnion DEF Chunked
<1> QED BY <1>1, <1>2, <1>4 DEF ChunkInv

\* A turn of the loop over blocks, that adds the chunks cs and leaves the buffer v.
LEMMA TurnChunks ==
    ASSUME ChunkInv, LoopInv', UNCHANGED <<input, parsed>>, pc = "blocks", rest # << >>,
           pc' = pc, current' = current, rest' = Tail(rest),
           NEW a, a = Head(rest),
           parts' \in Seq(1..Len(text)),
           NEW cs, chunks' = chunks \o Numbered(Len(chunks), cs),
           Fresh(a + 1, parts') \in {a, a + 1}, Fresh(a, parts) \in {a - 1, a},
           Fresh(a, parts) \in 1..(Len(text) + 1),
           Batch(cs, Offset(Fresh(a, parts)), Offset(Fresh(a + 1, parts'))),
           WordsOf(ToSet(parts)) \cup WordsOf({a}) = Held(cs) \cup WordsOf(ToSet(parts'))
    PROVE  ChunkInv'
<1>1. /\ a = Ahead(pc, current, rest) /\ a \in 1..Len(text) /\ Len(text) \in Nat
      /\ Ahead(pc, current, Tail(rest)) = a + 1
      /\ a + 1 \in 1..(Len(text) + 1) /\ ContentOf(a, a + 1) = {a}
      /\ LoopInv /\ text \in Texts /\ parts \in Seq(1..Len(text))
      /\ Chunked(a, parts, chunks)
  BY TakesContent DEF ChunkInv, LoopInv, LoopOK
<1>2. PICK v, t : v = parts' /\ t = chunks'
  OBVIOUS
<1>3. PICK n : n = a + 1
  OBVIOUS
<1>4. /\ n \in 1..(Len(text) + 1) /\ a <= n /\ a \in 1..(Len(text) + 1)
      /\ Fresh(n, v) \in 1..(Len(text) + 1) /\ Fresh(a, parts) <= Fresh(n, v)
  BY SMTT(20), <1>1, <1>2, <1>3
<1>5. Offset(Fresh(a, parts)) <= Offset(Fresh(n, v))
  BY <1>1, <1>4, OffsetsAscend
<1>6. WordsOf(ToSet(parts)) \cup WordsOf(ContentOf(a, n)) = Held(cs) \cup WordsOf(ToSet(v))
  BY <1>1, <1>2, <1>3
<1>7. Batch(cs, Offset(Fresh(a, parts)), Offset(Fresh(n, v))) /\ v \in Seq(1..Len(text))
  BY <1>2, <1>3
<1>8. Chunked(n, v, chunks \o Numbered(Len(chunks), cs))
  BY <1>1, <1>4, <1>5, <1>6, <1>7, ChunkedAnew
<1>9. Chunked(Ahead(pc', current', rest'), parts', chunks')
  BY <1>1, <1>2, <1>3, <1>8
<1> QED BY <1>9, ChunkKept

LEMMA AppendIs ==
    \A S : \A q \in Seq(S) : \A b \in S : Append(q, b) \in Seq(S) /\ Append(q, b) # << >>
<1> SUFFICES ASSUME NEW S, NEW q \in Seq(S), NEW b \in S
             PROVE  Append(q, b) \in Seq(S) /\ Append(q, b) # << >>
  OBVIOUS
<1>1. Append(q, b) \in Seq(S) /\ Len(Append(q, b)) = Len(q) + 1 /\ Len(q) \in Nat
  OBVIOUS
<1>2. Append(q, b) # << >>
  <2>1. Len(Append(q, b)) # 0 /\ Len(<< >>) = 0
    BY <1>1
  <2> QED BY <2>1
<1> QED BY <1>1, <1>2

LEMMA TurnState ==
    ASSUME ChunkInv, pc = "blocks", rest # << >>, NEW a, a = Head(rest)
    PROVE  /\ LoopInv /\ SectionsInv /\ text \in Texts /\ Len(text) \in Nat
           /\ a \in 1..Len(text) /\ a = Ahead(pc, current, rest) /\ parts \in Seq(1..Len(text))
           /\ Chunked(a, parts, chunks)
           /\ Fresh(a, parts) \in {a - 1, a} /\ Fresh(a, parts) \in 1..(Len(text) + 1)
           /\ Offset(Fresh(a, parts)) \in Nat /\ Offset(a) \in Nat
           /\ Offset(Fresh(a, parts)) <= Offset(a)
           /\ EndOf(a) \in Nat /\ Offset(a) <= EndOf(a)
           /\ EndOf(a) <= Offset(a + 1) /\ Offset(a + 1) \in Nat
           /\ \A en \in Nat : /\ Batch(Flushed(en), Offset(Fresh(a, parts)), Offset(a))
                              /\ Held(Flushed(en)) = WordsOf(ToSet(parts))
           /\ \A v : v # << >> => Fresh(a + 1, v) = a
           /\ Fresh(a + 1, << >>) = a + 1
<1>1. /\ LoopInv /\ SectionsInv /\ text \in Texts /\ Len(text) \in Nat
      /\ a \in 1..Len(text) /\ a = Ahead(pc, current, rest) /\ parts \in Seq(1..Len(text))
      /\ Chunked(a, parts, chunks)
  BY TakesContent DEF ChunkInv, LoopInv, LoopOK
<1>2. /\ \A en \in Nat : /\ Batch(Flushed(en), Offset(Fresh(a, parts)), Offset(a))
                         /\ Held(Flushed(en)) = WordsOf(ToSet(parts))
      /\ Fresh(a, parts) \in 1..(Len(text) + 1)
      /\ Offset(Fresh(a, parts)) \in Nat /\ Offset(a) \in Nat
      /\ Offset(Fresh(a, parts)) <= Offset(a)
  <2>1. /\ Fresh(a, parts) \in 1..(Len(text) + 1)
        /\ Offset(Fresh(a, parts)) \in Nat /\ Offset(a) \in Nat
        /\ Offset(Fresh(a, parts)) <= Offset(a)
    <3>1. 0 \in Nat
      OBVIOUS
    <3> QED BY <1>1, <3>1, FlushedBatch
  <2>2. \A en \in Nat : /\ Batch(Flushed(en), Offset(Fresh(a, parts)), Offset(a))
                        /\ Held(Flushed(en)) = WordsOf(ToSet(parts))
    BY <1>1, FlushedBatch
  <2> QED BY <2>1, <2>2
<1>3. Fresh(a, parts) \in {a - 1, a}
  BY DEF Fresh
<1>4. /\ EndOf(a) \in Nat /\ Offset(a) <= EndOf(a)
      /\ EndOf(a) <= Offset(a + 1) /\ Offset(a + 1) \in Nat
  <2>1. /\ Offset(a) \in Nat /\ EndOf(a) \in Nat /\ Offset(a) < EndOf(a)
        /\ Offset(a + 1) = EndOf(a) + 1
    BY <1>1, BlockSpan
  <2> QED BY <2>1
<1>5. (\A v : v # << >> => Fresh(a + 1, v) = a) /\ Fresh(a + 1, << >>) = a + 1
  <2>1. (a + 1) - 1 = a
    BY <1>1
  <2> QED BY <2>1 DEF Fresh
<1> QED BY <1>1, <1>2, <1>3, <1>4, <1>5

LEMMA TakeOversizedChunks == ChunkInv /\ TakeOversized => ChunkInv'
<1> SUFFICES ASSUME ChunkInv, TakeOversized PROVE ChunkInv'
  OBVIOUS
<1>1. PICK a, o, cs : /\ a = Head(rest) /\ o \in Oversized(a) /\ cs = Flushed(Offset(a)) \o o
                      /\ chunks' = chunks \o Numbered(Len(chunks), cs)
  BY DEF TakeOversized, Add, Numbered
<1>2. /\ pc = "blocks" /\ rest # << >> /\ pc' = pc /\ current' = current /\ rest' = Tail(rest)
      /\ parts' = << >> /\ UNCHANGED <<input, parsed>> /\ chunker # "semantic"
      /\ chunks' = chunks \o Numbered(Len(chunks), cs)
  BY <1>1 DEF TakeOversized, Turn
<1>3. chunker \in {"structure", "fixed"} /\ LoopInv'
  BY <1>2, TakeOversizedLoop DEF ChunkInv, LoopInv
<1>4. PICK lo, mid, end, hi, f :
         /\ lo = Offset(Fresh(a, parts)) /\ mid = Offset(a) /\ end = EndOf(a)
         /\ hi = Offset(a + 1) /\ f = Flushed(Offset(a))
  OBVIOUS
<1>5. /\ lo \in Nat /\ mid \in Nat /\ hi \in Nat /\ end \in Nat
      /\ lo <= mid /\ mid <= end /\ end <= hi /\ mid <= hi /\ text \in Texts
      /\ Batch(f, lo, mid) /\ Held(f) = WordsOf(ToSet(parts))
      /\ Fresh(a, parts) \in {a - 1, a} /\ Fresh(a, parts) \in 1..(Len(text) + 1)
      /\ Fresh(a + 1, parts') = a + 1
  BY <1>1, <1>2, <1>4, TurnState
<1>6. Batch(o, mid, hi) /\ Held(o) = WordsOf({a})
  <2>1. Batch(o, mid, end) /\ Held(o) = WordsOf({a})
    BY <1>1, <1>2, <1>3, <1>4, OversizedBatch DEF ChunkInv
  <2> QED BY <1>5, <2>1, WiderBatch
<1>7. Batch(cs, lo, hi) /\ Held(cs) = Held(f) \cup Held(o)
  BY <1>1, <1>4, <1>5, <1>6, JoinedBatch
<1>8. WordsOf(ToSet(parts)) \cup WordsOf({a}) = Held(cs) \cup WordsOf(ToSet(parts'))
  <2>1. WordsOf(ToSet(parts')) = {}
    BY <1>2, ToSets, WordsOfUnion
  <2> QED BY <1>5, <1>6, <1>7, <2>1
<1>9. parts' \in Seq(1..Len(text))
  BY <1>2
<1>10. Batch(cs, Offset(Fresh(a, parts)), Offset(Fresh(a + 1, parts')))
  BY <1>4, <1>5, <1>7
<1>11. Fresh(a + 1, parts') \in {a, a + 1}
  BY <1>5
<1> QED BY <1>1, <1>2, <1>3, <1>5, <1>8, <1>9, <1>10, <1>11, TurnChunks

LEMMA TakeInNextChunks == ChunkInv /\ TakeInNext => ChunkInv'
<1> SUFFICES ASSUME ChunkInv, TakeInNext PROVE ChunkInv'
  OBVIOUS
<1>1. PICK a, cs : a = Head(rest) /\ cs = Flushed(Offset(a))
  OBVIOUS
<1>2. /\ pc = "blocks" /\ rest # << >> /\ pc' = pc /\ current' = current /\ rest' = Tail(rest)
      /\ parts' = Append(Kept, a) /\ UNCHANGED <<input, parsed>>
      /\ chunks' = chunks \o Numbered(Len(chunks), cs)
  BY <1>1 DEF TakeInNext, Turn, Add, Numbered
<1>3. /\ LoopInv' /\ LoopInv /\ SectionsInv /\ text \in Texts /\ a \in 1..Len(text)
      /\ LoopOK(pc, current, rest, parts) /\ parts \in Seq(1..Len(text))
      /\ Fresh(a, parts) \in {a - 1, a} /\ Fresh(a, parts) \in 1..(Len(text) + 1)
      /\ Offset(a) \in Nat
      /\ \A v : v # << >> => Fresh(a + 1, v) = a
  BY <1>1, <1>2, TurnState, TakeInNextLoop DEF ChunkInv, LoopInv
<1>4. Batch(cs, Offset(Fresh(a, parts)), Offset(a)) /\ Held(cs) = WordsOf(ToSet(parts))
  BY <1>1, <1>2, <1>3, TurnState
<1>5. /\ Kept \in Seq(1..Len(text)) /\ Len(Kept) \in Nat
      /\ \A i \in 1..Len(Kept) : \E j \in 1..Len(parts) : Kept[i] = parts[j]
  BY <1>2, <1>3, KeptShape
<1>6. ToSet(Kept) \subseteq ToSet(parts)
  <2>1. DOMAIN Kept = 1..Len(Kept) /\ DOMAIN parts = 1..Len(parts)
    BY <1>3, <1>5
  <2> QED BY <1>5, <2>1 DEF ToSet
<1>7. /\ Append(Kept, a) \in Seq(1..Len(text)) /\ Append(Kept, a) # << >>
      /\ ToSet(Append(Kept, a)) = ToSet(Kept) \cup {a}
  <2>1. PICK S : S = 1..Len(text)
    OBVIOUS
  <2>2. PICK k \in Seq(S) : k = Kept
    BY <1>5, <2>1
  <2>3. Append(k, a) \in Seq(S) /\ Append(k, a) # << >> /\ ToSet(Append(k, a)) = ToSet(k) \cup {a}
    <3>1. a \in S
      BY <1>3, <2>1
    <3>2. Append(k, a) \in Seq(S) /\ Append(k, a) # << >>
      BY <3>1, AppendIs
    <3>3. ToSet(Append(k, a)) = ToSet(k) \cup {a}
      BY <3>1, ToSetAppend
    <3> QED BY <3>2, <3>3
  <2> QED BY <2>1, <2>2, <2>3
<1>8. WordsOf(ToSet(parts)) \cup WordsOf({a}) = Held(cs) \cup WordsOf(ToSet(parts'))
  <2>1. WordsOf(ToSet(Kept)) \subseteq WordsOf(ToSet(parts))
    BY <1>6, WordsOfUnion
  <2>2. WordsOf(ToSet(parts')) = WordsOf(ToSet(Kept)) \cup WordsOf({a})
    BY <1>2, <1>7, WordsOfUnion
  <2> QED BY <1>4, <2>1, <2>2
<1>9. Fresh(a + 1, parts') = a /\ parts' \in Seq(1..Len(text))
  BY <1>2, <1>3, <1>7
<1>10. Batch(cs, Offset(Fresh(a, parts)), Offset(Fresh(a + 1, parts')))
  BY <1>4, <1>9
<1>11. Fresh(a + 1, parts') \in {a, a + 1}
  BY <1>9
<1> QED BY <1>1, <1>2, <1>3, <1>8, <1>9, <1>10, <1>11, TurnChunks

\* The block joins the buffer.
LEMMA JoinsChunks ==
    ASSUME ChunkInv, LoopInv', UNCHANGED <<input, parsed>>, pc = "blocks", rest # << >>,
           pc' = pc, current' = current, rest' = Tail(rest),
           parts' = Append(parts, Head(rest)), chunks' = chunks
    PROVE  ChunkInv'
<1>1. PICK a : a = Head(rest)
  OBVIOUS
<1>2. /\ text \in Texts /\ a \in 1..Len(text) /\ parts \in Seq(1..Len(text))
      /\ Fresh(a, parts) \in {a - 1, a} /\ Fresh(a, parts) \in 1..(Len(text) + 1)
      /\ Chunked(a, parts, chunks)
      /\ \A v : v # << >> => Fresh(a + 1, v) = a
  BY <1>1, TurnState
<1>3. /\ parts' \in Seq(1..Len(text)) /\ parts' # << >>
      /\ ToSet(parts') = ToSet(parts) \cup {a}
  <2>1. PICK S : S = 1..Len(text)
    OBVIOUS
  <2>2. PICK k \in Seq(S) : k = parts
    BY <1>2, <2>1
  <2>3. Append(k, a) \in Seq(S) /\ Append(k, a) # << >> /\ ToSet(Append(k, a)) = ToSet(k) \cup {a}
    <3>1. a \in S
      BY <1>2, <2>1
    <3>2. Append(k, a) \in Seq(S) /\ Append(k, a) # << >>
      BY <3>1, AppendIs
    <3>3. ToSet(Append(k, a)) = ToSet(k) \cup {a}
      BY <3>1, ToSetAppend
    <3> QED BY <3>2, <3>3
  <2> QED BY <1>1, <2>1, <2>2, <2>3
<1>4. chunks' = chunks \o Numbered(Len(chunks), << >>)
  <2>1. chunks \in Seq(ChunkRecord)
    BY <1>2 DEF Chunked, Batch
  <2> QED BY <2>1, AddNothing
<1>5. Batch(<< >>, Offset(Fresh(a, parts)), Offset(Fresh(a + 1, parts'))) /\ Held(<< >>) = {}
  BY NoChunks
<1>6. WordsOf(ToSet(parts)) \cup WordsOf({a}) = Held(<< >>) \cup WordsOf(ToSet(parts'))
  <2>1. WordsOf(ToSet(parts')) = WordsOf(ToSet(parts)) \cup WordsOf({a})
    BY <1>3, WordsOfUnion
  <2> QED BY <1>5, <2>1
<1>7. Fresh(a + 1, parts') \in {a, a + 1}
  BY <1>2, <1>3
<1> QED BY <1>1, <1>2, <1>3, <1>4, <1>5, <1>6, <1>7, TurnChunks

LEMMA CutSentenceChunks == ChunkInv /\ CutSentence => ChunkInv'
<1> SUFFICES ASSUME ChunkInv, CutSentence PROVE ChunkInv'
  OBVIOUS
<1>1. PICK a, cs : a = Head(rest) /\ cs = Flushed(0)
  OBVIOUS
<1>2. /\ pc = "blocks" /\ rest # << >> /\ pc' = pc /\ current' = current /\ rest' = Tail(rest)
      /\ parts' = <<a>> /\ UNCHANGED <<input, parsed>>
      /\ chunks' = chunks \o Numbered(Len(chunks), cs)
  BY <1>1 DEF CutSentence, Turn, Add, Numbered
<1>3. /\ LoopInv' /\ text \in Texts /\ a \in 1..Len(text) /\ parts \in Seq(1..Len(text))
      /\ Fresh(a, parts) \in {a - 1, a} /\ Fresh(a, parts) \in 1..(Len(text) + 1)
      /\ \A v : v # << >> => Fresh(a + 1, v) = a
      /\ \A en \in Nat : /\ Batch(Flushed(en), Offset(Fresh(a, parts)), Offset(a))
                         /\ Held(Flushed(en)) = WordsOf(ToSet(parts))
  BY <1>1, <1>2, TurnState, CutSentenceLoop DEF ChunkInv
<1>4. Batch(cs, Offset(Fresh(a, parts)), Offset(a)) /\ Held(cs) = WordsOf(ToSet(parts))
  BY <1>1, <1>3
<1>5. parts' \in Seq(1..Len(text)) /\ parts' # << >> /\ ToSet(parts') = {a}
  <2>1. <<a>> \in Seq(1..Len(text)) /\ <<a>> # << >>
    BY <1>3
  <2> QED BY <1>2, <2>1, ToSets
<1>6. WordsOf(ToSet(parts)) \cup WordsOf({a}) = Held(cs) \cup WordsOf(ToSet(parts'))
  BY <1>4, <1>5
<1>7. Fresh(a + 1, parts') = a
  BY <1>3, <1>5
<1>8. Batch(cs, Offset(Fresh(a, parts)), Offset(Fresh(a + 1, parts')))
  BY <1>4, <1>7
<1>9. Fresh(a + 1, parts') \in {a, a + 1}
  BY <1>7
<1> QED BY <1>1, <1>2, <1>3, <1>5, <1>6, <1>8, <1>9, TurnChunks

\* What a section has of content is what follows its heading.
LEMMA SectionContent ==
    ASSUME SectionsInv, next = Len(text) + 1, chunker = "structure",
           NEW c \in 1..Len(sections), NEW s, s = sections[c]
    PROVE  /\ ContentOf(Lead(s), s.first) = {}
           /\ ContentOf(Lead(s), s.last + 1) = {b \in Nat : s.first <= b /\ b <= s.last}
           /\ s.first \in 1..(Len(text) + 1) /\ s.first <= s.last + 1 /\ Lead(s) <= s.first
           /\ s.last \in 1..Len(text) /\ Lead(s) \in 1..Len(text) /\ Lead(s) <= s.last
           /\ Len(text) \in Nat /\ text \in Texts
<1>1. /\ s.first \in Nat /\ s.last \in 1..Len(text) /\ Len(text) \in Nat /\ text \in Texts
      /\ Lead(s) \in 1..Len(text) /\ Lead(s) <= s.last /\ SectionOK(s, Len(text) + 1)
      /\ DOMAIN text = 1..Len(text)
  BY Tiles, TextBlocks
<1>2. Lead(s) = s.first \/ (Lead(s) = s.first - 1 /\ s.path # << >>)
  BY DEF Lead
<1>3. s.first <= s.last + 1 /\ Lead(s) <= s.first /\ s.first \in 1..(Len(text) + 1)
  BY <1>1, <1>2
<1>4. ASSUME NEW b \in Content, Lead(s) <= b PROVE s.first <= b
  <2>1. b \in 1..Len(text) /\ (parser = "markdown" => text[b].level = 0)
    BY <1>1 DEF Content
  <2>2. CASE Lead(s) = s.first
    BY <1>4, <2>2
  <2>3. CASE Lead(s) = s.first - 1 /\ s.path # << >>
    <3>1. text[Lead(s)].level > 0 /\ parser = "markdown"
      BY <1>1, <2>3 DEF SectionOK
    <3>2. b # Lead(s)
      BY <2>1, <3>1
    <3> QED BY <1>1, <1>4, <2>1, <2>3, <3>2
  <2> QED BY <1>2, <2>2, <2>3
<1>5. ASSUME NEW b \in Nat, s.first <= b, b <= s.last PROVE b \in Content /\ Lead(s) <= b
  <2>1. b \in 1..Len(text) /\ Lead(s) <= b
    BY <1>1, <1>2, <1>3, <1>5
  <2>2. parser = "markdown" => text[b].level = 0
    BY <1>1, <1>5 DEF SectionOK
  <2> QED BY <1>1, <2>1, <2>2 DEF Content
<1>6. Content \subseteq Nat
  BY <1>1 DEF Content
<1>7. ContentOf(Lead(s), s.first) = {}
  <2>1. \A b \in Content : Lead(s) <= b => ~(b < s.first)
    BY <1>1, <1>4, <1>6
  <2> QED BY <2>1 DEF ContentOf
<1>8. ContentOf(Lead(s), s.last + 1) = {b \in Nat : s.first <= b /\ b <= s.last}
  <2>1. \A b \in Nat : b < s.last + 1 <=> b <= s.last
    BY <1>1
  <2> QED BY <1>4, <1>5, <1>6, <2>1 DEF ContentOf
<1> QED BY <1>1, <1>3, <1>7, <1>8

LEMMA OnSection ==
    ASSUME ChunkInv, pc = "sections", current <= Len(sections), NEW s, s = sections[current]
    PROVE  /\ SectionsInv /\ next = Len(text) + 1 /\ chunker = "structure"
           /\ current \in 1..Len(sections) /\ LoopOK(pc, current, rest, parts) /\ LoopInv
           /\ parts = << >> /\ rest = << >>
           /\ Ahead(pc, current, rest) = Lead(s)
           /\ Ahead("sections", current + 1, << >>) = s.last + 1
           /\ Ahead("blocks", current, Blocks(s.first, s.last)) = s.first
<1>1. /\ SectionsInv /\ LoopOK(pc, current, rest, parts) /\ LoopInv
      /\ next = Len(text) + 1 /\ chunker = "structure" /\ parts = << >> /\ rest = << >>
      /\ current \in 1..(Len(sections) + 1)
  BY DEF ChunkInv, LoopInv, LoopOK, Looping
<1>2. current \in 1..Len(sections)
  BY <1>1, Tiles
<1>3. Ahead(pc, current, rest) = Lead(sections[current])
  BY <1>1, <1>2, LoopSections
<1>4. Ahead("sections", current + 1, << >>) = sections[current].last + 1
  BY <1>1, <1>2, LoopSections
<1>5. Ahead("blocks", current, Blocks(sections[current].first, sections[current].last))
          = sections[current].first
  BY <1>1, <1>2, LoopSections
<1> QED BY <1>1, <1>2, <1>3, <1>4, <1>5

LEMMA TakeSectionChunks == ChunkInv /\ TakeSection => ChunkInv'
<1> SUFFICES ASSUME ChunkInv, TakeSection PROVE ChunkInv'
  OBVIOUS
<1>1. PICK s : s = sections[current]
  OBVIOUS
<1>2. PICK bs : bs = Blocks(s.first, s.last)
  OBVIOUS
<1>3. PICK cs : cs = IF bs = << >> THEN << >> ELSE <<InSection(bs)>>
  OBVIOUS
<1>4. /\ pc = "sections" /\ current <= Len(sections) /\ pc' = pc /\ current' = current + 1
      /\ rest' = rest /\ parts' = parts /\ UNCHANGED <<input, parsed>>
      /\ bs # << >> => EstimateTokens(Words(bs)) <= Size
      /\ chunks' = chunks \o Numbered(Len(chunks), cs)
  BY <1>1, <1>2, <1>3 DEF TakeSection, Add, Numbered, buffer
<1>5. /\ SectionsInv /\ next = Len(text) + 1 /\ chunker = "structure"
      /\ current \in 1..Len(sections) /\ LoopInv
      /\ parts = << >> /\ rest = << >>
      /\ Ahead(pc, current, rest) = Lead(s)
      /\ Ahead("sections", current + 1, << >>) = s.last + 1
  BY <1>1, <1>4, OnSection
<1>6. LoopInv'
  BY <1>5, SectionsLoop
<1>7. PICK a, n : a = Lead(s) /\ n = s.last + 1
  OBVIOUS
<1>8. /\ ContentOf(a, n) = {b \in Nat : s.first <= b /\ b <= s.last}
      /\ s.first \in 1..n /\ s.last \in 1..Len(text) /\ a \in 1..Len(text) /\ a <= s.last
      /\ Len(text) \in Nat /\ text \in Texts
  <2>1. /\ ContentOf(Lead(s), s.last + 1) = {b \in Nat : s.first <= b /\ b <= s.last}
        /\ s.first \in 1..(Len(text) + 1) /\ s.first <= s.last + 1
        /\ s.last \in 1..Len(text) /\ Lead(s) \in 1..Len(text) /\ Lead(s) <= s.last
        /\ Len(text) \in Nat /\ text \in Texts
    BY <1>1, <1>5, SectionContent
  <2> QED BY <1>7, <2>1
<1>9. /\ a \in 1..(Len(text) + 1) /\ n \in 1..(Len(text) + 1) /\ a <= n
      /\ Fresh(a, << >>) = a /\ Fresh(n, << >>) = n
      /\ << >> \in Seq(1..Len(text)) /\ Chunked(a, << >>, chunks)
  <2>1. Chunked(a, << >>, chunks)
    BY <1>5, <1>7 DEF ChunkInv
  <2> QED BY <1>7, <1>8, <2>1 DEF Fresh
<1>10. Offset(a) \in Nat /\ Offset(n) \in Nat /\ Offset(a) <= Offset(n)
  BY <1>8, <1>9, OffsetsAscend
<1>11. Batch(cs, Offset(a), Offset(n)) /\ Held(cs) = WordsOf(ContentOf(a, n))
  <2>1. CASE bs = << >>
    <3>1. s.first = s.last + 1
      BY <1>1, <1>2, <1>5, <2>1, SectionBlocks
    <3>2. \A b \in Nat : ~(s.first <= b /\ b <= s.last)
      BY <1>8, <3>1
    <3>3. ContentOf(a, n) = {}
      BY <1>8, <3>2
    <3> QED BY <1>3, <2>1, <3>3, NoChunks, WordsOfUnion
  <2>2. CASE bs # << >>
    <3>1. PICK st \in Nat, e \in Nat :
             st = SectionStart(sections[current]) /\ e = SectionEnd(sections[current])
      BY <1>5, SectionBounds
    <3>2. /\ bs \in Seq(1..Len(text)) /\ Len(bs) = n - s.first /\ From(bs, s.first)
      BY <1>1, <1>2, <1>5, <1>7, SectionBlocks
    <3>14. PICK l \in Nat : l = s.last
      BY <1>8
    <3>3. PICK q \in Seq(1..Len(text)), f \in Nat : q = bs /\ f = s.first
      BY <1>8, <3>2
    <3>4. PICK c : c = Chunk(q, 0, Words(q), st, e, current)
      OBVIOUS
    <3>5. cs = <<c>>
      BY <1>3, <2>2, <3>1, <3>3, <3>4 DEF InSection
    <3>6. q # << >> /\ From(q, f) /\ current \in Nat
      BY <1>5, <2>2, <3>2, <3>3, Tiles
    <3>7. IsWhole(c, q, f)
      BY <1>8, <3>1, <3>3, <3>4, <3>6, WholeChunk
    <3>8. /\ ChunkOK(c) /\ WordsIn(c) = WordsOf(ToSet(q)) /\ c.blocks = q /\ c.words = Words(q)
          /\ Len(q) \in Nat \ {0} /\ LastWord(c) = EndOf(f + (Len(q) - 1))
      BY <3>7 DEF IsWhole
    <3>9. Len(q) = n - f /\ f + (Len(q) - 1) = s.last /\ n \in Nat
      <4>1. n = l + 1 /\ n \in Nat
        BY <1>7, <3>14
      <4>2. Len(q) = n - f
        BY <3>2, <3>3
      <4>3. f + (Len(q) - 1) = l
        BY <4>1, <4>2
      <4> QED BY <3>14, <4>1, <4>2, <4>3
    <3>10. ToSet(q) = ContentOf(a, n)
      <4>1. q \in Seq(Nat)
        BY <1>8, <3>3, TextBlocks
      <4>2. ToSet(q) = {b \in Nat : f <= b /\ b < f + Len(q)}
        BY <3>6, <4>1, BlocksOf
      <4>3. \A b \in Nat : b < f + Len(q) <=> b <= s.last
        BY <1>8, <3>8, <3>9
      <4> QED BY <1>8, <3>3, <4>2, <4>3
    <3>11. Fits(c)
      <4>1. EstimateTokens(c.words) <= Size
        BY <1>4, <2>2, <3>3, <3>8
      <4>2. EstimateTokens(c.words) \in Nat /\ Size \in Nat
        <5>1. Words(q) \in Nat
          BY <1>8, <3>3, Sums
        <5> QED BY <3>8, <5>1, Estimate, SizeAssumption
      <4>3. EstimateTokens(c.words) <= Size + (Len(c.blocks) - 1)
        BY <3>8, <4>1, <4>2
      <4> QED BY <1>5, <4>3 DEF Fits
    <3>12. Offset(a) < LastWord(c) /\ LastWord(c) <= Offset(n)
      <4>1. /\ Offset(l) \in Nat /\ EndOf(l) \in Nat /\ Offset(l) < EndOf(l)
            /\ Offset(l + 1) = EndOf(l) + 1
        BY <1>8, <3>14, BlockSpan
      <4>2. Offset(a) <= Offset(l)
        BY <1>8, <3>14, BlocksAscend
      <4>3. LastWord(c) = EndOf(l) /\ Offset(n) = Offset(l + 1)
        BY <1>7, <3>8, <3>9, <3>14
      <4> QED BY <1>10, <4>1, <4>2, <4>3
    <3>13. Batch(<<c>>, Offset(a), Offset(n)) /\ Held(<<c>>) = WordsIn(c)
      BY <3>8, <3>11, <3>12, OneChunk
    <3> QED BY <3>5, <3>8, <3>10, <3>13
  <2> QED BY <2>1, <2>2
<1>12. Chunked(n, << >>, chunks \o Numbered(Len(chunks), cs))
  <2>1. WordsOf(ToSet(<< >>)) = {}
    BY ToSets, WordsOfUnion
  <2>2. WordsOf(ToSet(<< >>)) \cup WordsOf(ContentOf(a, n)) = Held(cs) \cup WordsOf(ToSet(<< >>))
    BY <1>11, <2>1
  <2> QED BY <1>5, <1>9, <1>10, <1>11, <2>2, ChunkedAnew
<1>13. Ahead(pc', current', rest') = n /\ parts' = << >> /\ pc' # "parse"
  BY <1>4, <1>5, <1>7
<1> QED BY <1>4, <1>6, <1>12, <1>13, ChunkKept

LEMMA SplitSectionChunks == ChunkInv /\ SplitSection => ChunkInv'
<1> SUFFICES ASSUME ChunkInv, SplitSection PROVE ChunkInv'
  OBVIOUS
<1>1. PICK s : s = sections[current]
  OBVIOUS
<1>2. /\ pc = "sections" /\ current <= Len(sections) /\ pc' = "blocks" /\ current' = current
      /\ rest' = Blocks(s.first, s.last) /\ parts' = parts /\ UNCHANGED <<input, parsed>>
      /\ chunks' = chunks
  BY <1>1 DEF SplitSection, buffer
<1>3. /\ SectionsInv /\ next = Len(text) + 1 /\ chunker = "structure"
      /\ current \in 1..Len(sections) /\ LoopInv /\ parts = << >>
      /\ Ahead(pc, current, rest) = Lead(s)
      /\ Ahead("blocks", current, Blocks(s.first, s.last)) = s.first
  BY <1>1, <1>2, OnSection
<1>4. LoopInv'
  BY <1>3, SectionsLoop
<1>5. PICK a, n : a = Lead(s) /\ n = s.first
  OBVIOUS
<1>6. /\ ContentOf(a, n) = {} /\ n \in 1..(Len(text) + 1) /\ a <= n /\ a \in 1..Len(text)
      /\ Len(text) \in Nat /\ text \in Texts
  <2>1. /\ ContentOf(Lead(s), s.first) = {} /\ s.first \in 1..(Len(text) + 1)
        /\ Lead(s) <= s.first /\ Lead(s) \in 1..Len(text) /\ Len(text) \in Nat /\ text \in Texts
    BY <1>1, <1>3, SectionContent
  <2> QED BY <1>5, <2>1
<1>7. /\ a \in 1..(Len(text) + 1) /\ Fresh(a, << >>) = a /\ Fresh(n, << >>) = n
      /\ << >> \in Seq(1..Len(text)) /\ Chunked(a, << >>, chunks)
  <2>1. Chunked(a, << >>, chunks)
    BY <1>3, <1>5 DEF ChunkInv
  <2> QED BY <1>6, <2>1 DEF Fresh
<1>8. Offset(a) <= Offset(n)
  BY <1>6, <1>7, OffsetsAscend
<1>9. Chunked(n, << >>, chunks \o Numbered(Len(chunks), << >>))
  <2>1. Batch(<< >>, Offset(a), Offset(n)) /\ Held(<< >>) = {}
    BY NoChunks
  <2>2. WordsOf(ToSet(<< >>)) \cup WordsOf(ContentOf(a, n)) = Held(<< >>) \cup WordsOf(ToSet(<< >>))
    BY <1>6, <2>1, ToSets, WordsOfUnion
  <2> QED BY <1>3, <1>6, <1>7, <1>8, <2>1, <2>2, ChunkedAnew
<1>10. chunks \o Numbered(Len(chunks), << >>) = chunks
  <2>1. chunks \in Seq(ChunkRecord)
    BY <1>7 DEF Chunked, Batch
  <2> QED BY <2>1, AddNothing
<1>11. Ahead(pc', current', rest') = n /\ parts' = << >> /\ pc' # "parse"
  BY <1>2, <1>3, <1>5
<1> QED BY <1>2, <1>4, <1>9, <1>10, <1>11, ChunkKept

LEMMA EndBlocksChunks == ChunkInv /\ EndBlocks => ChunkInv'
<1> SUFFICES ASSUME ChunkInv, EndBlocks PROVE ChunkInv'
  OBVIOUS
<1>1. PICK a, cs : a = Ahead(pc, current, rest) /\ cs = Flushed(EndOfText)
  OBVIOUS
<1>2. /\ pc = "blocks" /\ rest = << >> /\ rest' = rest /\ parts' = << >>
      /\ chunker = "structure" => pc' = "sections" /\ current' = current + 1
      /\ chunker # "structure" => pc' = "done" /\ current' = current
      /\ chunks' = chunks \o Numbered(Len(chunks), cs) /\ UNCHANGED <<input, parsed>>
  BY <1>1 DEF EndBlocks, Add, Numbered
<1>3. /\ LoopInv /\ SectionsInv /\ LoopOK(pc, current, << >>, parts) /\ text \in Texts
      /\ parts \in Seq(1..Len(text)) /\ Chunked(a, parts, chunks)
  BY <1>1, <1>2 DEF ChunkInv, LoopInv, LoopOK
<1>4. LoopInv'
  BY <1>3, EndsLoop
<1>5. Ahead(pc', current', rest') = a /\ pc' # "parse"
  <2>1. CASE chunker = "structure"
    BY <1>1, <1>2, <1>3, <2>1, LoopEnds
  <2>2. CASE chunker # "structure"
    BY <1>1, <1>2, <1>3, <2>2, LoopEnds
  <2> QED BY <2>1, <2>2
<1>6. a \in 1..(Len(text) + 1) /\ Len(text) \in Nat /\ a <= a /\ EndOfText \in Nat
  <2>1. a \in 1..(Len(text) + 1) /\ Len(text) \in Nat /\ EndOfText \in Nat
    BY <1>1, <1>2, <1>3, InLoop, Offsets
  <2> QED BY <2>1
<1>7. Fresh(a, << >>) = a
  BY DEF Fresh
<1>8. /\ Batch(cs, Offset(Fresh(a, parts)), Offset(Fresh(a, << >>)))
      /\ Held(cs) = WordsOf(ToSet(parts)) /\ Fresh(a, parts) \in 1..(Len(text) + 1)
      /\ Offset(Fresh(a, parts)) <= Offset(Fresh(a, << >>))
  BY <1>1, <1>2, <1>3, <1>6, <1>7, FlushedBatch
<1>9. ContentOf(a, a) = {}
  <2>1. \A b \in Content : b \in Nat
    BY <1>3, TextBlocks DEF Content
  <2>2. \A b \in Content : ~(a <= b /\ b < a)
    BY <1>6, <2>1
  <2> QED BY <2>2 DEF ContentOf
<1>10. Chunked(a, << >>, chunks \o Numbered(Len(chunks), cs))
  <2>1. WordsOf(ToSet(parts)) \cup WordsOf(ContentOf(a, a)) = Held(cs) \cup WordsOf(ToSet(<< >>))
    BY <1>8, <1>9, ToSets, WordsOfUnion
  <2>2. << >> \in Seq(1..Len(text))
    OBVIOUS
  <2> QED BY <1>3, <1>6, <1>7, <1>8, <2>1, <2>2, ChunkedAnew
<1> QED BY <1>2, <1>4, <1>5, <1>10, ChunkKept

\* Steps that neither take a block nor add a chunk.
LEMMA IdleChunks ==
    ASSUME ChunkInv, EndParse \/ EndSections \/ EmbeddingFails \/ UNCHANGED vars PROVE ChunkInv'
<1>1. LoopInv /\ LoopInv' /\ SectionsInv /\ LoopOK(pc, current, rest, parts)
  <2>1. LoopInv /\ SectionsInv /\ LoopOK(pc, current, rest, parts)
    BY DEF ChunkInv, LoopInv
  <2>2. [Next]_vars
    BY DEF Next, Parse
  <2> QED BY <2>1, <2>2, LoopInvStep
<1>2. UNCHANGED <<input, parsed>> /\ parts' = parts /\ chunks' = chunks
  BY DEF EndParse, EndSections, EmbeddingFails, vars, buffer
<1>3. CASE UNCHANGED vars
  <2>1. pc' = pc /\ current' = current /\ rest' = rest
    BY <1>3 DEF vars
  <2>2. Ahead(pc, current, rest)' = Ahead(pc, current, rest)
    BY <1>2, <2>1, ChunkedRigid
  <2>3. Chunked(Ahead(pc, current, rest), parts, chunks)'
    BY <1>2, <2>1, <2>2, ChunkedRigid DEF ChunkInv
  <2> QED BY <1>1, <1>2, <2>1, <2>3 DEF ChunkInv
<1>4. CASE EndParse \/ EndSections \/ EmbeddingFails
  <2>1. Ahead(pc', current', rest') = Ahead(pc, current, rest) /\ pc' # "parse"
    <3>1. CASE EndParse
      <4>1. /\ pc = "parse" /\ next > Len(text) /\ current' = current
            /\ chunker = "structure" => pc' = "sections" /\ rest' = rest
            /\ chunker # "structure" => pc' = "blocks" /\ rest' = Blocks(1, Len(text))
        BY <3>1 DEF EndParse
      <4>2. current = 1 /\ rest = << >> /\ Ahead(pc, current, rest) = 1
        BY <1>1, <4>1 DEF LoopOK, Looping, Ahead
      <4>3. next = Len(text) + 1
        <5>1. text \in Texts /\ ParserOK
          BY <1>1 DEF SectionsInv, PathInv
        <5>2. PICK l \in Nat : l = Len(text)
          BY <5>1, TextBlocks
        <5> QED BY <4>1, <5>1, <5>2 DEF ParserOK
      <4>4. CASE chunker = "structure"
        BY <1>1, <4>1, <4>2, <4>3, <4>4, LoopStarts
      <4>5. CASE chunker # "structure"
        BY <1>1, <4>1, <4>2, <4>3, <4>5, LoopStarts
      <4> QED BY <4>4, <4>5
    <3>2. CASE EndSections
      <4>1. /\ pc = "sections" /\ current > Len(sections) /\ pc' = "done" /\ current' = current
            /\ rest' = rest
        BY <3>2 DEF EndSections
      <4> QED BY <1>1, <4>1, LoopDone
    <3>3. CASE EmbeddingFails
      <4>1. pc = "blocks" /\ pc' = "failed" /\ current' = current /\ rest' = rest
        BY <3>3 DEF EmbeddingFails, Turn
      <4> QED BY <4>1 DEF Ahead, Looping
    <3> QED BY <1>4, <3>1, <3>2, <3>3
  <2>2. Chunked(Ahead(pc', current', rest'), parts', chunks')
    BY <1>2, <2>1 DEF ChunkInv
  <2> QED BY <1>1, <1>2, <2>1, <2>2, ChunkKept
<1> QED BY <1>3, <1>4

LEMMA ParseChunks ==
    ASSUME ChunkInv, PopHeading \/ PushHeading \/ ReadPreamble \/ ReadBody
                         \/ ReadParagraph \/ ReadItem \/ ReadPage
    PROVE  ChunkInv'
<1>1. /\ pc = "parse" /\ text' = text /\ parser' = parser /\ chunker' = chunker
      /\ UNCHANGED <<pc, current, rest, parts, tokens, from, chunks>>
  BY DEF PopHeading, PushHeading, ReadPreamble, ReadBody, ReadParagraph, ReadItem,
         ReadPage, ReadSection, Parsing, ChunkerUnchanged, buffer, input
<1>2. LoopInv'
  <2>1. [Next]_vars
    BY DEF Next, Parse
  <2> QED BY <2>1, LoopInvStep DEF ChunkInv
<1>3. chunks = << >> /\ parts = << >> /\ LoopInv
  BY <1>1 DEF ChunkInv, LoopInv, LoopOK, Looping
<1>4. Ahead(pc, current, rest)' = 1
  BY <1>1 DEF Ahead, Looping
<1>5. Chunked(1, << >>, << >>)'
  <2>1. \A b \in Content' : b \in Nat /\ 1 <= b
    <3>1. text \in Texts /\ Content' \subseteq DOMAIN text
      BY <1>1, <1>3 DEF Content, LoopInv
    <3> QED BY <3>1, TextBlocks
  <2>2. Before(1)' = {}
    <3>1. \A b \in Content' : ~(b < 1)
      BY <2>1
    <3> QED BY <3>1 DEF Before
  <2>3. \A i \in 1..Len(<< >>) : FALSE
    OBVIOUS
  <2>4. Batch(<< >>, 0, Offset(Fresh(1, << >>)))'
    <3>1. << >> \in Seq(ChunkRecord)
      OBVIOUS
    <3> QED BY <2>3, <3>1 DEF Batch
  <2>5. Held(<< >>)' = {} /\ ToSet(<< >>) = {}
    <3>1. DOMAIN << >> = {}
      OBVIOUS
    <3> QED BY <3>1, ToSets DEF Held
  <2>6. WordsOf(Before(1))' = {} /\ WordsOf({})' = {}
    BY <2>2 DEF WordsOf
  <2> QED BY <2>3, <2>4, <2>5, <2>6 DEF Chunked
<1> QED BY <1>1, <1>2, <1>3, <1>4, <1>5 DEF ChunkInv

LEMMA ChunkInvStep == ChunkInv /\ [Next]_vars => ChunkInv'
<1> SUFFICES ASSUME ChunkInv, [Next]_vars PROVE ChunkInv'
  OBVIOUS
<1>1. CASE TakeOversized BY <1>1, TakeOversizedChunks
<1>2. CASE TakeInNext BY <1>2, TakeInNextChunks
<1>3. CASE TakeInCurrent
  <2>1. LoopInv'
    BY <1>3, TakeInCurrentLoop DEF ChunkInv
  <2> QED BY <1>3, <2>1, JoinsChunks DEF TakeInCurrent, Turn
<1>4. CASE JoinSentence
  <2>1. LoopInv'
    BY <1>4, JoinSentenceLoop DEF ChunkInv
  <2> QED BY <1>4, <2>1, JoinsChunks DEF JoinSentence, Turn
<1>5. CASE CutSentence BY <1>5, CutSentenceChunks
<1>6. CASE TakeSection BY <1>6, TakeSectionChunks
<1>7. CASE SplitSection BY <1>7, SplitSectionChunks
<1>8. CASE EndBlocks BY <1>8, EndBlocksChunks
<1>9. CASE EndParse \/ EndSections \/ EmbeddingFails \/ UNCHANGED vars BY <1>9, IdleChunks
<1>10. CASE PopHeading \/ PushHeading \/ ReadPreamble \/ ReadBody
            \/ ReadParagraph \/ ReadItem \/ ReadPage
  BY <1>10, ParseChunks
<1> QED BY <1>1, <1>2, <1>3, <1>4, <1>5, <1>6, <1>7, <1>8, <1>9, <1>10 DEF Next, Parse

\* No chunk of several paragraphs exceeds the limit (chunk_size, max_chunk_tokens) by more than
\* its overlap and what rounding loses at each join, and no piece of a paragraph that the
\* fixed-size chunker splits has more words than the limit, for any text and any sizes.
THEOREM ChunksAlwaysFit == Spec => []ChunksFit
<1>1. ChunkInv => ChunksFit
  <2> SUFFICES ASSUME ChunkInv, NEW i \in DOMAIN chunks, NEW c, c = chunks[i]
               PROVE  LET estimate == EstimateTokens(c.words)
                          joins == Len(c.blocks) - 1
                      IN  CASE chunker = "structure" -> joins = 0 \/ estimate <= Size + joins
                            [] chunker = "semantic" -> joins = 0 \/ estimate <= SemanticSize
                            [] chunker = "fixed" ->
                                  /\ joins > 0 => estimate <= Size + Overlap + joins
                                  /\ joins = 0 => c.words <= Size
    BY DEF ChunksFit
  <2> DEFINE estimate == EstimateTokens(c.words)
             joins == Len(c.blocks) - 1
  <2>1. ChunkOK(c) /\ Fits(c)
    <3>1. chunks \in Seq(ChunkRecord)
      BY DEF ChunkInv, Chunked, Batch
    <3>2. i \in 1..Len(chunks)
      BY <3>1
    <3> QED BY <3>2 DEF ChunkInv, Chunked, Batch
  <2>2. Len(c.blocks) \in Nat \ {0}
    <3>1. c.blocks \in Seq(Nat) /\ c.blocks # << >>
      BY <2>1 DEF ChunkOK, ChunkRecord
    <3> QED BY <3>1, EmptySeq
  <2>3. /\ chunker = "structure" => joins = 0 \/ estimate <= Size + joins
        /\ chunker = "semantic" => joins = 0 \/ estimate <= SemanticSize
        /\ chunker = "fixed" => /\ joins > 0 => estimate <= Size + Overlap + joins
                                /\ joins = 0 => c.words <= Size
    <3>1. (joins = 0 <=> Len(c.blocks) = 1) /\ (joins > 0 => Len(c.blocks) # 1)
      <4>1. \A k \in Nat : (k - 1 = 0 <=> k = 1) /\ (k - 1 > 0 => k # 1)
        OBVIOUS
      <4> QED BY <2>2, <4>1
    <3>2. joins = Len(c.blocks) - 1
      OBVIOUS
    <3> HIDE DEF estimate, joins
    <3>3. /\ chunker = "structure" => joins = 0 \/ EstimateTokens(c.words) <= Size + joins
          /\ chunker = "semantic" => joins = 0 \/ EstimateTokens(c.words) <= SemanticSize
          /\ chunker = "fixed" => /\ joins > 0 => EstimateTokens(c.words) <= Size + Overlap + joins
                                  /\ joins = 0 => c.words <= Size
      <4>1. CASE chunker = "structure"
        BY <2>1, <3>1, <3>2, <4>1 DEF Fits
      <4>2. CASE chunker = "semantic"
        BY <2>1, <3>1, <3>2, <4>2 DEF Fits
      <4>3. CASE chunker = "fixed"
        BY <2>1, <3>1, <3>2, <4>3 DEF Fits
      <4> QED BY <4>1, <4>2, <4>3
    <3> QED BY <3>3 DEF estimate
  <2>4. chunker \in {"structure", "fixed", "semantic"}
    BY DEF ChunkInv, LoopInv
  <2> HIDE DEF estimate, joins
  <2>5. CASE chunker = "structure"
    BY <2>3, <2>5 DEF estimate, joins
  <2>6. CASE chunker = "semantic"
    BY <2>3, <2>6 DEF estimate, joins
  <2>7. CASE chunker = "fixed"
    BY <2>3, <2>7 DEF estimate, joins
  <2> QED BY <2>4, <2>5, <2>6, <2>7
<1> QED BY <1>1, ChunkInvInit, ChunkInvStep, PTL DEF Spec

\* Whatever the text, the parser and the chunker, every word (but those of headings, which the
\* structure-aware chunker keeps as paths) is in a chunk when ingestion has chunked it, and the
\* chunks are numbered in the order of the text.
THEOREM NoTextLost == Spec => []TextIsCovered
<1>1. ChunkInv => TextIsCovered
  <2> SUFFICES ASSUME ChunkInv PROVE TextIsCovered
    OBVIOUS
  <2>1. /\ text \in Texts /\ LoopOK(pc, current, rest, parts)
        /\ chunks \in Seq(ChunkRecord) /\ DOMAIN chunks = 1..Len(chunks)
        /\ \A i \in 1..Len(chunks) : ChunkOK(chunks[i]) /\ chunks[i].index = i - 1
        /\ \A i, j \in 1..Len(chunks) : i < j => LastWord(chunks[i]) < LastWord(chunks[j])
        /\ Held(chunks) \cup WordsOf(ToSet(parts)) = WordsOf(Before(Ahead(pc, current, rest)))
    BY DEF ChunkInv, LoopInv, Chunked, Batch
  <2>2. \A i \in 1..Len(chunks) : Max(WordsIn(chunks[i])) = LastWord(chunks[i])
    BY <2>1, ChunkWords
  <2>3. ASSUME pc = "done" PROVE Held(chunks) = WordsOf(Content)
    <3>1. parts = << >> /\ Ahead(pc, current, rest) = Len(text) + 1
      BY <2>1, <2>3 DEF LoopOK, Looping, Ahead
    <3>2. Before(Len(text) + 1) = Content
      <4>1. Content \subseteq 1..Len(text) /\ Len(text) \in Nat
        BY <2>1, TextBlocks DEF Content
      <4>2. \A b \in Content : b < Len(text) + 1
        BY <4>1
      <4> QED BY <4>2 DEF Before
    <3> QED BY <2>1, <3>1, <3>2, ToSets, WordsOfUnion
  <2>4. pc = "done" => UNION {{Offset(b) + w : w \in 1..text[b].words} : b \in Content}
                          = UNION {WordsIn(chunks[i]) : i \in DOMAIN chunks}
    BY <2>3 DEF Held, WordsOf
  <2> QED BY <2>1, <2>2, <2>4 DEF TextIsCovered
<1> QED BY <1>1, ChunkInvInit, ChunkInvStep, PTL DEF Spec

-----------------------------------------------------------------------------
(* Ranges and sections of chunks *)

\* The words of the last of the chunks s, which the next one may repeat.
Prior(s) == IF s = << >> THEN {} ELSE WordsIn(s[Len(s)])
AfterSplit(s) == s # << >> /\ EndsSplit(s[Len(s)])

Inside(c, m) ==
    /\ c.section \in 1..Len(sections)
    /\ SectionStart(sections[c.section]) < m
    /\ m <= SectionEnd(sections[c.section])

\* The range of chunk c, whose first word that is not repeated is m.
Located(c, m) == IF IsPiece(c) THEN InItsParagraph(c) ELSE c.start < m /\ LastWord(c) <= c.end

\* The words of chunk c, which comes after the chunks s, are repeated ones up to a word m.
RangeBy(c, s) ==
    \E m \in WordsIn(c) :
        /\ \A w \in WordsIn(c) : w < m <=> w \in Prior(s)
        /\ Located(c, m)
        /\ AfterSplit(s) \/ Inside(c, m)

RangesAfter(cs, s) ==
    \A i \in 1..Len(cs) : RangeBy(cs[i], IF i = 1 THEN s ELSE <<cs[i - 1]>>)

\* The last of the chunks s ends by offset x.
Low(s, x) == s # << >> => ChunkOK(s[Len(s)]) /\ LastWord(s[Len(s)]) <= x

LEMMA RangeSame ==
    ASSUME NEW c \in ChunkRecord, NEW d \in ChunkRecord, SameButIndex(c, d),
           NEW s, NEW t, s = << >> <=> t = << >>,
           s # << >> => /\ s[Len(s)] \in ChunkRecord /\ t[Len(t)] \in ChunkRecord
                        /\ SameButIndex(s[Len(s)], t[Len(t)]),
           RangeBy(c, s)
    PROVE  RangeBy(d, t)
<1>1. Prior(t) = Prior(s) /\ (AfterSplit(t) <=> AfterSplit(s))
  <2>1. CASE s = << >>
    BY <2>1 DEF Prior, AfterSplit
  <2>2. CASE s # << >>
    <3>1. PICK x \in ChunkRecord, y \in ChunkRecord :
             x = s[Len(s)] /\ y = t[Len(t)] /\ SameButIndex(x, y)
      BY <2>2
    <3>2. WordsIn(y) = WordsIn(x) /\ (EndsSplit(y) <=> EndsSplit(x))
      BY <3>1, IndexOnly
    <3> QED BY <2>2, <3>1, <3>2 DEF Prior, AfterSplit
  <2> QED BY <2>1, <2>2
<1>2. /\ WordsIn(d) = WordsIn(c) /\ LastWord(d) = LastWord(c)
      /\ (IsPiece(d) <=> IsPiece(c)) /\ (InItsParagraph(d) <=> InItsParagraph(c))
  BY IndexOnly
<1>3. d.start = c.start /\ d.end = c.end /\ d.section = c.section
  BY DEF SameButIndex
<1>4. \A m : Located(d, m) <=> Located(c, m)
  BY <1>2, <1>3 DEF Located
<1>5. \A m : Inside(d, m) <=> Inside(c, m)
  BY <1>3 DEF Inside
<1>6. PICK m \in WordsIn(c) :
        /\ \A w \in WordsIn(c) : w < m <=> w \in Prior(s)
        /\ Located(c, m)
        /\ AfterSplit(s) \/ Inside(c, m)
  BY DEF RangeBy
<1>7. /\ m \in WordsIn(d)
      /\ \A w \in WordsIn(d) : w < m <=> w \in Prior(t)
      /\ Located(d, m)
      /\ AfterSplit(t) \/ Inside(d, m)
  BY <1>1, <1>2, <1>4, <1>5, <1>6
<1> QED BY <1>7 DEF RangeBy

LEMMA SameAsItself == \A c : SameButIndex(c, c)
BY DEF SameButIndex

LEMMA RangesNumbered ==
    ASSUME NEW cs \in Seq(ChunkRecord), NEW n \in Nat, NEW s,
           s # << >> => s[Len(s)] \in ChunkRecord, RangesAfter(cs, s)
    PROVE  RangesAfter(Numbered(n, cs), s)
<1>1. PICK d, k : /\ k \in Nat /\ k = Len(cs) /\ d = Numbered(n, cs) /\ Len(d) = k
                  /\ \A i \in 1..k : d[i] \in ChunkRecord /\ cs[i] \in ChunkRecord
                                     /\ SameButIndex(cs[i], d[i])
  BY NumberedChunks
<1>2. ASSUME NEW i \in 1..k PROVE RangeBy(d[i], IF i = 1 THEN s ELSE <<d[i - 1]>>)
  <2>1. RangeBy(cs[i], IF i = 1 THEN s ELSE <<cs[i - 1]>>)
    BY <1>1 DEF RangesAfter
  <2>2. PICK x \in ChunkRecord, y \in ChunkRecord : x = cs[i] /\ y = d[i] /\ SameButIndex(x, y)
    BY <1>1
  <2>3. CASE i = 1
    <3>1. RangeBy(x, s)
      BY <2>1, <2>2, <2>3
    <3>2. RangeBy(y, s)
      BY <2>2, <3>1, SameAsItself, RangeSame
    <3> QED BY <2>2, <2>3, <3>2
  <2>4. CASE i # 1
    <3>1. i - 1 \in 1..k
      BY <1>1, <2>4
    <3>2. PICK u \in ChunkRecord, v \in ChunkRecord :
             u = cs[i - 1] /\ v = d[i - 1] /\ SameButIndex(u, v)
      BY <1>1, <3>1
    <3>3. RangeBy(x, <<u>>)
      BY <2>1, <2>2, <2>4, <3>2
    <3>4. /\ <<u>> # << >> /\ <<v>> # << >>
          /\ <<u>>[Len(<<u>>)] = u /\ <<v>>[Len(<<v>>)] = v
      OBVIOUS
    <3>5. RangeBy(y, <<v>>)
      BY <2>2, <3>2, <3>3, <3>4, RangeSame
    <3> QED BY <2>2, <2>4, <3>2, <3>5
  <2> QED BY <2>3, <2>4
<1> QED BY <1>1, <1>2 DEF RangesAfter

LEMMA RangesJoin ==
    ASSUME NEW a \in Seq(ChunkRecord), NEW b \in Seq(ChunkRecord), NEW s,
           RangesAfter(a, s), RangesAfter(b, IF a = << >> THEN s ELSE a)
    PROVE  RangesAfter(a \o b, s)
<1>1. PICK m, n, d : m = Len(a) /\ n = Len(b) /\ d = a \o b
  OBVIOUS
<1>2. /\ m \in Nat /\ n \in Nat /\ Len(d) = m + n
      /\ \A i \in 1..m : d[i] = a[i] /\ a[i] \in ChunkRecord
      /\ \A j \in 1..n : d[m + j] = b[j] /\ b[j] \in ChunkRecord
      /\ \A i \in 1..(m + n) : i \in 1..m \/ \E j \in 1..n : i = m + j
      /\ a = << >> <=> m = 0
  <2>1. /\ m \in Nat /\ n \in Nat /\ Len(d) = m + n
        /\ \A i \in 1..m : d[i] = a[i]
        /\ \A j \in 1..n : d[m + j] = b[j]
        /\ \A i \in 1..(m + n) : i \in 1..m \/ \E j \in 1..n : i = m + j
    <3>1. Len(a) \in Nat /\ Len(b) \in Nat /\ Len(a \o b) = Len(a) + Len(b)
      BY Concatenated
    <3>2. \A i \in 1..Len(a) : (a \o b)[i] = a[i]
      BY Concatenated
    <3>3. \A j \in 1..Len(b) : (a \o b)[Len(a) + j] = b[j]
      BY Concatenated
    <3>4. \A i \in 1..(m + n) : i \in 1..m \/ \E j \in 1..n : i = m + j
      <4> SUFFICES ASSUME NEW i \in 1..(m + n), i \notin 1..m PROVE \E j \in 1..n : i = m + j
        OBVIOUS
      <4>1. i - m \in 1..n /\ i = m + (i - m)
        BY <1>1, <3>1
      <4> QED BY <4>1
    <3> QED BY <1>1, <3>1, <3>2, <3>3, <3>4
  <2>2. (\A i \in 1..m : a[i] \in ChunkRecord) /\ \A j \in 1..n : b[j] \in ChunkRecord
    BY <1>1
  <2>3. a = << >> <=> m = 0
    BY <1>1, EmptySeq
  <2> QED BY <2>1, <2>2, <2>3
<1>3. ASSUME NEW i \in 1..(m + n) PROVE RangeBy(d[i], IF i = 1 THEN s ELSE <<d[i - 1]>>)
  <2>1. CASE i \in 1..m
    <3>1. RangeBy(a[i], IF i = 1 THEN s ELSE <<a[i - 1]>>)
      BY <1>1, <2>1 DEF RangesAfter
    <3>2. i # 1 => i - 1 \in 1..m
      BY <1>2, <2>1
    <3> QED BY <1>2, <2>1, <3>1, <3>2
  <2>2. CASE \E j \in 1..n : i = m + j
    <3>1. PICK j \in 1..n : i = m + j
      BY <2>2
    <3>2. RangeBy(b[j], IF j = 1 THEN IF a = << >> THEN s ELSE a ELSE <<b[j - 1]>>)
      BY <1>1 DEF RangesAfter
    <3>3. CASE j # 1
      <4>1. j - 1 \in 1..n /\ i - 1 = m + (j - 1) /\ i # 1
        BY <1>2, <3>1, <3>3
      <4>2. d[i - 1] = b[j - 1] /\ d[i] = b[j]
        BY <1>2, <3>1, <4>1
      <4> QED BY <3>2, <3>3, <4>1, <4>2
    <3>4. CASE j = 1 /\ a = << >>
      <4>1. i = 1 /\ d[i] = b[j]
        BY <1>2, <3>1, <3>4
      <4> QED BY <3>2, <3>4, <4>1
    <3>5. CASE j = 1 /\ a # << >>
      <4>1. i # 1 /\ i - 1 = m /\ m \in 1..m /\ d[i] = b[j]
        BY <1>2, <3>1, <3>5
      <4>2. PICK x \in ChunkRecord, y \in ChunkRecord : x = a[m] /\ y = b[j] /\ d[i - 1] = x
        BY <1>2, <3>1, <4>1
      <4>3. RangeBy(y, a)
        BY <3>2, <3>5, <4>2
      <4>4. <<x>> # << >> /\ <<x>>[Len(<<x>>)] = x /\ a[Len(a)] = x
        BY <1>1, <4>2
      <4>5. RangeBy(y, <<x>>)
        BY <3>5, <4>2, <4>3, <4>4, SameAsItself, RangeSame
      <4> QED BY <4>1, <4>2, <4>5
    <3> QED BY <3>3, <3>4, <3>5
  <2> QED BY <1>2, <2>1, <2>2
<1> QED BY <1>1, <1>2, <1>3 DEF RangesAfter

\* A chunk that repeats nothing.
LEMMA RangeFree ==
    ASSUME text \in Texts, NEW c, ChunkOK(c), NEW s, NEW x \in Nat, Low(s, x), x < FirstWord(c),
           Located(c, FirstWord(c)), Inside(c, FirstWord(c))
    PROVE  RangeBy(c, s)
<1>1. /\ FirstWord(c) \in WordsIn(c) /\ WordsIn(c) \in SUBSET Nat
      /\ \A w \in WordsIn(c) : FirstWord(c) <= w
  BY ChunkWords
<1>2. \A w \in Prior(s) : w \in Nat /\ w <= x
  <2>1. CASE s = << >>
    BY <2>1 DEF Prior
  <2>2. CASE s # << >>
    <3>1. PICK d : d = s[Len(s)] /\ ChunkOK(d) /\ LastWord(d) <= x
      BY <2>2 DEF Low
    <3>2. /\ WordsIn(d) \in SUBSET Nat /\ LastWord(d) \in Nat
          /\ \A w \in WordsIn(d) : w <= LastWord(d)
      BY <3>1, ChunkWords
    <3>3. \A w \in WordsIn(d) : w \in Nat /\ w <= x
      BY <3>1, <3>2
    <3> QED BY <2>2, <3>1, <3>3 DEF Prior
  <2> QED BY <2>1, <2>2
<1>3. \A w \in WordsIn(c) : ~(w < FirstWord(c)) /\ w \notin Prior(s)
  BY <1>1, <1>2
<1> QED BY <1>1, <1>3 DEF RangeBy

LEMMA RangesOfOne ==
    ASSUME NEW c, NEW s PROVE /\ RangesAfter(<< >>, s)
                              /\ RangeBy(c, s) => RangesAfter(<<c>>, s)
<1>1. \A i \in 1..Len(<< >>) : FALSE
  OBVIOUS
<1>2. \A i \in 1..Len(<<c>>) : i = 1 /\ <<c>>[1] = c
  OBVIOUS
<1> QED BY <1>1, <1>2 DEF RangesAfter

\* Blocks of a section, as a chunk of it.
LEMMA InSectionRange ==
    ASSUME SectionsInv, next = Len(text) + 1, chunker = "structure",
           current \in 1..Len(sections), NEW q \in Seq(1..Len(text)), q # << >>,
           NEW n \in Nat, From(q, n), Lead(sections[current]) <= n, n + (Len(q) - 1) <= sections[current].last,
           NEW s, Low(s, Offset(n))
    PROVE  RangeBy(InSection(q), s)
<1>1. /\ text \in Texts /\ Lead(sections[current]) \in 1..Len(text) /\ Len(text) \in Nat
      /\ sections[current].last \in 1..Len(text) /\ current \in Nat
  BY Tiles, TextBlocks
<1>2. PICK st \in Nat, e \in Nat, l \in 1..Len(text), k \in 1..Len(text) :
         /\ st = SectionStart(sections[current]) /\ e = SectionEnd(sections[current])
         /\ l = sections[current].last /\ k = Lead(sections[current])
         /\ st = Offset(k) /\ EndOf(l) <= e
  BY <1>1, SectionBounds
<1>3. PICK c : c = Chunk(q, 0, Words(q), st, e, current)
  OBVIOUS
<1>4. c = InSection(q)
  BY <1>2, <1>3 DEF InSection
<1>5. IsWhole(c, q, n)
  BY <1>1, <1>2, <1>3, WholeChunk
<1>6. /\ ChunkOK(c) /\ n \in 1..Len(text) /\ n + (Len(q) - 1) \in 1..Len(text)
      /\ FirstWord(c) = Offset(n) + 1 /\ LastWord(c) = EndOf(n + (Len(q) - 1))
      /\ Len(q) \in Nat \ {0}
  BY <1>5 DEF IsWhole
<1>7. c.start = st /\ c.end = e /\ c.section = current
  BY <1>3 DEF Chunk
<1>8. PICK z \in 1..Len(text) : z = n + (Len(q) - 1) /\ z <= l /\ n <= z
  BY SMTT(20), <1>2, <1>6
<1>9. /\ Offset(n) \in Nat /\ Offset(n) < EndOf(n) /\ EndOf(n) \in Nat
      /\ EndOf(n) <= EndOf(z) /\ EndOf(z) <= EndOf(l) /\ EndOf(z) \in Nat /\ EndOf(l) \in Nat
      /\ Offset(k) <= Offset(n) /\ Offset(k) \in Nat
  <2>1. Offset(n) \in Nat /\ Offset(n) < EndOf(n) /\ EndOf(n) \in Nat
    BY <1>1, <1>6, BlockSpan
  <2>2. EndOf(n) <= EndOf(z) /\ EndOf(z) \in Nat
    BY <1>1, <1>6, <1>8, BlocksAscend
  <2>3. EndOf(z) <= EndOf(l) /\ EndOf(l) \in Nat
    BY <1>1, <1>8, BlocksAscend
  <2>4. Offset(k) <= Offset(n) /\ Offset(k) \in Nat
    BY <1>1, <1>2, <1>6, BlocksAscend
  <2> QED BY <2>1, <2>2, <2>3, <2>4
<1>10. Offset(n) < FirstWord(c) /\ c.start < FirstWord(c)
  <2>1. PICK o \in Nat, p \in Nat : o = Offset(n) /\ p = Offset(k)
    BY <1>9
  <2>2. p <= o
    BY <1>9, <2>1
  <2>3. o < o + 1 /\ p < o + 1
    BY <2>2
  <2> QED BY <1>2, <1>6, <1>7, <2>1, <2>3
<1>11. LastWord(c) <= c.end
  <2>1. LastWord(c) = EndOf(z) /\ c.end = e
    BY <1>6, <1>7, <1>8
  <2>2. PICK x \in Nat, y \in Nat : x = EndOf(z) /\ y = EndOf(l) /\ x <= y /\ y <= e
    BY <1>2, <1>9
  <2> QED BY <2>1, <2>2
<1>12. Inside(c, FirstWord(c))
  <2>1. FirstWord(c) <= e /\ st < FirstWord(c)
    <3>1. PICK o \in Nat, v \in Nat, x \in Nat, y \in Nat :
             /\ o = Offset(n) /\ v = EndOf(n) /\ x = EndOf(z) /\ y = EndOf(l)
             /\ o < v /\ v <= x /\ x <= y /\ y <= e
      BY <1>2, <1>9
    <3>2. o + 1 <= e
      BY SMTT(40), <3>1
    <3> QED BY <1>6, <1>7, <1>10, <3>1, <3>2
  <2> QED BY <1>2, <1>7, <2>1 DEF Inside
<1>13. Located(c, FirstWord(c))
  BY <1>10, <1>11 DEF Located, IsPiece
<1> QED BY <1>1, <1>4, <1>6, <1>9, <1>10, <1>12, <1>13, RangeFree

\* Where what is new in the buffer begins: the blocks before block N of it are in the last
\* chunk too, and the range of the chunk it becomes begins there, or before.
Carried(a, q, s, f) ==
    \E N \in Nat :
        /\ a - Len(q) <= N /\ N <= Fresh(a, q)
        /\ Low(s, Offset(N))
        /\ chunker = "fixed" => f = Offset(N) \/ (f <= Offset(N) /\ AfterSplit(s))
        /\ chunker # "fixed" => N = a - Len(q)
        /\ N # a - Len(q) =>
               /\ s # << >>
               /\ WordsOf({b \in Nat : a - Len(q) <= b /\ b < N}) \subseteq WordsIn(s[Len(s)])

LEMMA FlushedRange ==
    ASSUME LoopInv, pc = "blocks", parts # << >>, NEW a, a = Ahead(pc, current, rest),
           Carried(a, parts, chunks, from), NEW en \in Nat, chunker = "fixed" => EndOf(a - 1) <= en
    PROVE  RangesAfter(Flushed(en), chunks)
<1>1. /\ SectionsInv /\ text \in Texts /\ Len(text) \in Nat /\ next = Len(text) + 1
      /\ a \in 1..(Len(text) + 1) /\ parts \in Seq(1..Len(text)) /\ Len(parts) \in Nat
      /\ Floor(current) \in Nat \ {0} /\ Floor(current) <= a - Len(parts)
      /\ a - Len(parts) \in Nat \ {0} /\ From(parts, a - Len(parts))
      /\ chunker = "structure" => current \in 1..Len(sections)
      /\ from \in Nat /\ chunker \in {"structure", "fixed", "semantic"}
  BY InLoop DEF LoopInv
<1>2. PICK n \in Nat : n = a - Len(parts)
  BY <1>1
<1>3. PICK N \in Nat :
        /\ n <= N /\ N <= Fresh(a, parts)
        /\ Low(chunks, Offset(N))
        /\ chunker = "fixed" => from = Offset(N) \/ (from <= Offset(N) /\ AfterSplit(chunks))
        /\ chunker # "fixed" => N = n
        /\ N # n => /\ chunks # << >>
                    /\ WordsOf({b \in Nat : n <= b /\ b < N}) \subseteq WordsIn(chunks[Len(chunks)])
  BY <1>2 DEF Carried
<1>4. PICK q \in Seq(1..Len(text)) : q = parts
  BY <1>1
<1>5. q # << >> /\ From(q, n) /\ Len(q) \in Nat \ {0} /\ n + (Len(q) - 1) = a - 1
  <2>1. q # << >> /\ From(q, n)
    BY <1>1, <1>2, <1>4
  <2>2. Len(q) \in Nat \ {0}
    BY <2>1, EmptySeq
  <2>3. n = a - Len(q)
    BY <1>2, <1>4
  <2> QED BY <1>1, <2>1, <2>2, <2>3
<1>6. N <= a - 1
  BY <1>3 DEF Fresh
<1>7. CASE chunker = "structure"
  <2>1. PICK l : l = sections[current].last
    OBVIOUS
  <2>2. l \in 1..Len(text) /\ sections[current].first \in Nat /\ Stop(current) = l
        /\ Floor(current) = sections[current].first
    BY <1>1, <1>7, <2>1, Tiles DEF Stop, Floor
  <2>3. a - 1 <= l
    <3>1. a = l + 1 - Len(rest)
      BY <2>2 DEF Ahead, Looping
    <3>2. Len(rest) \in Nat
      <4>1. rest \in Seq(1..Len(text))
        BY DEF LoopInv, LoopOK
      <4> QED BY <4>1
    <3> QED BY <2>2, <3>1, <3>2
  <2>4. Lead(sections[current]) <= n
    <3>1. Lead(sections[current]) = sections[current].first
            \/ Lead(sections[current]) = sections[current].first - 1
      BY DEF Lead
    <3>2. sections[current].first <= n
      BY <1>1, <1>2, <2>2
    <3>3. PICK f \in Nat : f = sections[current].first
      BY <2>2
    <3> QED BY <3>1, <3>2, <3>3
  <2>5. n + (Len(q) - 1) <= sections[current].last /\ Low(chunks, Offset(n))
    BY <1>3, <1>5, <1>7, <2>1, <2>3
  <2>6. RangeBy(InSection(q), chunks)
    BY <1>1, <1>5, <1>7, <2>4, <2>5, InSectionRange
  <2>7. Flushed(en) = <<InSection(q)>>
    BY <1>4, <1>7 DEF Flushed
  <2> QED BY <2>6, <2>7, RangesOfOne
<1>8. CASE chunker \in {"fixed", "semantic"}
  <2>1. PICK st \in Nat, e \in Nat, sec \in Nat :
           /\ Flushed(en) = <<Chunk(parts, 0, Words(parts), st, e, sec)>>
           /\ chunker = "fixed" => st = from /\ e = en /\ sec = SectionAt(from)
           /\ chunker = "semantic" =>
                  /\ st = Offset(parts[1]) /\ e = EndOf(parts[Len(parts)])
                  /\ sec = SectionAt(st)
    BY ZenonT(60), FlushedIs
  <2>2. PICK c : c = Chunk(q, 0, Words(q), st, e, sec)
    OBVIOUS
  <2>3. IsWhole(c, q, n)
    BY <1>1, <1>5, <2>2, WholeChunk
  <2>4. /\ ChunkOK(c) /\ WordsIn(c) = WordsOf(ToSet(q)) /\ n \in 1..Len(text)
        /\ a - 1 \in 1..Len(text) /\ FirstWord(c) = Offset(n) + 1 /\ LastWord(c) = EndOf(a - 1)
    BY <1>5, <2>3 DEF IsWhole
  <2>5. c.start = st /\ c.end = e /\ c.section = sec
    BY <2>2 DEF Chunk
  <2>6. N \in 1..Len(text)
    BY SMTT(30), <1>1, <1>3, <1>6, <2>4
  <2>7. /\ Offset(N) \in Nat /\ EndOf(N) \in Nat /\ Offset(N) < EndOf(N)
        /\ SectionAt(Offset(N)) \in 1..Len(sections)
        /\ SectionStart(sections[SectionAt(Offset(N))]) <= Offset(N)
        /\ EndOf(N) <= SectionEnd(sections[SectionAt(Offset(N))])
    <3>1. Offset(N) \in Nat /\ EndOf(N) \in Nat /\ Offset(N) < EndOf(N) /\ Offset(N) <= Offset(N)
      <4>1. Offset(N) \in Nat /\ EndOf(N) \in Nat /\ Offset(N) < EndOf(N)
        BY <1>1, <2>6, BlockSpan
      <4> QED BY <4>1
    <3>2. PICK o \in Nat : o = Offset(N)
      BY <3>1
    <3>3. /\ SectionAt(o) \in 1..Len(sections)
          /\ SectionStart(sections[SectionAt(o)]) <= Offset(N)
          /\ EndOf(N) <= SectionEnd(sections[SectionAt(o)])
      BY <1>1, <2>6, <3>1, <3>2, SectionOf
    <3> QED BY <3>1, <3>2, <3>3
  <2>8. ASSUME sec = SectionAt(Offset(N)) PROVE Inside(c, Offset(N) + 1)
    <3>1. PICK s : s = sections[SectionAt(Offset(N))]
      OBVIOUS
    <3>2. SectionStart(s) \in Nat /\ SectionEnd(s) \in Nat
      BY <1>1, <2>7, <3>1, SectionBounds
    <3>3. SectionStart(s) < Offset(N) + 1 /\ Offset(N) + 1 <= SectionEnd(s)
      BY <2>7, <3>1, <3>2
    <3> QED BY <2>5, <2>7, <2>8, <3>1, <3>3 DEF Inside
  <2>9. CASE chunker = "semantic"
    <3>1. N = n
      BY <1>3, <2>9
    <3>2. q[1] = n /\ q[Len(q)] = a - 1
      <4>1. 1 \in 1..Len(q) /\ Len(q) \in 1..Len(q) /\ n + (1 - 1) = n
        BY <1>5
      <4>2. q[1] = n + (1 - 1) /\ q[Len(q)] = n + (Len(q) - 1)
        BY <1>5, <4>1 DEF From
      <4> QED BY <1>5, <4>1, <4>2
    <3>3. st = Offset(N) /\ e = EndOf(a - 1) /\ sec = SectionAt(Offset(N))
      BY <1>4, <2>1, <2>9, <3>1, <3>2
    <3>4. Inside(c, FirstWord(c))
      BY <2>4, <2>8, <3>1, <3>3
    <3>5. /\ Offset(N) < FirstWord(c) /\ c.start < FirstWord(c) /\ LastWord(c) <= c.end
      <4>1. EndOf(a - 1) \in Nat /\ EndOf(a - 1) <= EndOf(a - 1)
        <5>1. EndOf(a - 1) \in Nat
          BY <1>1, <2>4, BlockSpan
        <5> QED BY <5>1
      <4> QED BY <2>4, <2>5, <2>7, <3>1, <3>3, <4>1
    <3>6. Located(c, FirstWord(c))
      BY <2>9, <3>5 DEF Located, IsPiece
    <3>7. RangeBy(c, chunks)
      BY <1>1, <1>3, <2>4, <2>7, <3>4, <3>5, <3>6, RangeFree
    <3> QED BY <1>4, <2>1, <2>2, <3>7, RangesOfOne
  <2>10. CASE chunker = "fixed"
    <3>1. /\ st = from /\ e = en /\ sec = SectionAt(from)
          /\ from = Offset(N) \/ (from <= Offset(N) /\ AfterSplit(chunks))
      BY <1>3, <2>1, <2>10
    <3>2. PICK m \in Nat : m = Offset(N) + 1
      BY <2>7
    <3>3. ToSet(q) = {b \in Nat : n <= b /\ b < a} /\ ToSet(q) \in SUBSET (1..Len(text))
      <4>1. q \in Seq(Nat)
        BY <1>1
      <4>2. ToSet(q) = {b \in Nat : n <= b /\ b < n + Len(q)}
        BY <1>5, <4>1, BlocksOf
      <4>3. n + Len(q) = a
        <5>1. PICK k \in Nat : k = Len(q)
          BY <1>5
        <5>2. n + (k - 1) = a - 1
          BY <1>5, <5>1
        <5> QED BY SMTT(20), <1>1, <5>1, <5>2
      <4>4. ToSet(q) = {b \in Nat : n <= b /\ b < a}
        BY <4>2, <4>3
      <4>5. \A b \in Nat : n <= b /\ b < a => b \in 1..Len(text)
        BY <1>1, <2>4
      <4> QED BY <4>4, <4>5
    <3>4. \A w : w \in WordsIn(c)
            <=> w \in Nat /\ \E b \in ToSet(q) : Offset(b) < w /\ w <= EndOf(b)
      <4>1. PICK S \in SUBSET (1..Len(text)) : S = ToSet(q)
        BY <3>3
      <4>2. \A w : w \in WordsOf(S) <=> w \in Nat /\ \E b \in S : Offset(b) < w /\ w <= EndOf(b)
        BY <1>1, WordsOfBlocks
      <4> QED BY <2>4, <4>1, <4>2
    <3>5. m \in WordsIn(c)
      <4>1. N \in ToSet(q)
        BY <1>1, <1>3, <1>6, <3>3
      <4>2. Offset(N) < m /\ m <= EndOf(N)
        BY <2>7, <3>2
      <4> QED BY <3>4, <4>1, <4>2
    <3>6. ASSUME NEW w \in WordsIn(c), w < m PROVE w \in Prior(chunks)
      <4>1. PICK b \in ToSet(q) : Offset(b) < w /\ w <= EndOf(b)
        BY <3>4
      <4>2. w \in Nat /\ b \in 1..Len(text) /\ n <= b /\ b \in Nat
        BY <3>3, <3>4, <4>1
      <4>3. b < N
        <5> SUFFICES ASSUME ~(b < N) PROVE FALSE
          OBVIOUS
        <5>1. N <= b
          BY <2>6, <4>2
        <5>2. Offset(N) <= Offset(b) /\ Offset(b) \in Nat
          BY <1>1, <2>6, <4>2, <5>1, BlocksAscend
        <5> QED BY <2>7, <3>2, <3>6, <4>1, <4>2, <5>2
      <4>4. N # n
        BY <2>6, <4>2, <4>3
      <4>5. w \in WordsOf({d \in Nat : n <= d /\ d < N})
        <5>1. {d \in Nat : n <= d /\ d < N} \in SUBSET (1..Len(text))
          BY <2>4, <2>6
        <5>2. b \in {d \in Nat : n <= d /\ d < N}
          BY <4>2, <4>3
        <5> QED BY <1>1, <4>1, <4>2, <5>1, <5>2, WordsOfBlocks
      <4> QED BY <1>3, <4>4, <4>5 DEF Prior
    <3>7. ASSUME NEW w \in Prior(chunks) PROVE w < m
      <4>1. chunks # << >> /\ w \in WordsIn(chunks[Len(chunks)])
        BY <3>7 DEF Prior
      <4>2. PICK d : d = chunks[Len(chunks)]
        OBVIOUS
      <4>3. ChunkOK(d) /\ LastWord(d) <= Offset(N)
        BY <1>3, <4>1, <4>2 DEF Low
      <4>4. w \in Nat /\ w <= LastWord(d) /\ LastWord(d) \in Nat
        BY <1>1, <4>1, <4>2, <4>3, ChunkWords
      <4> QED BY <2>7, <3>2, <4>3, <4>4
    <3>8. c.start < m /\ LastWord(c) <= c.end
      <4>1. from <= Offset(N)
        BY <2>7, <3>1
      <4>2. from < m
        <5>1. PICK f \in Nat, o \in Nat : f = from /\ o = Offset(N)
          BY <1>1, <2>7
        <5>2. f <= o /\ m = o + 1
          BY <3>2, <4>1, <5>1
        <5> QED BY <5>1, <5>2
      <4> QED BY <2>4, <2>5, <2>10, <3>1, <4>2
    <3>9. AfterSplit(chunks) \/ Inside(c, m)
      BY <2>8, <3>1, <3>2
    <3>10. ~IsPiece(c)
      <4>1. PICK b : b = q[1] /\ TokensOf(b) <= Size
        <5>1. \A i \in 1..Len(q) : TokensOf(q[i]) <= Size
          BY <1>4, <2>10 DEF LoopInv, BufferOK
        <5> QED BY <1>5, <5>1
      <4>2. c.blocks = q /\ Head(q) = b
        BY <1>5, <2>2, <4>1 DEF Chunk
      <4>3. TokensOf(b) \in Nat /\ Size \in Nat
        <5>1. b \in 1..Len(text)
          BY <1>5, <4>1
        <5> QED BY <1>1, <5>1, TextBlocks, SizeAssumption, Estimate DEF TokensOf
      <4>4. ~(TokensOf(b) > Size)
        BY <4>1, <4>3
      <4> QED BY <4>2, <4>4 DEF IsPiece
    <3>11. Located(c, m)
      BY <3>8, <3>10 DEF Located
    <3>12. RangeBy(c, chunks)
      BY <3>5, <3>6, <3>7, <3>9, <3>11 DEF RangeBy
    <3> QED BY <1>4, <2>1, <2>2, <3>12, RangesOfOne
  <2> QED BY <1>8, <2>9, <2>10
<1> QED BY <1>1, <1>7, <1>8

LEMMA BatchLow == ASSUME NEW s, NEW lo, NEW hi, Batch(s, lo, hi) PROVE Low(s, hi)
<1> SUFFICES ASSUME s # << >> PROVE ChunkOK(s[Len(s)]) /\ LastWord(s[Len(s)]) <= hi
  BY DEF Low
<1>1. s \in Seq(ChunkRecord)
  BY DEF Batch
<1>2. Len(s) \in 1..Len(s)
  BY <1>1, EmptySeq
<1> QED BY <1>2 DEF Batch

\* The last of two sequences of chunks.
LEMMA LastOfJoin ==
    ASSUME NEW a \in Seq(ChunkRecord), NEW b \in Seq(ChunkRecord), b # << >>
    PROVE  /\ a \o b # << >> /\ (a \o b)[Len(a \o b)] = b[Len(b)]
           /\ b[Len(b)] \in ChunkRecord
<1>1. PICK m \in Nat, n \in Nat : m = Len(a) /\ n = Len(b)
  OBVIOUS
<1>2. n \in 1..n
  BY <1>1, EmptySeq
<1>3. Len(a \o b) = m + n /\ (a \o b)[m + n] = b[n]
  BY <1>1, <1>2, Concatenated
<1>4. a \o b # << >>
  <2>1. m + n # 0 /\ Len(<< >>) = 0
    BY <1>2
  <2> QED BY <1>3, <2>1
<1> QED BY <1>1, <1>2, <1>3, <1>4

LEMMA LastOfAdded ==
    ASSUME NEW s \in Seq(ChunkRecord), NEW cs \in Seq(ChunkRecord), cs # << >>,
           NEW n \in Nat
    PROVE  /\ s \o Numbered(n, cs) # << >>
           /\ WordsIn((s \o Numbered(n, cs))[Len(s \o Numbered(n, cs))]) = WordsIn(cs[Len(cs)])
           /\ EndsSplit((s \o Numbered(n, cs))[Len(s \o Numbered(n, cs))]) <=> EndsSplit(cs[Len(cs)])
<1>1. PICK d, k : /\ k \in Nat /\ k = Len(cs) /\ d = Numbered(n, cs) /\ Len(d) = k
                  /\ d \in Seq(ChunkRecord)
                  /\ \A i \in 1..k : d[i] \in ChunkRecord /\ cs[i] \in ChunkRecord
                                     /\ SameButIndex(cs[i], d[i])
  BY NumberedChunks
<1>2. k \in 1..k
  BY <1>1, EmptySeq
<1>3. d # << >>
  <2>1. Len(<< >>) = 0
    OBVIOUS
  <2> QED BY <1>1, <1>2, <2>1
<1>4. s \o d # << >> /\ (s \o d)[Len(s \o d)] = d[k]
  BY <1>1, <1>3, LastOfJoin
<1>5. WordsIn(d[k]) = WordsIn(cs[k]) /\ (EndsSplit(d[k]) <=> EndsSplit(cs[k]))
  <2>1. PICK c \in ChunkRecord, e \in ChunkRecord : c = cs[k] /\ e = d[k] /\ SameButIndex(c, e)
    BY <1>1, <1>2
  <2> QED BY <2>1, IndexOnly
<1> QED BY <1>1, <1>4, <1>5

\* Chunks that are added, numbered on.
LEMMA AddedRanges ==
    ASSUME NEW s \in Seq(ChunkRecord), NEW cs \in Seq(ChunkRecord),
           RangesAfter(s, << >>), RangesAfter(cs, s)
    PROVE  RangesAfter(s \o Numbered(Len(s), cs), << >>)
<1>1. PICK b : b = Numbered(Len(s), cs)
  OBVIOUS
<1>2. Len(s) \in Nat /\ (s # << >> => s[Len(s)] \in ChunkRecord)
  <2>1. Len(s) \in Nat /\ (s # << >> => Len(s) \in 1..Len(s))
    BY EmptySeq
  <2> QED BY <2>1
<1>3. b \in Seq(ChunkRecord)
  BY <1>1, <1>2, NumberedChunks
<1>4. RangesAfter(b, s)
  BY <1>1, <1>2, RangesNumbered
<1>5. RangesAfter(b, IF s = << >> THEN << >> ELSE s)
  BY <1>4
<1> QED BY <1>1, <1>3, <1>5, RangesJoin

LEMMA RangesRigid ==
    UNCHANGED <<input, parsed>> =>
        /\ \A cs, s : RangesAfter(cs, s)' <=> RangesAfter(cs, s)
        /\ \A a, q, s, f : Carried(a, q, s, f)' <=> Carried(a, q, s, f)
<1> SUFFICES ASSUME UNCHANGED <<input, parsed>>
             PROVE  /\ \A cs, s : RangesAfter(cs, s)' <=> RangesAfter(cs, s)
                    /\ \A a, q, s, f : Carried(a, q, s, f)' <=> Carried(a, q, s, f)
  OBVIOUS
<1>1. /\ text' = text /\ parser' = parser /\ chunker' = chunker
      /\ next' = next /\ stack' = stack /\ sections' = sections
  BY DEF input, parsed
<1>2. \A b : Offset(b)' = Offset(b) /\ EndOf(b)' = EndOf(b)
  BY LoopRigid
<1>3. \A c : WordsIn(c)' = WordsIn(c)
  BY <1>1, <1>2 DEF WordsIn
<1>4. \A c : LastWord(c)' = LastWord(c)
  BY <1>2 DEF LastWord
<1>5. \A c : ChunkOK(c)' <=> ChunkOK(c)
  BY <1>1 DEF ChunkOK, Words, Total
<1>6. \A S : WordsOf(S)' = WordsOf(S)
  BY <1>1, <1>2 DEF WordsOf
<1>7. \A c : IsPiece(c)' <=> IsPiece(c)
  BY <1>1 DEF IsPiece, TokensOf
<1>8. \A c : InItsParagraph(c)' <=> InItsParagraph(c)
  BY <1>2 DEF InItsParagraph
<1>9. \A c : EndsSplit(c)' <=> EndsSplit(c)
  BY <1>1, <1>7 DEF EndsSplit
<1>10. \A c, m : Located(c, m)' <=> Located(c, m)
  BY <1>4, <1>7, <1>8 DEF Located
<1>11. \A s : /\ SectionStart(s)' = SectionStart(s)
             /\ SectionEnd(s)' = SectionEnd(s)
  BY <1>1, <1>2 DEF SectionStart, SectionEnd
<1>12. \A c, m : Inside(c, m)' <=> Inside(c, m)
  BY <1>1, <1>11 DEF Inside
<1>13. \A s : Prior(s)' = Prior(s) /\ (AfterSplit(s)' <=> AfterSplit(s))
  BY <1>3, <1>9 DEF Prior, AfterSplit
<1>14. \A c, s : RangeBy(c, s)' <=> RangeBy(c, s)
  BY <1>3, <1>12, <1>13, <1>10 DEF RangeBy
<1>15. \A cs, s : RangesAfter(cs, s)' <=> RangesAfter(cs, s)
  BY <1>14 DEF RangesAfter
<1>16. \A s, x : Low(s, x)' <=> Low(s, x)
  BY <1>4, <1>5 DEF Low
<1>17. \A a, q, s, f : Carried(a, q, s, f)' <=> Carried(a, q, s, f)
  BY <1>1, <1>2, <1>3, <1>6, <1>13, <1>16 DEF Carried, Fresh
<1> QED BY <1>15, <1>17

\* The pieces of a paragraph that is longer than the limit, after chunks that end before it.
LEMMA PieceRange ==
    ASSUME SectionsInv, next = Len(text) + 1, NEW b \in 1..Len(text), chunker = "fixed",
           TokensOf(b) > Size, NEW at \in Finds(b), NEW i \in 1..Pieces(b),
           NEW s, Low(s, Offset(b) + Skip(i))
    PROVE  RangeBy(HardSplit(b, at)[i], s)
<1>1. text \in Texts
  BY DEF SectionsInv, PathInv
<1>2. PICK o \in Nat, k \in Nat, w \in Nat \ {0}, t \in Nat \ {0}, x \in Nat :
         /\ o = Offset(b) /\ k = Skip(i) /\ w = PieceWords(b, i) /\ t = text[b].words
         /\ x = at[i] /\ x <= k
  <2>1. Offset(b) \in Nat /\ text[b].words \in Nat \ {0}
    BY <1>1, BlockSpan, TextBlocks
  <2>2. Skip(i) \in Nat /\ PieceWords(b, i) \in Nat \ {0}
    BY <1>1, PieceFacts
  <2>3. at[i] \in Nat /\ at[i] <= Skip(i)
    BY <1>1, FoundBy
  <2> QED BY <2>1, <2>2, <2>3
<1>3. EndOf(b) = o + t /\ k + w <= t
  BY <1>1, <1>2, BlockSpan, PieceFacts
<1>4. PICK c : c = HardSplit(b, at)[i]
  OBVIOUS
<1>5. /\ ChunkOK(c) /\ c.blocks = <<b>> /\ c.skip = k /\ c.words = w
      /\ c.start = o + x /\ c.end = c.start + w /\ c.section = SectionAt(c.start)
      /\ FirstWord(c) = o + (k + 1)
  BY <1>1, <1>2, <1>4, HardSplitIs
<1>6. PICK p \in Nat : p = c.start /\ p = o + x
  BY <1>5
<1>7. /\ o <= p /\ p <= o + k /\ p < o + t /\ p < o + (k + 1) /\ o + k < o + (k + 1)
      /\ o < o + (k + 1) /\ o + (k + 1) <= o + t
  <2>1. x <= k /\ k + w <= t /\ p = o + x
    BY <1>2, <1>3, <1>6
  <2> QED BY <2>1
<1>8. Inside(c, FirstWord(c))
  <2>1. /\ SectionAt(p) \in 1..Len(sections)
        /\ SectionStart(sections[SectionAt(p)]) <= Offset(b)
        /\ EndOf(b) <= SectionEnd(sections[SectionAt(p)])
    <3>1. Offset(b) <= p /\ p < EndOf(b)
      BY <1>2, <1>3, <1>7
    <3> QED BY <3>1, SectionOf
  <2>2. PICK st \in Nat, e \in Nat :
           st = SectionStart(sections[SectionAt(p)]) /\ e = SectionEnd(sections[SectionAt(p)])
    BY <2>1, SectionBounds
  <2>3. st < o + (k + 1) /\ o + (k + 1) <= e
    <3>1. st <= o /\ o + t <= e
      BY <1>2, <1>3, <2>1, <2>2
    <3> QED BY <1>7, <3>1
  <2> QED BY <1>5, <1>6, <2>1, <2>2, <2>3 DEF Inside
<1>9. Located(c, FirstWord(c))
  <2>1. Len(c.blocks) = 1 /\ Head(c.blocks) = b
    BY <1>5
  <2>2. InItsParagraph(c)
    BY <1>2, <1>5, <1>6, <1>7, <2>1 DEF InItsParagraph
  <2>3. IsPiece(c)
    BY <2>1 DEF IsPiece
  <2> QED BY <2>2, <2>3 DEF Located
<1>10. o + k \in Nat /\ Low(s, o + k) /\ o + k < FirstWord(c)
  <2>1. Low(s, o + k)
    BY <1>2
  <2> QED BY <1>5, <1>7, <2>1
<1> QED BY <1>1, <1>4, <1>5, <1>8, <1>9, <1>10, RangeFree

LEMMA HardSplitRanges ==
    ASSUME SectionsInv, next = Len(text) + 1, NEW b \in 1..Len(text), chunker = "fixed",
           TokensOf(b) > Size, NEW at \in Finds(b), NEW s, Low(s, Offset(b)),
           NEW h, h = HardSplit(b, at)
    PROVE  RangesAfter(h, s) /\ h # << >> /\ EndsSplit(h[Len(h)])
<1>1. text \in Texts
  BY DEF SectionsInv, PathInv
<1>2. PICK n : n = Pieces(b) /\ n \in Nat \ {0} /\ Len(h) = n
  <2>1. Pieces(b) \in Nat \ {0}
    BY <1>1, PieceFacts
  <2>2. Len(h) = Pieces(b)
    BY <1>1, HardSplitIs
  <2> QED BY <2>1, <2>2
<1>3. ASSUME NEW i \in 1..n PROVE RangeBy(h[i], IF i = 1 THEN s ELSE <<h[i - 1]>>)
  <2>1. CASE i = 1
    <3>1. Offset(b) + Skip(i) = Offset(b)
      <4>1. Skip(1) = 0 /\ Offset(b) \in Nat
        BY <1>1, BlockSpan, PieceFacts
      <4> QED BY <2>1, <4>1
    <3>2. RangeBy(h[i], s)
      BY <1>2, <3>1, PieceRange
    <3> QED BY <2>1, <3>2
  <2>2. CASE i # 1
    <3>1. PICK j \in 1..n : j = i - 1 /\ j < i
      BY <1>2, <2>2
    <3>2. Skip(j) + PieceWords(b, j) <= Skip(i)
      BY <1>1, <1>2, <3>1, PiecesAscend
    <3>3. PICK c : c = h[j]
      OBVIOUS
    <3>4. ChunkOK(c) /\ LastWord(c) = Offset(b) + (Skip(j) + PieceWords(b, j))
      BY <1>1, <1>2, <3>3, HardSplitIs
    <3>5. LastWord(c) <= Offset(b) + Skip(i)
      <4>1. /\ Skip(j) \in Nat /\ PieceWords(b, j) \in Nat /\ Skip(i) \in Nat /\ Offset(b) \in Nat
        BY <1>1, <1>2, BlockSpan, PieceFacts
      <4> QED BY <3>2, <3>4, <4>1
    <3>6. <<c>>[Len(<<c>>)] = c
      OBVIOUS
    <3>7. Low(<<c>>, Offset(b) + Skip(i))
      BY <3>4, <3>5, <3>6 DEF Low
    <3>8. RangeBy(h[i], <<c>>)
      BY <1>2, <3>7, PieceRange
    <3> QED BY <2>2, <3>1, <3>3, <3>8
  <2> QED BY <2>1, <2>2
<1>4. RangesAfter(h, s)
  BY <1>2, <1>3 DEF RangesAfter
<1>5. h # << >> /\ EndsSplit(h[n])
  <2>1. n \in 1..n
    BY <1>2
  <2>2. h # << >>
    <3>1. Len(<< >>) = 0
      OBVIOUS
    <3> QED BY <1>2, <3>1
  <2>3. PICK c : c = h[n]
    OBVIOUS
  <2>4. c.blocks = <<b>> /\ c.skip = Skip(n) /\ c.words = PieceWords(b, n)
    BY <1>1, <1>2, <2>1, <2>3, HardSplitIs
  <2>5. Skip(n) + PieceWords(b, n) = text[b].words
    BY <1>1, <1>2, <2>1, PieceFacts
  <2>6. Len(c.blocks) = 1 /\ Head(c.blocks) = b
    BY <2>4
  <2>7. IsPiece(c)
    BY <2>6 DEF IsPiece
  <2> QED BY <2>2, <2>3, <2>4, <2>5, <2>6, <2>7 DEF EndsSplit
<1> QED BY <1>2, <1>4, <1>5

LEMMA OversizedRanges ==
    ASSUME LoopInv, pc = "blocks", rest # << >>, chunker \in {"structure", "fixed"},
           NEW b, b = Head(rest), TokensOf(b) > Size, NEW s, Low(s, Offset(b)),
           NEW cs \in Oversized(b)
    PROVE  /\ RangesAfter(cs, s)
           /\ chunker = "fixed" => cs # << >> /\ EndsSplit(cs[Len(cs)])
<1>1. /\ SectionsInv /\ text \in Texts /\ next = Len(text) + 1 /\ Len(text) \in Nat
      /\ chunker = "structure" => current \in 1..Len(sections)
      /\ LoopOK(pc, current, rest, parts)
  BY InLoop DEF LoopInv
<1>2. /\ b = Ahead(pc, current, rest) /\ b \in 1..Len(text) /\ Floor(current) <= b - Len(parts)
      /\ Floor(current) \in Nat \ {0} /\ Len(parts) \in Nat
  BY <1>1, TurnTakes
<1>3. CASE chunker = "fixed"
  <2>1. PICK at \in Finds(b) : cs = HardSplit(b, at)
    BY <1>3 DEF Oversized
  <2> QED BY <1>1, <1>2, <1>3, <2>1, HardSplitRanges
<1>4. CASE chunker = "structure"
  <2>1. PICK l \in 1..Len(text), f \in Nat, r \in Nat \ {0}, k \in Nat :
           /\ l = sections[current].last /\ f = sections[current].first /\ r = Len(rest)
           /\ k = Len(parts)
    <3>1. sections[current].last \in 1..Len(text) /\ sections[current].first \in Nat
      BY <1>1, <1>4, Tiles
    <3>2. rest \in Seq(1..Len(text))
      BY <1>1 DEF LoopOK
    <3>3. Len(rest) \in Nat \ {0}
      BY <3>2, EmptySeq
    <3> QED BY <1>2, <3>1, <3>3
  <2>2. b = l + 1 - r /\ f <= b - k
    BY <1>2, <1>4, <2>1 DEF Ahead, Looping, Stop, Floor
  <2>3. b <= l /\ f <= b
    BY SMTT(30), <1>2, <2>1, <2>2
  <2>4. PICK q \in Seq(1..Len(text)) : q = <<b>>
    <3>1. \A S : \A x \in S : <<x>> \in Seq(S)
      OBVIOUS
    <3> QED BY <1>2, <3>1
  <2>5. q # << >> /\ From(q, b) /\ Len(q) = 1
    <3>1. \A i \in 1..1 : i = 1 /\ b + (i - 1) = b
      BY <1>2
    <3> QED BY <2>4, <3>1 DEF From
  <2>6. Lead(sections[current]) <= b
    <3>1. Lead(sections[current]) = f \/ Lead(sections[current]) = f - 1
      BY <2>1 DEF Lead
    <3> QED BY <1>2, <2>1, <2>3, <3>1
  <2>7. b \in Nat /\ b + (Len(q) - 1) <= sections[current].last
    BY <1>2, <2>1, <2>3, <2>5
  <2>8. RangeBy(InSection(q), s)
    BY <1>1, <1>4, <2>5, <2>6, <2>7, InSectionRange
  <2>9. cs = <<InSection(q)>>
    BY <1>4, <2>4 DEF Oversized
  <2> QED BY <1>4, <2>8, <2>9, RangesOfOne
<1> QED BY <1>3, <1>4

-----------------------------------------------------------------------------
(* What the ranges rest on, step by step *)

RangeInv ==
    /\ ChunkInv
    /\ RangesAfter(chunks, << >>)
    /\ pc = "parse" => from = 0
    /\ pc = "blocks" => Carried(Ahead(pc, current, rest), parts, chunks, from)

LEMMA RangeInvInit == Init => RangeInv
<1> SUFFICES ASSUME Init PROVE RangeInv
  OBVIOUS
<1>1. ChunkInv /\ chunks = << >> /\ pc = "parse" /\ from = 0
  BY ChunkInvInit DEF Init
<1>2. RangesAfter(<< >>, << >>)
  BY RangesOfOne
<1> QED BY <1>1, <1>2 DEF RangeInv

\* A step of a loop that adds the chunks cs.
LEMMA RangeKept ==
    ASSUME RangeInv, ChunkInv', UNCHANGED <<input, parsed>>, pc' # "parse",
           NEW cs \in Seq(ChunkRecord), chunks' = chunks \o Numbered(Len(chunks), cs),
           RangesAfter(cs, chunks),
           pc' = "blocks" => Carried(Ahead(pc', current', rest'), parts', chunks', from')
    PROVE  RangeInv'
<1>1. RangesAfter(chunks, << >>)'
  <2>1. chunks \in Seq(ChunkRecord)
    BY DEF RangeInv, ChunkInv, Chunked, Batch
  <2>2. RangesAfter(chunks', << >>)
    BY <2>1, AddedRanges DEF RangeInv
  <2> QED BY <2>2, RangesRigid
<1>2. pc' = "blocks" => Carried(Ahead(pc, current, rest), parts, chunks, from)'
  <2>1. Ahead(pc, current, rest)' = Ahead(pc', current', rest')
    BY ChunkedRigid
  <2> QED BY <2>1, RangesRigid
<1> QED BY <1>1, <1>2 DEF RangeInv

\* One that adds none.
LEMMA RangeKeptIdle ==
    ASSUME RangeInv, ChunkInv', UNCHANGED <<input, parsed>>, pc' # "parse", chunks' = chunks,
           pc' = "blocks" => Carried(Ahead(pc', current', rest'), parts', chunks', from')
    PROVE  RangeInv'
<1>1. chunks \in Seq(ChunkRecord)
  BY DEF RangeInv, ChunkInv, Chunked, Batch
<1>2. chunks' = chunks \o Numbered(Len(chunks), << >>)
  BY <1>1, AddNothing
<1>3. << >> \in Seq(ChunkRecord) /\ RangesAfter(<< >>, chunks)
  <2>1. << >> \in Seq(ChunkRecord)
    OBVIOUS
  <2> QED BY <2>1, RangesOfOne
<1> QED BY <1>2, <1>3, RangeKept

\* Where the chunks end after a turn of the loop, and what is flushed before.
LEMMA TurnRanges ==
    ASSUME RangeInv, ChunkInv', UNCHANGED <<input, parsed>>, pc = "blocks", rest # << >>,
           pc' = pc, current' = current, rest' = Tail(rest), NEW a, a = Head(rest)
    PROVE  /\ a = Ahead(pc, current, rest) /\ a \in 1..Len(text) /\ Len(text) \in Nat
           /\ Ahead(pc', current', rest') = a + 1
           /\ Low(chunks', Offset(Fresh(a + 1, parts')))
           /\ Low(chunks, Offset(Fresh(a, parts)))
           /\ \A en \in Nat : (chunker = "fixed" => en = Offset(a)) =>
                  RangesAfter(Flushed(en), chunks)
<1>1. /\ a = Ahead(pc, current, rest) /\ a \in 1..Len(text) /\ Len(text) \in Nat
      /\ Ahead(pc, current, Tail(rest)) = a + 1 /\ LoopInv /\ text \in Texts
  BY TakesContent DEF RangeInv, ChunkInv, LoopInv
<1>2. Ahead(pc', current', rest') = a + 1
  BY <1>1
<1>3. Low(chunks', Offset(Fresh(a + 1, parts')))
  <2>1. Chunked(Ahead(pc, current, rest), parts, chunks)'
    BY DEF ChunkInv
  <2>2. Chunked(a + 1, parts', chunks')
    <3>1. Ahead(pc, current, rest)' = a + 1
      BY <1>2, ChunkedRigid
    <3> QED BY <2>1, <3>1, ChunkedRigid
  <2> QED BY <2>2, BatchLow DEF Chunked
<1>4. Low(chunks, Offset(Fresh(a, parts)))
  BY <1>1, BatchLow DEF RangeInv, ChunkInv, Chunked
<1>5. parts # << >> => EndOf(a - 1) <= Offset(a)
  <2> SUFFICES ASSUME parts # << >> PROVE EndOf(a - 1) <= Offset(a)
    OBVIOUS
  <2>1. a - 1 \in 1..Len(text)
    <3>1. Len(parts) \in Nat /\ a - Len(parts) \in Nat \ {0} /\ parts \in Seq(1..Len(text))
      BY <1>1, InLoop
    <3>2. Len(parts) # 0
      BY <3>1, EmptySeq
    <3> QED BY SMTT(20), <1>1, <3>1, <3>2
  <2>2. EndOf(a - 1) < Offset(a) /\ EndOf(a - 1) \in Nat /\ Offset(a) \in Nat
    <3>1. PICK e \in 1..Len(text) : e = a - 1 /\ e < a
      BY <1>1, <2>1
    <3>2. a \in 1..(Len(text) + 1)
      BY <1>1
    <3>3. EndOf(e) < Offset(a)
      BY <1>1, <3>1, <3>2, OffsetOrder
    <3> QED BY <1>1, <3>1, <3>3, BlockSpan
  <2> QED BY <2>2
<1>6. ASSUME NEW en \in Nat, chunker = "fixed" => en = Offset(a)
      PROVE  RangesAfter(Flushed(en), chunks)
  <2>1. CASE parts = << >>
    <3>1. Flushed(en) = << >>
      BY <2>1 DEF Flushed
    <3> QED BY <3>1, RangesOfOne
  <2>2. CASE parts # << >>
    <3>1. Carried(a, parts, chunks, from)
      BY <1>1 DEF RangeInv
    <3>2. chunker = "fixed" => EndOf(a - 1) <= en
      BY <1>5, <1>6, <2>2
    <3> QED BY <1>1, <2>2, <3>1, <3>2, FlushedRange
  <2> QED BY <2>1, <2>2
<1> QED BY <1>1, <1>2, <1>3, <1>4, <1>6

LEMMA TakeOversizedRanges == RangeInv /\ TakeOversized => RangeInv'
<1> SUFFICES ASSUME RangeInv, TakeOversized PROVE RangeInv'
  OBVIOUS
<1>1. PICK o : o \in Oversized(Head(rest)) /\ Add(Flushed(Offset(Head(rest))) \o o)
  BY DEF TakeOversized
<1>2. PICK a, f : /\ a = Head(rest) /\ f = Flushed(Offset(a)) /\ o \in Oversized(a)
                  /\ chunks' = chunks \o Numbered(Len(chunks), f \o o)
  BY <1>1 DEF Add, Numbered
<1>3. /\ pc = "blocks" /\ rest # << >> /\ pc' = pc /\ current' = current /\ rest' = Tail(rest)
      /\ parts' = << >> /\ UNCHANGED <<input, parsed>> /\ chunker # "semantic"
      /\ chunks' = chunks \o Numbered(Len(chunks), f \o o) /\ from' = EndOf(a)
      /\ TokensOf(a) > Size
  BY <1>2 DEF TakeOversized, Turn
<1>4. ChunkInv /\ ChunkInv' /\ LoopInv /\ chunker \in {"structure", "fixed"}
  BY <1>3, TakeOversizedChunks DEF RangeInv, ChunkInv, LoopInv
<1>5. /\ a \in 1..Len(text) /\ Len(text) \in Nat /\ Ahead(pc', current', rest') = a + 1
      /\ Low(chunks', Offset(Fresh(a + 1, parts'))) /\ Low(chunks, Offset(Fresh(a, parts)))
      /\ \A en \in Nat : (chunker = "fixed" => en = Offset(a)) =>
             RangesAfter(Flushed(en), chunks)
  BY <1>2, <1>3, <1>4, TurnRanges
<1>6. /\ text \in Texts /\ Offset(a) \in Nat /\ EndOf(a) \in Nat /\ EndOf(a) <= Offset(a + 1)
      /\ Fresh(a + 1, << >>) = a + 1
      /\ Batch(f, Offset(Fresh(a, parts)), Offset(a)) /\ chunks \in Seq(ChunkRecord)
  BY <1>2, <1>3, <1>4, TurnState DEF Chunked, Batch
<1>7. f \in Seq(ChunkRecord) /\ o \in Seq(ChunkRecord)
  BY <1>2, <1>3, <1>4, <1>6, OversizedBatch DEF Batch
<1>8. RangesAfter(f, chunks)
  BY <1>2, <1>5, <1>6
<1>9. Low(f, Offset(a)) /\ (f = << >> => Low(chunks, Offset(a)))
  <2>1. Low(f, Offset(a))
    BY <1>6, BatchLow
  <2>2. f = << >> => parts = << >>
    <3> SUFFICES ASSUME parts # << >> PROVE f # << >>
      OBVIOUS
    <3>1. PICK c : f = <<c>>
      BY <1>2, <1>3, <1>4, <1>6, FlushedIs
    <3> QED BY <3>1
  <2>3. parts = << >> => Fresh(a, parts) = a
    BY DEF Fresh
  <2> QED BY <1>5, <2>1, <2>2, <2>3
<1>10. PICK s : s = IF f = << >> THEN chunks ELSE f
  OBVIOUS
<1>11. Low(s, Offset(a))
  BY <1>9, <1>10
<1>12. /\ RangesAfter(o, s)
       /\ chunker = "fixed" => o # << >> /\ EndsSplit(o[Len(o)])
  BY <1>2, <1>3, <1>4, <1>11, OversizedRanges
<1>13. RangesAfter(f \o o, chunks)
  BY <1>7, <1>8, <1>10, <1>12, RangesJoin
<1>14. f \o o \in Seq(ChunkRecord)
  BY <1>7
<1>15. chunker = "fixed" => AfterSplit(chunks')
  <2> SUFFICES ASSUME chunker = "fixed" PROVE AfterSplit(chunks')
    OBVIOUS
  <2>1. PICK d : d = f \o o
    OBVIOUS
  <2>2. d # << >> /\ EndsSplit(d[Len(d)]) /\ d \in Seq(ChunkRecord)
    BY <1>7, <1>12, <1>14, <2>1, LastOfJoin
  <2>3. Len(chunks) \in Nat
    BY <1>6
  <2>4. chunks' # << >> /\ EndsSplit(chunks'[Len(chunks')])
    BY <1>3, <1>6, <2>1, <2>2, <2>3, LastOfAdded
  <2> QED BY <2>4 DEF AfterSplit
<1>16. Carried(a + 1, << >>, chunks', EndOf(a))
  <2>1. PICK n \in Nat : n = a + 1
    BY <1>5
  <2>2. Len(<< >>) = 0 /\ n - 0 = n /\ n <= n
    OBVIOUS
  <2>3. Fresh(n, << >>) = n /\ Low(chunks', Offset(n)) /\ EndOf(a) <= Offset(n)
    BY <1>3, <1>5, <1>6, <2>1
  <2> QED BY <1>15, <2>1, <2>2, <2>3 DEF Carried
<1> QED BY <1>3, <1>4, <1>5, <1>13, <1>14, <1>16, RangeKept

LEMMA TakeInNextRanges == RangeInv /\ TakeInNext => RangeInv'
<1> SUFFICES ASSUME RangeInv, TakeInNext PROVE RangeInv'
  OBVIOUS
<1>1. PICK a, f, v : a = Head(rest) /\ f = Flushed(Offset(a)) /\ v = Append(Kept, a)
  OBVIOUS
<1>2. /\ pc = "blocks" /\ rest # << >> /\ pc' = pc /\ current' = current /\ rest' = Tail(rest)
      /\ parts' = v /\ UNCHANGED <<input, parsed>> /\ parts # << >>
      /\ chunks' = chunks \o Numbered(Len(chunks), f) /\ from' = Offset(a)
  BY <1>1 DEF TakeInNext, Turn, Add, Numbered
<1>3. /\ ChunkInv /\ ChunkInv' /\ LoopInv /\ SectionsInv /\ LoopOK(pc, current, rest, parts)
      /\ parts \in Seq(1..Len(text))
  BY <1>1, <1>2, TakeInNextChunks DEF RangeInv, ChunkInv, LoopInv, LoopOK
<1>4. /\ a \in 1..Len(text) /\ Len(text) \in Nat /\ Ahead(pc', current', rest') = a + 1
      /\ Low(chunks', Offset(Fresh(a + 1, parts')))
      /\ \A en \in Nat : (chunker = "fixed" => en = Offset(a)) =>
             RangesAfter(Flushed(en), chunks)
  BY <1>1, <1>2, <1>3, TurnRanges
<1>5. /\ text \in Texts /\ Offset(a) \in Nat
      /\ \A u : u # << >> => Fresh(a + 1, u) = a
      /\ Batch(f, Offset(Fresh(a, parts)), Offset(a)) /\ chunks \in Seq(ChunkRecord)
  BY <1>1, <1>2, <1>3, TurnState DEF Chunked, Batch
<1>6. f \in Seq(ChunkRecord) /\ RangesAfter(f, chunks)
  BY <1>1, <1>4, <1>5 DEF Batch
<1>7. PICK k \in Seq(1..Len(text)), n \in Nat : k = Kept /\ n = Len(k)
  BY <1>2, <1>3, KeptShape
<1>8. /\ n <= Len(parts) /\ From(k, a - n) /\ (chunker # "fixed" => k = << >>)
      /\ \A i \in 1..n : \E j \in 1..Len(parts) : k[i] = parts[j]
  BY <1>1, <1>2, <1>3, <1>7, KeptShape
<1>9. v # << >> /\ Len(v) = n + 1 /\ v = Append(k, a)
  <2>1. v = Append(k, a)
    BY <1>1, <1>7
  <2>2. Len(v) = n + 1
    BY <1>7, <2>1
  <2>3. v # << >>
    <3>1. Len(<< >>) = 0 /\ n + 1 # 0
      OBVIOUS
    <3> QED BY <2>2, <3>1
  <2> QED BY <2>1, <2>2, <2>3
<1>10. a - n \in Nat /\ (a + 1) - Len(v) = a - n /\ a - n <= a
  <2>1. PICK p \in Nat : p = Len(parts) /\ a - p \in Nat
    <3>1. Len(parts) \in Nat /\ a - Len(parts) \in Nat
      BY <1>1, <1>2, <1>3, TurnTakes, InLoop
    <3> QED BY <3>1
  <2> QED BY <1>4, <1>8, <1>9, <2>1
<1>11. \E c : /\ f = <<c>> /\ WordsIn(c) = WordsOf(ToSet(parts)) /\ c \in ChunkRecord
  <2>1. PICK c : f = <<c>>
    BY <1>1, <1>2, <1>3, <1>5, FlushedIs
  <2>2. Held(f) = WordsOf(ToSet(parts))
    BY <1>1, <1>2, <1>3, <1>5, TurnState
  <2>3. Held(<<c>>) = WordsIn(c)
    <3>1. DOMAIN <<c>> = {1} /\ <<c>>[1] = c
      OBVIOUS
    <3> QED BY <3>1 DEF Held
  <2>4. c \in ChunkRecord
    <3>1. 1 \in 1..Len(<<c>>) /\ <<c>>[1] = c
      OBVIOUS
    <3>2. <<c>>[1] \in ChunkRecord
      BY <1>6, <2>1, <3>1
    <3> QED BY <3>1, <3>2
  <2> QED BY <2>1, <2>2, <2>3, <2>4
<1>12. /\ chunks' # << >> /\ WordsIn(chunks'[Len(chunks')]) = WordsOf(ToSet(parts))
  <2>1. PICK c \in ChunkRecord : f = <<c>> /\ WordsIn(c) = WordsOf(ToSet(parts))
    BY <1>11
  <2>2. f # << >> /\ f[Len(f)] = c /\ Len(chunks) \in Nat
    BY <1>5, <2>1
  <2> QED BY <1>2, <1>5, <1>6, <2>1, <2>2, LastOfAdded
<1>13. WordsOf({b \in Nat : a - n <= b /\ b < a}) \subseteq WordsIn(chunks'[Len(chunks')])
  <2>1. k \in Seq(Nat)
    BY <1>7
  <2>2. ToSet(k) = {b \in Nat : a - n <= b /\ b < a}
    <3>1. ToSet(k) = {b \in Nat : a - n <= b /\ b < (a - n) + Len(k)}
      BY <1>8, <1>10, <2>1, BlocksOf
    <3>2. (a - n) + Len(k) = a
      BY <1>4, <1>7
    <3> QED BY <3>1, <3>2
  <2>3. ToSet(k) \subseteq ToSet(parts)
    <3>1. DOMAIN k = 1..n /\ DOMAIN parts = 1..Len(parts)
      BY <1>3, <1>7
    <3> QED BY <1>8, <3>1 DEF ToSet
  <2> QED BY <1>12, <2>2, <2>3, WordsOfUnion
<1>14. Carried(a + 1, v, chunks', Offset(a))
  <2>1. PICK m \in Nat : m = a /\ m = Fresh(a + 1, v)
    <3>1. Fresh(a + 1, v) = a
      BY <1>5, <1>9
    <3> QED BY <1>4, <3>1
  <2>2. (a + 1) - Len(v) <= m /\ m <= Fresh(a + 1, v) /\ Low(chunks', Offset(m))
    BY <1>2, <1>4, <1>10, <2>1
  <2>3. chunker # "fixed" => m = (a + 1) - Len(v)
    <3>1. k = << >> => n = 0
      BY <1>7
    <3> QED BY <1>4, <1>8, <1>10, <2>1, <3>1
  <2>4. /\ chunks' # << >>
        /\ WordsOf({b \in Nat : (a + 1) - Len(v) <= b /\ b < m}) \subseteq WordsIn(chunks'[Len(chunks')])
    BY <1>10, <1>12, <1>13, <2>1
  <2> QED BY <2>1, <2>2, <2>3, <2>4 DEF Carried
<1> QED BY <1>2, <1>3, <1>4, <1>6, <1>14, RangeKept

LEMMA CutSentenceRanges == RangeInv /\ CutSentence => RangeInv'
<1> SUFFICES ASSUME RangeInv, CutSentence PROVE RangeInv'
  OBVIOUS
<1>1. PICK a, f, v : a = Head(rest) /\ f = Flushed(0) /\ v = <<a>>
  OBVIOUS
<1>2. /\ pc = "blocks" /\ rest # << >> /\ pc' = pc /\ current' = current /\ rest' = Tail(rest)
      /\ parts' = v /\ UNCHANGED <<input, parsed>> /\ chunker = "semantic"
      /\ chunks' = chunks \o Numbered(Len(chunks), f) /\ from' = from
  BY <1>1 DEF CutSentence, Turn, Add, Numbered
<1>3. ChunkInv /\ ChunkInv' /\ LoopInv
  BY CutSentenceChunks DEF RangeInv, ChunkInv
<1>4. /\ a \in 1..Len(text) /\ Len(text) \in Nat /\ Ahead(pc', current', rest') = a + 1
      /\ Low(chunks', Offset(Fresh(a + 1, parts')))
      /\ \A en \in Nat : (chunker = "fixed" => en = Offset(a)) =>
             RangesAfter(Flushed(en), chunks)
  BY <1>1, <1>2, <1>3, TurnRanges
<1>5. /\ \A en \in Nat : Batch(Flushed(en), Offset(Fresh(a, parts)), Offset(a))
      /\ \A u : u # << >> => Fresh(a + 1, u) = a
  BY <1>1, <1>2, <1>3, TurnState
<1>6. f \in Seq(ChunkRecord) /\ RangesAfter(f, chunks)
  <2>1. 0 \in Nat /\ (chunker = "fixed" => 0 = Offset(a))
    BY <1>2
  <2> QED BY <1>1, <1>4, <1>5, <2>1 DEF Batch
<1>7. Carried(a + 1, v, chunks', from)
  <2>1. PICK m \in Nat : m = a
    BY <1>4
  <2>2. v # << >> /\ Len(v) = 1 /\ (m + 1) - 1 = m /\ m <= m
    BY <1>1, <2>1
  <2>3. Fresh(a + 1, v) = m /\ (a + 1) - Len(v) = m
    BY <1>5, <2>1, <2>2
  <2>4. Low(chunks', Offset(m))
    BY <1>2, <1>4, <2>3
  <2> QED BY <1>2, <2>1, <2>2, <2>3, <2>4 DEF Carried
<1> QED BY <1>2, <1>3, <1>4, <1>6, <1>7, RangeKept

\* The block joins the buffer.
LEMMA JoinsRanges ==
    ASSUME RangeInv, ChunkInv', UNCHANGED <<input, parsed>>, pc = "blocks", rest # << >>,
           pc' = pc, current' = current, rest' = Tail(rest),
           parts' = Append(parts, Head(rest)), chunks' = chunks, from' = from
    PROVE  RangeInv'
<1>1. PICK a, v : a = Head(rest) /\ v = Append(parts, a)
  OBVIOUS
<1>2. /\ a = Ahead(pc, current, rest) /\ a \in 1..Len(text) /\ Len(text) \in Nat
      /\ Ahead(pc', current', rest') = a + 1
  BY <1>1, TurnRanges
<1>3. /\ parts \in Seq(1..Len(text)) /\ Carried(a, parts, chunks, from)
      /\ \A u : u # << >> => Fresh(a + 1, u) = a
      /\ Fresh(a, parts) \in {a - 1, a}
  BY <1>1, <1>2, TurnState DEF RangeInv
<1>4. PICK k \in Nat : k = Len(parts)
  BY <1>3
<1>5. v # << >> /\ Len(v) = k + 1
  <2>1. Len(v) = k + 1
    BY <1>1, <1>3, <1>4
  <2>2. Len(<< >>) = 0 /\ k + 1 # 0
    OBVIOUS
  <2> QED BY <2>1, <2>2
<1>6. (a + 1) - Len(v) = a - Len(parts) /\ Fresh(a + 1, v) = a
  BY <1>2, <1>3, <1>4, <1>5
<1>7. \A N \in Nat : N <= Fresh(a, parts) => N <= Fresh(a + 1, v)
  BY <1>2, <1>3, <1>6
<1>8. Carried(a + 1, v, chunks, from)
  BY <1>3, <1>6, <1>7 DEF Carried
<1> QED BY <1>1, <1>2, <1>8, RangeKeptIdle

LEMMA TakeSectionRanges == RangeInv /\ TakeSection => RangeInv'
<1> SUFFICES ASSUME RangeInv, TakeSection PROVE RangeInv'
  OBVIOUS
<1>1. PICK s : s = sections[current]
  OBVIOUS
<1>2. PICK bs : bs = Blocks(s.first, s.last)
  OBVIOUS
<1>3. PICK cs : cs = IF bs = << >> THEN << >> ELSE <<InSection(bs)>>
  OBVIOUS
<1>4. /\ pc = "sections" /\ current <= Len(sections) /\ pc' = pc
      /\ UNCHANGED <<input, parsed>>
      /\ chunks' = chunks \o Numbered(Len(chunks), cs)
  BY <1>1, <1>2, <1>3 DEF TakeSection, Add, Numbered
<1>5. ChunkInv /\ ChunkInv'
  BY TakeSectionChunks DEF RangeInv
<1>6. /\ SectionsInv /\ next = Len(text) + 1 /\ chunker = "structure"
      /\ current \in 1..Len(sections) /\ parts = << >>
      /\ Ahead(pc, current, rest) = Lead(s)
  BY <1>1, <1>4, <1>5, OnSection
<1>7. /\ s.first \in 1..(Len(text) + 1) /\ s.first <= s.last + 1 /\ Lead(s) <= s.first
      /\ s.last \in 1..Len(text) /\ Lead(s) \in 1..Len(text) /\ Lead(s) <= s.last
      /\ Len(text) \in Nat /\ text \in Texts
  BY <1>1, <1>6, SectionContent
<1>8. cs \in Seq(ChunkRecord) /\ RangesAfter(cs, chunks)
  <2>1. CASE bs = << >>
    <3>1. << >> \in Seq(ChunkRecord)
      OBVIOUS
    <3> QED BY <1>3, <2>1, <3>1, RangesOfOne
  <2>2. CASE bs # << >>
    <3>1. PICK q \in Seq(1..Len(text)), f \in Nat, l \in Nat :
             /\ q = bs /\ f = s.first /\ l = s.last /\ From(q, f) /\ Len(q) = (l + 1) - f
      BY <1>1, <1>2, <1>6, <1>7, SectionBlocks
    <3>2. q # << >> /\ Lead(sections[current]) <= f /\ f + (Len(q) - 1) = l /\ l <= l
      BY SMTT(30), <1>1, <1>7, <2>2, <3>1
    <3>3. f \in 1..Len(text)
      <4>1. Len(q) \in Nat \ {0}
        BY <3>2, EmptySeq
      <4>2. PICK k \in Nat \ {0} : k = Len(q) /\ f + (k - 1) = l
        BY <3>2, <4>1
      <4>3. f <= l
        BY <4>2
      <4>4. 1 <= f /\ l <= Len(text)
        BY <1>7, <3>1
      <4> QED BY <1>7, <4>3, <4>4
    <3>4. Low(chunks, Offset(f))
      <4>1. Chunked(Lead(s), << >>, chunks)
        BY <1>5, <1>6 DEF ChunkInv
      <4>2. Batch(chunks, 0, Offset(Lead(s)))
        BY <4>1 DEF Chunked, Fresh
      <4>3. Offset(Lead(s)) <= Offset(f) /\ Offset(Lead(s)) \in Nat /\ Offset(f) \in Nat
        BY <1>7, <3>1, <3>3, BlocksAscend
      <4>4. Batch(chunks, 0, Offset(f))
        BY <1>7, <4>2, <4>3, WiderBatch
      <4> QED BY <4>4, BatchLow
    <3>5. RangeBy(InSection(q), chunks)
      BY <1>1, <1>6, <3>1, <3>2, <3>4, InSectionRange
    <3>6. cs = <<InSection(q)>>
      BY <1>3, <2>2, <3>1
    <3>7. InSection(q) \in ChunkRecord
      <4>1. SectionStart(sections[current]) \in Nat /\ SectionEnd(sections[current]) \in Nat
        BY <1>6, SectionBounds
      <4>2. Words(q) \in Nat /\ q \in Seq(Nat) /\ current \in Nat
        BY <1>6, <1>7, Sums, Tiles
      <4> QED BY <4>1, <4>2 DEF InSection, Chunk, ChunkRecord
    <3>8. <<InSection(q)>> \in Seq(ChunkRecord)
      <4>1. \A S : \A x \in S : <<x>> \in Seq(S)
        OBVIOUS
      <4> QED BY <3>7, <4>1
    <3> QED BY <3>5, <3>6, <3>8, RangesOfOne
  <2> QED BY <2>1, <2>2
<1> QED BY <1>4, <1>5, <1>8, RangeKept

\* The buffer is empty where the blocks of a section, or of a text, begin.
LEMMA CarriedFirst ==
    ASSUME NEW n \in Nat, NEW s, Low(s, Offset(n)), NEW f, chunker = "fixed" => f = Offset(n)
    PROVE  Carried(n, << >>, s, f)
<1>1. Len(<< >>) = 0 /\ n - 0 = n /\ n <= n /\ Fresh(n, << >>) = n
  BY DEF Fresh
<1> QED BY <1>1 DEF Carried

LEMMA SplitSectionRanges == RangeInv /\ SplitSection => RangeInv'
<1> SUFFICES ASSUME RangeInv, SplitSection PROVE RangeInv'
  OBVIOUS
<1>1. PICK s : s = sections[current]
  OBVIOUS
<1>2. /\ pc = "sections" /\ current <= Len(sections) /\ pc' = "blocks" /\ current' = current
      /\ rest' = Blocks(s.first, s.last) /\ parts' = parts /\ UNCHANGED <<input, parsed>>
      /\ chunks' = chunks
  BY <1>1 DEF SplitSection, buffer
<1>3. ChunkInv /\ ChunkInv'
  BY SplitSectionChunks DEF RangeInv
<1>4. /\ SectionsInv /\ next = Len(text) + 1 /\ chunker = "structure"
      /\ current \in 1..Len(sections) /\ parts = << >>
      /\ Ahead("blocks", current, Blocks(s.first, s.last)) = s.first
  BY <1>1, <1>2, <1>3, OnSection
<1>5. PICK n \in Nat : n = s.first
  <2>1. s.first \in Nat
    BY <1>1, <1>4, Tiles
  <2> QED BY <2>1
<1>6. Low(chunks', Offset(n))
  <2>1. Chunked(Ahead(pc, current, rest), parts, chunks)'
    BY <1>3 DEF ChunkInv
  <2>2. Ahead(pc, current, rest)' = n
    <3>1. Ahead(pc', current', rest') = n
      BY <1>2, <1>4, <1>5
    <3> QED BY <1>2, <3>1, ChunkedRigid
  <2>3. Chunked(n, << >>, chunks')
    <3>1. parts' = << >>
      BY <1>2, <1>4
    <3> QED BY <1>2, <2>1, <2>2, <3>1, ChunkedRigid
  <2>4. Fresh(n, << >>) = n
    BY DEF Fresh
  <2> QED BY <2>3, <2>4, BatchLow DEF Chunked
<1>7. Carried(Ahead(pc', current', rest'), parts', chunks', from')
  <2>1. PICK f : f = from'
    OBVIOUS
  <2>2. Carried(n, << >>, chunks', f)
    BY <1>4, <1>6, CarriedFirst
  <2> QED BY <1>2, <1>4, <1>5, <2>1, <2>2
<1> QED BY <1>2, <1>3, <1>7, RangeKeptIdle

LEMMA EndBlocksRanges == RangeInv /\ EndBlocks => RangeInv'
<1> SUFFICES ASSUME RangeInv, EndBlocks PROVE RangeInv'
  OBVIOUS
<1>1. PICK a, f : a = Ahead(pc, current, rest) /\ f = Flushed(EndOfText)
  OBVIOUS
<1>2. /\ pc = "blocks" /\ pc' # "parse" /\ pc' # "blocks"
      /\ chunks' = chunks \o Numbered(Len(chunks), f) /\ UNCHANGED <<input, parsed>>
  BY <1>1 DEF EndBlocks, Add, Numbered
<1>3. ChunkInv /\ ChunkInv' /\ LoopInv
  BY EndBlocksChunks DEF RangeInv, ChunkInv
<1>4. /\ text \in Texts /\ Len(text) \in Nat /\ a \in 1..(Len(text) + 1)
      /\ parts \in Seq(1..Len(text)) /\ a - Len(parts) \in Nat \ {0} /\ EndOfText \in Nat
  BY <1>1, <1>2, <1>3, InLoop, Offsets
<1>5. f \in Seq(ChunkRecord)
  BY <1>1, <1>2, <1>3, <1>4, FlushedBatch DEF Batch
<1>6. RangesAfter(f, chunks)
  <2>1. CASE parts = << >>
    <3>1. f = << >>
      BY <1>1, <2>1 DEF Flushed
    <3> QED BY <3>1, RangesOfOne
  <2>2. CASE parts # << >>
    <3>1. a - 1 \in 1..Len(text)
      <4>1. Len(parts) \in Nat \ {0}
        BY <1>4, <2>2, EmptySeq
      <4> QED BY <1>4, <4>1
    <3>2. EndOf(a - 1) <= EndOfText
      BY <1>4, <3>1, Offsets
    <3>3. Carried(a, parts, chunks, from)
      BY <1>1, <1>2 DEF RangeInv
    <3> QED BY <1>1, <1>2, <1>3, <1>4, <2>2, <3>2, <3>3, FlushedRange
  <2> QED BY <2>1, <2>2
<1> QED BY <1>2, <1>3, <1>5, <1>6, RangeKept

\* Steps that neither take a block nor add a chunk.
LEMMA IdleRanges ==
    ASSUME RangeInv, EndParse \/ EndSections \/ EmbeddingFails \/ UNCHANGED vars PROVE RangeInv'
<1>1. ChunkInv /\ ChunkInv' /\ UNCHANGED <<input, parsed>> /\ chunks' = chunks
  BY IdleChunks DEF RangeInv, EndParse, EndSections, EmbeddingFails, vars, buffer
<1>2. CASE UNCHANGED vars
  <2>1. /\ pc' = pc /\ current' = current /\ rest' = rest /\ parts' = parts /\ from' = from
    BY <1>2 DEF vars, buffer
  <2>2. RangesAfter(chunks, << >>)'
    BY <1>1, RangesRigid DEF RangeInv
  <2>3. pc' = "blocks" => Carried(Ahead(pc, current, rest), parts, chunks, from)'
    <3>1. Ahead(pc, current, rest)' = Ahead(pc, current, rest)
      BY <1>1, <2>1, ChunkedRigid
    <3> QED BY <1>1, <2>1, <3>1, RangesRigid DEF RangeInv
  <2> QED BY <1>1, <2>1, <2>2, <2>3 DEF RangeInv
<1>3. CASE EndSections \/ EmbeddingFails
  <2>1. pc' # "parse" /\ pc' # "blocks"
    BY <1>3 DEF EndSections, EmbeddingFails
  <2> QED BY <1>1, <2>1, RangeKeptIdle
<1>4. CASE EndParse
  <2>1. /\ pc = "parse" /\ next > Len(text) /\ current' = current /\ parts' = parts
        /\ from' = from
        /\ chunker = "structure" => pc' = "sections"
        /\ chunker # "structure" => pc' = "blocks" /\ rest' = Blocks(1, Len(text))
    BY <1>4 DEF EndParse, buffer
  <2>2. /\ chunks = << >> /\ from = 0 /\ LoopOK(pc, current, rest, parts)
        /\ SectionsInv /\ text \in Texts
    BY <1>1, <2>1 DEF RangeInv, ChunkInv, LoopInv
  <2>3. current = 1 /\ parts = << >> /\ next = Len(text) + 1
    BY <2>1, <2>2, TextBlocks DEF LoopOK, Looping, SectionsInv, PathInv, ParserOK
  <2>4. CASE chunker = "structure"
    BY <1>1, <2>1, <2>4, RangeKeptIdle
  <2>5. CASE chunker # "structure"
    <3>1. Ahead(pc', current', rest') = 1
      BY <2>1, <2>2, <2>3, <2>5, LoopStarts
    <3>2. Low(<< >>, Offset(1)) /\ Offset(1) = 0
      BY <2>2, Offsets DEF Low
    <3>3. PICK n \in Nat : n = 1
      OBVIOUS
    <3>4. Carried(n, << >>, << >>, 0)
      BY <3>2, <3>3, CarriedFirst
    <3>5. Carried(Ahead(pc', current', rest'), parts', chunks', from')
      BY <1>1, <2>1, <2>2, <2>3, <3>1, <3>3, <3>4
    <3> QED BY <1>1, <2>1, <2>5, <3>5, RangeKeptIdle
  <2> QED BY <2>4, <2>5
<1> QED BY <1>2, <1>3, <1>4

LEMMA ParseRanges ==
    ASSUME RangeInv, PopHeading \/ PushHeading \/ ReadPreamble \/ ReadBody
                         \/ ReadParagraph \/ ReadItem \/ ReadPage
    PROVE  RangeInv'
<1>1. pc = "parse" /\ UNCHANGED <<pc, current, rest, parts, tokens, from, chunks>>
  BY DEF PopHeading, PushHeading, ReadPreamble, ReadBody, ReadParagraph, ReadItem,
         ReadPage, ReadSection, Parsing, ChunkerUnchanged, buffer
<1>2. ChunkInv' /\ chunks' = << >> /\ pc' = "parse" /\ from' = 0
  BY <1>1, ParseChunks DEF RangeInv, ChunkInv
<1>3. RangesAfter(chunks, << >>)'
  <2>1. Len(<< >>) = 0 /\ \A i \in 1..0 : FALSE
    OBVIOUS
  <2> QED BY <1>2, <2>1 DEF RangesAfter
<1> QED BY <1>2, <1>3 DEF RangeInv

LEMMA RangeInvStep == RangeInv /\ [Next]_vars => RangeInv'
<1> SUFFICES ASSUME RangeInv, [Next]_vars PROVE RangeInv'
  OBVIOUS
<1>1. CASE TakeOversized BY <1>1, TakeOversizedRanges
<1>2. CASE TakeInNext BY <1>2, TakeInNextRanges
<1>3. CASE TakeInCurrent \/ JoinSentence
  <2>1. ChunkInv'
    BY <1>3, ChunkInvStep DEF RangeInv, Next
  <2> QED BY <1>3, <2>1, JoinsRanges DEF TakeInCurrent, JoinSentence, Turn
<1>4. CASE CutSentence BY <1>4, CutSentenceRanges
<1>5. CASE TakeSection BY <1>5, TakeSectionRanges
<1>6. CASE SplitSection BY <1>6, SplitSectionRanges
<1>7. CASE EndBlocks BY <1>7, EndBlocksRanges
<1>8. CASE EndParse \/ EndSections \/ EmbeddingFails \/ UNCHANGED vars BY <1>8, IdleRanges
<1>9. CASE PopHeading \/ PushHeading \/ ReadPreamble \/ ReadBody
            \/ ReadParagraph \/ ReadItem \/ ReadPage
  BY <1>9, ParseRanges
<1> QED BY <1>1, <1>2, <1>3, <1>4, <1>5, <1>6, <1>7, <1>8, <1>9 DEF Next, Parse

\* The range and the section that a chunk is stored with (start_char, end_char, section) are
\* those of what it adds to the chunk before it, but for the pieces of a hard split and the chunk
\* after them, of which RangesEncloseText says what is known: for any text and any sizes, and
\* wherever the first word of a piece is found.
THEOREM RangesAlwaysEnclose == Spec => []RangesEncloseText
<1>1. RangeInv => RangesEncloseText
  <2> SUFFICES ASSUME RangeInv, NEW i \in DOMAIN chunks,
                      NEW c, c = chunks[i],
                      NEW new, new = WordsIn(c) \ IF i = 1 THEN {} ELSE WordsIn(chunks[i - 1])
               PROVE  /\ IF IsPiece(c) THEN InItsParagraph(c)
                         ELSE \A w \in new : c.start < w /\ w <= c.end
                      /\ \/ i > 1 /\ EndsSplit(chunks[i - 1])
                         \/ /\ c.section \in DOMAIN sections
                            /\ SectionStart(sections[c.section]) < Min(new)
                            /\ Min(new) <= SectionEnd(sections[c.section])
    BY DEF RangesEncloseText
  <2>1. /\ chunks \in Seq(ChunkRecord) /\ DOMAIN chunks = 1..Len(chunks) /\ Len(chunks) \in Nat
        /\ \A k \in 1..Len(chunks) : ChunkOK(chunks[k])
        /\ text \in Texts
    BY DEF RangeInv, ChunkInv, LoopInv, Chunked, Batch
  <2>2. ChunkOK(c) /\ i \in 1..Len(chunks)
    BY <2>1
  <2>3. PICK s : s = IF i = 1 THEN << >> ELSE <<chunks[i - 1]>>
    OBVIOUS
  <2>4. PICK m \in WordsIn(c) :
          /\ \A w \in WordsIn(c) : w < m <=> w \in Prior(s)
          /\ Located(c, m)
          /\ AfterSplit(s) \/ Inside(c, m)
    <3>1. RangeBy(c, s)
      BY <2>2, <2>3 DEF RangeInv, RangesAfter
    <3> QED BY <3>1 DEF RangeBy
  <2>5. Prior(s) = IF i = 1 THEN {} ELSE WordsIn(chunks[i - 1])
    BY <2>3 DEF Prior
  <2>6. AfterSplit(s) => i > 1 /\ EndsSplit(chunks[i - 1])
    BY <2>2, <2>3 DEF AfterSplit
  <2>7. /\ WordsIn(c) \in SUBSET Nat /\ LastWord(c) \in Nat
        /\ \A w \in WordsIn(c) : w <= LastWord(c)
    BY <2>1, <2>2, ChunkWords
  <2>8. \A w : w \in new <=> w \in WordsIn(c) /\ m <= w
    BY <2>4, <2>5, <2>7
  <2>9. Min(new) = m
    <3>1. new \in SUBSET Nat /\ m \in new /\ \A w \in new : m <= w
      BY <2>4, <2>7, <2>8
    <3> QED BY <3>1, MinIs
  <2>10. IF IsPiece(c) THEN InItsParagraph(c) ELSE \A w \in new : c.start < w /\ w <= c.end
    <3>1. ASSUME c.start < m, LastWord(c) <= c.end, NEW w \in new
          PROVE  c.start < w /\ w <= c.end
      <4>1. c.start \in Nat /\ c.end \in Nat
        BY <2>2 DEF ChunkOK, ChunkRecord
      <4>2. w \in Nat /\ m \in Nat /\ m <= w /\ w <= LastWord(c)
        BY <2>7, <2>8
      <4> QED BY <2>7, <3>1, <4>1, <4>2
    <3> QED BY <2>4, <3>1 DEF Located
  <2>11. Inside(c, m) => /\ c.section \in DOMAIN sections
                         /\ SectionStart(sections[c.section]) < Min(new)
                         /\ Min(new) <= SectionEnd(sections[c.section])
    <3>1. DOMAIN sections = 1..Len(sections)
      BY DEF RangeInv, ChunkInv, LoopInv, SectionsInv, PathInv, ParserOK
    <3> QED BY <2>9, <3>1 DEF Inside
  <2> QED BY <2>4, <2>6, <2>10, <2>11
<1> QED BY <1>1, RangeInvInit, RangeInvStep, PTL DEF Spec

=============================================================================
