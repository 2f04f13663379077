------------------------- MODULE SubsequencesProofs -------------------------
(***************************************************************************)
(* Subsequence keeps exactly the chosen positions, in their order; what an *)
(* append and a least or greatest position are; the values a fold passes   *)
(* through, and how often a list holds an element.                         *)
(***************************************************************************)
EXTENDS Subsequences, FiniteSetTheorems, TLAPS

\* A nonempty set of positions has a first one.
LEMMA SmallestElement ==
    ASSUME NEW S \in SUBSET Nat, S # {}
    PROVE  \E m \in S : \A n \in S : m <= n
  <1> DEFINE R == {ss \in Nat \X Nat : ss[1] < ss[2]}
  <1>1. OpToRel(<, Nat) = R
    BY DEF OpToRel
  <1>2. IsWellFoundedOn(R, Nat)
    BY <1>1, NatLessThanWellFounded, Zenon
  <1> HIDE DEF R
  <1>3. PICK m \in S : \A n \in S : <<n, m>> \notin R
    BY <1>2, WFMin
  <1>4. \A n \in S : <<n, m>> \in R <=> n < m
    BY DEF R
  <1>5. ASSUME NEW n \in S PROVE m <= n
    <2>1. n \in Nat /\ m \in Nat
      OBVIOUS
    <2>2. ~(n < m)
      BY <1>3, <1>4
    <2> QED
      BY <2>1, <2>2
  <1> QED
    BY <1>5

\* So does one that is bounded have a last one.
LEMMA LargestElement ==
    ASSUME NEW S \in SUBSET Nat, S # {}, NEW n \in Nat, \A i \in S : i <= n
    PROVE  \E m \in S : \A i \in S : i <= m
  <1> DEFINE U == {k \in Nat : \A i \in S : i <= k}
  <1>1. n \in U /\ U \in SUBSET Nat
    OBVIOUS
  <1>2. PICK m \in U : \A k \in U : m <= k
    BY <1>1, SmallestElement
  <1>3. m \in Nat /\ \A i \in S : i <= m
    OBVIOUS
  <1>4. ASSUME m \notin S PROVE FALSE
    <2>1. PICK i \in S : TRUE
      OBVIOUS
    <2>2. i \in Nat /\ i <= m /\ i # m
      BY <1>3, <1>4
    <2>3. m - 1 \in Nat
      BY <1>3, <2>2
    <2>4. ASSUME NEW j \in S PROVE j <= m - 1
      <3>1. j \in Nat /\ j <= m /\ j # m
        BY <1>3, <1>4
      <3> QED
        BY <1>3, <3>1
    <2>5. m - 1 \in U
      BY <2>3, <2>4
    <2>6. m <= m - 1
      BY <1>2, <2>5
    <2> QED
      BY <1>3, <2>6
  <1> QED
    BY <1>3, <1>4

\* An append keeps the positions there are and adds one behind them.
LEMMA AppendPositions ==
    ASSUME NEW S, NEW s \in Seq(S), NEW x \in S
    PROVE  /\ Append(s, x) \in Seq(S)
           /\ Len(s) \in Nat /\ DOMAIN s = 1 .. Len(s)
           /\ Len(Append(s, x)) = Len(s) + 1
           /\ DOMAIN Append(s, x) = DOMAIN s \cup {Len(s) + 1}
           /\ \A i \in DOMAIN s : i \in Nat /\ i < Len(s) + 1 /\ Append(s, x)[i] = s[i]
           /\ Append(s, x)[Len(s) + 1] = x
  <1>1. /\ Append(s, x) \in Seq(S) /\ Len(Append(s, x)) = Len(s) + 1
        /\ DOMAIN Append(s, x) = 1 .. (Len(s) + 1)
        /\ Append(s, x)[Len(s) + 1] = x
        /\ Len(s) \in Nat /\ DOMAIN s = 1 .. Len(s)
    OBVIOUS
  <1>2. \A i \in 1 .. Len(s) : i \in Nat /\ i < Len(s) + 1 /\ Append(s, x)[i] = s[i]
    BY <1>1
  <1>3. 1 .. (Len(s) + 1) = (1 .. Len(s)) \cup {Len(s) + 1}
    BY <1>1
  <1> QED
    BY <1>1, <1>2, <1>3

\* How many positions of I are at or before i.
Rank(I, i) == Cardinality({j \in I : j <= i})

LEMMA RankIncreases ==
    ASSUME NEW I \in SUBSET Nat, IsFiniteSet(I)
    PROVE  /\ \A i \in I : Rank(I, i) \in 1 .. Cardinality(I)
           /\ \A i, j \in I : i < j => Rank(I, i) < Rank(I, j)
  <1>a. \A i \in I : i \in Nat
    OBVIOUS
  <1>0. \A i \in I : IsFiniteSet({j \in I : j <= i}) /\ Rank(I, i) \in Nat
    BY FS_Subset, FS_CardinalityType DEF Rank
  <1>1. ASSUME NEW i \in I PROVE Rank(I, i) \in 1 .. Cardinality(I)
    <2>1. i \in {j \in I : j <= i}
      OBVIOUS
    <2>2. Rank(I, i) # 0
      BY <1>0, <2>1, FS_EmptySet DEF Rank
    <2>3. Rank(I, i) <= Cardinality(I)
      BY FS_Subset DEF Rank
    <2>4. Cardinality(I) \in Nat /\ Rank(I, i) \in Nat
      BY <1>0, FS_CardinalityType
    <2> QED
      BY <2>2, <2>3, <2>4
  <1>2. ASSUME NEW i \in I, NEW j \in I, i < j PROVE Rank(I, i) < Rank(I, j)
    <2> DEFINE A == {k \in I : k <= i}
               B == {k \in I : k <= j}
    <2>0. i \in Nat /\ j \in Nat /\ i < j
      BY <1>2
    <2>1. A \subseteq B /\ j \in B /\ j \notin A
      <3>1. ASSUME NEW k \in A PROVE k \in B
        <4>1. k \in Nat /\ k <= i /\ k \in I
          BY <1>a
        <4> QED
          BY <2>0, <4>1
      <3>2. j \in B
        BY <2>0
      <3>3. j \notin A
        BY <2>0
      <3> QED
        BY <3>1, <3>2, <3>3
    <2>2. IsFiniteSet(B)
      BY <1>0
    <2> HIDE DEF A, B
    <2>3. Cardinality(A) <= Cardinality(B) /\ Cardinality(A) # Cardinality(B)
      BY <2>1, <2>2, FS_Subset
    <2>4. Rank(I, i) = Cardinality(A) /\ Rank(I, j) = Cardinality(B)
      BY DEF A, B, Rank
    <2>5. Cardinality(A) \in Nat /\ Cardinality(B) \in Nat
      BY <1>0, <2>4
    <2> QED
      BY <2>3, <2>4, <2>5
  <1> QED
    BY <1>1, <1>2

\* Nth numbers the positions of I from 1 on, in increasing order, and misses none.
LEMMA NthNumbers ==
    ASSUME NEW I \in SUBSET Nat, IsFiniteSet(I)
    PROVE  /\ Cardinality(I) \in Nat
           /\ \A k \in 1 .. Cardinality(I) : Nth(I, k) \in I /\ Rank(I, Nth(I, k)) = k
           /\ \A i \in I : Rank(I, i) \in 1 .. Cardinality(I) /\ Nth(I, Rank(I, i)) = i
           /\ \A k, m \in 1 .. Cardinality(I) : k < m <=> Nth(I, k) < Nth(I, m)
  <1> DEFINE n == Cardinality(I)
             f == [i \in I |-> Rank(I, i)]
  <1>a. \A i \in I : i \in Nat
    OBVIOUS
  <1>1. n \in Nat /\ IsFiniteSet(1 .. n) /\ Cardinality(1 .. n) = n
    BY FS_CardinalityType, FS_Interval
  <1>2. f \in [I -> 1 .. n]
    BY RankIncreases
  <1>3. \A i, j \in I : Rank(I, i) = Rank(I, j) => i = j
    <2> SUFFICES ASSUME NEW i \in I, NEW j \in I, i # j PROVE Rank(I, i) # Rank(I, j)
      OBVIOUS
    <2>1. i < j \/ j < i
      OBVIOUS
    <2>2. Rank(I, i) \in Nat /\ Rank(I, j) \in Nat
      BY RankIncreases, <1>1
    <2> QED
      BY <2>1, <2>2, RankIncreases
  <1>4. f \in Injection(I, 1 .. n)
    BY <1>2, <1>3 DEF Injection, IsInjective
  <1>5. f \in Surjection(I, 1 .. n)
    BY <1>1, <1>4, FS_Injection
  <1>6. ASSUME NEW k \in 1 .. n PROVE Nth(I, k) \in I /\ Rank(I, Nth(I, k)) = k
    <2>1. \E i \in I : Rank(I, i) = k
      BY <1>5 DEF Surjection
    <2> QED
      BY <2>1 DEF Nth, Rank
  <1>7. ASSUME NEW i \in I PROVE Rank(I, i) \in 1 .. n /\ Nth(I, Rank(I, i)) = i
    BY <1>3, <1>6, RankIncreases
  <1>8. ASSUME NEW k \in 1 .. n, NEW m \in 1 .. n PROVE k < m <=> Nth(I, k) < Nth(I, m)
    <2>1. /\ Nth(I, k) \in I /\ Rank(I, Nth(I, k)) = k
          /\ Nth(I, m) \in I /\ Rank(I, Nth(I, m)) = m
      BY <1>6
    <2>2. k < m => Nth(I, k) < Nth(I, m)
      <3>1. ~(Nth(I, k) < Nth(I, m)) => Nth(I, m) < Nth(I, k) \/ Nth(I, m) = Nth(I, k)
        <4>1. Nth(I, k) \in Nat /\ Nth(I, m) \in Nat
          BY <1>a, <2>1
        <4> QED
          BY <4>1
      <3>2. Nth(I, m) < Nth(I, k) => m < k
        BY <2>1, RankIncreases
      <3> QED
        BY <2>1, <3>1, <3>2, <1>1
    <2>3. Nth(I, k) < Nth(I, m) => k < m
      BY <2>1, RankIncreases
    <2> QED
      BY <2>2, <2>3
  <1> QED
    BY <1>1, <1>6, <1>7, <1>8

\* The kept elements are the elements of s at the positions of I.
LEMMA SubsequenceKeeps ==
    ASSUME NEW S, NEW s \in Seq(S), NEW I \in SUBSET (DOMAIN s)
    PROVE  /\ IsFiniteSet(I)
           /\ Subsequence(s, I) \in Seq(S)
           /\ Len(Subsequence(s, I)) = Cardinality(I)
           /\ DOMAIN Subsequence(s, I) = 1 .. Cardinality(I)
           /\ \A k \in 1 .. Cardinality(I) : Subsequence(s, I)[k] = s[Nth(I, k)] /\ Nth(I, k) \in I
           /\ \A i \in I : \E k \in 1 .. Cardinality(I) : Nth(I, k) = i
  <1>1. DOMAIN s = 1 .. Len(s) /\ Len(s) \in Nat
    OBVIOUS
  <1>2. IsFiniteSet(I) /\ I \in SUBSET Nat
    <2>1. IsFiniteSet(1 .. Len(s)) /\ I \in SUBSET (1 .. Len(s))
      BY <1>1, FS_Interval
    <2> QED
      BY <2>1, FS_Subset
  <1>3. Cardinality(I) \in Nat /\ \A k \in 1 .. Cardinality(I) : Nth(I, k) \in I
    BY <1>2, NthNumbers
  <1>4. \A i \in I : \E k \in 1 .. Cardinality(I) : Nth(I, k) = i
    BY <1>2, NthNumbers
  <1>5. \A i \in I : s[i] \in S
    OBVIOUS
  <1>6. Subsequence(s, I) \in [1 .. Cardinality(I) -> S]
    BY <1>3, <1>5 DEF Subsequence
  <1>7. Subsequence(s, I) \in Seq(S) /\ Len(Subsequence(s, I)) = Cardinality(I)
    BY <1>3, <1>6
  <1> QED
    BY <1>2, <1>3, <1>4, <1>6, <1>7 DEF Subsequence

-----------------------------------------------------------------------------
(* Finite sets, the values of a fold, and what a list holds.               *)

\* A finite set of naturals that is not empty has a greatest element.
LEMMA FiniteIsBounded ==
    ASSUME NEW T \in SUBSET Nat, IsFiniteSet(T), T # {}
    PROVE  \E m \in T : \A i \in T : i <= m
  <1>1. Cardinality(T) \in Nat /\ Cardinality(T) > 0
    <2>1. Cardinality(T) \in Nat /\ Cardinality(T) # 0
      BY FS_CardinalityType, FS_EmptySet
    <2> QED
      BY <2>1
  <1>2. \A k \in 1..Cardinality(T) : Nth(T, k) \in T
    BY NthNumbers
  <1>3. \A i \in T : \E k \in 1..Cardinality(T) : Nth(T, k) = i
    BY NthNumbers
  <1> DEFINE n == Cardinality(T)
             m == Nth(T, n)
  <1>4. n \in 1..n
    BY <1>1
  <1>5. m \in T
    BY <1>2, <1>4
  <1>6. ASSUME NEW i \in T PROVE i <= m
    <2>1. PICK k \in 1..n : Nth(T, k) = i
      BY <1>3
    <2>2. k < n \/ k = n
      BY <1>1
    <2>3. k < n => Nth(T, k) < Nth(T, n)
      BY <1>4, NthNumbers
    <2>4. i \in Nat /\ m \in Nat
      BY <1>5
    <2> QED
      BY <2>1, <2>2, <2>3, <2>4
  <1> QED
    BY <1>5, <1>6

\* A subsequence that leaves a position out is shorter.
LEMMA ShorterSubsequence ==
    ASSUME NEW T, NEW s \in Seq(T), NEW I \in SUBSET (DOMAIN s)
    PROVE  /\ Len(Subsequence(s, I)) <= Len(s)
           /\ I # DOMAIN s => Len(Subsequence(s, I)) < Len(s)
  <1>1. IsFiniteSet(DOMAIN s) /\ Cardinality(DOMAIN s) = Len(s) /\ Len(s) \in Nat
    <2>1. DOMAIN s = 1..Len(s) /\ Len(s) \in Nat
      OBVIOUS
    <2>2. IsFiniteSet(1..Len(s)) /\ Cardinality(1..Len(s)) = Len(s)
      <3>1. PICK n \in Nat : n = Len(s)
        BY <2>1
      <3>2. IsFiniteSet(1..n) /\ Cardinality(1..n) = n
        BY FS_Interval
      <3> QED
        BY <3>1, <3>2
    <2> QED
      BY <2>1, <2>2
  <1>2. Len(Subsequence(s, I)) = Cardinality(I)
    BY SubsequenceKeeps
  <1>3. Cardinality(I) <= Cardinality(DOMAIN s) /\ (I # DOMAIN s => Cardinality(I) # Cardinality(DOMAIN s))
    BY <1>1, FS_Subset
  <1>4. Cardinality(I) \in Nat
    BY <1>1, FS_Subset, FS_CardinalityType
  <1> QED
    BY <1>1, <1>2, <1>3, <1>4

\* What a subsequence holds, and that it holds each position once.
LEMMA SubsequenceRange ==
    ASSUME NEW T, NEW s \in Seq(T), NEW I \in SUBSET (DOMAIN s)
    PROVE  /\ Range(Subsequence(s, I)) = {s[i] : i \in I}
           /\ \A a, b \in DOMAIN Subsequence(s, I) :
                \E i, j \in I : /\ Subsequence(s, I)[a] = s[i] /\ Subsequence(s, I)[b] = s[j]
                                /\ (i = j => a = b)
  <1> DEFINE r == Subsequence(s, I)
             n == Cardinality(I)
  <1>1. /\ IsFiniteSet(I) /\ DOMAIN r = 1..n
        /\ \A k \in 1..n : r[k] = s[Nth(I, k)] /\ Nth(I, k) \in I
        /\ \A i \in I : \E k \in 1..n : Nth(I, k) = i
    BY SubsequenceKeeps
  <1>2. I \in SUBSET Nat /\ n \in Nat
    BY <1>1, FS_CardinalityType
  <1>3. \A k, m \in 1..n : Nth(I, k) = Nth(I, m) => k = m
    <2> SUFFICES ASSUME NEW k \in 1..n, NEW m \in 1..n, k # m PROVE Nth(I, k) # Nth(I, m)
      OBVIOUS
    <2>1. k < m \/ m < k
      BY <1>2
    <2>2. (k < m <=> Nth(I, k) < Nth(I, m)) /\ (m < k <=> Nth(I, m) < Nth(I, k))
      BY <1>1, <1>2, NthNumbers
    <2>3. Nth(I, k) \in Nat /\ Nth(I, m) \in Nat
      BY <1>1, <1>2
    <2> QED
      BY <2>1, <2>2, <2>3
  <1>4. Range(r) = {s[i] : i \in I}
    BY <1>1 DEF Range
  <1> HIDE DEF r, n
  <1>5. ASSUME NEW a \in DOMAIN r, NEW b \in DOMAIN r
        PROVE  \E i, j \in I : r[a] = s[i] /\ r[b] = s[j] /\ (i = j => a = b)
    <2>1. /\ Nth(I, a) \in I /\ Nth(I, b) \in I /\ r[a] = s[Nth(I, a)] /\ r[b] = s[Nth(I, b)]
          /\ (Nth(I, a) = Nth(I, b) => a = b)
      BY <1>1, <1>3
    <2> QED
      BY <2>1
  <1> QED
    BY <1>4, <1>5 DEF r

LEMMA LongerAlphabet ==
    ASSUME NEW T, NEW W, T \subseteq W, NEW s \in Seq(T)
    PROVE  s \in Seq(W)
  <1>1. \A i \in 1..Len(s) : s[i] \in W
    OBVIOUS
  <1> QED
    BY <1>1

\* The values a fold passes through in n steps.
Unfolds(h, n, T, b, G) == h \in [0..n -> T] /\ h[0] = b /\ \A k \in 1..n : h[k] = G[h[k - 1]][k]

\* There are such values.
LEMMA StepsExist ==
    ASSUME NEW n \in Nat, NEW T, NEW b \in T, NEW G, \A v \in T : \A k \in 1..n : G[v][k] \in T
    PROVE  \E h : Unfolds(h, n, T, b, G)
  <1> DEFINE Upto(m) == \E h : Unfolds(h, m, T, b, G)
             bad == {m \in 0..n : ~ Upto(m)}
  <1>1. CASE bad = {}
    <2>1. n \in 0..n
      OBVIOUS
    <2>2. Upto(n)
      BY <1>1, <2>1
    <2> QED
      BY <2>2
  <1>2. CASE bad # {}
    <2>1. PICK m \in bad : \A k \in bad : m <= k
      <3>1. bad \in SUBSET Nat
        OBVIOUS
      <3> QED
        BY <1>2, <3>1, SmallestElement
    <2>2. m \in Nat /\ m <= n /\ ~ Upto(m)
      <3> HIDE DEF Upto
      <3> QED
        OBVIOUS
    <2>3. Upto(0)
      <3> DEFINE h == [k \in 0..0 |-> b]
      <3>1. h \in [0..0 -> T] /\ h[0] = b /\ \A k \in 1..0 : h[k] = G[h[k - 1]][k]
        OBVIOUS
      <3> HIDE DEF h
      <3>2. Unfolds(h, 0, T, b, G)
        BY <3>1 DEF Unfolds
      <3> QED
        BY <3>2
    <2>4. m > 0 /\ m - 1 \in 0..n
      <3> HIDE DEF Upto
      <3>1. m # 0
        BY <2>2, <2>3
      <3> QED
        BY <2>2, <3>1
    <2>5. Upto(m - 1)
      <3> HIDE DEF Upto
      <3>1. m - 1 \notin bad
        BY <2>1, <2>2, <2>4
      <3> QED
        BY <2>4, <3>1
    <2>6. PICK g : g \in [0..(m - 1) -> T] /\ g[0] = b /\ \A k \in 1..(m - 1) : g[k] = G[g[k - 1]][k]
      BY <2>5 DEF Unfolds
    <2> DEFINE v == G[g[m - 1]][m]
               h == [k \in 0..m |-> IF k = m THEN v ELSE g[k]]
    <2>7. m \in 1..n /\ g[m - 1] \in T
      <3>1. m - 1 \in 0..(m - 1)
        BY <2>2, <2>4
      <3> QED
        BY <2>2, <2>4, <2>6, <3>1
    <2>8. v \in T
      BY <2>7
    <2> HIDE DEF v
    <2>9. h \in [0..m -> T] /\ h[0] = b /\ h[m] = v /\ \A k \in 0..(m - 1) : h[k] = g[k]
      BY <2>2, <2>4, <2>6, <2>8
    <2> HIDE DEF h
    <2>10. ASSUME NEW k \in 1..m PROVE h[k] = G[h[k - 1]][k]
      <3>1. CASE k = m
        <4>1. h[k - 1] = g[m - 1] /\ h[k] = v
          BY <2>2, <2>4, <2>9, <3>1
        <4> QED
          BY <3>1, <4>1 DEF v
      <3>2. CASE k # m
        <4>0. k \in Nat /\ k >= 1 /\ k <= m /\ k # m /\ m \in Nat
          BY <2>2, <3>2
        <4>1. k \in 1..(m - 1) /\ k - 1 \in 0..(m - 1) /\ k \in 0..(m - 1)
          BY <4>0
        <4> QED
          BY <2>6, <2>9, <4>1
      <3> QED
        BY <3>1, <3>2
    <2>11. Unfolds(h, m, T, b, G)
      BY <2>9, <2>10 DEF Unfolds
    <2> QED
      BY <2>2, <2>11
  <1> QED
    BY <1>1, <1>2

\* A list that keeps a property from each value to the next has it throughout.
\* What holds at first, and of a step when of the one before, holds of every step.
LEMMA StepsKeep ==
    ASSUME NEW n \in Nat, NEW T, NEW f, f[0] \in T, \A k \in 1..n : f[k - 1] \in T => f[k] \in T
    PROVE  \A k \in 0..n : f[k] \in T
  <1> DEFINE bad == {k \in 0..n : f[k] \notin T}
  <1> SUFFICES ASSUME bad # {} PROVE FALSE
    OBVIOUS
  <1>1. bad \in SUBSET Nat
    OBVIOUS
  <1>2. PICK k \in bad : \A j \in bad : k <= j
    BY <1>1, SmallestElement
  <1>3. k # 0 /\ k \in 0..n /\ f[k] \notin T
    OBVIOUS
  <1>4. k \in 1..n /\ k - 1 \in 0..n /\ ~(k <= k - 1)
    BY <1>3
  <1>5. f[k - 1] \in T
    BY <1>2, <1>4
  <1> QED
    BY <1>3, <1>4, <1>5

\* What a function on a finite set takes is finite.
LEMMA ImageIsFinite ==
    ASSUME NEW D, IsFiniteSet(D), NEW f
    PROVE  IsFiniteSet({f[x] : x \in D}) /\ Cardinality({f[x] : x \in D}) <= Cardinality(D)
  <1> DEFINE V == {f[x] : x \in D}
             g == [x \in D |-> f[x]]
  <1>1. g \in Surjection(D, V)
    BY DEF Surjection
  <1> HIDE DEF g, V
  <1>2. IsFiniteSet(V) /\ Cardinality(V) <= Cardinality(D)
    BY <1>1, FS_Surjection
  <1> QED
    BY <1>2 DEF V

LEMMA PositionsAreFinite ==
    ASSUME NEW T, NEW s \in Seq(T)
    PROVE  IsFiniteSet(DOMAIN s) /\ Cardinality(DOMAIN s) = Len(s) /\ Len(s) \in Nat
  <1>1. DOMAIN s = 1..Len(s) /\ Len(s) \in Nat
    OBVIOUS
  <1>2. PICK n \in Nat : n = Len(s)
    BY <1>1
  <1>3. IsFiniteSet(1..n) /\ Cardinality(1..n) = n
    BY FS_Interval
  <1> QED
    BY <1>1, <1>2, <1>3

\* How many elements of a list are in V.
Count(s, V) == Cardinality({i \in DOMAIN s : s[i] \in V})

LEMMA CountOfSubsequence ==
    ASSUME NEW T, NEW s \in Seq(T), NEW I \in SUBSET (DOMAIN s), NEW V
    PROVE  Count(Subsequence(s, I), V) = Cardinality({i \in I : s[i] \in V})
  <1> DEFINE sub == Subsequence(s, I)
             n == Cardinality(I)
             A == {k \in 1..n : sub[k] \in V}
             B == {i \in I : s[i] \in V}
             f == [k \in A |-> Nth(I, k)]
  <1>1. /\ IsFiniteSet(I) /\ DOMAIN sub = 1..n
        /\ \A k \in 1..n : sub[k] = s[Nth(I, k)] /\ Nth(I, k) \in I
        /\ \A i \in I : \E k \in 1..n : Nth(I, k) = i
    BY SubsequenceKeeps
  <1>2. I \in SUBSET Nat
    BY DEF Subsequence
  <1>3. \A k \in 1..n : Rank(I, Nth(I, k)) = k
    BY <1>1, <1>2, NthNumbers
  <1> HIDE DEF sub, n
  <1>4. f \in [A -> B] /\ \A k \in A : f[k] = Nth(I, k)
    BY <1>1
  <1>5. \A i \in B : \E k \in A : f[k] = i
    <2> SUFFICES ASSUME NEW i \in B PROVE \E k \in A : f[k] = i
      OBVIOUS
    <2>1. PICK k \in 1..n : Nth(I, k) = i
      BY <1>1
    <2>2. k \in A
      BY <1>1, <2>1
    <2> QED
      BY <1>4, <2>1, <2>2
  <1>6. \A j, k \in A : f[j] = f[k] => j = k
    <2> SUFFICES ASSUME NEW j \in A, NEW k \in A, f[j] = f[k] PROVE j = k
      OBVIOUS
    <2>1. Nth(I, j) = Nth(I, k)
      BY <1>4
    <2>2. Rank(I, Nth(I, j)) = j /\ Rank(I, Nth(I, k)) = k
      BY <1>3
    <2> QED
      BY <2>1, <2>2
  <1>7. IsFiniteSet(A)
    <2>1. A \subseteq 1..n
      OBVIOUS
    <2>2. n \in Nat
      BY <1>1, FS_CardinalityType DEF n
    <2>3. IsFiniteSet(1..n)
      BY <2>2, FS_Interval
    <2> HIDE DEF A
    <2> QED
      BY <2>1, <2>3, FS_Subset
  <1> HIDE DEF f, A, B
  <1>8. f \in Bijection(A, B)
    BY <1>4, <1>5, <1>6 DEF Bijection, Injection, Surjection, IsInjective
  <1>9. ExistsBijection(A, B)
    BY <1>8 DEF ExistsBijection
  <1>10. Cardinality(A) = Cardinality(B)
    BY <1>7, <1>9, FS_Bijection
  <1> QED
    BY <1>1, <1>10 DEF Count, A, B, sub

LEMMA CountOfJoin ==
    ASSUME NEW T, NEW a \in Seq(T), NEW b \in Seq(T), NEW V
    PROVE  Count(a \o b, V) = Count(a, V) + Count(b, V) /\ Range(a \o b) = Range(a) \cup Range(b)
  <1> DEFINE m == Len(a)
             n == Len(b)
             s == a \o b
             A == {i \in DOMAIN a : a[i] \in V}
             B == {i \in DOMAIN b : b[i] \in V}
             D == {i \in DOMAIN s : s[i] \in V}
             g == [j \in B |-> m + j]
             W == {g[j] : j \in B}
  <1>1. m \in Nat /\ n \in Nat /\ DOMAIN a = 1..m /\ DOMAIN b = 1..n /\ Len(s) = m + n /\ DOMAIN s = 1..(m + n)
    OBVIOUS
  <1>2. (\A i \in 1..m : s[i] = a[i]) /\ (\A j \in 1..n : s[m + j] = b[j])
    <2>1. \A i \in 1..m : s[i] = a[i]
      BY <1>1
    <2>2. \A j \in 1..n : s[m + j] = b[j]
      BY <1>1
    <2> QED
      BY <2>1, <2>2
  <1> HIDE DEF s, m, n
  <1>3. \A i \in 1..(m + n) : i \in 1..m \/ \E j \in 1..n : i = m + j
    <2> SUFFICES ASSUME NEW i \in 1..(m + n), i \notin 1..m PROVE \E j \in 1..n : i = m + j
      OBVIOUS
    <2>1. i - m \in 1..n /\ i = m + (i - m)
      BY <1>1
    <2> QED
      BY <2>1
  <1>4. D = A \cup W
    <2>1. ASSUME NEW i \in D PROVE i \in A \cup W
      <3>1. CASE i \in 1..m
        BY <1>1, <1>2, <3>1
      <3>2. CASE \E j \in 1..n : i = m + j
        <4>1. PICK j \in 1..n : i = m + j
          BY <3>2
        <4>2. j \in B
          BY <1>1, <1>2, <4>1
        <4> QED
          BY <4>1, <4>2
      <3> QED
        BY <1>1, <1>3, <3>1, <3>2
    <2>2. ASSUME NEW i \in A PROVE i \in D
      BY <1>1, <1>2
    <2>3. ASSUME NEW j \in B PROVE g[j] \in D
      <3>1. j \in 1..n /\ g[j] = m + j /\ s[m + j] = b[j]
        BY <1>1, <1>2
      <3>2. m + j \in 1..(m + n)
        BY <1>1, <3>1
      <3> QED
        BY <1>1, <3>1, <3>2
    <2> QED
      BY <2>1, <2>2, <2>3
  <1>5. A \cap W = {}
    <2>1. \A j \in B : g[j] \notin 1..m
      BY <1>1
    <2> QED
      BY <1>1, <2>1
  <1>6. IsFiniteSet(A) /\ IsFiniteSet(B)
    <2>1. A \subseteq DOMAIN a /\ B \subseteq DOMAIN b
      OBVIOUS
    <2>2. IsFiniteSet(DOMAIN a) /\ IsFiniteSet(DOMAIN b)
      BY PositionsAreFinite
    <2> HIDE DEF A, B
    <2> QED
      BY <2>1, <2>2, FS_Subset
  <1>7. g \in [B -> W] /\ (\A i \in W : \E j \in B : g[j] = i) /\ \A j, k \in B : g[j] = g[k] => j = k
    BY <1>1
  <1>8. Range(s) = Range(a) \cup Range(b)
    <2>1. ASSUME NEW i \in DOMAIN s PROVE s[i] \in Range(a) \cup Range(b)
      <3>1. CASE i \in 1..m
        BY <1>1, <1>2, <3>1 DEF Range
      <3>2. CASE \E j \in 1..n : i = m + j
        BY <1>1, <1>2, <3>2 DEF Range
      <3> QED
        BY <1>1, <1>3, <3>1, <3>2
    <2>2. ASSUME NEW i \in DOMAIN a PROVE a[i] \in Range(s)
      <3>1. i \in DOMAIN s /\ s[i] = a[i]
        BY <1>1, <1>2
      <3> QED
        BY <3>1 DEF Range
    <2>3. ASSUME NEW j \in DOMAIN b PROVE b[j] \in Range(s)
      <3>1. m + j \in DOMAIN s /\ s[m + j] = b[j]
        BY <1>1, <1>2
      <3> QED
        BY <3>1 DEF Range
    <2>4. Range(s) \subseteq Range(a) \cup Range(b)
      BY <2>1 DEF Range
    <2>5. Range(a) \subseteq Range(s) /\ Range(b) \subseteq Range(s)
      BY <2>2, <2>3 DEF Range
    <2> QED
      BY <2>4, <2>5
  <1> HIDE DEF g, A, B, W, D
  <1>9. g \in Bijection(B, W)
    BY <1>7 DEF Bijection, Injection, Surjection, IsInjective
  <1>10. IsFiniteSet(W) /\ Cardinality(W) = Cardinality(B)
    <2>1. ExistsBijection(B, W)
      BY <1>9 DEF ExistsBijection
    <2> QED
      BY <1>6, <2>1, FS_Bijection
  <1>11. Cardinality(A \cup W) = Cardinality(A) + Cardinality(W) - Cardinality(A \cap W)
    BY <1>6, <1>10, FS_Union
  <1>12. Cardinality(A \cap W) = 0 /\ Cardinality(A) \in Nat /\ Cardinality(W) \in Nat
    BY <1>5, <1>6, <1>10, FS_EmptySet, FS_CardinalityType
  <1>13. Cardinality(D) = Cardinality(A) + Cardinality(B)
    BY <1>4, <1>10, <1>11, <1>12
  <1>14. Count(a \o b, V) = Cardinality(D) /\ Count(a, V) = Cardinality(A) /\ Count(b, V) = Cardinality(B)
    BY DEF Count, A, B, D, s
  <1> QED
    BY <1>8, <1>13, <1>14 DEF s
=============================================================================
