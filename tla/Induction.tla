------------------------------ MODULE Induction ------------------------------
(***************************************************************************)
(* Induction over the natural numbers, and the facts about recursion and   *)
(* extrema that the other proofs take from it.  Everything is stated for   *)
(* sets and functions, so that a lemma is used by naming the set.          *)
(***************************************************************************)
EXTENDS Integers, Sequences, FiniteSetsExt, Ranks, FiniteSetTheorems, WellFoundedInduction, TLAPS

LEMMA Ordered == IsWellFoundedOn({ss \in Nat \X Nat : ss[1] < ss[2]}, Nat)
BY NatLessThanWellFounded DEF OpToRel

(* A set of natural numbers has a least element.                           *)
LEMMA LeastNat ==
  ASSUME NEW T, T \subseteq Nat, T # {}
  PROVE  \E n \in T : \A m \in T : n <= m
<1> DEFINE R == {ss \in Nat \X Nat : ss[1] < ss[2]}
<1>1. IsWellFoundedOn(R, Nat)
  BY Ordered
<1>2. \A x, y \in Nat : <<y, x>> \in R <=> y < x
  OBVIOUS
<1> HIDE DEF R
<1>3. PICK x \in T : \A y \in T : ~ (<<y, x>> \in R)
  BY <1>1, WFMin
<1>4. ASSUME NEW y \in T PROVE x <= y
  <2>1. x \in Nat /\ y \in Nat
    OBVIOUS
  <2>2. ~(y < x)
    BY <1>2, <1>3, <2>1
  <2> QED  BY <2>1, <2>2
<1> QED  BY <1>4

(* Induction: a set of naturals that has 0 and every successor is Nat.     *)
LEMMA Induct ==
  ASSUME NEW T, T \subseteq Nat, 0 \in T, \A n \in T : n + 1 \in T
  PROVE  \A n \in Nat : n \in T
<1> SUFFICES ASSUME Nat \ T # {} PROVE FALSE
  OBVIOUS
<1>1. PICK n \in Nat \ T : \A m \in Nat \ T : n <= m
  BY LeastNat
<1>2. n # 0
  OBVIOUS
<1>3. n - 1 \in T
  BY <1>1, <1>2
<1> QED  BY <1>3

(* A bounded set of natural numbers has a greatest element.                *)
LEMMA GreatestNat ==
  ASSUME NEW T, T \subseteq Nat, T # {}, NEW u \in Nat, \A n \in T : n <= u
  PROVE  \E n \in T : \A m \in T : m <= n
<1> DEFINE Above == {v \in Nat : \A n \in T : n <= v}
<1>1. PICK v \in Above : \A w \in Above : v <= w
  <2>1. Above \subseteq Nat /\ u \in Above
    OBVIOUS
  <2> HIDE DEF Above
  <2> QED  BY <2>1, LeastNat
<1>2. v \in T
  <2> SUFFICES ASSUME v \notin T PROVE FALSE
    OBVIOUS
  <2>1. \A n \in T : n \in Nat /\ n <= v /\ n # v
    BY <1>1
  <2>2. v # 0
    <3>1. PICK n \in T : TRUE
      OBVIOUS
    <3>2. n \in Nat /\ n <= v /\ n # v
      BY <2>1, <3>1
    <3> QED  BY <3>2
  <2>3. v - 1 \in Above
    BY <1>1, <2>1, <2>2
  <2> QED  BY <1>1, <2>3
<1> QED  BY <1>1, <1>2

(* What Max and Min choose.                                                *)
LEMMA MaxNat ==
  ASSUME NEW T, T \subseteq Nat, T # {}, NEW u \in Nat, \A n \in T : n <= u
  PROVE  Max(T) \in T /\ \A n \in T : n <= Max(T)
<1>1. \E n \in T : \A m \in T : n >= m
  <2>1. PICK n \in T : \A m \in T : m <= n
    BY GreatestNat
  <2>2. \A m \in T : n >= m
    BY <2>1
  <2> QED  BY <2>2
<1>2. Max(T) \in T /\ \A m \in T : Max(T) >= m
  BY <1>1 DEF Max
<1> QED  BY <1>2

LEMMA MinNat ==
  ASSUME NEW T, T \subseteq Nat, T # {}
  PROVE  Min(T) \in T /\ \A n \in T : Min(T) <= n
BY LeastNat DEF Min

-----------------------------------------------------------------------------
(***************************************************************************)
(* Functions defined from their value at the previous number: step[n][s]   *)
(* is the value at n when the value at n - 1 is s.                         *)
(***************************************************************************)
StepsOn(K, S) == [1..K -> [S -> S]]

Unrolls(f, K, S, base, step) ==
  /\ f \in [0..K -> S]
  /\ f[0] = base
  /\ \A n \in 1..K : f[n] = step[n][f[n - 1]]

LEMMA Recursion ==
  ASSUME NEW S, NEW base \in S, NEW K \in Nat, NEW step \in StepsOn(K, S)
  PROVE  \E f : Unrolls(f, K, S, base, step)
<1> DEFINE T == {m \in Nat : m <= K => \E f : Unrolls(f, m, S, base, step)}
<1>1. 0 \in T
  <2>1. Unrolls([n \in 0..0 |-> base], 0, S, base, step)
    BY DEF Unrolls
  <2> QED  BY <2>1
<1>2. ASSUME NEW m \in T PROVE m + 1 \in T
  <2> SUFFICES ASSUME m + 1 <= K PROVE \E f : Unrolls(f, m + 1, S, base, step)
    OBVIOUS
  <2>1. PICK f : Unrolls(f, m, S, base, step)
    OBVIOUS
  <2> DEFINE g == [n \in 0..(m + 1) |-> IF n = m + 1 THEN step[m + 1][f[m]] ELSE f[n]]
  <2>2. step[m + 1] \in [S -> S] /\ f[m] \in S
    BY <2>1 DEF StepsOn, Unrolls
  <2>3. step[m + 1][f[m]] \in S
    BY <2>2
  <2>4. g \in [0..(m + 1) -> S] /\ g[0] = base
    BY <2>1, <2>3 DEF Unrolls
  <2>5. ASSUME NEW n \in 1..(m + 1) PROVE g[n] = step[n][g[n - 1]]
    <3>1. CASE n = m + 1
      BY <2>1, <3>1
    <3>2. CASE n # m + 1
      <4>1. n \in 1..m /\ n - 1 \in 0..m /\ n - 1 # m + 1 /\ n - 1 \in 0..(m + 1)
        BY <3>2
      <4> QED  BY <2>1, <3>2, <4>1 DEF Unrolls
    <3> QED  BY <3>1, <3>2
  <2>6. Unrolls(g, m + 1, S, base, step)
    BY <2>4, <2>5 DEF Unrolls
  <2> QED  BY <2>6
<1> QED
  <2>1. T \subseteq Nat
    OBVIOUS
  <2> HIDE DEF T
  <2>2. K \in T
    BY <1>1, <1>2, <2>1, Induct
  <2> QED  BY <2>2 DEF T

-----------------------------------------------------------------------------
(***************************************************************************)
(* Sums: f[n] is the sum of w[1] .. w[n].                                  *)
(***************************************************************************)
RunningSum(f, K, w) ==
  /\ f[0] = 0
  /\ \A n \in 1..K : f[n] = f[n - 1] + w[n]

LEMMA SumExists ==
  ASSUME NEW K \in Nat, NEW w \in [1..K -> Nat]
  PROVE  \E f \in [0..K -> Nat] : RunningSum(f, K, w)
<1> DEFINE step == [n \in 1..K |-> [s \in Nat |-> s + w[n]]]
<1>1. step \in StepsOn(K, Nat) /\ 0 \in Nat
  BY DEF StepsOn
<1>2. \A n \in 1..K : \A s \in Nat : step[n][s] = s + w[n]
  OBVIOUS
<1> HIDE DEF step
<1>3. PICK f : Unrolls(f, K, Nat, 0, step)
  BY <1>1, Recursion
<1>4. ASSUME NEW n \in 1..K PROVE f[n] = f[n - 1] + w[n]
  <2>1. f[n - 1] \in Nat
    BY <1>3 DEF Unrolls
  <2> QED  BY <1>2, <1>3, <2>1 DEF Unrolls
<1> QED  BY <1>3, <1>4 DEF Unrolls, RunningSum

LEMMA SumIsNatural ==
  ASSUME NEW K \in Nat, NEW w \in [1..K -> Nat], NEW f, RunningSum(f, K, w)
  PROVE  \A n \in 0..K : f[n] \in Nat
<1> DEFINE T == {n \in Nat : n <= K => f[n] \in Nat}
<1>1. 0 \in T
  BY DEF RunningSum
<1>2. ASSUME NEW n \in T PROVE n + 1 \in T
  <2> SUFFICES ASSUME n + 1 <= K PROVE f[n + 1] \in Nat
    OBVIOUS
  <2>1. n + 1 \in 1..K /\ f[n] \in Nat /\ (n + 1) - 1 = n
    OBVIOUS
  <2> QED  BY <2>1 DEF RunningSum
<1>3. \A n \in Nat : n \in T
  <2>1. T \subseteq Nat
    OBVIOUS
  <2> HIDE DEF T
  <2> QED  BY <1>1, <1>2, <2>1, Induct
<1> QED  BY <1>3

(* The sum of all the terms.                                               *)
SumIs(K, w, s) == \E f : RunningSum(f, K, w) /\ s = f[K]

LEMMA SumType ==
  ASSUME NEW K \in Nat, NEW w \in [1..K -> Nat], NEW s, SumIs(K, w, s)
  PROVE  s \in Nat
BY SumIsNatural DEF SumIs

(* A sum grows with its terms, and adds up term by term.                   *)
Below(K, v, w) == \A n \in 1..K : v[n] <= w[n]
Adds(K, u, v, w) == \A n \in 1..K : w[n] = u[n] + v[n]

LEMMA SumsCompare ==
  ASSUME NEW K \in Nat, NEW v \in [1..K -> Nat], NEW w \in [1..K -> Nat],
         NEW a, NEW b, SumIs(K, v, a), SumIs(K, w, b), Below(K, v, w)
  PROVE  a <= b
<1>0. PICK f, g : RunningSum(f, K, v) /\ a = f[K] /\ RunningSum(g, K, w) /\ b = g[K]
  BY DEF SumIs
<1> DEFINE T == {n \in Nat : n <= K => f[n] <= g[n]}
<1>1. 0 \in T
  BY <1>0 DEF RunningSum
<1>2. ASSUME NEW n \in T PROVE n + 1 \in T
  <2> SUFFICES ASSUME n + 1 <= K PROVE f[n + 1] <= g[n + 1]
    OBVIOUS
  <2>1. n + 1 \in 1..K /\ n \in 0..K /\ f[n] <= g[n] /\ (n + 1) - 1 = n
    OBVIOUS
  <2>2. f[n] \in Nat /\ g[n] \in Nat
    BY <1>0, <2>1, SumIsNatural
  <2>3. /\ f[n + 1] = f[n] + v[n + 1]
        /\ g[n + 1] = g[n] + w[n + 1]
        /\ v[n + 1] <= w[n + 1]
        /\ v[n + 1] \in Nat /\ w[n + 1] \in Nat
    BY <1>0, <2>1 DEF RunningSum, Below
  <2> QED  BY <2>1, <2>2, <2>3
<1>3. \A n \in Nat : n \in T
  <2>1. T \subseteq Nat
    OBVIOUS
  <2> HIDE DEF T
  <2> QED  BY <1>1, <1>2, <2>1, Induct
<1> QED  BY <1>0, <1>3

LEMMA SumsAdd ==
  ASSUME NEW K \in Nat, NEW u \in [1..K -> Nat], NEW v \in [1..K -> Nat], NEW w \in [1..K -> Nat],
         NEW x, NEW y, NEW z, SumIs(K, u, x), SumIs(K, v, y), SumIs(K, w, z), Adds(K, u, v, w)
  PROVE  z = x + y
<1>0. PICK f, g, h : /\ RunningSum(f, K, u) /\ x = f[K]
                     /\ RunningSum(g, K, v) /\ y = g[K]
                     /\ RunningSum(h, K, w) /\ z = h[K]
  BY DEF SumIs
<1> DEFINE T == {n \in Nat : n <= K => h[n] = f[n] + g[n]}
<1>1. 0 \in T
  BY <1>0 DEF RunningSum
<1>2. ASSUME NEW n \in T PROVE n + 1 \in T
  <2> SUFFICES ASSUME n + 1 <= K PROVE h[n + 1] = f[n + 1] + g[n + 1]
    OBVIOUS
  <2>1. n + 1 \in 1..K /\ n \in 0..K /\ h[n] = f[n] + g[n] /\ (n + 1) - 1 = n
    OBVIOUS
  <2>2. f[n] \in Nat /\ g[n] \in Nat /\ h[n] \in Nat
    BY <1>0, <2>1, SumIsNatural
  <2>3. /\ f[n + 1] = f[n] + u[n + 1]
        /\ g[n + 1] = g[n] + v[n + 1]
        /\ h[n + 1] = h[n] + w[n + 1]
        /\ w[n + 1] = u[n + 1] + v[n + 1]
        /\ u[n + 1] \in Nat /\ v[n + 1] \in Nat
    BY <1>0, <2>1 DEF RunningSum, Adds
  <2>4. PICK a \in Nat, b \in Nat, c \in Nat, d \in Nat :
           a = f[n] /\ b = g[n] /\ c = u[n + 1] /\ d = v[n + 1]
    BY <2>2, <2>3
  <2>5. f[n + 1] = a + c /\ g[n + 1] = b + d /\ h[n + 1] = (a + b) + (c + d)
    BY <2>1, <2>3, <2>4
  <2> QED  BY ONLY <2>5
<1>3. \A n \in Nat : n \in T
  <2>1. T \subseteq Nat
    OBVIOUS
  <2> HIDE DEF T
  <2> QED  BY <1>1, <1>2, <2>1, Induct
<1> QED  BY <1>0, <1>3

(* The sizes of disjoint subsets of a finite set add up to no more than    *)
(* its size.                                                               *)
OwnApart(K, U, own, w) ==
  /\ own \in [1..K -> SUBSET U]
  /\ \A n \in 1..K : Cardinality(own[n]) = w[n]
  /\ \A m, n \in 1..K : m # n => own[m] \cap own[n] = {}

LEMMA DisjointSizes ==
  ASSUME NEW K \in Nat, NEW w \in [1..K -> Nat], NEW s, SumIs(K, w, s),
         NEW U, IsFiniteSet(U), NEW own, OwnApart(K, U, own, w)
  PROVE  s <= Cardinality(U)
<1>0. PICK f : RunningSum(f, K, w) /\ s = f[K]
  BY DEF SumIs
<1> USE DEF OwnApart
<1> DEFINE upTo(n) == UNION {own[m] : m \in 1..n}
           T == {n \in Nat : n <= K => f[n] = Cardinality(upTo(n))}
<1>1. 0 \in T
  <2>1. upTo(0) = {}
    OBVIOUS
  <2> QED  BY <2>1, FS_EmptySet, <1>0 DEF RunningSum
<1>2. ASSUME NEW n \in T PROVE n + 1 \in T
  <2> SUFFICES ASSUME n + 1 <= K PROVE f[n + 1] = Cardinality(upTo(n + 1))
    OBVIOUS
  <2>1. n + 1 \in 1..K /\ n \in 0..K /\ f[n] = Cardinality(upTo(n)) /\ (n + 1) - 1 = n
    OBVIOUS
  <2>2. upTo(n) \subseteq U /\ own[n + 1] \subseteq U
    BY <2>1
  <2>3. IsFiniteSet(upTo(n)) /\ IsFiniteSet(own[n + 1])
    BY <2>2, FS_Subset
  <2>4. upTo(n + 1) = upTo(n) \cup own[n + 1]
    <3>1. 1..(n + 1) = 1..n \cup {n + 1}
      OBVIOUS
    <3> QED  BY <3>1
  <2>5. upTo(n) \cap own[n + 1] = {}
    <3>1. \A m \in 1..n : m \in 1..K /\ m # n + 1
      BY <2>1
    <3> QED  BY <2>1, <3>1
  <2> HIDE DEF upTo
  <2>6. Cardinality(upTo(n + 1)) = Cardinality(upTo(n)) + Cardinality(own[n + 1])
    <3>1. Cardinality(upTo(n)) \in Nat /\ Cardinality(own[n + 1]) \in Nat
      BY <2>3, FS_CardinalityType
    <3>2. Cardinality({}) = 0
      BY FS_EmptySet
    <3>3. Cardinality(upTo(n) \cup own[n + 1]) =
            Cardinality(upTo(n)) + Cardinality(own[n + 1]) - Cardinality(upTo(n) \cap own[n + 1])
      BY <2>3, FS_Union
    <3>4. Cardinality(upTo(n + 1)) = Cardinality(upTo(n)) + Cardinality(own[n + 1]) - 0
      BY <2>4, <2>5, <3>2, <3>3
    <3> QED  BY <3>1, <3>4
  <2> QED  BY <1>0, <2>1, <2>6 DEF RunningSum
<1>3. \A n \in Nat : n \in T
  <2>1. T \subseteq Nat
    OBVIOUS
  <2> HIDE DEF T
  <2> QED  BY <1>1, <1>2, <2>1, Induct
<1>4. f[K] = Cardinality(upTo(K))
  BY <1>3
<1>5. upTo(K) \subseteq U
  OBVIOUS
<1> HIDE DEF upTo
<1> QED  BY <1>0, <1>4, <1>5, FS_Subset

-----------------------------------------------------------------------------
(* Lists in order: what inOrder returns.                                   *)
LEMMA RankFacts ==
  ASSUME NEW K \in Nat, NEW S \in SUBSET (1..K)
  PROVE  /\ IsFiniteSet(S) /\ Cardinality(S) \in Nat
         /\ \A n \in Nat : rankOf(n, S) \in 0..Cardinality(S)
         /\ rankOf(0, S) = 0 /\ rankOf(K, S) = Cardinality(S)
         /\ \A n \in Nat : rankOf(n + 1, S) = IF n + 1 \in S THEN rankOf(n, S) + 1 ELSE rankOf(n, S)
<1> DEFINE upTo(n) == {m \in S : m <= n}
<1>0. \A m \in S : m \in Nat /\ 1 <= m /\ m <= K
  OBVIOUS
<1>1. IsFiniteSet(1..K)
  BY FS_Interval
<1>2. IsFiniteSet(S)
  BY <1>1, FS_Subset
<1>3. Cardinality(S) \in Nat
  BY <1>2, FS_CardinalityType
<1>4. ASSUME NEW n \in Nat PROVE IsFiniteSet(upTo(n)) /\ Cardinality(upTo(n)) \in Nat /\ Cardinality(upTo(n)) <= Cardinality(S)
  <2>1. upTo(n) \in SUBSET S
    OBVIOUS
  <2> HIDE DEF upTo
  <2>2. IsFiniteSet(upTo(n)) /\ Cardinality(upTo(n)) <= Cardinality(S)
    BY <1>2, <2>1, FS_Subset
  <2> QED  BY <2>2, FS_CardinalityType
<1>5. \A n : rankOf(n, S) = Cardinality(upTo(n))
  BY DEF rankOf
<1>01. \A n, x : x \in upTo(n) <=> x \in S /\ x <= n
  OBVIOUS
<1>02. /\ \A n, m \in Nat : m = n + 1 => ~(m <= n) /\ m <= m /\ \A x \in S : x <= m <=> x <= n \/ x = m
      /\ \A x \in S : ~(x <= 0) /\ x <= K
  BY <1>0
<1>6. upTo(0) = {} /\ upTo(K) = S
  <2> HIDE DEF upTo
  <2> QED  BY <1>01, <1>02
<1>7. ASSUME NEW n \in Nat, NEW m \in Nat, m = n + 1
      PROVE  Cardinality(upTo(m)) = IF m \in S THEN Cardinality(upTo(n)) + 1 ELSE Cardinality(upTo(n))
  <2>1. IsFiniteSet(upTo(n))
    BY <1>4
  <2> HIDE DEF upTo
  <2>2. ~(m <= n) /\ m <= m /\ \A x \in S : x <= m <=> x <= n \/ x = m
    BY <1>02, <1>7
  <2>3. CASE m \in S
    <3>1. \A x : x \in upTo(m) <=> x \in upTo(n) \cup {m}
      BY <1>01, <2>2, <2>3
    <3>2. upTo(m) = upTo(n) \cup {m} /\ m \notin upTo(n)
      BY <1>01, <2>2, <3>1
    <3> QED  BY <2>1, <2>3, <3>2, FS_AddElement
  <2>4. CASE m \notin S
    <3>1. \A x : x \in upTo(m) <=> x \in upTo(n)
      BY <1>01, <2>2, <2>4
    <3>2. upTo(m) = upTo(n)
      BY <3>1
    <3> QED  BY <2>4, <3>2
  <2> QED  BY <2>3, <2>4
<1> HIDE DEF upTo
<1>8. \A n \in Nat : rankOf(n, S) \in 0..Cardinality(S)
  BY <1>3, <1>4, <1>5
<1>9. rankOf(0, S) = 0
  BY <1>5, <1>6, FS_EmptySet
<1> QED  BY <1>2, <1>3, <1>5, <1>6, <1>7, <1>8, <1>9

(* A later member has a greater rank.                                      *)
LEMMA RankGrows ==
  ASSUME NEW K \in Nat, NEW S \in SUBSET (1..K), NEW m \in Nat, NEW n \in S, m < n
  PROVE  rankOf(m, S) < rankOf(n, S)
<1> DEFINE upTo(k) == {x \in S : x <= k}
<1>0. \A k \in S : k \in Nat
  OBVIOUS
<1>1. upTo(m) \subseteq upTo(n) \ {n}
  <2>1. ASSUME NEW x \in upTo(m) PROVE x \in S /\ x <= n /\ x # n
    <3>1. x \in S /\ x <= m /\ x \in Nat /\ n \in Nat
      BY <1>0
    <3> QED  BY <3>1
  <2> QED  BY <2>1
<1>2. upTo(n) \subseteq S /\ n \in upTo(n)
  OBVIOUS
<1>3. rankOf(m, S) = Cardinality(upTo(m)) /\ rankOf(n, S) = Cardinality(upTo(n))
  BY DEF rankOf
<1> HIDE DEF upTo
<1>4. IsFiniteSet(upTo(n))
  BY <1>2, RankFacts, FS_Subset
<1>5. IsFiniteSet(upTo(n) \ {n}) /\ Cardinality(upTo(n) \ {n}) = Cardinality(upTo(n)) - 1
  BY <1>2, <1>4, FS_RemoveElement
<1>6. Cardinality(upTo(m)) <= Cardinality(upTo(n) \ {n}) /\ IsFiniteSet(upTo(m))
  BY <1>1, <1>5, FS_Subset
<1>7. Cardinality(upTo(m)) \in Nat /\ Cardinality(upTo(n)) \in Nat
  BY <1>4, <1>6, FS_CardinalityType
<1> QED  BY <1>3, <1>5, <1>6, <1>7

(* The ranks of the members of a set count it.                             *)
LEMMA RanksOfMembers ==
  ASSUME NEW K \in Nat, NEW S \in SUBSET (1..K)
  PROVE  /\ \A n \in S : rankOf(n, S) \in 1..Cardinality(S)
         /\ \A m, n \in S : rankOf(m, S) = rankOf(n, S) => m = n
         /\ \A k \in 1..Cardinality(S) : \E n \in S : rankOf(n, S) = k
<1>1. /\ IsFiniteSet(S) /\ Cardinality(S) \in Nat
      /\ \A n \in Nat : rankOf(n, S) \in 0..Cardinality(S)
      /\ rankOf(0, S) = 0
  BY RankFacts
<1>2. ASSUME NEW n \in S PROVE rankOf(n, S) \in 1..Cardinality(S)
  <2>1. n \in Nat /\ 0 < n
    OBVIOUS
  <2>2. rankOf(0, S) < rankOf(n, S)
    BY <2>1, RankGrows
  <2> QED  BY <1>1, <2>1, <2>2
<1>3. ASSUME NEW m \in S, NEW n \in S, rankOf(m, S) = rankOf(n, S) PROVE m = n
  <2>1. m \in Nat /\ n \in Nat /\ rankOf(m, S) \in Int /\ rankOf(n, S) \in Int
    BY <1>1
  <2>2. m < n => rankOf(m, S) < rankOf(n, S)
    BY <2>1, RankGrows
  <2>3. n < m => rankOf(n, S) < rankOf(m, S)
    BY <2>1, RankGrows
  <2> QED  BY <1>3, <2>1, <2>2, <2>3
<1> DEFINE f == [n \in S |-> rankOf(n, S)]
           T == 1..Cardinality(S)
<1>4. f \in Injection(S, T)
  BY <1>2, <1>3 DEF Injection, IsInjective
<1>5. IsFiniteSet(T) /\ Cardinality(T) = Cardinality(S)
  BY <1>1, FS_Interval
<1>6. f \in Surjection(S, T)
  <2> HIDE DEF f, T
  <2> QED  BY <1>4, <1>5, FS_Injection
<1>7. \A k \in T : \E n \in S : f[n] = k
  <2> HIDE DEF f, T
  <2> QED  BY <1>6 DEF Surjection
<1> QED  BY <1>2, <1>3, <1>7

(* The list of the members by rank and the rank are inverse to each other. *)
LEMMA InOrder ==
  ASSUME NEW K \in Nat, NEW S \in SUBSET (1..K)
  PROVE  /\ \A k \in 1..Cardinality(S) : inOrder(S)[k] \in S /\ rankOf(inOrder(S)[k], S) = k
         /\ \A n \in S : inOrder(S)[rankOf(n, S)] = n
         /\ Cardinality(S) \in Nat /\ IsFiniteSet(S)
<1>1. ASSUME NEW k \in 1..Cardinality(S) PROVE inOrder(S)[k] \in S /\ rankOf(inOrder(S)[k], S) = k
  <2>1. \E n \in S : rankOf(n, S) = k
    BY RanksOfMembers
  <2>2. inOrder(S)[k] = CHOOSE n \in S : rankOf(n, S) = k
    BY DEF inOrder
  <2> QED  BY <2>1, <2>2
<1>2. ASSUME NEW n \in S PROVE inOrder(S)[rankOf(n, S)] = n
  <2>1. rankOf(n, S) \in 1..Cardinality(S)
    BY RanksOfMembers
  <2>2. inOrder(S)[rankOf(n, S)] \in S /\ rankOf(inOrder(S)[rankOf(n, S)], S) = rankOf(n, S)
    BY <1>1, <2>1
  <2> QED  BY <2>2, RanksOfMembers
<1> QED  BY <1>1, <1>2, RankFacts

(* Two lists one after the other.                                          *)
LEMMA Concat ==
  ASSUME NEW T, NEW a \in Seq(T), NEW b \in Seq(T)
  PROVE  /\ a \o b \in Seq(T) /\ Len(a) \in Nat /\ Len(b) \in Nat
         /\ Len(a \o b) = Len(a) + Len(b)
         /\ \A i \in 1..Len(a) : (a \o b)[i] = a[i]
         /\ \A k \in 1..Len(b) : (a \o b)[Len(a) + k] = b[k]
OBVIOUS

(* What picked returns: a list of what is at the places, by their rank.    *)
LEMMA Picked ==
  ASSUME NEW T, NEW s \in Seq(T), NEW S \in SUBSET (1..Len(s))
  PROVE  /\ picked(s, S) \in Seq(T)
         /\ Len(picked(s, S)) = Cardinality(S) /\ Cardinality(S) \in Nat
         /\ \A n \in S : rankOf(n, S) \in 1..Cardinality(S) /\ picked(s, S)[rankOf(n, S)] = s[n]
         /\ \A k \in 1..Cardinality(S) : \E n \in S : rankOf(n, S) = k /\ picked(s, S)[k] = s[n]
<1> DEFINE K == Len(s)
           Q == Seq(T)
           turn == [m \in 1..K |-> [x \in Q |-> IF m \in S THEN Append(x, s[m]) ELSE x]]
           Picks(h) == h = [n \in 0..Len(s) |-> IF n = 0 THEN << >>
                                               ELSE IF n \in S THEN Append(h[n - 1], s[n]) ELSE h[n - 1]]
           upTo == CHOOSE h : Picks(h)
<1>0. K \in Nat /\ \A m \in 1..K : s[m] \in T
  OBVIOUS
<1>1. turn \in StepsOn(K, Q) /\ << >> \in Q
  BY <1>0 DEF StepsOn
<1>2. \A m \in 1..K : \A x \in Q : turn[m][x] = IF m \in S THEN Append(x, s[m]) ELSE x
  OBVIOUS
<1> HIDE DEF turn, Q
<1>3. PICK f : Unrolls(f, K, Q, << >>, turn)
  BY <1>0, <1>1, Recursion
<1>4. f \in [0..K -> Q] /\ f[0] = << >>
  BY <1>3 DEF Unrolls
<1>5. ASSUME NEW n \in 1..K PROVE f[n] = IF n \in S THEN Append(f[n - 1], s[n]) ELSE f[n - 1]
  <2>1. n - 1 \in 0..K
    OBVIOUS
  <2>2. f[n - 1] \in Q
    BY <1>4, <2>1
  <2> QED  BY <1>2, <1>3, <2>2 DEF Unrolls
<1>6. Picks(f)
  <2>1. \A n \in 0..K : f[n] = IF n = 0 THEN << >>
                               ELSE IF n \in S THEN Append(f[n - 1], s[n]) ELSE f[n - 1]
    <3>1. \A n \in 0..K : n = 0 \/ n \in 1..K
      BY <1>0
    <3>2. \A n \in 1..K : n # 0
      OBVIOUS
    <3> QED  BY <1>4, <1>5, <3>1, <3>2
  <2> QED  BY <1>4, <2>1
<1>7. Picks(upTo)
  <2> HIDE DEF Picks
  <2> QED  BY <1>6
<1>8. picked(s, S) = upTo[K]
  BY DEF picked
<1> HIDE DEF upTo
<1>9. /\ upTo[0] = << >>
      /\ \A n \in 1..K : upTo[n] = IF n \in S THEN Append(upTo[n - 1], s[n]) ELSE upTo[n - 1]
  <2>1. \A n \in 0..K : upTo[n] = IF n = 0 THEN << >>
                                  ELSE IF n \in S THEN Append(upTo[n - 1], s[n]) ELSE upTo[n - 1]
    BY <1>7
  <2>2. 0 \in 0..K /\ \A n \in 1..K : n \in 0..K /\ n # 0
    BY <1>0
  <2> QED  BY <2>1, <2>2
<1> HIDE DEF K
<1> DEFINE rank(n) == rankOf(n, S)
           Fits(n) == /\ upTo[n] \in Seq(T) /\ Len(upTo[n]) = rank(n)
                      /\ \A m \in S : m <= n => rank(m) \in 1..rank(n) /\ upTo[n][rank(m)] = s[m]
           A == {n \in Nat : n <= K => Fits(n)}
<1>20. S \in SUBSET (1..K)
  BY DEF K
<1>21. /\ \A n \in Nat : rank(n) \in 0..Cardinality(S)
       /\ rank(0) = 0 /\ rank(K) = Cardinality(S) /\ Cardinality(S) \in Nat
       /\ \A n \in Nat : rank(n + 1) = IF n + 1 \in S THEN rank(n) + 1 ELSE rank(n)
  BY <1>0, <1>20, RankFacts
<1> HIDE DEF rank
<1>22. 0 \in A
  <2>1. \A m \in S : ~(m <= 0)
    BY <1>20
  <2>2. << >> \in Seq(T) /\ Len(<< >>) = 0
    OBVIOUS
  <2> QED  BY <1>9, <1>21, <2>1, <2>2
<1>23. ASSUME NEW n \in A PROVE n + 1 \in A
  <2> SUFFICES ASSUME n + 1 <= K PROVE Fits(n + 1)
    OBVIOUS
  <2>1. n \in Nat /\ n <= K /\ n + 1 \in 1..K /\ (n + 1) - 1 = n
    BY <1>0
  <2>2. Fits(n)
    BY <2>1
  <2>3. rank(n) \in Nat /\ rank(n + 1) \in Nat
    BY <1>21, <2>1
  <2>4. CASE n + 1 \notin S
    <3>1. rank(n + 1) = rank(n) /\ upTo[n + 1] = upTo[n]
      BY <1>9, <1>21, <2>1, <2>4
    <3>2. \A m \in S : m <= n + 1 => m <= n
      BY <1>20, <2>1, <2>4
    <3> QED  BY <2>2, <3>1, <3>2
  <2>5. CASE n + 1 \in S
    <3>1. rank(n + 1) = rank(n) + 1 /\ upTo[n + 1] = Append(upTo[n], s[n + 1])
      BY <1>9, <1>21, <2>1, <2>5
    <3>2. s[n + 1] \in T
      BY <1>0, <2>1 DEF K
    <3>3. /\ upTo[n + 1] \in Seq(T) /\ Len(upTo[n + 1]) = rank(n) + 1
          /\ upTo[n + 1][rank(n) + 1] = s[n + 1]
          /\ \A k \in 1..rank(n) : upTo[n + 1][k] = upTo[n][k]
      <4> DEFINE u == upTo[n]
                 x == s[n + 1]
      <4>1. u \in Seq(T) /\ Len(u) = rank(n) /\ x \in T
        BY <2>2, <3>2
      <4> HIDE DEF u, x
      <4>2. /\ Append(u, x) \in Seq(T) /\ Len(Append(u, x)) = Len(u) + 1
            /\ Append(u, x)[Len(u) + 1] = x
            /\ \A k \in 1..Len(u) : Append(u, x)[k] = u[k]
        BY <4>1
      <4> QED  BY <3>1, <4>1, <4>2 DEF u, x
    <3>4. ASSUME NEW m \in S, m <= n + 1 PROVE rank(m) \in 1..rank(n + 1) /\ upTo[n + 1][rank(m)] = s[m]
      <4>1. CASE m = n + 1
        BY <2>3, <3>1, <3>3, <4>1
      <4>2. CASE m # n + 1
        <5>1. m <= n
          BY <1>20, <2>1, <3>4, <4>2
        <5>2. rank(m) \in 1..rank(n) /\ upTo[n][rank(m)] = s[m]
          BY <2>2, <5>1
        <5>3. rank(m) \in 1..rank(n + 1)
          BY <2>3, <3>1, <5>2
        <5> QED  BY <3>3, <5>2, <5>3
      <4> QED  BY <4>1, <4>2
    <3> QED  BY <3>1, <3>3, <3>4
  <2> QED  BY <2>4, <2>5
<1>24. A \subseteq Nat
  OBVIOUS
<1>25. Fits(K)
  <2> HIDE DEF A
  <2>1. K \in A
    BY <1>0, <1>22, <1>23, <1>24, Induct
  <2> QED  BY <1>0, <2>1 DEF A
<1>26. \A m \in S : m <= K
  BY <1>20
<1>27. /\ \A k \in 1..Cardinality(S) : \E n \in S : rank(n) = k
  BY <1>0, <1>20, RanksOfMembers DEF rank
<1> QED  BY <1>8, <1>21, <1>25, <1>26, <1>27 DEF rank

(* What picked returns is known by what it has at each rank.               *)
LEMMA PickedIs ==
  ASSUME NEW T, NEW s \in Seq(T), NEW S \in SUBSET (1..Len(s)),
         NEW U, NEW p \in Seq(U), Len(p) = Cardinality(S), \A n \in S : p[rankOf(n, S)] = s[n]
  PROVE  picked(s, S) = p
<1> DEFINE q == picked(s, S)
<1>1. /\ q \in Seq(T) /\ Len(q) = Cardinality(S) /\ Cardinality(S) \in Nat
      /\ \A k \in 1..Cardinality(S) : \E n \in S : rankOf(n, S) = k /\ q[k] = s[n]
  BY Picked
<1> HIDE DEF q
<1>2. \A k \in 1..Len(p) : q[k] = p[k]
  BY <1>1
<1>3. q = p
  BY <1>1, <1>2
<1> QED  BY <1>3 DEF q

(* The rank of a place depends on the places up to it.                     *)
LEMMA RankUpTo ==
  ASSUME NEW S, NEW R, NEW n, \A m : (m \in S /\ m <= n) <=> (m \in R /\ m <= n)
  PROVE  rankOf(n, S) = rankOf(n, R)
<1>1. {m \in S : m <= n} = {m \in R : m <= n}
  OBVIOUS
<1> QED  BY <1>1 DEF rankOf

(* Picking one more place, after the others.                               *)
LEMMA PickedMore ==
  ASSUME NEW T, NEW s \in Seq(T), NEW S \in SUBSET (1..Len(s)), NEW m \in 1..Len(s), \A n \in S : n < m
  PROVE  picked(s, S \cup {m}) = Append(picked(s, S), s[m])
<1> DEFINE K == Len(s)
           p == picked(s, S)
           R == S \cup {m}
           u == Append(p, s[m])
<1>1. /\ K \in Nat /\ S \in SUBSET (1..K) /\ R \in SUBSET (1..K) /\ m \in 1..K /\ s[m] \in T
      /\ s \in Seq(T)
  OBVIOUS
<1>2. /\ p \in Seq(T) /\ Len(p) = Cardinality(S) /\ Cardinality(S) \in Nat
      /\ \A n \in S : rankOf(n, S) \in 1..Cardinality(S) /\ p[rankOf(n, S)] = s[n]
  BY Picked
<1>3. /\ u \in Seq(T) /\ Len(u) = Cardinality(S) + 1 /\ u[Cardinality(S) + 1] = s[m]
      /\ \A k \in 1..Cardinality(S) : u[k] = p[k]
  <2> HIDE DEF p
  <2> QED  BY <1>1, <1>2
<1>4. \A n \in S : n \in Nat /\ n <= m /\ n < m
  BY <1>1
<1> HIDE DEF K, p, u
<1>5. rankOf(m, R) = Cardinality(S) + 1 /\ Cardinality(R) = Cardinality(S) + 1
  <2>1. {x \in R : x <= m} = R
    <3>1. \A x \in R : x <= m
      BY <1>1, <1>4
    <3> HIDE DEF R
    <3> QED  BY <3>1
  <2>2. IsFiniteSet(S) /\ m \notin S
    BY <1>1, <1>4, RankFacts
  <2>3. Cardinality(R) = Cardinality(S) + 1
    BY <2>2, FS_AddElement
  <2> QED  BY <2>1, <2>3 DEF rankOf
<1>6. \A n \in S : rankOf(n, R) = rankOf(n, S)
  <2> TAKE n \in S
  <2>1. \A x : (x \in S /\ x <= n) <=> (x \in R /\ x <= n)
    BY <1>1, <1>4
  <2> QED  BY <2>1, RankUpTo
<1>7. \A n \in R : u[rankOf(n, R)] = s[n]
  BY <1>2, <1>3, <1>5, <1>6
<1>8. Len(u) = Cardinality(R)
  BY <1>3, <1>5
<1> HIDE DEF R
<1>9. picked(s, R) = u
  BY <1>1, <1>3, <1>7, <1>8, PickedIs DEF K
<1> QED  BY <1>9 DEF R, u, p

(* Picking from a list with one more member.                               *)
LEMMA PickedGrows ==
  ASSUME NEW T, NEW s \in Seq(T), NEW x \in T, NEW S \in SUBSET (1..Len(s))
  PROVE  /\ picked(Append(s, x), S) = picked(s, S)
         /\ picked(Append(s, x), S \cup {Len(s) + 1}) = Append(picked(s, S), x)
<1> DEFINE K == Len(s)
           t == Append(s, x)
           p == picked(s, S)
<1>1. /\ K \in Nat /\ t \in Seq(T) /\ Len(t) = K + 1 /\ t[K + 1] = x
      /\ \A n \in 1..K : t[n] = s[n]
  OBVIOUS
<1>2. /\ p \in Seq(T) /\ Len(p) = Cardinality(S)
      /\ \A n \in S : p[rankOf(n, S)] = s[n]
  BY Picked
<1>3. S \in SUBSET (1..K)
  OBVIOUS
<1> HIDE DEF K, t, p
<1>4. S \in SUBSET (1..Len(t)) /\ K + 1 \in 1..Len(t) /\ \A n \in S : n < K + 1
  <2>1. K \in Nat /\ Len(t) = K + 1
    BY <1>1
  <2>2. \A n \in S : n \in 1..K
    BY <1>3
  <2>3. \A n \in S : n \in 1..(K + 1) /\ n < K + 1
    BY <2>1, <2>2
  <2> QED  BY <2>1, <2>3
<1>5. picked(t, S) = p
  <2>1. \A n \in S : p[rankOf(n, S)] = t[n]
    BY <1>1, <1>2, <1>3
  <2> QED  BY <1>1, <1>2, <1>4, <2>1, PickedIs
<1>6. picked(t, S \cup {K + 1}) = Append(p, x)
  BY <1>1, <1>4, <1>5, PickedMore
<1> QED  BY <1>5, <1>6 DEF K, t, p

(* A function on the first K numbers is a list.                            *)
LEMMA IsAList ==
  ASSUME NEW T, NEW K \in Nat, NEW f, f = [k \in 1..K |-> f[k]], \A k \in 1..K : f[k] \in T
  PROVE  f \in Seq(T) /\ Len(f) = K
OBVIOUS

(* Sets matched one to one have the same size.                             *)
LEMMA PairedSizes ==
  ASSUME NEW S, IsFiniteSet(S), NEW R, NEW to, \A i \in S : to[i] \in R,
         \A i, j \in S : to[i] = to[j] => i = j, \A r \in R : \E i \in S : r = to[i]
  PROVE  IsFiniteSet(R) /\ Cardinality(R) = Cardinality(S)
<1> DEFINE f == [i \in S |-> to[i]]
<1>1. f \in [S -> R]
  OBVIOUS
<1>2. \A i, j \in S : f[i] = f[j] => i = j
  OBVIOUS
<1>3. \A r \in R : \E i \in S : f[i] = r
  OBVIOUS
<1>4. f \in Bijection(S, R)
  BY <1>1, <1>2, <1>3 DEF Bijection, Injection, Surjection, IsInjective
<1> QED  BY <1>4, FS_Bijection DEF ExistsBijection
-----------------------------------------------------------------------------
(* Two lists picked at places that correspond, in the same order.          *)
Along(S, R, to) ==
  /\ \A i \in S : to[i] \in R
  /\ \A j \in R : \E i \in S : j = to[i]
  /\ \A i, j \in S : i < j => to[i] < to[j]

(* Places that correspond have the same rank.                              *)
LEMMA AlongRanks ==
  ASSUME NEW K \in Nat, NEW S \in SUBSET (1..K), NEW L \in Nat, NEW R \in SUBSET (1..L),
         NEW to, Along(S, R, to)
  PROVE  /\ Cardinality(S) = Cardinality(R)
         /\ \A i \in S : rankOf(to[i], R) = rankOf(i, S)
<1> DEFINE below(n) == {m \in S : m <= n}
           under(n) == {m \in R : m <= n}
<1>0. /\ \A i \in S : i \in Nat /\ to[i] \in R
      /\ \A j \in R : j \in Nat /\ \E i \in S : j = to[i]
      /\ \A i, j \in S : i < j => to[i] < to[j]
      /\ \A i \in S : to[i] \in Nat
  <2>1. \A i \in S : i \in Nat
    OBVIOUS
  <2>2. \A j \in R : j \in Nat
    OBVIOUS
  <2>3. \A i \in S : to[i] \in R
    BY DEF Along
  <2>4. \A j \in R : \E i \in S : j = to[i]
    BY DEF Along
  <2>5. \A i, j \in S : i < j => to[i] < to[j]
    BY DEF Along
  <2> QED  BY <2>1, <2>2, <2>3, <2>4, <2>5
<1>1. \A i, j \in S : to[i] <= to[j] <=> i <= j
  BY <1>0
<1>2. \A i, j \in S : to[i] = to[j] => i = j
  BY <1>0
<1>3. IsFiniteSet(S)
  BY RankFacts
<1>4. ASSUME NEW A, A \subseteq S, NEW B, B \subseteq R, \A i \in S : to[i] \in B <=> i \in A
      PROVE  Cardinality(A) = Cardinality(B)
  <2> DEFINE f == [i \in A |-> to[i]]
  <2>1. f \in [A -> B]
    BY <1>4
  <2>2. \A i, j \in A : f[i] = f[j] => i = j
    BY <1>2, <1>4
  <2>3. \A j \in B : \E i \in A : f[i] = j
    BY <1>0, <1>4
  <2>4. f \in Bijection(A, B)
    BY <2>1, <2>2, <2>3 DEF Bijection, Injection, Surjection, IsInjective
  <2>5. IsFiniteSet(A)
    BY <1>3, <1>4, FS_Subset
  <2> QED  BY <2>4, <2>5, FS_Bijection DEF ExistsBijection
<1>5. Cardinality(S) = Cardinality(R)
  BY <1>0, <1>4
<1>6. ASSUME NEW i \in S PROVE rankOf(to[i], R) = rankOf(i, S)
  <2>1. \A j \in S : to[j] \in under(to[i]) <=> j \in below(i)
    BY <1>0, <1>1
  <2>2. below(i) \subseteq S /\ under(to[i]) \subseteq R
    OBVIOUS
  <2>3. Cardinality(below(i)) = Cardinality(under(to[i]))
    <3> HIDE DEF below, under
    <3> QED  BY <1>4, <2>1, <2>2
  <2> QED  BY <2>3 DEF rankOf
<1> QED  BY <1>5, <1>6

(* Picked at places that correspond, two lists have the same members.      *)
LEMMA PickedAlong ==
  ASSUME NEW T, NEW o \in Seq(T), NEW S \in SUBSET (1..Len(o)),
         NEW U, NEW n \in Seq(U), NEW R \in SUBSET (1..Len(n)), NEW to, Along(S, R, to)
  PROVE  /\ Len(picked(n, R)) = Len(picked(o, S)) /\ Len(picked(o, S)) \in Nat
         /\ \A k \in 1..Len(picked(o, S)) :
              \E i \in S : picked(o, S)[k] = o[i] /\ picked(n, R)[k] = n[to[i]]
<1> DEFINE p == picked(o, S)
           q == picked(n, R)
<1>1. /\ Len(p) = Cardinality(S) /\ Cardinality(S) \in Nat
      /\ \A k \in 1..Cardinality(S) : \E i \in S : rankOf(i, S) = k /\ p[k] = o[i]
  BY Picked
<1>2. /\ Len(q) = Cardinality(R)
      /\ \A j \in R : q[rankOf(j, R)] = n[j]
  BY Picked
<1>3. Len(o) \in Nat /\ Len(n) \in Nat
  OBVIOUS
<1>4. Cardinality(S) = Cardinality(R) /\ \A i \in S : rankOf(to[i], R) = rankOf(i, S)
  BY <1>3, AlongRanks
<1>5. \A i \in S : to[i] \in R
  BY DEF Along
<1> HIDE DEF p, q
<1>6. ASSUME NEW k \in 1..Len(p) PROVE \E i \in S : p[k] = o[i] /\ q[k] = n[to[i]]
  <2>1. PICK i \in S : rankOf(i, S) = k /\ p[k] = o[i]
    BY <1>1
  <2>2. q[k] = n[to[i]]
    BY <1>2, <1>4, <1>5, <2>1
  <2> QED  BY <2>1, <2>2
<1>7. Len(q) = Len(p) /\ Len(p) \in Nat
  BY <1>1, <1>2, <1>4
<1> QED  BY <1>6, <1>7 DEF p, q

SixOf(T, n, a, m, c, z, x, y) ==
  /\ n \in Seq(T) /\ Len(a) \in Nat /\ Len(m) \in Nat /\ Len(c) \in Nat /\ Len(z) \in Nat
  /\ Len(n) = Len(a) + Len(m) + Len(c) + Len(z) + 2
  /\ \A k \in 1..Len(a) : n[k] = a[k]
  /\ \A k \in 1..Len(m) : n[Len(a) + k] = m[k]
  /\ n[Len(a) + Len(m) + 1] = x
  /\ \A k \in 1..Len(c) : n[Len(a) + Len(m) + 1 + k] = c[k]
  /\ n[Len(a) + Len(m) + Len(c) + 2] = y
  /\ \A k \in 1..Len(z) : n[Len(a) + Len(m) + Len(c) + 2 + k] = z[k]

(* Six lists one after the other, x and y alone in theirs.                 *)
LEMMA SixParts ==
  ASSUME NEW T, NEW a \in Seq(T), NEW m \in Seq(T), NEW c \in Seq(T), NEW z \in Seq(T), NEW x \in T, NEW y \in T,
         NEW n, n = a \o m \o <<x>> \o c \o <<y>> \o z
  PROVE  SixOf(T, n, a, m, c, z, x, y)
<1> DEFINE p == a \o m
           q == p \o <<x>>
           r == q \o c
           s == r \o <<y>>
           u == <<x>>
           v == <<y>>
<1>0. Len(a) \in Nat /\ Len(m) \in Nat /\ Len(c) \in Nat /\ Len(z) \in Nat
  OBVIOUS
<1>1. u \in Seq(T) /\ Len(u) = 1 /\ u[1] = x /\ v \in Seq(T) /\ Len(v) = 1 /\ v[1] = y
  OBVIOUS
<1>2. p = a \o m /\ q = p \o u /\ r = q \o c /\ s = r \o v /\ n = s \o z
  OBVIOUS
<1> HIDE DEF p, q, r, s, u, v
<1>3. /\ p \in Seq(T) /\ Len(p) = Len(a) + Len(m)
      /\ \A k \in 1..Len(a) : p[k] = a[k]
      /\ \A k \in 1..Len(m) : p[Len(a) + k] = m[k]
  BY <1>2, Concat
<1>4. /\ q \in Seq(T) /\ Len(q) = Len(p) + 1
      /\ \A k \in 1..Len(p) : q[k] = p[k]
      /\ q[Len(p) + 1] = x
  <2>1. /\ q \in Seq(T) /\ Len(q) = Len(p) + Len(u)
        /\ \A k \in 1..Len(p) : q[k] = p[k]
        /\ \A k \in 1..Len(u) : q[Len(p) + k] = u[k]
    BY <1>1, <1>2, <1>3, Concat
  <2> QED  BY <1>1, <2>1
<1>5. /\ r \in Seq(T) /\ Len(r) = Len(q) + Len(c)
      /\ \A k \in 1..Len(q) : r[k] = q[k]
      /\ \A k \in 1..Len(c) : r[Len(q) + k] = c[k]
  <2>1. q \in Seq(T) /\ r = q \o c
    BY <1>2, <1>4
  <2> QED  BY ONLY <2>1, c \in Seq(T), Concat
<1>6. /\ s \in Seq(T) /\ Len(s) = Len(r) + 1
      /\ \A k \in 1..Len(r) : s[k] = r[k]
      /\ s[Len(r) + 1] = y
  <2>1. /\ s \in Seq(T) /\ Len(s) = Len(r) + Len(v)
        /\ \A k \in 1..Len(r) : s[k] = r[k]
        /\ \A k \in 1..Len(v) : s[Len(r) + k] = v[k]
    BY <1>1, <1>2, <1>5, Concat
  <2> QED  BY <1>1, <2>1
<1>7. /\ n \in Seq(T) /\ Len(n) = Len(s) + Len(z)
      /\ \A k \in 1..Len(s) : n[k] = s[k]
      /\ \A k \in 1..Len(z) : n[Len(s) + k] = z[k]
  <2>1. s \in Seq(T) /\ n = s \o z
    BY <1>2, <1>6
  <2> QED  BY ONLY <2>1, z \in Seq(T), Concat
<1>8. /\ Len(p) = Len(a) + Len(m) /\ Len(q) = Len(a) + Len(m) + 1 /\ Len(r) = Len(a) + Len(m) + 1 + Len(c)
      /\ Len(s) = Len(a) + Len(m) + Len(c) + 2
  BY <1>0, <1>3, <1>4, <1>5, <1>6
<1>9. Len(n) = Len(a) + Len(m) + Len(c) + Len(z) + 2
  BY <1>0, <1>7, <1>8
<1>10. \A k \in 1..Len(q) : n[k] = q[k]
  <2>1. \A k \in 1..Len(q) : k \in 1..Len(r) /\ k \in 1..Len(s)
    BY <1>0, <1>8
  <2> QED  BY <1>5, <1>6, <1>7, <2>1
<1>11. \A k \in 1..Len(p) : n[k] = p[k]
  <2>1. \A k \in 1..Len(p) : k \in 1..Len(q)
    BY <1>0, <1>8
  <2> QED  BY <1>4, <1>10, <2>1
<1>12. \A k \in 1..Len(a) : n[k] = a[k]
  <2>1. \A k \in 1..Len(a) : k \in 1..Len(p)
    BY <1>0, <1>8
  <2> QED  BY <1>3, <1>11, <2>1
<1>13. \A k \in 1..Len(m) : n[Len(a) + k] = m[k]
  <2>1. \A k \in 1..Len(m) : Len(a) + k \in 1..Len(p)
    BY <1>0, <1>8
  <2> QED  BY <1>3, <1>11, <2>1
<1>14. n[Len(a) + Len(m) + 1] = x
  <2>1. Len(a) + Len(m) + 1 \in 1..Len(q) /\ Len(a) + Len(m) + 1 = Len(p) + 1
    BY <1>0, <1>8
  <2> QED  BY <1>4, <1>10, <2>1
<1>15. \A k \in 1..Len(c) : n[Len(a) + Len(m) + 1 + k] = c[k]
  <2>1. \A k \in 1..Len(c) : /\ Len(q) + k \in 1..Len(r) /\ Len(q) + k \in 1..Len(s)
                             /\ Len(a) + Len(m) + 1 + k = Len(q) + k
    BY <1>0, <1>8
  <2> QED  BY <1>5, <1>6, <1>7, <2>1
<1>16. n[Len(a) + Len(m) + Len(c) + 2] = y
  <2>1. Len(r) + 1 \in 1..Len(s) /\ Len(a) + Len(m) + Len(c) + 2 = Len(r) + 1
    BY <1>0, <1>8
  <2> QED  BY <1>6, <1>7, <2>1
<1>17. \A k \in 1..Len(z) : n[Len(a) + Len(m) + Len(c) + 2 + k] = z[k]
  BY <1>7, <1>8
<1> QED  BY <1>0, <1>7, <1>9, <1>12, <1>13, <1>14, <1>15, <1>16, <1>17 DEF SixOf
==============================================================================
