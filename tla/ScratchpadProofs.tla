-------------------------- MODULE ScratchpadProofs --------------------------
(***************************************************************************)
(* The passes over the scratchpad, whatever program they are given.        *)
(*                                                                         *)
(* The spill loop ends (AllocateScratchpad.cpp): every spill takes one     *)
(* buffer of the source program out of the set that may still be spilled,  *)
(* and puts none into it.                                                  *)
(*                                                                         *)
(* Double buffering keeps its promises (DoubleBuffer.cpp): it adds one     *)
(* token and changes nothing else, and what it hoists stays inside the     *)
(* budget it was priced with.                                              *)
(***************************************************************************)
EXTENDS DoubleBuffer, Induction

(* What FlattenSeq returns: start[n] is where the list after the n-th      *)
(* begins, less one.                                                       *)
Flattened(flat, s, K, start) ==
  /\ start \in [0..K -> Nat] /\ start[0] = 0 /\ start[K] = Len(flat)
  /\ \A n \in 1..K : start[n] = start[n - 1] + Len(s[n])
  /\ \A n \in 1..K : \A k \in 1..Len(s[n]) :
       start[n - 1] + k \in 1..Len(flat) /\ flat[start[n - 1] + k] = s[n][k]
  /\ \A i \in 1..Len(flat) : \E n \in 1..K : \E k \in 1..Len(s[n]) : i = start[n - 1] + k

(* The lists f[n] FlattenSeq builds, one list of s after the other.        *)
FlattensAs(f, s, K, S) ==
  /\ f \in [1..K -> S]
  /\ f[1] = s[1]
  /\ \A n \in 2..K : f[n] = f[n - 1] \o s[n]
  /\ FlattenSeq(s) = f[K]

(* The recursive function of FlattenSeq exists.                            *)
LEMMA FlattenSteps ==
  ASSUME NEW K \in Nat \ {0}, NEW T, NEW s \in [1..K -> Seq(T)]
  PROVE  \E f : FlattensAs(f, s, K, Seq(T))
<1> DEFINE S == Seq(T)
           Joins(h) == h = [i \in 1..Len(s) |-> IF i = 1 THEN s[i] ELSE h[i - 1] \o s[i]]
           flat == CHOOSE h : Joins(h)
           turn == [m \in 1..K - 1 |-> [x \in S |-> x \o s[m + 1]]]
<1>1. \A m \in 1..K - 1 : m + 1 \in 1..K
  OBVIOUS
<1>2. s[1] \in S /\ K - 1 \in Nat
  OBVIOUS
<1>22. turn \in StepsOn(K - 1, S)
  <2>1. \A m \in 1..K - 1 : \A x \in S : x \o s[m + 1] \in S
    BY <1>1
  <2> HIDE DEF S
  <2> QED  BY <2>1 DEF StepsOn
<1>3. \A m \in 1..K - 1 : \A x \in S : turn[m][x] = x \o s[m + 1]
  OBVIOUS
<1> HIDE DEF turn, S
<1>4. PICK g : Unrolls(g, K - 1, S, s[1], turn)
  BY <1>2, <1>22, Recursion
<1> DEFINE f == [i \in 1..K |-> g[i - 1]]
<1>5. f \in [1..K -> S] /\ f[1] = s[1]
  <2>1. g[0] = s[1] /\ \A n \in 0..K - 1 : g[n] \in S
    BY <1>2, <1>4 DEF Unrolls
  <2> QED  BY <2>1
<1>6. ASSUME NEW i \in 2..K PROVE f[i] = f[i - 1] \o s[i]
  <2>1. i - 1 \in 1..K - 1 /\ (i - 1) - 1 \in 0..K - 1 /\ (i - 1) + 1 = i /\ i - 1 \in 1..K /\ i \in 1..K
    OBVIOUS
  <2>2. g[(i - 1) - 1] \in S
    BY <1>4, <2>1 DEF Unrolls
  <2>3. g[i - 1] = g[(i - 1) - 1] \o s[i]
    BY <1>3, <1>4, <2>1, <2>2 DEF Unrolls
  <2>4. f[i] = g[i - 1] /\ f[i - 1] = g[(i - 1) - 1]
    BY <2>1
  <2> QED  BY <2>3, <2>4
<1> HIDE DEF f
<1>9. Len(s) = K /\ K # 0 /\ DOMAIN s = 1..K
  <2>1. s \in Seq(Seq(T)) /\ Len(s) = K
    OBVIOUS
  <2> QED  BY <2>1
<1>7. Joins(f)
  <2>1. \A i \in 1..K : f[i] = IF i = 1 THEN s[i] ELSE f[i - 1] \o s[i]
    <3>1. \A i \in 1..K : i = 1 \/ i \in 2..K
      OBVIOUS
    <3> QED  BY <1>5, <1>6, <3>1
  <2> QED  BY <1>5, <1>9, <2>1
<1>8. Joins(flat)
  <2> HIDE DEF Joins
  <2> QED  BY <1>7
<1>10. FlattenSeq(s) = flat[K]
  BY <1>9 DEF FlattenSeq
<1> HIDE DEF flat
<1>81. /\ flat[1] = s[1]
       /\ \A i \in 2..K : flat[i] = flat[i - 1] \o s[i]
  <2>1. \A i \in 1..K : flat[i] = IF i = 1 THEN s[i] ELSE flat[i - 1] \o s[i]
    BY <1>8, <1>9
  <2>2. 1 \in 1..K /\ \A i \in 2..K : i \in 1..K /\ i # 1
    OBVIOUS
  <2> QED  BY <2>1, <2>2
<1>11. \A i \in 1..K : flat[i] = f[i]
  <2> DEFINE A == {n \in Nat : n < K => flat[n + 1] = f[n + 1]}
  <2>1. 0 \in A
    BY <1>5, <1>81
  <2>2. ASSUME NEW n \in A PROVE n + 1 \in A
    <3> SUFFICES ASSUME n + 1 < K PROVE flat[(n + 1) + 1] = f[(n + 1) + 1]
      OBVIOUS
    <3>1. n \in Nat /\ n < K
      OBVIOUS
    <3>2. flat[n + 1] = f[n + 1]
      BY <3>1
    <3> DEFINE p == n + 1
               q == (n + 1) + 1
    <3>3. q \in 2..K /\ q - 1 = p
      BY <3>1
    <3> HIDE DEF A, p, q
    <3>4. flat[q] = f[q]
      <4>1. flat[q] = flat[p] \o s[q] /\ f[q] = f[p] \o s[q]
        BY <1>6, <1>81, <3>3
      <4> QED  BY <3>2, <4>1 DEF p
    <3> QED  BY <3>4 DEF q
  <2>3. A \subseteq Nat
    OBVIOUS
  <2> HIDE DEF A
  <2>4. \A n \in Nat : n \in A
    BY <2>1, <2>2, <2>3, Induct
  <2>5. ASSUME NEW i \in 1..K PROVE flat[i] = f[i]
    <3>1. i - 1 \in Nat /\ i - 1 < K /\ (i - 1) + 1 = i
      OBVIOUS
    <3>2. i - 1 \in A
      BY <2>4, <3>1
    <3> QED  BY <3>1, <3>2 DEF A
  <2> QED  BY <2>5
<1>12. FlattenSeq(s) = f[K]
  BY <1>10, <1>11
<1>13. FlattensAs(f, s, K, S)
  BY <1>5, <1>6, <1>12 DEF FlattensAs
<1> QED  BY <1>13 DEF S

(* FlattenSeq places every list, and nothing else.                         *)
LEMMA FlattenPlaces ==
  ASSUME NEW K \in Nat \ {0}, NEW T, NEW s \in [1..K -> Seq(T)]
  PROVE  FlattenSeq(s) \in Seq(T) /\ \E start : Flattened(FlattenSeq(s), s, K, start)
<1>01. PICK f : FlattensAs(f, s, K, Seq(T))
  BY FlattenSteps
<1>1. /\ f \in [1..K -> Seq(T)] /\ f[1] = s[1] /\ FlattenSeq(s) = f[K]
      /\ \A n \in 2..K : f[n] = f[n - 1] \o s[n]
  BY <1>01 DEF FlattensAs
<1> DEFINE start == [n \in 0..K |-> IF n = 0 THEN 0 ELSE Len(f[n])]
           Holds(m) == /\ \A n \in 1..m : \A k \in 1..Len(s[n]) :
                            start[n - 1] + k \in 1..start[m] /\ f[m][start[n - 1] + k] = s[n][k]
                       /\ \A i \in 1..start[m] : \E n \in 1..m : \E k \in 1..Len(s[n]) : i = start[n - 1] + k
           A == {m \in Nat : m < K => Holds(m + 1)}
<1>2. \A n \in 1..K : f[n] \in Seq(T) /\ s[n] \in Seq(T) /\ Len(f[n]) \in Nat /\ Len(s[n]) \in Nat
  BY <1>1
<1>3. start \in [0..K -> Nat] /\ start[0] = 0 /\ \A n \in 1..K : start[n] = Len(f[n])
  BY <1>2
<1> HIDE DEF start
<1>4. ASSUME NEW n \in 1..K PROVE start[n] = start[n - 1] + Len(s[n])
  <2>1. CASE n = 1
    <3>1. start[n] = Len(s[n]) /\ start[n - 1] = 0 /\ Len(s[n]) \in Nat
      BY <1>1, <1>2, <1>3, <2>1
    <3> DEFINE L == Len(s[n])
    <3> HIDE DEF L
    <3>2. L \in Nat /\ start[n] = L /\ start[n - 1] = 0
      BY <3>1 DEF L
    <3>3. start[n] = start[n - 1] + L
      BY <3>2
    <3> QED  BY <3>3 DEF L
  <2>2. CASE n # 1
    <3>1. n \in 2..K /\ n - 1 \in 1..K
      BY <2>2
    <3>2. f[n] = f[n - 1] \o s[n] /\ f[n - 1] \in Seq(T) /\ s[n] \in Seq(T)
      BY <1>1, <1>2, <3>1
    <3>3. Len(f[n]) = Len(f[n - 1]) + Len(s[n])
      BY <3>2
    <3> QED  BY <1>3, <3>1, <3>3
  <2> QED  BY <2>1, <2>2
<1>5. 0 \in A
  <2>1. start[1] = Len(s[1]) /\ start[0] = 0 /\ 1 \in 1..K
    BY <1>1, <1>3
  <2>2. Holds(1)
    <3>1. ASSUME NEW n \in 1..1, NEW k \in 1..Len(s[n])
          PROVE  start[n - 1] + k \in 1..start[1] /\ f[1][start[n - 1] + k] = s[n][k]
      <4>1. n = 1 /\ start[n - 1] + k = k
        BY <2>1, <1>2
      <4> QED  BY <1>1, <2>1, <4>1
    <3>2. ASSUME NEW i \in 1..start[1] PROVE \E n \in 1..1 : \E k \in 1..Len(s[n]) : i = start[n - 1] + k
      <4>1. i \in 1..Len(s[1]) /\ i = start[1 - 1] + i
        BY <2>1, <1>2
      <4> QED  BY <4>1
    <3> QED  BY <3>1, <3>2
  <2> HIDE DEF Holds
  <2> QED  BY <2>2
<1>6. ASSUME NEW m \in A PROVE m + 1 \in A
  <2> SUFFICES ASSUME m + 1 < K PROVE Holds((m + 1) + 1)
    OBVIOUS
  <2> DEFINE p == m + 1
             q == (m + 1) + 1
  <2>01. m \in Nat /\ m < K
    OBVIOUS
  <2>02. Holds(p)
    <3> HIDE DEF Holds
    <3> QED  BY <2>01
  <2>03. p \in 1..K /\ q \in 2..K /\ q - 1 = p /\ q \in 1..K /\ p \in Nat
    BY <2>01
  <2>1. Holds(p) /\ p \in 1..K /\ q \in 2..K /\ q - 1 = p /\ q \in 1..K /\ p \in Nat
    BY <2>02, <2>03
  <2>2. q = p + 1
    OBVIOUS
  <2> HIDE DEF p, q
  <2>3. f[q] = f[p] \o s[q] /\ f[p] \in Seq(T) /\ s[q] \in Seq(T)
    BY <1>1, <1>2, <2>1
  <2> DEFINE x == f[p]
             y == s[q]
             z == f[q]
  <2>31. x \in Seq(T) /\ y \in Seq(T) /\ z = x \o y
    BY <2>3
  <2> HIDE DEF x, y, z
  <2>32. /\ \A i \in 1..Len(x) : z[i] = x[i]
         /\ \A k \in 1..Len(y) : z[Len(x) + k] = y[k]
    BY ONLY <2>31, Concat
  <2>4. start[q] = start[p] + Len(s[q]) /\ start[p] = Len(f[p]) /\ Len(s[q]) \in Nat /\ start[p] \in Nat
    BY <1>2, <1>3, <1>4, <2>1
  <2> DEFINE L == Len(s[q])
             u == start[p]
             v == start[q]
  <2>41. L \in Nat /\ u \in Nat /\ v = u + L
    BY <2>4
  <2> HIDE DEF L, u, v
  <2>42. L \in Nat /\ u \in Nat /\ v \in Nat /\ v = u + L
    BY <2>41
  <2>5. ASSUME NEW n \in 1..q, NEW k \in 1..Len(s[n])
        PROVE  start[n - 1] + k \in 1..start[q] /\ f[q][start[n - 1] + k] = s[n][k]
    <3>1. CASE n = q
      <4>1. start[n - 1] = start[p] /\ k \in 1..Len(s[q])
        BY <2>1, <3>1
      <4>2. start[p] + k \in 1..start[q]
        <5>1. k \in 1..L
          BY <4>1 DEF L
        <5>2. u + k \in 1..v
          BY <2>42, <5>1
        <5> QED  BY <5>2 DEF u, v
      <4>3. f[q][Len(f[p]) + k] = s[q][k]
        BY <2>32, <4>1 DEF x, y, z
      <4> QED  BY <2>4, <3>1, <4>1, <4>2, <4>3
    <3>2. CASE n # q
      <4>1. n \in 1..p
        BY <2>1, <2>2, <3>2
      <4>2. start[n - 1] + k \in 1..start[p] /\ f[p][start[n - 1] + k] = s[n][k]
        BY <2>1, <4>1
      <4> DEFINE i == start[n - 1] + k
      <4>3. i \in 1..Len(f[p]) /\ f[p][i] = s[n][k]
        BY <2>4, <4>2
      <4> HIDE DEF i
      <4>4. f[q][i] = f[p][i]
        BY <2>32, <4>3 DEF x, z
      <4>5. i \in 1..v
        <5>1. i \in 1..u
          BY <2>4, <4>3 DEF u
        <5> QED  BY <2>42, <5>1
      <4> QED  BY <4>3, <4>4, <4>5 DEF i, v
    <3> QED  BY <3>1, <3>2
  <2>6. ASSUME NEW i \in 1..start[q] PROVE \E n \in 1..q : \E k \in 1..Len(s[n]) : i = start[n - 1] + k
    <3>1. CASE i <= start[p]
      <4>1. i \in 1..start[p]
        BY <2>4, <3>1
      <4>2. PICK n \in 1..p : \E k \in 1..Len(s[n]) : i = start[n - 1] + k
        BY <2>1, <4>1
      <4>3. n \in 1..q
        BY <2>1, <2>2
      <4> QED  BY <4>2, <4>3
    <3>2. CASE i > start[p]
      <4>1. i - start[p] \in 1..Len(s[q]) /\ i = start[p] + (i - start[p])
        <5>1. i \in 1..v /\ i > u
          BY <3>2 DEF u, v
        <5>2. i - u \in 1..L /\ i = u + (i - u)
          BY <2>42, <5>1
        <5> QED  BY <5>2 DEF u, L
      <4>2. q \in 1..q /\ start[q - 1] = start[p]
        BY <2>1
      <4> QED  BY <4>1, <4>2
    <3> QED  BY <2>4, <3>1, <3>2
  <2>7. Holds(q)
    BY <2>5, <2>6
  <2> QED  BY <2>7 DEF q
<1>7. A \subseteq Nat /\ K - 1 \in Nat /\ K - 1 < K /\ (K - 1) + 1 = K /\ K \in 1..K
  OBVIOUS
<1> HIDE DEF A
<1>8. K - 1 \in A
  BY <1>5, <1>6, <1>7, Induct
<1>9. Holds(K)
  <2> HIDE DEF Holds
  <2> QED  BY <1>7, <1>8 DEF A
<1>10. start[K] = Len(f[K]) /\ f[K] \in Seq(T) /\ FlattenSeq(s) = f[K]
  BY <1>1, <1>2, <1>3, <1>7
<1>11. Flattened(f[K], s, K, start)
  <2>1. \A n \in 1..K : start[n] = start[n - 1] + Len(s[n])
    BY <1>4
  <2> QED  BY <1>3, <1>9, <1>10, <2>1 DEF Flattened
<1> QED  BY <1>10, <1>11

-----------------------------------------------------------------------------
(* The value a view is of.                                                 *)
viewed(o, i) == CHOOSE s \in o[i].reads : TRUE

(* What isWellFormed says of each operation.                               *)
LEMMA OfAWellFormedBlock ==
  ASSUME NEW o, definesOnce(o)
  PROVE  /\ o \in Seq(BlockOperation) /\ Len(o) \in Nat /\ DOMAIN o = 1..Len(o)
         /\ \A i \in DOMAIN o : o[i] \in BlockOperation /\ i \in Nat /\ IsFiniteSet(o[i].reads)
         /\ \A i, j \in DOMAIN o : o[i].def = o[j].def /\ o[i].def # NoValue => i = j
         /\ \A i \in DOMAIN o : o[i].kind \in {"alloc", "view"} => o[i].def # NoValue
<1>1. o \in Seq(BlockOperation)
  BY DEF definesOnce
<1>2. Len(o) \in Nat /\ DOMAIN o = 1..Len(o) /\ \A i \in DOMAIN o : o[i] \in BlockOperation /\ i \in Nat
  BY <1>1
<1> QED  BY <1>1, <1>2 DEF definesOnce

LEMMA FormedOnce ==
  ASSUME NEW o, isWellFormed(o)
  PROVE  definesOnce(o)
BY DEF isWellFormed

(* A view is of one value, whose definition is above it.                   *)
LEMMA OfAView ==
  ASSUME NEW o, isWellFormed(o), NEW i \in DOMAIN o, o[i].kind = "view"
  PROVE  /\ viewed(o, i) \in Nat /\ viewed(o, i) # NoValue /\ o[i].reads = {viewed(o, i)}
         /\ \A j \in DOMAIN o : o[j].def = viewed(o, i) => j < i
<1>1. PICK v \in o[i].reads \ {NoValue} : o[i].reads = {v} /\ \A j \in DOMAIN o : o[j].def = v => j < i
  BY DEF isWellFormed
<1>2. viewed(o, i) = v
  BY <1>1 DEF viewed
<1>3. v \in Nat
  BY FormedOnce, OfAWellFormedBlock DEF BlockOperation
<1> QED  BY <1>1, <1>2, <1>3

(* Views can be walked back: a view ranks above the value it is of.        *)
isRanked(o, limit, rank) ==
  /\ rank \in [Nat -> 0..limit]
  /\ \A i \in DOMAIN o : o[i].kind = "view" =>
       \E v \in o[i].reads \ {NoValue} : o[i].reads = {v} /\ rank[v] < rank[o[i].def]

LEMMA OfARankedView ==
  ASSUME NEW o, definesOnce(o), NEW limit \in Nat, NEW rank, isRanked(o, limit, rank),
         NEW i \in DOMAIN o, o[i].kind = "view"
  PROVE  /\ viewed(o, i) \in Nat /\ viewed(o, i) # NoValue /\ o[i].reads = {viewed(o, i)}
         /\ rank[viewed(o, i)] < rank[o[i].def]
         /\ definitionOf(o, o[i].def) = i /\ o[i].def \in Nat /\ o[i].def \in viewsOf(o)
<1>1. PICK v \in o[i].reads \ {NoValue} : o[i].reads = {v} /\ rank[v] < rank[o[i].def]
  BY DEF isRanked
<1>2. viewed(o, i) = v
  BY <1>1 DEF viewed
<1>3. v \in Nat /\ o[i].def \in Nat
  BY OfAWellFormedBlock DEF BlockOperation
<1>4. definitionOf(o, o[i].def) = i
  <2>1. \A j \in DOMAIN o : o[j].def = o[i].def => j = i
    BY OfAWellFormedBlock
  <2> QED  BY <2>1 DEF definitionOf
<1> QED  BY <1>1, <1>2, <1>3, <1>4 DEF viewsOf

(* In a well formed block the places of the definitions rank them.         *)
LEMMA FormedIsRanked ==
  ASSUME NEW o, isWellFormed(o)
  PROVE  Len(o) \in Nat /\ \E rank : isRanked(o, Len(o), rank)
<1> DEFINE K == Len(o)
           rank == [v \in Nat |-> IF \E i \in DOMAIN o : o[i].def = v /\ v # NoValue
                                    THEN CHOOSE i \in DOMAIN o : o[i].def = v ELSE 0]
<1>1. K \in Nat /\ DOMAIN o = 1..K
  BY FormedOnce, OfAWellFormedBlock
<1>2. ASSUME NEW v \in Nat, NEW i \in DOMAIN o, o[i].def = v, v # NoValue PROVE rank[v] = i
  <2>1. \A j \in DOMAIN o : o[j].def = v => j = i
    BY <1>2, FormedOnce, OfAWellFormedBlock
  <2> QED  BY <1>2, <2>1
<1>3. ASSUME NEW v \in Nat, ~\E i \in DOMAIN o : o[i].def = v /\ v # NoValue PROVE rank[v] = 0
  BY <1>3
<1>4. rank \in [Nat -> 0..K]
  <2>1. \A v \in Nat : rank[v] \in 0..K
    <3> HIDE DEF K, rank
    <3>1. \A i \in DOMAIN o : i \in 0..K
      BY <1>1
    <3>2. 0 \in 0..K
      BY <1>1
    <3> QED  BY <1>2, <1>3, <3>1, <3>2
  <2>2. rank = [v \in Nat |-> rank[v]]
    OBVIOUS
  <2> HIDE DEF rank
  <2> QED  BY <2>1, <2>2
<1> HIDE DEF rank
<1>5. ASSUME NEW i \in DOMAIN o, o[i].kind = "view"
      PROVE  \E v \in o[i].reads \ {NoValue} : o[i].reads = {v} /\ rank[v] < rank[o[i].def]
  <2> DEFINE v == viewed(o, i)
             d == o[i].def
  <2>1. v \in Nat /\ v # NoValue /\ o[i].reads = {v} /\ \A j \in DOMAIN o : o[j].def = v => j < i
    BY <1>5, OfAView
  <2>2. d \in Nat /\ d # NoValue
    BY <1>5, FormedOnce, OfAWellFormedBlock DEF BlockOperation
  <2>3. rank[d] = i
    BY <1>2, <2>2
  <2> HIDE DEF v, d
  <2>4. rank[v] < i
    <3>1. CASE \E j \in DOMAIN o : o[j].def = v
      BY <1>2, <2>1, <3>1
    <3>2. CASE ~\E j \in DOMAIN o : o[j].def = v
      <4>1. rank[v] = 0
        BY <1>3, <2>1, <3>2
      <4> QED  BY <1>1, <4>1
    <3> QED  BY <3>1, <3>2
  <2> QED  BY <2>1, <2>3, <2>4 DEF d
<1> QED  BY <1>1, <1>4, <1>5 DEF isRanked

(* The recursive function of rootOf exists.                                *)
LEMMA RootsExist ==
  ASSUME NEW o, definesOnce(o), NEW limit \in Nat, NEW rank, isRanked(o, limit, rank)
  PROVE  \A v \in Nat : rootOf(o)[v] = IF v \in viewsOf(o)
                                         THEN rootOf(o)[CHOOSE s \in o[definitionOf(o, v)].reads : TRUE]
                                         ELSE v
<1> DEFINE Source(v) == CHOOSE s \in o[definitionOf(o, v)].reads : TRUE
           Is(r) == r = [v \in Nat |-> IF v \in viewsOf(o) THEN r[Source(v)] ELSE v]
           Step(r, v) == r[v] = IF v \in viewsOf(o) THEN r[Source(v)] ELSE v
           A == {n \in Nat : \E r \in [Nat -> Nat] : \A v \in Nat : rank[v] <= n => Step(r, v)}
<1>1. rootOf(o) = CHOOSE r : Is(r)
  BY DEF rootOf
<1>2. SUFFICES \E r : Is(r)
  <2> HIDE DEF Is
  <2>1. Is(rootOf(o))
    BY <1>1, <1>2
  <2> DEFINE R == rootOf(o)
  <2>2. Is(R)
    BY <2>1
  <2> HIDE DEF R, Source
  <2>3. \A v \in Nat : R[v] = IF v \in viewsOf(o) THEN R[Source(v)] ELSE v
    BY <2>2 DEF Is
  <2> QED  BY <2>3 DEF R, Source
<1>3. \A v \in Nat : rank[v] \in 0..limit
  BY DEF isRanked
<1>4. \A v \in viewsOf(o) : v \in Nat /\ Source(v) \in Nat /\ rank[Source(v)] < rank[v]
  <2>1. ASSUME NEW v \in viewsOf(o) PROVE v \in Nat /\ Source(v) \in Nat /\ rank[Source(v)] < rank[v]
    <3>1. PICK i \in DOMAIN o : o[i].kind = "view" /\ o[i].def = v
      BY DEF viewsOf
    <3>2. definitionOf(o, v) = i /\ viewed(o, i) = Source(v)
      BY <3>1, OfARankedView DEF viewed
    <3> QED  BY <3>1, <3>2, OfARankedView
  <2> QED  BY <2>1
<1> HIDE DEF Source
<1>5. 0 \in A
  <2> DEFINE r == [v \in Nat |-> v]
  <2>1. ASSUME NEW v \in Nat, rank[v] <= 0 PROVE v \notin viewsOf(o)
    <3>1. ASSUME v \in viewsOf(o) PROVE FALSE
      <4>1. Source(v) \in Nat /\ rank[Source(v)] < rank[v]
        BY <1>4, <3>1
      <4> QED  BY <1>3, <2>1, <4>1
    <3> QED  BY <3>1
  <2>2. r \in [Nat -> Nat]
    OBVIOUS
  <2>3. \A v \in Nat : rank[v] <= 0 => Step(r, v)
    BY <2>1
  <2> HIDE DEF r, Step
  <2> QED  BY <2>2, <2>3
<1>6. ASSUME NEW n \in A PROVE n + 1 \in A
  <2>1. n \in Nat
    OBVIOUS
  <2>2. PICK r \in [Nat -> Nat] : \A v \in Nat : rank[v] <= n => Step(r, v)
    OBVIOUS
  <2> DEFINE t == [v \in Nat |-> IF v \in viewsOf(o) THEN r[Source(v)] ELSE v]
  <2>3. t \in [Nat -> Nat]
    BY <1>4
  <2>4. \A v \in Nat : t[v] = IF v \in viewsOf(o) THEN r[Source(v)] ELSE v
    OBVIOUS
  <2>5. \A v \in Nat : rank[v] <= n => t[v] = r[v]
    BY <2>2, <2>4
  <2> HIDE DEF t
  <2>6. ASSUME NEW v \in Nat, rank[v] <= n + 1 PROVE Step(t, v)
    <3>1. CASE v \in viewsOf(o)
      <4>1. Source(v) \in Nat /\ rank[Source(v)] < rank[v]
        BY <1>4, <3>1
      <4>2. rank[Source(v)] <= n
        <5>1. rank[Source(v)] \in Int /\ rank[v] \in Int
          BY <1>3, <4>1
        <5> QED  BY <2>1, <2>6, <4>1, <5>1
      <4> QED  BY <2>4, <2>5, <3>1, <4>1, <4>2
    <3>2. CASE v \notin viewsOf(o)
      BY <2>4, <3>2
    <3> QED  BY <3>1, <3>2
  <2>7. n + 1 \in Nat
    BY <2>1
  <2> QED  BY <2>3, <2>6, <2>7
<1>7. A \subseteq Nat
  OBVIOUS
<1>8. limit \in A
  <2> HIDE DEF A
  <2> QED  BY <1>5, <1>6, <1>7, Induct
<1>9. PICK r \in [Nat -> Nat] : \A v \in Nat : rank[v] <= limit => Step(r, v)
  <2> HIDE DEF Step
  <2> QED  BY <1>8
<1>10. \A v \in Nat : Step(r, v)
  <2>1. \A v \in Nat : rank[v] <= limit
    BY <1>3
  <2> QED  BY <1>9, <2>1
<1>11. Is(r)
  BY <1>9, <1>10
<1> QED  BY <1>11

(* One step of the walk: a view has the root of the value it is of.        *)
LEMMA RankedRootStep ==
  ASSUME NEW o, definesOnce(o), NEW limit \in Nat, NEW rank, isRanked(o, limit, rank)
  PROVE  /\ \A i \in DOMAIN o : o[i].kind = "view" => rootOf(o)[o[i].def] = rootOf(o)[viewed(o, i)]
         /\ \A v \in Nat : v \notin viewsOf(o) => rootOf(o)[v] = v
<1>1. ASSUME NEW i \in DOMAIN o, o[i].kind = "view" PROVE rootOf(o)[o[i].def] = rootOf(o)[viewed(o, i)]
  <2>1. o[i].def \in viewsOf(o) /\ definitionOf(o, o[i].def) = i /\ o[i].def \in Nat
    BY <1>1, OfARankedView
  <2> QED  BY <2>1, RootsExist DEF viewed
<1> QED  BY <1>1, RootsExist

LEMMA RootStep ==
  ASSUME NEW o, isWellFormed(o)
  PROVE  /\ \A i \in DOMAIN o : o[i].kind = "view" => rootOf(o)[o[i].def] = rootOf(o)[viewed(o, i)]
         /\ \A v \in Nat : v \notin viewsOf(o) => rootOf(o)[v] = v
BY FormedOnce, FormedIsRanked, RankedRootStep

-----------------------------------------------------------------------------
(* The operations a spill adds: a DRAM slot, the store to it, and for a    *)
(* later reader i a buffer and the load that fills it; i reads that buffer *)
(* instead.                                                                *)
slotOp(fresh) == Operation("slot", 0, fresh, {}, NoValue)
storeOp(b, fresh) == Operation("dma_store", 0, NoValue, {b}, fresh)
allocOp(fresh, i) == Operation("alloc", 0, fresh + i, {}, NoValue)
loadOp(fresh, i) == Operation("dma_load", 0, NoValue, {fresh}, fresh + i)
reloaded(o, b, fresh, i) == [o[i] EXCEPT !.reads = (@ \ {b}) \cup {fresh + i}]

(* Every value of the block is below the first fresh one.                  *)
Above(fresh, o) ==
  /\ fresh \in Nat
  /\ \A i \in DOMAIN o : o[i].def < fresh /\ o[i].write < fresh /\ \A v \in o[i].reads : v < fresh

(* Operation j of the new block is one a spill added, next to the          *)
(* operation it was added for.                                             *)
Added(o, n, b, later, store, fresh, kept, j) ==
  \/ \E i \in later : j = kept[i] - 2 /\ n[j] = allocOp(fresh, i)
  \/ \E i \in later : j = kept[i] - 1 /\ n[j] = loadOp(fresh, i)
  \/ store \in DOMAIN o /\ j = kept[store] + 1 /\ n[j] = slotOp(fresh)
  \/ store \in DOMAIN o /\ j = kept[store] + 2 /\ n[j] = storeOp(b, fresh)

(* n is o with buffer b spilled: what was at i is at kept[i], in the same  *)
(* order, and everything else is added.                                    *)
Shape(o, n, b, later, store, fresh, kept) ==
  /\ b \in Nat \ {NoValue} /\ b < fresh /\ later \subseteq readersOf(o, b)
  /\ Above(fresh, o)
  /\ n \in Seq(BlockOperation)
  /\ kept \in [DOMAIN o -> DOMAIN n]
  /\ \A i, j \in DOMAIN o : i < j => kept[i] < kept[j]
  /\ \A i \in DOMAIN o : n[kept[i]] = IF i \in later THEN reloaded(o, b, fresh, i) ELSE o[i]
  /\ \A i \in later : kept[i] - 2 \in DOMAIN n /\ n[kept[i] - 2] = allocOp(fresh, i)
  /\ \A j \in DOMAIN n : Added(o, n, b, later, store, fresh, kept, j) \/ \E i \in DOMAIN o : j = kept[i]

(* What was there keeps its order.                                         *)
LEMMA KeptPlaces ==
  ASSUME NEW o, definesOnce(o), NEW n, NEW b, NEW later, NEW store, NEW fresh, NEW kept,
         Shape(o, n, b, later, store, fresh, kept)
  PROVE  /\ DOMAIN n = 1..Len(n) /\ Len(n) \in Nat
         /\ \A i \in DOMAIN o : kept[i] \in DOMAIN n /\ kept[i] \in Nat
         /\ \A i, j \in DOMAIN o : kept[i] = kept[j] => i = j
         /\ \A i, j \in DOMAIN o : kept[i] < kept[j] <=> i < j
<1>1. DOMAIN n = 1..Len(n) /\ Len(n) \in Nat
  <2>1. n \in Seq(BlockOperation)
    BY DEF Shape
  <2> HIDE DEF BlockOperation
  <2> QED  BY <2>1
<1>2. \A i \in DOMAIN o : kept[i] \in DOMAIN n /\ kept[i] \in Nat /\ i \in Nat
  BY <1>1, OfAWellFormedBlock DEF Shape
<1>3. ASSUME NEW i \in DOMAIN o, NEW j \in DOMAIN o PROVE (kept[i] = kept[j] => i = j) /\ (kept[i] < kept[j] <=> i < j)
  <2>1. (i < j => kept[i] < kept[j]) /\ (j < i => kept[j] < kept[i])
    BY DEF Shape
  <2>2. kept[i] \in Nat /\ kept[j] \in Nat /\ i \in Nat /\ j \in Nat
    BY <1>2
  <2> QED  BY <2>1, <2>2
<1> QED  BY <1>1, <1>2, <1>3

(* x is operation i of o as a spill leaves it.                             *)
IsKept(x, o, i, b, later, fresh) ==
  /\ x.kind = o[i].kind /\ x.def = o[i].def /\ x.write = o[i].write
  /\ x.reads = IF i \in later THEN (o[i].reads \ {b}) \cup {fresh + i} ELSE o[i].reads
  /\ o[i].def \in Nat /\ o[i].write \in Nat /\ o[i].reads \subseteq Nat
  /\ o[i].def < fresh /\ o[i].write < fresh /\ \A v \in o[i].reads : v < fresh
  /\ fresh \in Nat /\ i \in Nat /\ 1 <= i

(* An instruction that was there is still there; only a later reader of    *)
(* the spilled buffer reads something else.                                *)
LEMMA KeptOperations ==
  ASSUME NEW o, definesOnce(o), NEW n, NEW b, NEW later, NEW store, NEW fresh, NEW kept,
         Shape(o, n, b, later, store, fresh, kept), NEW i \in DOMAIN o
  PROVE  IsKept(n[kept[i]], o, i, b, later, fresh)
<1>1. o[i] \in BlockOperation /\ i \in Nat /\ 1 <= i
  BY OfAWellFormedBlock
<1>2. n[kept[i]] = IF i \in later THEN reloaded(o, b, fresh, i) ELSE o[i]
  BY DEF Shape
<1>3. fresh \in Nat /\ o[i].def < fresh /\ o[i].write < fresh /\ \A v \in o[i].reads : v < fresh
  BY DEF Shape, Above
<1>4. /\ n[kept[i]].kind = o[i].kind /\ n[kept[i]].def = o[i].def /\ n[kept[i]].write = o[i].write
      /\ n[kept[i]].reads = IF i \in later THEN (o[i].reads \ {b}) \cup {fresh + i} ELSE o[i].reads
  BY <1>1, <1>2 DEF reloaded, BlockOperation
<1> QED  BY <1>1, <1>3, <1>4 DEF BlockOperation, IsKept

(* The operations a spill adds, field by field.                            *)
IsAlloc(x, v) == x.kind = "alloc" /\ x.def = v /\ x.reads = {} /\ x.write = NoValue
IsLoad(x, s, v) == x.kind = "dma_load" /\ x.def = NoValue /\ x.reads = {s} /\ x.write = v
IsSlot(x, v) == x.kind = "slot" /\ x.def = v /\ x.reads = {} /\ x.write = NoValue
IsStore(x, b, v) == x.kind = "dma_store" /\ x.def = NoValue /\ x.reads = {b} /\ x.write = v

(* Every operation of the new block was there or was added.                *)
LEMMA NewOperations ==
  ASSUME NEW o, definesOnce(o), NEW n, NEW b, NEW later, NEW store, NEW fresh, NEW kept,
         Shape(o, n, b, later, store, fresh, kept), NEW j \in DOMAIN n
  PROVE  \/ \E i \in DOMAIN o : j = kept[i]
         \/ \E i \in later : j = kept[i] - 2 /\ IsAlloc(n[j], fresh + i)
         \/ \E i \in later : IsLoad(n[j], fresh, fresh + i)
         \/ j = kept[store] + 1 /\ IsSlot(n[j], fresh)
         \/ IsStore(n[j], b, fresh)
<1>1. Added(o, n, b, later, store, fresh, kept, j) \/ \E i \in DOMAIN o : j = kept[i]
  BY DEF Shape
<1> QED  BY <1>1 DEF Added, allocOp, loadOp, slotOp, storeOp, IsAlloc, IsLoad, IsSlot, IsStore, Operation

(* A later reader gets a fresh buffer, allocated above it.                 *)
LEMMA LaterOnes ==
  ASSUME NEW o, definesOnce(o), NEW n, NEW b, NEW later, NEW store, NEW fresh, NEW kept,
         Shape(o, n, b, later, store, fresh, kept), NEW i \in later
  PROVE  /\ i \in DOMAIN o /\ b \in o[i].reads /\ i \in Nat /\ 1 <= i
         /\ fresh + i \in Nat /\ fresh + i # NoValue /\ fresh < fresh + i
         /\ kept[i] - 2 \in DOMAIN n /\ kept[i] - 2 < kept[i] /\ IsAlloc(n[kept[i] - 2], fresh + i)
         /\ b \in Nat /\ b # NoValue /\ b < fresh /\ fresh \in Nat
<1>1. i \in DOMAIN o /\ b \in o[i].reads
  BY DEF Shape, readersOf
<1>2. i \in Nat /\ 1 <= i
  BY <1>1, OfAWellFormedBlock
<1>3. b \in Nat /\ b # NoValue /\ b < fresh /\ fresh \in Nat
  BY DEF Shape, Above
<1>4. fresh + i \in Nat /\ fresh + i # NoValue /\ fresh < fresh + i
  BY <1>2, <1>3 DEF NoValue
<1>5. kept[i] - 2 \in DOMAIN n /\ n[kept[i] - 2] = allocOp(fresh, i)
  BY DEF Shape
<1>6. kept[i] - 2 < kept[i]
  BY <1>1, KeptPlaces
<1> QED  BY <1>1, <1>2, <1>3, <1>4, <1>5, <1>6 DEF allocOp, IsAlloc, Operation

(* The block after a spill is in single assignment form again.             *)
LEMMA SpillDefinesOnce ==
  ASSUME NEW o, definesOnce(o), NEW n, NEW b, NEW later, NEW store, NEW fresh, NEW kept,
         Shape(o, n, b, later, store, fresh, kept)
  PROVE  definesOnce(n)
<1>0. /\ b \in Nat /\ b # NoValue /\ b < fresh /\ fresh \in Nat /\ n \in Seq(BlockOperation)
      /\ 0 < fresh /\ NoValue = 0
  BY DEF Shape, Above, NoValue
<1>01. \A i \in DOMAIN o : IsKept(n[kept[i]], o, i, b, later, fresh)
  BY KeptOperations
<1>1. ASSUME NEW j \in DOMAIN n, NEW k \in DOMAIN n, n[j].def = n[k].def, n[j].def # NoValue PROVE j = k
  <2>1. /\ \/ \E i \in DOMAIN o : j = kept[i]
           \/ \E i \in later : j = kept[i] - 2 /\ IsAlloc(n[j], fresh + i)
           \/ j = kept[store] + 1 /\ IsSlot(n[j], fresh)
        /\ \/ \E i \in DOMAIN o : k = kept[i]
           \/ \E i \in later : k = kept[i] - 2 /\ IsAlloc(n[k], fresh + i)
           \/ k = kept[store] + 1 /\ IsSlot(n[k], fresh)
    BY <1>1, NewOperations DEF IsLoad, IsStore
  <2>2. CASE \E i \in DOMAIN o : j = kept[i]
    <3>1. PICK i \in DOMAIN o : j = kept[i]
      BY <2>2
    <3>2. n[j].def = o[i].def /\ o[i].def < fresh /\ o[i].def \in Nat
      BY <3>1, <1>01 DEF IsKept
    <3>3. \A l \in later : n[k].def # fresh + l
      <4>1. ASSUME NEW l \in later PROVE n[k].def # fresh + l
        <5>1. fresh + l \in Nat /\ fresh < fresh + l
          BY LaterOnes
        <5> QED  BY <1>0, <1>1, <3>2, <5>1
      <4> QED  BY <4>1
    <3>4. n[k].def # fresh
      BY <1>0, <1>1, <3>2
    <3>5. PICK l \in DOMAIN o : k = kept[l]
      BY <2>1, <3>3, <3>4 DEF IsAlloc, IsSlot
    <3>6. n[k].def = o[l].def
      BY <3>5, <1>01 DEF IsKept
    <3>7. i = l
      BY <1>1, <3>2, <3>6, OfAWellFormedBlock
    <3> QED  BY <3>1, <3>5, <3>7
  <2>3. CASE \E i \in later : j = kept[i] - 2 /\ IsAlloc(n[j], fresh + i)
    <3>1. PICK i \in later : j = kept[i] - 2 /\ n[j].def = fresh + i
      BY <2>3 DEF IsAlloc
    <3>2. fresh + i \in Nat /\ fresh < fresh + i /\ i \in Nat
      BY LaterOnes
    <3>3. \A l \in DOMAIN o : k # kept[l]
      <4>1. ASSUME NEW l \in DOMAIN o, k = kept[l] PROVE FALSE
        <5>1. n[k].def < fresh /\ n[k].def \in Nat
          BY <4>1, <1>01 DEF IsKept
        <5> QED  BY <1>0, <1>1, <3>1, <3>2, <5>1
      <4> QED  BY <4>1
    <3>4. n[k].def # fresh
      BY <1>0, <1>1, <3>1, <3>2
    <3>5. PICK l \in later : k = kept[l] - 2 /\ n[k].def = fresh + l
      BY <2>1, <3>3, <3>4 DEF IsAlloc, IsSlot
    <3>6. l \in Nat
      BY LaterOnes
    <3>7. fresh + i = fresh + l
      BY <1>1, <3>1, <3>5
    <3>8. i = l
      BY <1>0, <3>2, <3>6, <3>7
    <3> QED  BY <3>1, <3>5, <3>8
  <2>4. CASE j = kept[store] + 1 /\ IsSlot(n[j], fresh)
    <3>1. n[j].def = fresh
      BY <2>4 DEF IsSlot
    <3>3. \A l \in DOMAIN o : k # kept[l]
      <4>1. ASSUME NEW l \in DOMAIN o, k = kept[l] PROVE FALSE
        <5>1. n[k].def < fresh /\ n[k].def \in Nat
          BY <4>1, <1>01 DEF IsKept
        <5> QED  BY <1>0, <1>1, <3>1, <5>1
      <4> QED  BY <4>1
    <3>4. \A l \in later : n[k].def # fresh + l
      <4>1. ASSUME NEW l \in later PROVE n[k].def # fresh + l
        <5>1. fresh + l \in Nat /\ fresh < fresh + l
          BY LaterOnes
        <5> QED  BY <1>0, <1>1, <3>1, <5>1
      <4> QED  BY <4>1
    <3> QED  BY <2>1, <2>4, <3>3, <3>4 DEF IsAlloc
  <2> QED  BY <2>1, <2>2, <2>3, <2>4
<1>2. ASSUME NEW j \in DOMAIN n PROVE IsFiniteSet(n[j].reads)
  <2>1. CASE \E i \in DOMAIN o : j = kept[i]
    <3>1. PICK i \in DOMAIN o : j = kept[i]
      BY <2>1
    <3>2. IsFiniteSet(o[i].reads)
      BY OfAWellFormedBlock
    <3>3. IsFiniteSet(o[i].reads \ {b}) /\ IsFiniteSet({fresh + i})
      BY <3>2, FS_Subset, FS_Singleton
    <3>4. IsFiniteSet((o[i].reads \ {b}) \cup {fresh + i})
      BY <3>3, FS_Union
    <3> QED  BY <3>1, <3>2, <3>4, <1>01 DEF IsKept
  <2>2. CASE ~\E i \in DOMAIN o : j = kept[i]
    <3>1. n[j].reads = {} \/ n[j].reads = {fresh} \/ n[j].reads = {b}
      BY <2>2, NewOperations DEF IsAlloc, IsLoad, IsSlot, IsStore
    <3> QED  BY <3>1, FS_EmptySet, FS_Singleton
  <2> QED  BY <2>1, <2>2
<1>3. ASSUME NEW j \in DOMAIN n, n[j].kind \in {"alloc", "view"} PROVE n[j].def # NoValue
  <2>1. \/ \E i \in DOMAIN o : j = kept[i]
        \/ \E i \in later : IsAlloc(n[j], fresh + i)
    BY <1>3, NewOperations DEF IsLoad, IsSlot, IsStore
  <2>2. ASSUME NEW i \in DOMAIN o, j = kept[i] PROVE n[j].def # NoValue
    <3>1. n[j].kind = o[i].kind /\ n[j].def = o[i].def
      BY <1>01, <2>2 DEF IsKept
    <3>2. o[i].def # NoValue
      BY <1>3, <3>1, OfAWellFormedBlock
    <3> QED  BY <3>1, <3>2
  <2>3. ASSUME NEW i \in later, IsAlloc(n[j], fresh + i) PROVE n[j].def # NoValue
    BY <2>3, LaterOnes DEF IsAlloc
  <2> QED  BY <2>1, <2>2, <2>3
<1> QED  BY <1>0, <1>1, <1>2, <1>3 DEF definesOnce

LEMMA SpillKeepsTheForm ==
  ASSUME NEW o, isWellFormed(o), NEW n, NEW b, NEW later, NEW store, NEW fresh, NEW kept,
         Shape(o, n, b, later, store, fresh, kept)
  PROVE  isWellFormed(n)
<1>0. /\ b \in Nat /\ b # NoValue /\ b < fresh /\ fresh \in Nat /\ n \in Seq(BlockOperation)
      /\ 0 < fresh /\ NoValue = 0
  BY DEF Shape, Above, NoValue
<1>00. definesOnce(o) /\ definesOnce(n)
  BY SpillDefinesOnce DEF isWellFormed
<1>01. \A i \in DOMAIN o : IsKept(n[kept[i]], o, i, b, later, fresh)
  BY <1>00, KeptOperations
<1>4. ASSUME NEW j \in DOMAIN n, n[j].kind = "view"
      PROVE  \E v \in n[j].reads \ {NoValue} : n[j].reads = {v} /\ \A k \in DOMAIN n : n[k].def = v => k < j
  <2>1. PICK i \in DOMAIN o : j = kept[i]
    BY <1>4, <1>00, NewOperations DEF IsAlloc, IsLoad, IsSlot, IsStore
  <2>2. o[i].kind = "view"
    BY <1>4, <2>1, <1>01 DEF IsKept
  <2> DEFINE s == viewed(o, i)
  <2>3. s \in Nat /\ s # NoValue /\ o[i].reads = {s} /\ \A k \in DOMAIN o : o[k].def = s => k < i
    BY <2>2, OfAView
  <2> HIDE DEF s
  <2>4. CASE i \in later
    <3>1. b \in o[i].reads
      BY <2>4, <1>00, LaterOnes
    <3>2. n[j].reads = {fresh + i}
      BY <2>1, <2>3, <2>4, <3>1, <1>01 DEF IsKept
    <3>3. fresh + i # NoValue /\ kept[i] - 2 \in DOMAIN n /\ kept[i] - 2 < kept[i] /\ n[kept[i] - 2].def = fresh + i
      BY <2>4, <1>00, LaterOnes DEF IsAlloc
    <3>4. ASSUME NEW k \in DOMAIN n, n[k].def = fresh + i PROVE k < j
      <4>1. k = kept[i] - 2
        BY <1>00, <3>3, <3>4, OfAWellFormedBlock
      <4> QED  BY <2>1, <3>3, <4>1
    <3> QED  BY <3>2, <3>3, <3>4
  <2>5. CASE i \notin later
    <3>1. n[j].reads = {s} /\ s < fresh
      BY <2>1, <2>3, <2>5, <1>01 DEF IsKept
    <3>2. ASSUME NEW k \in DOMAIN n, n[k].def = s PROVE k < j
      <4>1. \A l \in later : n[k].def # fresh + l
        <5>1. ASSUME NEW l \in later PROVE n[k].def # fresh + l
          <6>1. fresh + l \in Nat /\ fresh < fresh + l
            BY <1>00, LaterOnes
          <6> QED  BY <1>0, <2>3, <3>1, <3>2, <6>1
        <5> QED  BY <5>1
      <4>2. n[k].def # fresh /\ n[k].def # NoValue
        BY <1>0, <2>3, <3>1, <3>2
      <4>3. PICK l \in DOMAIN o : k = kept[l]
        BY <4>1, <4>2, <1>00, NewOperations DEF IsAlloc, IsLoad, IsSlot, IsStore
      <4>4. o[l].def = s
        BY <3>2, <4>3, <1>01 DEF IsKept
      <4> QED  BY <2>1, <2>3, <4>3, <4>4, <1>00, KeptPlaces
    <3> QED  BY <2>3, <3>1, <3>2
  <2> QED  BY <2>4, <2>5
<1> QED  BY <1>00, <1>4 DEF isWellFormed

(* A spill adds the fresh buffers and no view.                             *)
LEMMA SpilledBuffers ==
  ASSUME NEW o, definesOnce(o), NEW n, NEW b, NEW later, NEW store, NEW fresh, NEW kept,
         Shape(o, n, b, later, store, fresh, kept)
  PROVE  /\ buffersOf(n) = buffersOf(o) \cup {fresh + i : i \in later}
         /\ viewsOf(n) = viewsOf(o)
<1>01. \A i \in DOMAIN o : IsKept(n[kept[i]], o, i, b, later, fresh)
  BY KeptOperations
<1>02. \A i \in DOMAIN o : kept[i] \in DOMAIN n
  BY KeptPlaces
<1>1. ASSUME NEW v \in buffersOf(o) PROVE v \in buffersOf(n)
  <2>1. PICK i \in DOMAIN o : o[i].kind = "alloc" /\ o[i].def = v
    BY DEF buffersOf, allocs
  <2>2. n[kept[i]].kind = "alloc" /\ n[kept[i]].def = v /\ kept[i] \in DOMAIN n
    BY <1>01, <1>02, <2>1 DEF IsKept
  <2> QED  BY <2>2 DEF buffersOf, allocs
<1>2. ASSUME NEW i \in later PROVE fresh + i \in buffersOf(n)
  BY LaterOnes DEF buffersOf, allocs, IsAlloc
<1>3. ASSUME NEW v \in buffersOf(n) PROVE v \in buffersOf(o) \cup {fresh + i : i \in later}
  <2>1. PICK j \in DOMAIN n : n[j].kind = "alloc" /\ n[j].def = v
    BY DEF buffersOf, allocs
  <2>2. (\E i \in DOMAIN o : j = kept[i]) \/ (\E i \in later : IsAlloc(n[j], fresh + i))
    BY <2>1, NewOperations DEF IsLoad, IsSlot, IsStore
  <2>3. ASSUME NEW i \in DOMAIN o, j = kept[i] PROVE v \in buffersOf(o)
    <3>1. o[i].kind = "alloc" /\ o[i].def = v
      BY <1>01, <2>1, <2>3 DEF IsKept
    <3> QED  BY <3>1 DEF buffersOf, allocs
  <2> QED  BY <2>1, <2>2, <2>3 DEF IsAlloc
<1>4. ASSUME NEW v \in viewsOf(o) PROVE v \in viewsOf(n)
  BY <1>01, <1>02 DEF viewsOf, IsKept
<1>5. ASSUME NEW v \in viewsOf(n) PROVE v \in viewsOf(o)
  <2>1. PICK j \in DOMAIN n : n[j].kind = "view" /\ n[j].def = v
    BY DEF viewsOf
  <2>2. PICK i \in DOMAIN o : j = kept[i]
    BY <2>1, NewOperations DEF IsAlloc, IsLoad, IsSlot, IsStore
  <2>3. o[i].kind = "view" /\ o[i].def = v
    BY <1>01, <2>1, <2>2 DEF IsKept
  <2> QED  BY <2>3 DEF viewsOf
<1> QED  BY <1>1, <1>2, <1>3, <1>4, <1>5

(* Another value keeps its writers and its readers.                        *)
LEMMA SpilledUses ==
  ASSUME NEW o, definesOnce(o), NEW n, NEW b, NEW later, NEW store, NEW fresh, NEW kept,
         Shape(o, n, b, later, store, fresh, kept),
         NEW c \in Nat \ {NoValue, b}, c < fresh
  PROVE  /\ \A j \in DOMAIN n : j \in writersOf(n, c) <=> \E i \in writersOf(o, c) : j = kept[i]
         /\ \A j \in DOMAIN n : j \in readersOf(n, c) <=> \E i \in readersOf(o, c) : j = kept[i]
<1>01. \A i \in DOMAIN o : IsKept(n[kept[i]], o, i, b, later, fresh)
  BY KeptOperations
<1>02. \A i \in DOMAIN o : kept[i] \in DOMAIN n
  BY KeptPlaces
<1>031. fresh \in Nat
  BY DEF Shape, Above
<1>032. \A i \in later : fresh + i \in Nat /\ fresh < fresh + i
  BY LaterOnes
<1>03. fresh \in Nat /\ \A i \in later : fresh + i \in Nat /\ fresh < fresh + i
  BY <1>031, <1>032
<1>04. c # fresh /\ \A i \in later : c # fresh + i
  BY <1>03
<1>1. ASSUME NEW i \in writersOf(o, c) PROVE kept[i] \in writersOf(n, c)
  BY <1>01, <1>02 DEF writersOf, IsKept
<1>2. ASSUME NEW i \in readersOf(o, c) PROVE kept[i] \in readersOf(n, c)
  BY <1>01, <1>02 DEF readersOf, IsKept
<1>3. ASSUME NEW j \in writersOf(n, c) PROVE \E i \in writersOf(o, c) : j = kept[i]
  <2>1. j \in DOMAIN n /\ n[j].write = c
    BY DEF writersOf
  <2>2. PICK i \in DOMAIN o : j = kept[i]
    BY <1>04, <2>1, NewOperations DEF IsAlloc, IsLoad, IsSlot, IsStore
  <2> QED  BY <1>01, <2>1, <2>2 DEF writersOf, IsKept
<1>4. ASSUME NEW j \in readersOf(n, c) PROVE \E i \in readersOf(o, c) : j = kept[i]
  <2>1. j \in DOMAIN n /\ c \in n[j].reads
    BY DEF readersOf
  <2>2. PICK i \in DOMAIN o : j = kept[i]
    BY <1>04, <2>1, NewOperations DEF IsAlloc, IsLoad, IsSlot, IsStore
  <2>3. c \in o[i].reads
    <3>1. IsKept(n[j], o, i, b, later, fresh)
      BY <1>01, <2>2
    <3>2. c \in o[i].reads \/ (i \in later /\ c = fresh + i)
      BY <2>1, <3>1 DEF IsKept
    <3> QED  BY <1>04, <3>2
  <2> QED  BY <2>2, <2>3 DEF readersOf
<1> QED  BY <1>1, <1>2, <1>3, <1>4

(* A view of another buffer stays a view of that buffer.                   *)
LEMMA SpilledViews ==
  ASSUME NEW o, isWellFormed(o), NEW n, NEW b, NEW later, NEW store, NEW fresh, NEW kept,
         Shape(o, n, b, later, store, fresh, kept), b \in buffersOf(o),
         NEW c, c # b, NEW v \in viewsOf(o), rootOf(o)[v] = c
  PROVE  rootOf(n)[v] = c
<1> DEFINE Stays(i) == o[i].kind = "view" /\ rootOf(o)[o[i].def] = c => rootOf(n)[o[i].def] = c
           A == {m \in Nat : m <= Len(o) => \A i \in 1..m : Stays(i)}
<1>0. definesOnce(o)
  BY FormedOnce
<1>00. isWellFormed(n)
  BY SpillKeepsTheForm
<1>01. \A i \in DOMAIN o : IsKept(n[kept[i]], o, i, b, later, fresh)
  BY <1>0, KeptOperations
<1>02. \A i \in DOMAIN o : kept[i] \in DOMAIN n
  BY <1>0, KeptPlaces
<1>03. Len(o) \in Nat /\ DOMAIN o = 1..Len(o)
  BY <1>0, OfAWellFormedBlock
<1>04. viewsOf(n) = viewsOf(o)
  BY <1>0, SpilledBuffers
<1>05. b \notin viewsOf(o) /\ b \in Nat
  <2>1. PICK i \in DOMAIN o : o[i].kind = "alloc" /\ o[i].def = b
    BY DEF buffersOf, allocs
  <2>2. b # NoValue /\ b \in Nat
    BY DEF Shape
  <2>3. \A j \in DOMAIN o : o[j].def = b => o[j].kind = "alloc"
    BY <1>0, <2>1, <2>2, OfAWellFormedBlock
  <2>4. \A j \in DOMAIN o : o[j].def = b => o[j].kind # "view"
    BY <2>3
  <2> QED  BY <2>2, <2>4 DEF viewsOf
<1>1. ASSUME NEW i \in DOMAIN o, \A l \in DOMAIN o : l < i => Stays(l) PROVE Stays(i)
  <2> SUFFICES ASSUME o[i].kind = "view", rootOf(o)[o[i].def] = c PROVE rootOf(n)[o[i].def] = c
    OBVIOUS
  <2> DEFINE s == viewed(o, i)
  <2>1. s \in Nat /\ s # NoValue /\ o[i].reads = {s} /\ \A k \in DOMAIN o : o[k].def = s => k < i
    BY OfAView
  <2>2. rootOf(o)[s] = c
    BY RootStep
  <2> HIDE DEF s
  <2>3. s # b
    <3>1. rootOf(o)[b] = b
      BY <1>05, RootStep
    <3> QED  BY <2>2, <3>1
  <2>4. i \notin later
    <3>1. i \in later => b \in o[i].reads
      BY <1>0, LaterOnes
    <3> QED  BY <2>1, <2>3, <3>1
  <2>5. kept[i] \in DOMAIN n /\ n[kept[i]].kind = "view" /\ n[kept[i]].def = o[i].def /\ n[kept[i]].reads = {s}
    BY <1>01, <1>02, <2>1, <2>4 DEF IsKept
  <2>6. viewed(n, kept[i]) = s
    BY <2>5 DEF viewed
  <2>7. rootOf(n)[o[i].def] = rootOf(n)[s]
    BY <1>00, <2>5, <2>6, RootStep
  <2>8. CASE s \in viewsOf(o)
    <3>1. PICK k \in DOMAIN o : o[k].kind = "view" /\ o[k].def = s
      BY <2>8 DEF viewsOf
    <3>2. Stays(k)
      BY <1>1, <2>1, <3>1
    <3> QED  BY <2>2, <2>7, <3>1, <3>2
  <2>9. CASE s \notin viewsOf(o)
    <3>1. rootOf(o)[s] = s
      BY <2>1, <2>9, RootStep
    <3>2. rootOf(n)[s] = s
      BY <1>00, <1>04, <2>1, <2>9, RootStep
    <3> QED  BY <2>2, <2>7, <3>1, <3>2
  <2> QED  BY <2>8, <2>9
<1> HIDE DEF Stays
<1>2. 0 \in A
  OBVIOUS
<1>3. ASSUME NEW m \in A PROVE m + 1 \in A
  <2>1. m \in Nat
    OBVIOUS
  <2> SUFFICES ASSUME m + 1 <= Len(o), NEW i \in 1..m + 1 PROVE Stays(i)
    BY <2>1
  <2>2. \A l \in 1..m : Stays(l)
    BY <1>03, <2>1
  <2>3. i \in DOMAIN o /\ \A l \in DOMAIN o : l < i => l \in 1..m
    BY <1>03, <2>1
  <2> QED  BY <1>1, <2>2, <2>3
<1>4. A \subseteq Nat
  OBVIOUS
<1> HIDE DEF A
<1>5. Len(o) \in A
  BY <1>03, <1>2, <1>3, <1>4, Induct
<1>6. \A i \in DOMAIN o : Stays(i)
  <2>1. Len(o) \in Nat /\ Len(o) <= Len(o)
    BY <1>03
  <2> QED  BY <1>03, <1>5, <2>1 DEF A
<1>7. PICK i \in DOMAIN o : o[i].kind = "view" /\ o[i].def = v
  BY DEF viewsOf
<1> QED  BY <1>6, <1>7 DEF Stays

(* What was written through a view still is.                               *)
LEMMA SpilledWrites ==
  ASSUME NEW o, isWellFormed(o), NEW n, NEW b, NEW later, NEW store, NEW fresh, NEW kept,
         Shape(o, n, b, later, store, fresh, kept), b \in buffersOf(o),
         NEW c, c # b, viewWrittenThrough(o, c)
  PROVE  viewWrittenThrough(n, c)
<1>0. definesOnce(o)
  BY FormedOnce
<1>1. PICK i \in DOMAIN o : o[i].write \in aliasesOf(o, c) \ {c}
  BY DEF viewWrittenThrough
<1>2. o[i].write \in viewsOf(o) /\ rootOf(o)[o[i].write] = c /\ o[i].write # c
  BY <1>1 DEF aliasesOf
<1>3. o[i].write \in viewsOf(n) /\ rootOf(n)[o[i].write] = c
  BY <1>0, <1>2, SpilledBuffers, SpilledViews
<1>4. kept[i] \in DOMAIN n /\ n[kept[i]].write = o[i].write
  <2>1. kept[i] \in DOMAIN n /\ IsKept(n[kept[i]], o, i, b, later, fresh)
    BY <1>0, KeptPlaces, KeptOperations
  <2> QED  BY <2>1 DEF IsKept
<1> QED  BY <1>2, <1>3, <1>4 DEF viewWrittenThrough, aliasesOf

(* A value with one writer after the spill had one before.                 *)
LEMMA SpilledWriter ==
  ASSUME NEW o, definesOnce(o), NEW n, NEW b, NEW later, NEW store, NEW fresh, NEW kept,
         Shape(o, n, b, later, store, fresh, kept),
         NEW c \in Nat \ {NoValue, b}, c < fresh, hasOneWriter(n, c)
  PROVE  hasOneWriter(o, c) /\ writerOf(o, c) \in DOMAIN o /\ writerOf(n, c) = kept[writerOf(o, c)]
<1>1. Cardinality(writersOf(n, c)) = 1 /\ writersOf(n, c) \subseteq DOMAIN n
  BY DEF hasOneWriter, writersOf
<1>2. IsFiniteSet(writersOf(n, c))
  <2>1. DOMAIN n = 1..Len(n) /\ Len(n) \in Nat
    BY KeptPlaces
  <2>2. IsFiniteSet(DOMAIN n)
    BY <2>1, FS_Interval
  <2> QED  BY <1>1, <2>2, FS_Subset
<1>3. PICK j : writersOf(n, c) = {j}
  BY <1>1, <1>2, FS_Singleton
<1>4. PICK i \in writersOf(o, c) : j = kept[i]
  BY <1>1, <1>3, SpilledUses
<1>5. ASSUME NEW k \in writersOf(o, c) PROVE k = i
  <2>1. k \in DOMAIN o /\ i \in DOMAIN o
    BY DEF writersOf
  <2>2. kept[k] \in writersOf(n, c)
    BY <2>1, SpilledUses, KeptPlaces
  <2> QED  BY <1>3, <1>4, <2>1, <2>2, KeptPlaces
<1>6. writersOf(o, c) = {i} /\ i \in DOMAIN o
  BY <1>4, <1>5 DEF writersOf
<1>7. hasOneWriter(o, c)
  BY <1>6, FS_Singleton DEF hasOneWriter
<1>8. writerOf(o, c) = i /\ writerOf(n, c) = j
  BY <1>3, <1>6 DEF writerOf
<1> QED  BY <1>4, <1>6, <1>7, <1>8

-----------------------------------------------------------------------------
(* What a spill puts in the place of instruction i.                        *)
bodyOf(o, b, later, fresh, i) ==
  IF i \in later THEN <<allocOp(fresh, i), loadOp(fresh, i), reloaded(o, b, fresh, i)>> ELSE <<o[i]>>
tailOf(b, store, fresh, i) == IF i = store THEN <<slotOp(fresh), storeOp(b, fresh)>> ELSE << >>
aroundOf(o, b, later, store, fresh, i) == bodyOf(o, b, later, fresh, i) \o tailOf(b, store, fresh, i)

(* The place of instruction i in what replaces it.                         *)
widthOf(later, i) == IF i \in later THEN 3 ELSE 1

(* What replaces instruction i, place by place.                            *)
LEMMA AroundIs ==
  ASSUME NEW o, definesOnce(o), NEW b \in Nat, NEW later, NEW store, NEW fresh \in Nat,
         NEW i \in DOMAIN o
  PROVE  /\ aroundOf(o, b, later, store, fresh, i) \in Seq(BlockOperation)
         /\ Len(aroundOf(o, b, later, store, fresh, i)) = widthOf(later, i) + IF i = store THEN 2 ELSE 0
         /\ aroundOf(o, b, later, store, fresh, i)[widthOf(later, i)]
              = IF i \in later THEN reloaded(o, b, fresh, i) ELSE o[i]
         /\ i \in later => /\ aroundOf(o, b, later, store, fresh, i)[1] = allocOp(fresh, i)
                           /\ aroundOf(o, b, later, store, fresh, i)[2] = loadOp(fresh, i)
         /\ i = store => /\ aroundOf(o, b, later, store, fresh, i)[widthOf(later, i) + 1] = slotOp(fresh)
                         /\ aroundOf(o, b, later, store, fresh, i)[widthOf(later, i) + 2] = storeOp(b, fresh)
<1> DEFINE r == reloaded(o, b, fresh, i)
           x == bodyOf(o, b, later, fresh, i)
           y == tailOf(b, store, fresh, i)
<1>1. o[i] \in BlockOperation /\ i \in Nat
  BY OfAWellFormedBlock
<1>2. r \in BlockOperation
  <2>1. fresh + i \in Nat
    BY <1>1
  <2> QED  BY <1>1, <2>1 DEF reloaded, BlockOperation
<1>3. /\ allocOp(fresh, i) \in BlockOperation /\ loadOp(fresh, i) \in BlockOperation
      /\ slotOp(fresh) \in BlockOperation /\ storeOp(b, fresh) \in BlockOperation
  <2>1. fresh + i \in Nat /\ NoValue \in Nat /\ 0 \in Nat
    BY <1>1 DEF NoValue
  <2>2. {} \in SUBSET Nat /\ {fresh} \in SUBSET Nat /\ {b} \in SUBSET Nat
    OBVIOUS
  <2>3. allocOp(fresh, i) \in BlockOperation
    BY <2>1, <2>2 DEF allocOp, Operation, OperationKind, BlockOperation
  <2>4. loadOp(fresh, i) \in BlockOperation
    BY <2>1, <2>2 DEF loadOp, Operation, OperationKind, BlockOperation
  <2>5. slotOp(fresh) \in BlockOperation
    BY <2>1, <2>2 DEF slotOp, Operation, OperationKind, BlockOperation
  <2>6. storeOp(b, fresh) \in BlockOperation
    BY <2>1, <2>2 DEF storeOp, Operation, OperationKind, BlockOperation
  <2> QED  BY <2>3, <2>4, <2>5, <2>6
<1> HIDE DEF BlockOperation, r
<1>4. /\ x \in Seq(BlockOperation) /\ Len(x) = widthOf(later, i)
      /\ x[widthOf(later, i)] = IF i \in later THEN r ELSE o[i]
      /\ i \in later => x[1] = allocOp(fresh, i) /\ x[2] = loadOp(fresh, i)
  <2>1. CASE i \in later
    BY <1>2, <1>3, <2>1 DEF bodyOf, widthOf, r
  <2>2. CASE i \notin later
    BY <1>1, <2>2 DEF bodyOf, widthOf
  <2> QED  BY <2>1, <2>2
<1>5. /\ y \in Seq(BlockOperation) /\ Len(y) = IF i = store THEN 2 ELSE 0
      /\ i = store => y[1] = slotOp(fresh) /\ y[2] = storeOp(b, fresh)
  BY <1>3 DEF tailOf
<1> HIDE DEF x, y
<1>6. aroundOf(o, b, later, store, fresh, i) = x \o y
  BY DEF aroundOf, x, y
<1>7. /\ x \o y \in Seq(BlockOperation) /\ Len(x \o y) = Len(x) + Len(y)
      /\ \A k \in 1..Len(x) : (x \o y)[k] = x[k]
      /\ \A k \in 1..Len(y) : (x \o y)[Len(x) + k] = y[k]
  <2> DEFINE T == BlockOperation
  <2>1. x \in Seq(T) /\ y \in Seq(T)
    BY <1>4, <1>5
  <2> HIDE DEF T
  <2>2. /\ x \o y \in Seq(T) /\ Len(x \o y) = Len(x) + Len(y)
        /\ \A k \in 1..Len(x) : (x \o y)[k] = x[k]
        /\ \A k \in 1..Len(y) : (x \o y)[Len(x) + k] = y[k]
    BY ONLY <2>1, Concat
  <2> QED  BY <2>2 DEF T
<1> DEFINE z == x \o y
           w == widthOf(later, i)
<1> HIDE DEF z
<1>8. w \in 1..Len(x) /\ w = Len(x) /\ (i \in later => 1 \in 1..Len(x) /\ 2 \in 1..Len(x))
  BY <1>4 DEF widthOf
<1>9. i = store => 1 \in 1..Len(y) /\ 2 \in 1..Len(y)
  BY <1>5
<1> HIDE DEF w
<1>10. Len(z) = w + IF i = store THEN 2 ELSE 0
  BY <1>5, <1>7, <1>8 DEF z
<1>11. z[w] = IF i \in later THEN r ELSE o[i]
  BY <1>4, <1>7, <1>8 DEF z, w
<1>12. i \in later => z[1] = allocOp(fresh, i) /\ z[2] = loadOp(fresh, i)
  BY <1>4, <1>7, <1>8 DEF z
<1>13. i = store => z[w + 1] = slotOp(fresh) /\ z[w + 2] = storeOp(b, fresh)
  BY <1>5, <1>7, <1>8, <1>9 DEF z
<1> QED  BY <1>6, <1>7, <1>10, <1>11, <1>12, <1>13 DEF z, w, r

(* The lists FlattenSeq joins start in order.                              *)
LEMMA StartsGrow ==
  ASSUME NEW K \in Nat, NEW s, NEW flat, NEW start, Flattened(flat, s, K, start),
         \A n \in 1..K : Len(s[n]) \in Nat, NEW i \in 0..K, NEW j \in 0..K, i <= j
  PROVE  start[i] <= start[j]
<1> DEFINE A == {m \in Nat : i + m <= K => start[i] <= start[i + m]}
<1>1. \A n \in 0..K : start[n] \in Nat
  BY DEF Flattened
<1>2. 0 \in A
  BY <1>1
<1>3. ASSUME NEW m \in A PROVE m + 1 \in A
  <2> SUFFICES ASSUME i + (m + 1) <= K PROVE start[i] <= start[i + (m + 1)]
    OBVIOUS
  <2>1. m \in Nat /\ i + m <= K /\ i + m \in 0..K /\ i + (m + 1) \in 1..K /\ (i + (m + 1)) - 1 = i + m
    OBVIOUS
  <2>2. start[i] <= start[i + m]
    BY <2>1
  <2> DEFINE p == i + m
             q == i + (m + 1)
  <2>3. p \in 0..K /\ q \in 1..K /\ q - 1 = p /\ q \in 0..K
    BY <2>1
  <2>4. start[i] <= start[p]
    BY <2>2
  <2> HIDE DEF p, q, A
  <2>5. start[q] = start[p] + Len(s[q]) /\ Len(s[q]) \in Nat
    BY <2>3 DEF Flattened
  <2> DEFINE L == Len(s[q])
  <2>6. start[q] = start[p] + L /\ L \in Nat
    BY <2>5
  <2> HIDE DEF L
  <2>7. start[i] <= start[q]
    BY <1>1, <2>3, <2>4, <2>6
  <2> QED  BY <2>7 DEF q
<1>4. A \subseteq Nat /\ j - i \in Nat /\ i + (j - i) = j /\ j <= K
  OBVIOUS
<1> HIDE DEF A
<1>5. j - i \in A
  BY <1>2, <1>3, <1>4, Induct
<1> QED  BY <1>4, <1>5 DEF A

(* The rewrite has the shape of a spill.                                   *)
LEMMA RewriteShape ==
  ASSUME NEW o, definesOnce(o), o # << >>, NEW b \in Nat \ {NoValue}, NEW fresh \in Nat, b < fresh, Above(fresh, o),
         NEW later, later \subseteq readersOf(o, b), NEW store
  PROVE  \E kept : Shape(o, FlattenSeq([i \in DOMAIN o |-> aroundOf(o, b, later, store, fresh, i)]),
                         b, later, store, fresh, kept)
<1> DEFINE K == Len(o)
           s == [i \in DOMAIN o |-> aroundOf(o, b, later, store, fresh, i)]
           n == FlattenSeq(s)
<1>1. K \in Nat \ {0} /\ DOMAIN o = 1..K /\ later \subseteq 1..K
  <2>1. o \in Seq(BlockOperation) /\ K \in Nat /\ DOMAIN o = 1..K
    BY OfAWellFormedBlock
  <2> HIDE DEF BlockOperation
  <2>2. K # 0
    BY <2>1
  <2> QED  BY <2>1, <2>2 DEF readersOf
<1>2. s \in [1..K -> Seq(BlockOperation)]
  <2> HIDE DEF BlockOperation, K
  <2>1. \A i \in 1..K : aroundOf(o, b, later, store, fresh, i) \in Seq(BlockOperation)
    BY <1>1, AroundIs
  <2> QED  BY <1>1, <2>1
<1>3. \A i \in 1..K : s[i] = aroundOf(o, b, later, store, fresh, i)
  BY <1>1
<1> HIDE DEF s, K
<1>4. n \in Seq(BlockOperation) /\ \E start : Flattened(n, s, K, start)
  <2> HIDE DEF BlockOperation
  <2> QED  BY <1>1, <1>2, FlattenPlaces
<1>5. PICK start : Flattened(n, s, K, start)
  BY <1>4
<1> HIDE DEF n
<1>6. DOMAIN n = 1..Len(n)
  <2> HIDE DEF BlockOperation
  <2> QED  BY <1>4
<1> DEFINE w(i) == widthOf(later, i)
<1>7. \A i \in 1..K : /\ Len(s[i]) = w(i) + IF i = store THEN 2 ELSE 0
                      /\ s[i][w(i)] = IF i \in later THEN reloaded(o, b, fresh, i) ELSE o[i]
                      /\ i \in later => s[i][1] = allocOp(fresh, i) /\ s[i][2] = loadOp(fresh, i)
                      /\ i = store => s[i][w(i) + 1] = slotOp(fresh) /\ s[i][w(i) + 2] = storeOp(b, fresh)
  BY <1>1, <1>3, AroundIs
<1>8. \A i \in 1..K : w(i) \in 1..3 /\ w(i) = IF i \in later THEN 3 ELSE 1
  BY DEF widthOf
<1> HIDE DEF w
<1>9. \A i \in 1..K : Len(s[i]) \in Nat /\ w(i) \in 1..Len(s[i]) /\ i \in 0..K /\ i - 1 \in 0..K
  <2>1. ASSUME NEW i \in 1..K PROVE Len(s[i]) \in Nat /\ w(i) \in 1..Len(s[i])
    <3>1. Len(s[i]) = w(i) + (IF i = store THEN 2 ELSE 0) /\ w(i) \in 1..3
      BY <1>7, <1>8
    <3> DEFINE L == Len(s[i])
               wi == w(i)
    <3>2. L = wi + (IF i = store THEN 2 ELSE 0) /\ wi \in 1..3
      BY <3>1
    <3> HIDE DEF L, wi
    <3>3. L \in Nat /\ wi \in 1..L
      BY <3>2
    <3> QED  BY <3>3 DEF L, wi
  <2>2. \A i \in 1..K : i \in 0..K /\ i - 1 \in 0..K
    BY <1>1
  <2> QED  BY <2>1, <2>2
<1>10. \A i \in 0..K : start[i] \in Nat
  BY <1>5 DEF Flattened
<1>11. \A i \in 1..K : \A k \in 1..Len(s[i]) : start[i - 1] + k \in DOMAIN n /\ n[start[i - 1] + k] = s[i][k]
  BY <1>5, <1>6 DEF Flattened
<1> DEFINE kept == [i \in DOMAIN o |-> start[i - 1] + w(i)]
<1>12. \A i \in 1..K : kept[i] = start[i - 1] + w(i) /\ kept[i] \in Nat
  BY <1>1, <1>8, <1>9, <1>10
<1>13. kept \in [DOMAIN o -> DOMAIN n]
  BY <1>1, <1>9, <1>11
<1> HIDE DEF kept
<1>14. ASSUME NEW i \in DOMAIN o, NEW j \in DOMAIN o, i < j PROVE kept[i] < kept[j]
  <2>1. i \in 1..K /\ j \in 1..K /\ j - 1 \in 0..K /\ i <= j - 1 /\ i \in 0..K /\ i - 1 \in 0..K
    BY <1>1, <1>14
  <2>2. start[i] <= start[j - 1]
    BY <1>1, <1>5, <1>9, <2>1, StartsGrow
  <2>3. start[i] = start[i - 1] + Len(s[i]) /\ w(i) <= Len(s[i]) /\ Len(s[i]) \in Nat /\ w(i) \in Nat
    <3>1. start[i] = start[i - 1] + Len(s[i])
      BY <1>5, <2>1 DEF Flattened
    <3>2. Len(s[i]) \in Nat /\ w(i) \in 1..Len(s[i]) /\ w(i) \in 1..3
      BY <1>8, <1>9, <2>1
    <3> QED  BY <3>1, <3>2
  <2>4. kept[j] = start[j - 1] + w(j) /\ w(j) \in 1..3 /\ kept[i] = start[i - 1] + w(i)
    BY <1>8, <1>12, <2>1
  <2>5. start[i] \in Nat /\ start[i - 1] \in Nat /\ start[j - 1] \in Nat
    BY <1>10, <2>1
  <2> DEFINE L == Len(s[i])
             wi == w(i)
             wj == w(j)
  <2>6. start[i] = start[i - 1] + L /\ wi <= L /\ L \in Nat /\ wi \in Nat /\ wj \in 1..3
    BY <2>3, <2>4
  <2>7. kept[j] = start[j - 1] + wj /\ kept[i] = start[i - 1] + wi
    BY <2>4
  <2> HIDE DEF L, wi, wj
  <2> QED  BY <2>2, <2>5, <2>6, <2>7
<1>15. ASSUME NEW i \in DOMAIN o PROVE n[kept[i]] = IF i \in later THEN reloaded(o, b, fresh, i) ELSE o[i]
  <2>1. i \in 1..K /\ w(i) \in 1..Len(s[i])
    BY <1>1, <1>9
  <2>2. n[start[i - 1] + w(i)] = s[i][w(i)]
    BY <1>11, <2>1
  <2> QED  BY <1>7, <1>12, <2>1, <2>2
<1>16. ASSUME NEW i \in later PROVE kept[i] - 2 \in DOMAIN n /\ n[kept[i] - 2] = allocOp(fresh, i)
  <2>1. i \in 1..K /\ w(i) = 3 /\ 1 \in 1..Len(s[i])
    BY <1>1, <1>8, <1>9
  <2>2. start[i - 1] \in Nat
    BY <1>9, <1>10, <2>1
  <2>3. kept[i] - 2 = start[i - 1] + 1
    BY <1>12, <2>1, <2>2
  <2> QED  BY <1>7, <1>11, <2>1, <2>3
<1>17. ASSUME NEW j \in DOMAIN n
       PROVE  Added(o, n, b, later, store, fresh, kept, j) \/ \E i \in DOMAIN o : j = kept[i]
  <2>1. PICK i \in 1..K : \E k \in 1..Len(s[i]) : j = start[i - 1] + k
    BY <1>5, <1>6 DEF Flattened
  <2>2. PICK k \in 1..Len(s[i]) : j = start[i - 1] + k
    BY <2>1
  <2>3. n[j] = s[i][k] /\ start[i - 1] \in Nat /\ k \in Nat /\ 1 <= k /\ kept[i] = start[i - 1] + w(i)
    BY <1>9, <1>10, <1>11, <1>12, <2>2
  <2>4. Len(s[i]) = w(i) + (IF i = store THEN 2 ELSE 0) /\ k <= Len(s[i]) /\ w(i) \in 1..3 /\ w(i) = IF i \in later THEN 3 ELSE 1
    BY <1>7, <1>8, <1>9, <2>2
  <2> DEFINE wi == w(i)
             d == start[i - 1]
  <2>5. /\ \/ k = wi
           \/ i \in later /\ wi = 3 /\ k = 1
           \/ i \in later /\ wi = 3 /\ k = 2
           \/ i = store /\ k = wi + 1
           \/ i = store /\ k = wi + 2
        /\ wi \in Nat /\ d \in Nat /\ kept[i] = d + wi /\ j = d + k
    <3>1. /\ wi \in 1..3 /\ wi = (IF i \in later THEN 3 ELSE 1) /\ d \in Nat /\ kept[i] = d + wi /\ j = d + k
          /\ k <= wi + IF i = store THEN 2 ELSE 0
      BY <2>2, <2>3, <2>4
    <3> DEFINE e == kept[i]
    <3>2. e = d + wi /\ k \in Nat /\ 1 <= k
      BY <2>3, <3>1
    <3> HIDE DEF wi, d, e
    <3>3. wi \in Nat /\ d \in Nat /\ e = d + wi /\ j = d + k
      BY <3>1, <3>2
    <3>4. CASE i \in later
      <4>1. wi = 3 /\ (k <= 3 \/ (i = store /\ k <= 5))
        BY <3>1, <3>2, <3>4
      <4>2. k = 1 \/ k = 2 \/ k = 3 \/ (i = store /\ (k = 4 \/ k = 5))
        BY <3>2, <4>1
      <4> QED  BY <3>3, <3>4, <4>1, <4>2 DEF e
    <3>5. CASE i \notin later
      <4>1. wi = 1 /\ (k <= 1 \/ (i = store /\ k <= 3))
        BY <3>1, <3>2, <3>5
      <4>2. k = 1 \/ (i = store /\ (k = 2 \/ k = 3))
        BY <3>2, <4>1
      <4> QED  BY <3>3, <4>1, <4>2 DEF e
    <3> QED  BY <3>4, <3>5
  <2> HIDE DEF wi, d
  <2>6. CASE k = wi
    BY <1>1, <2>5, <2>6
  <2>7. CASE i \in later /\ wi = 3 /\ k = 1
    <3>1. j = kept[i] - 2
      BY <2>5, <2>7
    <3> QED  BY <1>7, <2>3, <2>7, <3>1 DEF Added
  <2>8. CASE i \in later /\ wi = 3 /\ k = 2
    <3>1. j = kept[i] - 1
      BY <2>5, <2>8
    <3> QED  BY <1>7, <2>3, <2>8, <3>1 DEF Added
  <2>9. CASE i = store /\ k = wi + 1
    <3>1. j = kept[i] + 1
      BY <2>3, <2>5, <2>9
    <3> QED  BY <1>1, <1>7, <2>3, <2>9, <3>1 DEF Added, wi
  <2>10. CASE i = store /\ k = wi + 2
    <3>1. j = kept[i] + 2
      BY <2>3, <2>5, <2>10
    <3> QED  BY <1>1, <1>7, <2>3, <2>10, <3>1 DEF Added, wi
  <2> QED  BY <2>5, <2>6, <2>7, <2>8, <2>9, <2>10
<1>18. Shape(o, n, b, later, store, fresh, kept)
  BY <1>4, <1>13, <1>14, <1>15, <1>16, <1>17 DEF Shape
<1> QED  BY <1>18 DEF n, s

-----------------------------------------------------------------------------
(* A finite set of natural numbers has an upper bound.                     *)
LEMMA FiniteBound ==
  ASSUME NEW S, S \subseteq Nat, IsFiniteSet(S)
  PROVE  \E u \in Nat : \A x \in S : x <= u
<1> DEFINE A == {m \in Nat : \A T \in SUBSET Nat : IsFiniteSet(T) /\ Cardinality(T) = m => \E u \in Nat : \A x \in T : x <= u}
<1>1. 0 \in A
  <2>1. ASSUME NEW T \in SUBSET Nat, IsFiniteSet(T), Cardinality(T) = 0 PROVE \E u \in Nat : \A x \in T : x <= u
    <3>1. T = {}
      BY <2>1, FS_EmptySet
    <3> QED  BY <3>1
  <2> QED  BY <2>1
<1>2. ASSUME NEW m \in A PROVE m + 1 \in A
  <2>1. m \in Nat
    OBVIOUS
  <2> SUFFICES ASSUME NEW T \in SUBSET Nat, IsFiniteSet(T), Cardinality(T) = m + 1
               PROVE  \E u \in Nat : \A x \in T : x <= u
    BY <2>1
  <2>2. PICK y \in T : TRUE
    <3>1. Cardinality(T) # 0
      BY <2>1
    <3> QED  BY <3>1, FS_EmptySet
  <2>3. IsFiniteSet(T \ {y}) /\ Cardinality(T \ {y}) = m
    <3>1. Cardinality(T \ {y}) = Cardinality(T) - 1 /\ IsFiniteSet(T \ {y})
      BY <2>2, FS_RemoveElement
    <3> QED  BY <2>1, <3>1
  <2>4. PICK u \in Nat : \A x \in T \ {y} : x <= u
    BY <2>3
  <2>5. y \in Nat
    BY <2>2
  <2>6. CASE y <= u
    BY <2>4, <2>6
  <2>7. CASE u < y
    <3>1. \A x \in T : x <= y
      <4>1. ASSUME NEW x \in T PROVE x <= y
        <5>1. x \in Nat /\ (x = y \/ x <= u)
          BY <2>4
        <5> QED  BY <2>5, <2>7, <5>1
      <4> QED  BY <4>1
    <3> QED  BY <2>5, <3>1
  <2> QED  BY <2>5, <2>6, <2>7
<1>3. A \subseteq Nat
  OBVIOUS
<1>4. Cardinality(S) \in Nat
  BY FS_CardinalityType
<1>5. Cardinality(S) \in A
  <2> HIDE DEF A
  <2> QED  BY <1>1, <1>2, <1>3, <1>4, Induct
<1> QED  BY <1>5

(* freshValue is fresh.                                                    *)
LEMMA FreshIsAbove ==
  ASSUME definesOnce(block), block # << >>
  PROVE  Above(freshValue, block)
<1> DEFINE valuesAt(i) == block[i].reads \cup {block[i].def, block[i].write}
           K == Len(block)
           A == {m \in Nat : m <= K => \E u \in Nat : \A i \in 1..m : \A x \in valuesAt(i) : x <= u}
           V == UNION {valuesAt(i) : i \in DOMAIN block}
<1>1. K \in Nat /\ DOMAIN block = 1..K /\ K # 0
  <2>1. block \in Seq(BlockOperation) /\ Len(block) \in Nat /\ DOMAIN block = 1..Len(block)
    BY OfAWellFormedBlock
  <2> HIDE DEF BlockOperation
  <2> QED  BY <2>1
<1>2. ASSUME NEW i \in 1..K PROVE valuesAt(i) \subseteq Nat /\ IsFiniteSet(valuesAt(i))
  <2>1. block[i] \in BlockOperation /\ IsFiniteSet(block[i].reads)
    BY <1>1, OfAWellFormedBlock
  <2>2. IsFiniteSet({block[i].def, block[i].write})
    <3>1. IsFiniteSet({block[i].def}) /\ IsFiniteSet({block[i].write})
      BY FS_Singleton
    <3>2. {block[i].def, block[i].write} = {block[i].def} \cup {block[i].write}
      OBVIOUS
    <3> QED  BY <3>1, <3>2, FS_Union
  <2>3. IsFiniteSet(valuesAt(i))
    BY <2>1, <2>2, FS_Union
  <2> QED  BY <2>1, <2>3 DEF BlockOperation
<1> HIDE DEF valuesAt, K
<1>3. 0 \in A
  BY 0 \in Nat
<1>4. ASSUME NEW m \in A PROVE m + 1 \in A
  <2>1. m \in Nat
    OBVIOUS
  <2> SUFFICES ASSUME m + 1 <= K PROVE \E u \in Nat : \A i \in 1..m + 1 : \A x \in valuesAt(i) : x <= u
    BY <2>1
  <2>2. PICK u \in Nat : \A i \in 1..m : \A x \in valuesAt(i) : x <= u
    BY <1>1, <2>1
  <2>3. m + 1 \in 1..K /\ \A i \in 1..m + 1 : i \in 1..m \/ i = m + 1
    BY <1>1, <2>1
  <2>4. PICK t \in Nat : \A x \in valuesAt(m + 1) : x <= t
    BY <1>2, <2>3, FiniteBound
  <2> DEFINE w == IF u <= t THEN t ELSE u
  <2>5. w \in Nat /\ u <= w /\ t <= w
    OBVIOUS
  <2> HIDE DEF w
  <2>6. ASSUME NEW i \in 1..m + 1, NEW x \in valuesAt(i) PROVE x <= w
    <3>1. x \in Nat
      BY <1>1, <1>2, <2>1, <2>3
    <3>2. x <= u \/ x <= t
      BY <2>2, <2>3, <2>4
    <3> QED  BY <2>5, <3>1, <3>2
  <2> QED  BY <2>5, <2>6
<1>5. A \subseteq Nat
  OBVIOUS
<1> HIDE DEF A
<1>6. K \in A
  BY <1>1, <1>3, <1>4, <1>5, Induct
<1>7. PICK u \in Nat : \A i \in 1..K : \A x \in valuesAt(i) : x <= u
  <2>1. K <= K
    BY <1>1
  <2> QED  BY <1>1, <1>6, <2>1 DEF A
<1>8. V \subseteq Nat /\ V # {} /\ \A x \in V : x <= u
  <2>1. V \subseteq Nat /\ \A x \in V : x <= u
    BY <1>1, <1>2, <1>7
  <2>2. block[1].def \in V
    BY <1>1 DEF valuesAt
  <2> QED  BY <2>1, <2>2
<1>9. Max(V) \in V /\ \A x \in V : x <= Max(V)
  BY <1>8, MaxNat
<1>10. freshValue = 1 + Max(V)
  BY DEF freshValue, valuesAt
<1>11. Max(V) \in Nat /\ \A x \in V : x < 1 + Max(V)
  <2> DEFINE M == Max(V)
  <2>1. M \in Nat /\ \A x \in V : x \in Nat /\ x <= M
    BY <1>8, <1>9
  <2> HIDE DEF M, V
  <2>2. ASSUME NEW x \in V PROVE x < 1 + M
    BY <2>1
  <2> QED  BY <2>1, <2>2 DEF M
<1>12. \A i \in DOMAIN block : block[i].def \in V /\ block[i].write \in V /\ \A v \in block[i].reads : v \in V
  BY DEF valuesAt
<1> HIDE DEF V
<1> QED  BY <1>10, <1>11, <1>12 DEF Above

(* What spill does to the block.                                           *)
LEMMA SpillShape ==
  ASSUME definesOnce(block), NEW b \in buffersOf(block)
  PROVE  \E kept : Shape(block, SpillRewrite(b), b, LaterReaders(b), storePoint(b), freshValue, kept)
<1>1. PICK i \in DOMAIN block : block[i].kind = "alloc" /\ block[i].def = b
  BY DEF buffersOf, allocs
<1>2. block # << >>
  BY <1>1
<1>3. Above(freshValue, block)
  BY <1>2, FreshIsAbove
<1>4. b \in Nat \ {NoValue} /\ b < freshValue /\ freshValue \in Nat
  <2>1. block[i] \in BlockOperation /\ block[i].def # NoValue
    BY <1>1, OfAWellFormedBlock
  <2> QED  BY <1>1, <1>3, <2>1 DEF Above, BlockOperation
<1>5. LaterReaders(b) \subseteq readersOf(block, b)
  BY DEF LaterReaders
<1>6. SpillRewrite(b) =
        FlattenSeq([l \in DOMAIN block |-> aroundOf(block, b, LaterReaders(b), storePoint(b), freshValue, l)])
  BY DEF SpillRewrite, aroundOf, bodyOf, tailOf, allocOp, loadOp, slotOp, storeOp, reloaded
<1> QED  BY <1>2, <1>3, <1>4, <1>5, <1>6, RewriteShape

-----------------------------------------------------------------------------
(* The inductive invariant: the block is in single assignment form, the    *)
(* intervals are those of its buffers, every buffer is of the source       *)
(* program or marked as a reload, and one buffer of the source program is  *)
(* marked as spilled for every spill counted.                              *)
SpillInv ==
  /\ isWellFormed(block)
  /\ stage \in {"measuring", "placing"} => DOMAIN intervals = DOMAIN collected(block)
  /\ buffersOf(block) \subseteq buffersOf(source) \cup reloads
  /\ IsFiniteSet(buffersOf(source))
  /\ spilled \subseteq buffersOf(source)
  /\ spilledBuffers = Cardinality(spilled)

(* The walk collects buffers of the block, finitely many.                  *)
LEMMA CollectedBuffers ==
  ASSUME NEW o, definesOnce(o)
  PROVE  /\ \A k \in DOMAIN collected(o) : collected(o)[k] \in buffersOf(o)
         /\ IsFiniteSet(buffersOf(o))
<1>1. allocs(o) \in SUBSET (1..Len(o)) /\ Len(o) \in Nat
  BY OfAWellFormedBlock DEF allocs
<1>2. ASSUME NEW k \in DOMAIN collected(o) PROVE collected(o)[k] \in buffersOf(o)
  <2>1. k \in 1..Cardinality(allocs(o)) /\ collected(o)[k] = o[inOrder(allocs(o))[k]].def
    BY DEF collected, inOrder
  <2>2. inOrder(allocs(o))[k] \in allocs(o)
    BY <1>1, <2>1, InOrder
  <2> QED  BY <2>1, <2>2 DEF buffersOf
<1> DEFINE f == [i \in allocs(o) |-> o[i].def]
<1>3. f \in Surjection(allocs(o), buffersOf(o))
  BY DEF Surjection, buffersOf
<1>4. IsFiniteSet(allocs(o))
  BY <1>1, RankFacts
<1> HIDE DEF f
<1>5. IsFiniteSet(buffersOf(o))
  BY <1>3, <1>4, FS_Surjection
<1> QED  BY <1>2, <1>5

(* The pass is entered in the invariant.                                   *)
LEMMA InitSpillInv == Init => SpillInv
<1> SUFFICES ASSUME Init PROVE SpillInv
  OBVIOUS
<1>1. PICK p \in Programs : block = p.block
  BY DEF Init, PassInit
<1>2. isWellFormed(block)
  BY <1>1, ProgramsAssumption
<1>3. stage = "collecting" /\ source = block /\ reloads = {} /\ spilled = {} /\ spilledBuffers = 0
  BY DEF Init, PassInit
<1>4. IsFiniteSet(buffersOf(source))
  BY <1>2, <1>3, FormedOnce, CollectedBuffers
<1>5. Cardinality(spilled) = 0
  BY <1>3, FS_EmptySet
<1> QED  BY <1>2, <1>3, <1>4, <1>5 DEF SpillInv

(* The victim of a spill: a buffer of the source program, never spilled.   *)
LEMMA VictimIsSpillable ==
  ASSUME definesOnce(block), DOMAIN intervals = DOMAIN collected(block), Spill
  PROVE  \E b : /\ b \in spillableNow
                /\ block' = SpillRewrite(b)
                /\ reloads' = reloads \cup {freshValue + i : i \in LaterReaders(b)}
                /\ spilled' = spilled \cup {b}
                /\ spilledBuffers' = spilledBuffers + 1
                /\ stage' = "collecting"
                /\ permuted' = permuted
<1>1. PICK victim \in spillVictims(Candidates, heuristic) :
        /\ block' = SpillRewrite(collected(block)[victim.buffer])
        /\ reloads' = reloads \cup {freshValue + i : i \in LaterReaders(collected(block)[victim.buffer])}
        /\ spilled' = spilled \cup {collected(block)[victim.buffer]}
  BY DEF Spill
<1>2. victim \in Candidates /\ victim.spillable
  BY DEF spillVictims
<1>3. PICK k \in DOMAIN intervals : victim.buffer = k /\ victim.spillable = isSpillable(collected(block)[k])
  <2>1. PICK k \in DOMAIN intervals :
          victim = [buffer        |-> k,
                    interval      |-> intervals[k],
                    spillable     |-> isSpillable(collected(block)[k]),
                    usesAfterPeak |-> Cardinality({i \in readersOf(block, collected(block)[k]) : i > peak.index})]
    BY <1>2 DEF Candidates
  <2> QED  BY <2>1
<1>4. k \in DOMAIN collected(block)
  BY <1>3
<1>5. collected(block)[k] \in buffersOf(block)
  BY <1>4, CollectedBuffers
<1>6. collected(block)[k] \in spillableNow
  BY <1>2, <1>3, <1>5 DEF spillableNow
<1> QED  BY <1>1, <1>3, <1>6 DEF Spill

(* What a spill does, as SpillingConsumesSourceBuffers states it.          *)
SpillStep ==
  /\ spillableNow' \subseteq spillableNow
  /\ spillableNow' # spillableNow
  /\ spilledBuffers' <= Cardinality(buffersOf(source))

(* A spill removes its victim from the spillable buffers and adds none:    *)
(* the fresh buffers are marked as reloads, and every other buffer has the *)
(* writers, the readers and the written views it had.                      *)
LEMMA SpillConsumes ==
  ASSUME SpillInv, Spill, source' = source
  PROVE  SpillInv' /\ SpillStep
<1>1. PICK b : /\ b \in spillableNow
               /\ block' = SpillRewrite(b)
               /\ reloads' = reloads \cup {freshValue + i : i \in LaterReaders(b)}
               /\ spilled' = spilled \cup {b}
               /\ spilledBuffers' = spilledBuffers + 1
               /\ stage' = "collecting"
               /\ permuted' = permuted
  <2>1. definesOnce(block) /\ DOMAIN intervals = DOMAIN collected(block)
    BY FormedOnce DEF SpillInv, Spill
  <2> QED  BY <2>1, VictimIsSpillable
<1>2. b \in buffersOf(block) /\ isSpillable(b)
  BY <1>1 DEF spillableNow
<1>3. isWellFormed(block) /\ definesOnce(block)
  BY FormedOnce DEF SpillInv
<1>4. PICK kept : Shape(block, SpillRewrite(b), b, LaterReaders(b), storePoint(b), freshValue, kept)
  BY <1>2, <1>3, SpillShape
<1>5. PICK o, n, later, store, fresh :
        /\ o = block /\ n = block' /\ later = LaterReaders(b) /\ store = storePoint(b) /\ fresh = freshValue
  OBVIOUS
<1>6. Shape(o, n, b, later, store, fresh, kept) /\ isWellFormed(o) /\ definesOnce(o) /\ b \in buffersOf(o)
  BY <1>1, <1>2, <1>3, <1>4, <1>5
<1>7. isWellFormed(n)
  BY <1>6, SpillKeepsTheForm
<1>8. buffersOf(n) = buffersOf(o) \cup {fresh + i : i \in later}
  BY <1>6, SpilledBuffers
<1>9. reloads' = reloads \cup {fresh + i : i \in later}
  BY <1>1, <1>5
<1>10. b \notin reloads /\ b \notin spilled /\ b \in buffersOf(source)
  <2>1. b \notin reloads /\ b \notin spilled
    BY <1>2 DEF isSpillable
  <2> QED  BY <1>2, <2>1 DEF SpillInv
<1>11. IsFiniteSet(buffersOf(source)) /\ spilled \subseteq buffersOf(source) /\ spilledBuffers = Cardinality(spilled)
  BY DEF SpillInv
<1>12. IsFiniteSet(spilled)
  BY <1>11, FS_Subset
<1>13. Cardinality(spilled \cup {b}) = spilledBuffers + 1
  BY <1>10, <1>11, <1>12, FS_AddElement
<1>14. spilled \cup {b} \subseteq buffersOf(source)
  BY <1>10, <1>11
<1>15. Cardinality(spilled \cup {b}) <= Cardinality(buffersOf(source))
  BY <1>11, <1>14, FS_Subset
<1>16. SpillInv'
  <2>1. isWellFormed(block')
    BY <1>5, <1>7
  <2>2. buffersOf(block') \subseteq buffersOf(source') \cup reloads'
    <3>1. buffersOf(o) \subseteq buffersOf(source) \cup reloads
      BY <1>5 DEF SpillInv
    <3>2. buffersOf(n) \subseteq buffersOf(source) \cup reloads'
      BY <1>8, <1>9, <3>1
    <3> QED  BY <1>5, <3>2
  <2>3. IsFiniteSet(buffersOf(source')) /\ spilled' \subseteq buffersOf(source') /\ spilledBuffers' = Cardinality(spilled')
    BY <1>1, <1>11, <1>13, <1>14
  <2>4. stage' \notin {"measuring", "placing"}
    BY <1>1
  <2> QED  BY <2>1, <2>2, <2>3, <2>4 DEF SpillInv
<1>17. ASSUME NEW c, c \in spillableNow' PROVE c \in spillableNow /\ c # b
  <2>1. /\ c \in buffersOf(n) /\ hasOneWriter(n, c) /\ ~viewWrittenThrough(n, c)
        /\ c \notin reloads' /\ c \notin spilled' /\ c \notin permuted'
        /\ \E i \in readersOf(n, c) : i > writerOf(n, c)
    BY <1>5, <1>17 DEF spillableNow, isSpillable
  <2>2. c \in buffersOf(o) /\ c # b /\ c \notin reloads /\ c \notin spilled /\ c \notin permuted
    BY <1>1, <1>8, <1>9, <2>1
  <2>3. c \in Nat \ {NoValue, b} /\ c < fresh
    <3>1. PICK i \in DOMAIN o : o[i].kind = "alloc" /\ o[i].def = c
      BY <2>2 DEF buffersOf, allocs
    <3>2. o[i] \in BlockOperation /\ o[i].def # NoValue
      BY <1>6, <3>1, OfAWellFormedBlock
    <3>3. o[i].def < fresh
      BY <1>6, <3>1 DEF Shape, Above
    <3> QED  BY <2>2, <3>1, <3>2, <3>3 DEF BlockOperation
  <2>4. ~viewWrittenThrough(o, c)
    BY <1>6, <2>1, <2>2, SpilledWrites
  <2>5. hasOneWriter(o, c) /\ writerOf(o, c) \in DOMAIN o /\ writerOf(n, c) = kept[writerOf(o, c)]
    BY <1>6, <2>1, <2>3, SpilledWriter
  <2>6. PICK j \in readersOf(n, c) : j > writerOf(n, c)
    BY <2>1
  <2>7. j \in DOMAIN n
    BY DEF readersOf
  <2>8. PICK i \in readersOf(o, c) : j = kept[i]
    BY <1>6, <2>3, <2>7, SpilledUses
  <2>9. i \in DOMAIN o /\ kept[writerOf(o, c)] < kept[i]
    BY <2>5, <2>6, <2>8 DEF readersOf
  <2>10. writerOf(o, c) < i
    BY <1>6, <2>5, <2>9, KeptPlaces
  <2>11. i > writerOf(o, c)
    BY <2>10
  <2> QED  BY <1>5, <2>2, <2>4, <2>5, <2>8, <2>11 DEF spillableNow, isSpillable
<1>18. SpillStep
  <2>1. spillableNow' \subseteq spillableNow /\ b \notin spillableNow'
    BY <1>17
  <2>2. spilledBuffers' <= Cardinality(buffersOf(source))
    BY <1>1, <1>13, <1>15
  <2> QED  BY <1>1, <2>1, <2>2 DEF SpillStep
<1> QED  BY <1>16, <1>18

(* Every step keeps the invariant, and only a spill counts one.            *)
LEMMA StepsKeepSpillInv ==
  SpillInv /\ [Next]_vars => SpillInv' /\ (spilledBuffers' # spilledBuffers => SpillStep)
<1> SUFFICES ASSUME SpillInv, [Next]_vars
             PROVE  SpillInv' /\ (spilledBuffers' # spilledBuffers => SpillStep)
  OBVIOUS
<1>1. ASSUME Collect, source' = source PROVE SpillInv' /\ spilledBuffers' = spilledBuffers
  <2>1. /\ block' = block /\ reloads' = reloads /\ spilled' = spilled /\ spilledBuffers' = spilledBuffers
        /\ intervals' = liveIntervals(block, size)
    BY <1>1 DEF Collect, function, counts
  <2>2. DOMAIN intervals' = DOMAIN collected(block)
    BY <2>1 DEF liveIntervals
  <2> QED  BY <1>1, <2>1, <2>2 DEF SpillInv
<1>2. ASSUME Measure, source' = source PROVE SpillInv' /\ spilledBuffers' = spilledBuffers
  <2>1. /\ block' = block /\ reloads' = reloads /\ spilled' = spilled /\ spilledBuffers' = spilledBuffers
        /\ intervals' = intervals /\ stage = "measuring"
    BY <1>2 DEF Measure, function, counts
  <2> QED  BY <1>2, <2>1 DEF SpillInv
<1>3. ASSUME Place, source' = source PROVE SpillInv' /\ spilledBuffers' = spilledBuffers
  <2>1. /\ block' = block /\ reloads' = reloads /\ spilled' = spilled /\ spilledBuffers' = spilledBuffers
        /\ stage' = stage /\ stage = "placing"
    BY <1>3 DEF Place, function, counts
  <2>2. intervals' = intervals
    BY <1>3 DEF Place, Offsets!Next, Offsets!Take, Offsets!Skip, Offsets!Settle, Offsets!Fail, Offsets!Finish, Offsets!inputs
  <2> QED  BY <1>3, <2>1, <2>2 DEF SpillInv
<1>4. ASSUME Refuse \/ Materialise, source' = source PROVE SpillInv' /\ spilledBuffers' = spilledBuffers
  <2>1. /\ block' = block /\ reloads' = reloads /\ spilled' = spilled /\ spilledBuffers' = spilledBuffers
        /\ stage' \in {"refused", "allocated"}
    BY <1>4 DEF Refuse, Materialise, function, counts
  <2> QED  BY <1>4, <2>1 DEF SpillInv
<1>5. ASSUME Run PROVE SpillInv' /\ spilledBuffers' = spilledBuffers
  <2>1. UNCHANGED <<passVars, source>>
    BY <1>5 DEF Run, Load, Define, Compute, DmaLoad, DmaStore, DmaLoadAsync, Land, Await, Issuing
  <2>2. /\ block' = block /\ reloads' = reloads /\ spilled' = spilled /\ spilledBuffers' = spilledBuffers
        /\ stage' = stage /\ intervals' = intervals /\ source' = source
    BY <2>1 DEF passVars, function, counts, placement
  <2> QED  BY <2>2 DEF SpillInv
<1>6. ASSUME UNCHANGED vars PROVE SpillInv' /\ spilledBuffers' = spilledBuffers
  <2>1. /\ block' = block /\ reloads' = reloads /\ spilled' = spilled /\ spilledBuffers' = spilledBuffers
        /\ stage' = stage /\ intervals' = intervals /\ source' = source
    BY <1>6 DEF vars, passVars, function, counts, placement
  <2> QED  BY <2>1 DEF SpillInv
<1> QED  BY <1>1, <1>2, <1>3, <1>4, <1>5, <1>6, SpillConsumes DEF Next, PassNext

(* The spill loop cannot spill its own output (spillRefusal,               *)
(* AllocateScratchpad.cpp): whatever well formed program, budget, strategy *)
(* and heuristic, each spill uses up one buffer of the source program for  *)
(* good, so there are at most as many spills as the source program has     *)
(* buffers.                                                                *)
THEOREM SpecSpillsSourceBuffersOnly == Spec => SpillingConsumesSourceBuffers
<1>1. SpillInv /\ [Next]_vars
        => [spilledBuffers' # spilledBuffers =>
              /\ spillableNow' \subseteq spillableNow
              /\ spillableNow' # spillableNow
              /\ spilledBuffers' <= Cardinality(buffersOf(source))]_vars
  BY StepsKeepSpillInv DEF SpillStep
<1>2. SpillInv /\ [Next]_vars => SpillInv'
  BY StepsKeepSpillInv
<1> QED  BY <1>1, <1>2, InitSpillInv, PTL DEF Spec, SpillingConsumesSourceBuffers
-----------------------------------------------------------------------------
(* n is o with the operations of moved brought together before place e,    *)
(* and the operation at l split in two: x after them, y where it was.      *)
(* to[i] is where operation i has gone.                                    *)
staying(o, l, moved) == (1..Len(o)) \ (moved \cup {l})

Hoisted(o, n, l, e, moved, to, x, y) ==
  /\ Len(n) = Len(o) + 1 /\ Len(n) \in Nat /\ Len(o) \in Nat
  /\ \A i \in 1..Len(o) : to[i] \in 1..Len(n) /\ to[i] # l + 1
  /\ \A i, j \in 1..Len(o) : to[i] = to[j] => i = j
  /\ \A j \in 1..Len(n) : j = l + 1 \/ \E i \in 1..Len(o) : j = to[i]
  /\ \A i \in 1..Len(o) : n[to[i]] = IF i = l THEN x ELSE o[i]
  /\ l + 1 \in 1..Len(n) /\ n[l + 1] = y
  /\ \A i \in 1..Len(o) : IF i <= l THEN to[i] <= l ELSE to[i] = i + 1
  /\ \A i, j \in staying(o, l, moved) : i < j => to[i] < to[j]
  /\ \A i \in moved \cup {l} : \A j \in staying(o, l, moved) :
       IF j < e THEN to[j] < to[i] ELSE to[i] < to[j]

(* The places below l: those before e and those after it that stay.        *)
stayBefore(e, moved) == (1..(e - 1)) \ moved
stayAfter(l, e, moved) == (e..(l - 1)) \ moved

Order(l, e, moved, K) ==
  /\ K \in Nat /\ l \in Nat /\ 1 <= l /\ l <= K /\ e \in Nat /\ 1 <= e /\ e <= l
  /\ \A i \in stayBefore(e, moved) : i \in Nat /\ i < e /\ i < l /\ 1 <= i /\ i \notin moved
  /\ \A i \in moved : i \in Nat /\ i < l /\ 1 <= i
  /\ \A i \in stayAfter(l, e, moved) : i \in Nat /\ e <= i /\ i < l /\ i \notin moved
  /\ \A i \in 1..K : i \in Nat
  /\ \A i \in 1..K : i < l => i \in stayBefore(e, moved) \/ i \in moved \/ i \in stayAfter(l, e, moved)

(* The places of a hoist are in that order.                                *)
LEMMA InOrderOf ==
  ASSUME NEW K \in Nat, NEW l \in 1..K, NEW e \in 1..l, NEW moved \in SUBSET (1..(l - 1))
  PROVE  Order(l, e, moved, K)
BY DEF Order, stayBefore, stayAfter

(* How many of the places below l come before e and stay, move, or stay.   *)
LEMMA ThreeParts ==
  ASSUME NEW l \in Nat \ {0}, NEW e \in 1..l, NEW moved \in SUBSET (1..(l - 1))
  PROVE  /\ Cardinality(stayBefore(e, moved)) \in Nat /\ Cardinality(moved) \in Nat
         /\ Cardinality(stayAfter(l, e, moved)) \in Nat
         /\ Cardinality(stayBefore(e, moved)) + Cardinality(moved) + Cardinality(stayAfter(l, e, moved)) = l - 1
         /\ stayBefore(e, moved) \in SUBSET (1..(l - 1)) /\ stayAfter(l, e, moved) \in SUBSET (1..(l - 1))
<1> DEFINE before == stayBefore(e, moved)
           after == stayAfter(l, e, moved)
           U == 1..(l - 1)
<1>1. l - 1 \in Nat /\ before \in SUBSET U /\ after \in SUBSET U /\ moved \in SUBSET U
  BY DEF stayBefore, stayAfter
<1>2. IsFiniteSet(before) /\ IsFiniteSet(moved) /\ IsFiniteSet(after)
  BY <1>1, RankFacts
<1>3. before \cap moved = {} /\ (before \cup moved) \cap after = {} /\ (before \cup moved) \cup after = U
  <2>1. \A i \in U : i \in Nat /\ 1 <= i /\ i <= l - 1
    OBVIOUS
  <2>2. \A i \in U : i \in before <=> i < e /\ i \notin moved
    BY <2>1 DEF stayBefore
  <2>3. \A i \in U : i \in after <=> e <= i /\ i \notin moved
    BY <2>1 DEF stayAfter
  <2>4. \A i \in U : i < e <=> ~(e <= i)
    BY <2>1
  <2> HIDE DEF before, after, U
  <2> QED  BY <1>1, <2>2, <2>3, <2>4
<1>4. Cardinality(before) \in Nat /\ Cardinality(moved) \in Nat /\ Cardinality(after) \in Nat
  BY <1>2, FS_CardinalityType
<1>7. Cardinality(U) = l - 1
  BY <1>1, FS_Interval
<1> HIDE DEF before, after, U
<1>5. IsFiniteSet(before \cup moved) /\ Cardinality(before \cup moved) = Cardinality(before) + Cardinality(moved)
  <2>1. /\ IsFiniteSet(before \cup moved)
        /\ Cardinality(before \cup moved) = Cardinality(before) + Cardinality(moved) - Cardinality(before \cap moved)
    BY <1>2, FS_Union
  <2>2. Cardinality(before \cap moved) = 0
    BY <1>3, FS_EmptySet
  <2> QED  BY <1>4, <2>1, <2>2
<1>6. Cardinality(U) = Cardinality(before \cup moved) + Cardinality(after)
  <2>1. Cardinality((before \cup moved) \cup after)
          = Cardinality(before \cup moved) + Cardinality(after) - Cardinality((before \cup moved) \cap after)
    BY <1>2, <1>5, FS_Union
  <2>2. Cardinality((before \cup moved) \cap after) = 0
    BY <1>3, FS_EmptySet
  <2>3. Cardinality(before \cup moved) \in Nat
    BY <1>4, <1>5
  <2> QED  BY <1>3, <1>4, <2>1, <2>2, <2>3
<1>9. Cardinality(before) + Cardinality(moved) + Cardinality(after) = l - 1
  BY <1>4, <1>5, <1>6, <1>7
<1> QED  BY <1>1, <1>4, <1>9 DEF before, after, U

(* Where the three parts begin and end: b operations before e stay, and m  *)
(* move.                                                                   *)
Parted(o, n, l, e, moved, to, x, y, b, m, K) ==
  /\ b \in Nat /\ m \in Nat /\ b + m + 1 <= l
  /\ Len(n) = K + 1 /\ Len(o) = K
  /\ \A i \in stayBefore(e, moved) : to[i] \in 1..b /\ n[to[i]] = o[i]
  /\ \A k \in 1..b : \E i \in stayBefore(e, moved) : to[i] = k
  /\ \A i, j \in stayBefore(e, moved) : i < j => to[i] < to[j]
  /\ \A i \in moved : to[i] \in (b + 1)..(b + m) /\ n[to[i]] = o[i]
  /\ \A k \in (b + 1)..(b + m) : \E i \in moved : to[i] = k
  /\ \A i, j \in moved : to[i] = to[j] => i = j
  /\ to[l] = b + m + 1 /\ n[to[l]] = x
  /\ \A i \in stayAfter(l, e, moved) : to[i] \in (b + m + 2)..l /\ n[to[i]] = o[i]
  /\ \A k \in (b + m + 2)..l : \E i \in stayAfter(l, e, moved) : to[i] = k
  /\ \A i, j \in stayAfter(l, e, moved) : i < j => to[i] < to[j]
  /\ n[l + 1] = y
  /\ \A i \in 1..K : i > l => to[i] = i + 1 /\ n[to[i]] = o[i]

(* Six lists one after the other, with those places, are a hoist.          *)
LEMMA PartedIsHoisted ==
  ASSUME NEW o, NEW n, NEW l, NEW e, NEW moved, NEW to, NEW x, NEW y, NEW b, NEW m, NEW K,
         Order(l, e, moved, K), Parted(o, n, l, e, moved, to, x, y, b, m, K)
  PROVE  Hoisted(o, n, l, e, moved, to, x, y)
<1> DEFINE before == stayBefore(e, moved)
           after  == stayAfter(l, e, moved)
           stay   == staying(o, l, moved)
           both   == moved \cup {l}
<1>1. K \in Nat /\ l \in Nat /\ 1 <= l /\ l <= K /\ e \in Nat /\ 1 <= e /\ e <= l
  BY DEF Order
<1>2. /\ \A i \in before : i \in Nat /\ i < e /\ i < l /\ 1 <= i /\ i \notin moved
      /\ \A i \in moved : i \in Nat /\ i < l /\ 1 <= i
      /\ \A i \in after : i \in Nat /\ e <= i /\ i < l /\ i \notin moved
      /\ \A i \in 1..K : i \in Nat
  BY DEF Order
<1>3. b \in Nat /\ m \in Nat /\ b + m + 1 <= l /\ Len(n) = K + 1 /\ Len(o) = K /\ n[l + 1] = y
  BY DEF Parted
<1>4. /\ \A i \in before : to[i] \in 1..b /\ n[to[i]] = o[i]
      /\ \A k \in 1..b : \E i \in before : to[i] = k
      /\ \A i, j \in before : i < j => to[i] < to[j]
  BY DEF Parted
<1>5. /\ \A i \in moved : to[i] \in (b + 1)..(b + m) /\ n[to[i]] = o[i]
      /\ \A k \in (b + 1)..(b + m) : \E i \in moved : to[i] = k
      /\ \A i, j \in moved : to[i] = to[j] => i = j
  BY DEF Parted
<1>6. to[l] = b + m + 1 /\ n[to[l]] = x
  BY DEF Parted
<1>7. /\ \A i \in after : to[i] \in (b + m + 2)..l /\ n[to[i]] = o[i]
      /\ \A k \in (b + m + 2)..l : \E i \in after : to[i] = k
      /\ \A i, j \in after : i < j => to[i] < to[j]
  BY DEF Parted
<1>8. \A i \in 1..K : i > l => to[i] = i + 1 /\ n[to[i]] = o[i]
  BY DEF Parted
<1>9. \A i \in 1..K : i < l => i \in before \/ i \in moved \/ i \in after
  BY DEF Order
<1>10. \A i \in 1..K : i \in before \/ i \in moved \/ i \in after \/ i = l \/ i > l
  BY <1>1, <1>2, <1>9
<1>11. /\ \A i \in stay : i \in before \/ i \in after \/ i > l
       /\ \A i \in stay : i \in 1..K /\ i \in Nat
       /\ \A i \in 1..K : i \in stay \/ i \in both
  BY <1>2, <1>3, <1>10 DEF staying
<1>12. \A i \in both : to[i] \in (b + 1)..(b + m + 1)
  BY <1>3, <1>5, <1>6
<1> HIDE DEF before, after, stay, both
<1>13. \A i \in 1..K : (i <= l => to[i] \in 1..l) /\ (i > l => to[i] = i + 1)
  <2>1. \A i \in before : to[i] \in 1..l
    BY <1>1, <1>3, <1>4
  <2>2. \A i \in moved : to[i] \in 1..l
    BY <1>1, <1>3, <1>5
  <2>3. \A i \in after : to[i] \in 1..l
    BY <1>1, <1>3, <1>7
  <2>4. to[l] \in 1..l
    BY <1>1, <1>3, <1>6
  <2> TAKE i \in 1..K
  <2>5. i > l => to[i] = i + 1
    BY <1>8
  <2>6. i <= l => i \in before \/ i \in moved \/ i \in after \/ i = l
    BY <1>1, <1>2, <1>9
  <2> QED  BY <2>1, <2>2, <2>3, <2>4, <2>5, <2>6
<1>14. \A i \in 1..K : to[i] \in 1..(K + 1) /\ to[i] # l + 1 /\ to[i] \in Nat
  <2> TAKE i \in 1..K
  <2>1. CASE i <= l
    BY <1>1, <1>13, <2>1
  <2>2. CASE i > l
    BY <1>1, <1>2, <1>13, <2>2
  <2> QED  BY <1>1, <1>2, <2>1, <2>2
<1>15. \A i \in 1..K : n[to[i]] = IF i = l THEN x ELSE o[i]
  BY <1>4, <1>5, <1>6, <1>7, <1>8, <1>10
<1>16. ASSUME NEW i \in stay, NEW j \in stay, i < j PROVE to[i] < to[j]
  <2>0. i \in Nat /\ j \in Nat /\ i \in 1..K /\ j \in 1..K
    BY <1>11
  <2>1. CASE j > l
    <3>1. to[j] = j + 1
      BY <1>8, <2>0, <2>1
    <3>2. CASE i <= l
      BY <1>1, <1>13, <2>0, <2>1, <3>1, <3>2
    <3>3. CASE i > l
      BY <1>8, <1>16, <2>0, <3>1, <3>3
    <3> QED  BY <1>1, <2>0, <3>2, <3>3
  <2>2. CASE j \in before
    <3>1. i \in before
      BY <1>1, <1>2, <1>11, <1>16, <2>0, <2>2
    <3> QED  BY <1>4, <1>16, <2>2, <3>1
  <2>3. CASE j \in after /\ i \in before
    BY <1>3, <1>4, <1>7, <2>3
  <2>4. CASE j \in after /\ i \in after
    BY <1>7, <1>16, <2>4
  <2>5. CASE j \in after /\ i > l
    BY <1>1, <1>2, <1>16, <2>0, <2>5
  <2> QED  BY <1>11, <2>1, <2>2, <2>3, <2>4, <2>5
<1>17. ASSUME NEW i \in both, NEW j \in stay
       PROVE  IF j < e THEN to[j] < to[i] ELSE to[i] < to[j]
  <2>0. to[i] \in Nat /\ b + 1 <= to[i] /\ to[i] <= b + m + 1
    BY <1>3, <1>12
  <2>1. CASE j \in before
    <3>1. j < e /\ to[j] \in Nat /\ to[j] <= b
      BY <1>2, <1>3, <1>4, <2>1
    <3> QED  BY <1>3, <2>0, <3>1
  <2>2. CASE j \in after
    <3>1. ~(j < e) /\ to[j] \in Nat /\ b + m + 2 <= to[j]
      BY <1>1, <1>2, <1>3, <1>7, <2>2
    <3> QED  BY <1>3, <2>0, <3>1
  <2>3. CASE j > l
    <3>1. j \in Nat /\ to[j] = j + 1
      BY <1>8, <1>11, <2>3
    <3>2. ~(j < e)
      BY <1>1, <2>3, <3>1
    <3> QED  BY <1>1, <1>3, <2>0, <2>3, <3>1, <3>2
  <2> QED  BY <1>11, <2>1, <2>2, <2>3
<1>18. ASSUME NEW i \in 1..K, NEW j \in 1..K, to[i] = to[j] PROVE i = j
  <2>0. i \in Nat /\ j \in Nat /\ to[i] \in Nat /\ to[j] \in Nat
    BY <1>2, <1>14
  <2>1. CASE i \in stay /\ j \in stay
    <3>1. ~(i < j) /\ ~(j < i)
      BY <1>16, <1>18, <2>0, <2>1
    <3> QED  BY <2>0, <3>1
  <2>2. CASE i \in stay /\ j \in both
    BY <1>17, <1>18, <2>0, <2>2
  <2>3. CASE j \in stay /\ i \in both
    BY <1>17, <1>18, <2>0, <2>3
  <2>4. CASE i \in moved /\ j \in moved
    BY <1>5, <1>18, <2>4
  <2>5. ASSUME NEW k \in moved PROVE to[k] # to[l]
    BY <1>3, <1>5, <1>6
  <2>6. CASE i \in both /\ j \in both
    BY <1>18, <2>4, <2>5, <2>6 DEF both
  <2> QED  BY <1>11, <2>1, <2>2, <2>3, <2>6
<1>19. ASSUME NEW j \in 1..(K + 1), j # l + 1 PROVE \E i \in 1..K : j = to[i]
  <2>0. /\ \A i \in before : i \in 1..K
        /\ \A i \in moved : i \in 1..K
        /\ \A i \in after : i \in 1..K
        /\ l \in 1..K
    <3>1. \A i \in before : i \in 1..K
      BY <1>1, <1>2
    <3>2. \A i \in moved : i \in 1..K
      BY <1>1, <1>2
    <3>3. \A i \in after : i \in 1..K
      BY <1>1, <1>2
    <3> QED  BY <1>1, <3>1, <3>2, <3>3
  <2>1. CASE j \in 1..b
    BY <1>4, <2>0, <2>1
  <2>2. CASE j \in (b + 1)..(b + m)
    BY <1>5, <2>0, <2>2
  <2>3. CASE j = b + m + 1
    BY <1>6, <2>0, <2>3
  <2>4. CASE j \in (b + m + 2)..l
    BY <1>7, <2>0, <2>4
  <2>5. CASE j > l
    <3>1. j - 1 \in 1..K /\ j - 1 > l /\ (j - 1) + 1 = j
      BY <1>1, <1>19, <2>5
    <3> QED  BY <1>8, <3>1
  <2>6. j \in Nat /\ 1 <= j
    BY <1>1
  <2>7. j \in 1..b \/ j \in (b + 1)..(b + m) \/ j = b + m + 1 \/ j \in (b + m + 2)..l \/ j > l
    BY <1>1, <1>3, <2>6
  <2> QED  BY <2>1, <2>2, <2>3, <2>4, <2>5, <2>7
<1>20. l + 1 \in 1..(K + 1) /\ K + 1 \in Nat
  BY <1>1
<1>21. \A i \in 1..K : IF i <= l THEN to[i] <= l ELSE to[i] = i + 1
  <2> TAKE i \in 1..K
  <2>1. i \in Nat
    BY <1>2
  <2>2. i <= l => to[i] <= l
    BY <1>1, <1>13
  <2>3. ~(i <= l) => i > l
    BY <1>1, <2>1
  <2> QED  BY <1>13, <2>2, <2>3
<1>22. \A i \in moved \cup {l} : \A j \in staying(o, l, moved) : IF j < e THEN to[j] < to[i] ELSE to[i] < to[j]
  BY <1>17 DEF stay, both
<1>23. \A i, j \in staying(o, l, moved) : i < j => to[i] < to[j]
  BY <1>16 DEF stay
<1> QED  BY <1>1, <1>3, <1>14, <1>15, <1>18, <1>19, <1>20, <1>21, <1>22, <1>23 DEF Hoisted
-----------------------------------------------------------------------------
IsPlaced(T, o, n, l, e, moved, x, y) == n \in Seq(T) /\ \E to : Hoisted(o, n, l, e, moved, to, x, y)

(* What follows place l of a block, as a block.                            *)
LEMMA FromPlace ==
  ASSUME NEW T, NEW o \in Seq(T), NEW l \in Nat, NEW K \in Nat, K = Len(o), l <= K, NEW Z, Z = SubSeq(o, l + 1, Len(o))
  PROVE  Z \in Seq(T) /\ Len(Z) = K - l /\ \A k \in 1..(K - l) : Z[k] = o[l + k]
<1>1. Z \in Seq(T)
  <2>1. \A i \in (l + 1)..Len(o) : o[i] \in T
    OBVIOUS
  <2> QED  BY <2>1
<1>2. Len(Z) = K - l
  OBVIOUS
<1>3. \A k \in 1..(K - l) : Z[k] = o[l + k]
  <2> TAKE k \in 1..(K - l)
  <2>1. k \in Nat /\ 1 <= k /\ l + k \in (l + 1)..Len(o) /\ l + 1 + k - 1 = l + k
    OBVIOUS
  <2> QED  BY <2>1
<1> QED  BY <1>1, <1>2, <1>3

(* What HoistRewrite joins is the block with each operation moved.         *)
LEMMA HoistPlaces ==
  ASSUME NEW T, NEW o \in Seq(T), NEW l \in 1..Len(o), NEW e \in 1..l, NEW moved \in SUBSET (1..(l - 1)),
         NEW x \in T, NEW y \in T, NEW n,
         n = picked(o, stayBefore(e, moved)) \o picked(o, moved) \o <<x>>
               \o picked(o, stayAfter(l, e, moved)) \o <<y>> \o SubSeq(o, l + 1, Len(o))
  PROVE  IsPlaced(T, o, n, l, e, moved, x, y)
<1>1. PICK K : K = Len(o)
  OBVIOUS
<1>2. PICK before, after : before = stayBefore(e, moved) /\ after = stayAfter(l, e, moved)
  OBVIOUS
<1>3. PICK b, m, c : b = Cardinality(before) /\ m = Cardinality(moved) /\ c = Cardinality(after)
  OBVIOUS
<1>4. PICK A, M, C, Z : A = picked(o, before) /\ M = picked(o, moved) /\ C = picked(o, after) /\ Z = SubSeq(o, l + 1, Len(o))
  OBVIOUS
<1>5. K \in Nat /\ l \in Nat \ {0} /\ l <= K /\ l \in 1..K
  BY <1>1
<1>6. /\ b \in Nat /\ m \in Nat /\ c \in Nat /\ b + m + c = l - 1
      /\ before \in SUBSET (1..(l - 1)) /\ after \in SUBSET (1..(l - 1)) /\ moved \in SUBSET (1..(l - 1))
  BY <1>2, <1>3, <1>5, ThreeParts
<1>7. before \in SUBSET (1..Len(o)) /\ moved \in SUBSET (1..Len(o)) /\ after \in SUBSET (1..Len(o))
  <2>1. \A i \in 1..(l - 1) : i \in 1..Len(o)
    BY <1>1, <1>5
  <2> QED  BY <1>6, <2>1
<1>8. /\ A \in Seq(T) /\ Len(A) = b
      /\ \A i \in before : rankOf(i, before) \in 1..b /\ A[rankOf(i, before)] = o[i]
      /\ \A k \in 1..b : \E i \in before : rankOf(i, before) = k
  BY ONLY o \in Seq(T), <1>3, <1>4, <1>7, Picked
<1>9. /\ M \in Seq(T) /\ Len(M) = m
      /\ \A i \in moved : rankOf(i, moved) \in 1..m /\ M[rankOf(i, moved)] = o[i]
      /\ \A k \in 1..m : \E i \in moved : rankOf(i, moved) = k
  BY ONLY o \in Seq(T), <1>3, <1>4, <1>7, Picked
<1>10. /\ C \in Seq(T) /\ Len(C) = c
       /\ \A i \in after : rankOf(i, after) \in 1..c /\ C[rankOf(i, after)] = o[i]
       /\ \A k \in 1..c : \E i \in after : rankOf(i, after) = k
  BY ONLY o \in Seq(T), <1>3, <1>4, <1>7, Picked
<1>11. Z \in Seq(T) /\ Len(Z) = K - l /\ \A k \in 1..(K - l) : Z[k] = o[l + k]
  <2>1. l \in Nat /\ Z = SubSeq(o, l + 1, Len(o))
    BY <1>4, <1>5
  <2> QED  BY ONLY o \in Seq(T), <1>1, <1>5, <2>1, FromPlace
<1>12. n = A \o M \o <<x>> \o C \o <<y>> \o Z
  BY <1>2, <1>4
<1>13. /\ n \in Seq(T)
       /\ Len(n) = K + 1
       /\ \A k \in 1..b : n[k] = A[k]
       /\ \A k \in 1..m : n[b + k] = M[k]
       /\ n[b + m + 1] = x
       /\ \A k \in 1..c : n[b + m + 1 + k] = C[k]
       /\ n[l + 1] = y
       /\ \A k \in 1..(K - l) : n[l + 1 + k] = Z[k]
  <2>1. /\ n \in Seq(T)
        /\ Len(n) = Len(A) + Len(M) + Len(C) + Len(Z) + 2
        /\ \A k \in 1..Len(A) : n[k] = A[k]
        /\ \A k \in 1..Len(M) : n[Len(A) + k] = M[k]
        /\ n[Len(A) + Len(M) + 1] = x
        /\ \A k \in 1..Len(C) : n[Len(A) + Len(M) + 1 + k] = C[k]
        /\ n[Len(A) + Len(M) + Len(C) + 2] = y
        /\ \A k \in 1..Len(Z) : n[Len(A) + Len(M) + Len(C) + 2 + k] = Z[k]
    <3>1. A \in Seq(T) /\ M \in Seq(T) /\ C \in Seq(T) /\ Z \in Seq(T)
      BY <1>8, <1>9, <1>10, <1>11
    <3>2. SixOf(T, n, A, M, C, Z, x, y)
      BY ONLY x \in T, y \in T, <1>12, <3>1, SixParts
    <3> QED  BY ONLY <3>2 DEF SixOf
  <2>2. b + m + c + (K - l) + 2 = K + 1 /\ b + m + c + 2 = l + 1
    BY <1>5, <1>6
  <2>3. Len(A) = b /\ Len(M) = m /\ Len(C) = c /\ Len(Z) = K - l
    BY <1>8, <1>9, <1>10, <1>11
  <2> QED  BY ONLY <2>1, <2>2, <2>3
<1>14. Order(l, e, moved, K)
  BY <1>1, <1>5, InOrderOf
<1>15. /\ \A i \in before : i \in Nat /\ i < e /\ i < l /\ 1 <= i /\ i \notin moved
       /\ \A i \in moved : i \in Nat /\ i < l /\ 1 <= i
       /\ \A i \in after : i \in Nat /\ e <= i /\ i < l /\ i \notin moved
       /\ \A i \in 1..K : i \in Nat
       /\ e \in Nat
  BY <1>2, <1>14 DEF Order
<1>16. /\ \A i, j \in before : i < j => rankOf(i, before) < rankOf(j, before)
       /\ \A i, j \in after : i < j => rankOf(i, after) < rankOf(j, after)
       /\ \A i, j \in moved : rankOf(i, moved) = rankOf(j, moved) => i = j
  <2>0. before \in SUBSET (1..K) /\ after \in SUBSET (1..K) /\ moved \in SUBSET (1..K)
    BY <1>1, <1>7
  <2>1. ASSUME NEW i \in before, NEW j \in before, i < j PROVE rankOf(i, before) < rankOf(j, before)
    BY ONLY <1>5, <1>15, <2>0, <2>1, RankGrows
  <2>2. ASSUME NEW i \in after, NEW j \in after, i < j PROVE rankOf(i, after) < rankOf(j, after)
    BY ONLY <1>5, <1>15, <2>0, <2>2, RankGrows
  <2>3. \A i, j \in moved : rankOf(i, moved) = rankOf(j, moved) => i = j
    BY ONLY <1>5, <2>0, RanksOfMembers
  <2> QED  BY <2>1, <2>2, <2>3
<1> DEFINE to == [i \in 1..K |-> IF i \in before THEN rankOf(i, before)
                                 ELSE IF i \in moved THEN b + rankOf(i, moved)
                                 ELSE IF i = l THEN b + m + 1
                                 ELSE IF i \in after THEN b + m + 1 + rankOf(i, after)
                                 ELSE i + 1]
<1>17. \A i \in 1..K : to[i] = IF i \in before THEN rankOf(i, before)
                                 ELSE IF i \in moved THEN b + rankOf(i, moved)
                                 ELSE IF i = l THEN b + m + 1
                                 ELSE IF i \in after THEN b + m + 1 + rankOf(i, after)
                                 ELSE i + 1
  OBVIOUS
<1> HIDE DEF to
<1>18. \A i : i \in before \/ i \in moved \/ i \in after => i \in 1..K
  BY ONLY <1>1, <1>7
<1>19. \A i \in before : to[i] = rankOf(i, before)
  BY ONLY <1>17, <1>18
<1>20. \A i \in moved : to[i] = b + rankOf(i, moved)
  BY ONLY <1>15, <1>17, <1>18
<1>21. to[l] = b + m + 1
  BY ONLY <1>5, <1>15, <1>17
<1>22. \A i \in after : to[i] = b + m + 1 + rankOf(i, after)
  BY ONLY <1>5, <1>15, <1>17, <1>18
<1>23. \A i \in 1..K : i > l => to[i] = i + 1
  BY ONLY <1>5, <1>15, <1>17
<1>24. /\ \A i \in before : to[i] \in 1..b /\ n[to[i]] = o[i]
       /\ \A k \in 1..b : \E i \in before : to[i] = k
       /\ \A i, j \in before : i < j => to[i] < to[j]
  BY ONLY <1>8, <1>13, <1>16, <1>19
<1>25. \A i \in moved : to[i] \in (b + 1)..(b + m) /\ n[to[i]] = o[i]
  <2> TAKE i \in moved
  <2>1. rankOf(i, moved) \in 1..m /\ M[rankOf(i, moved)] = o[i]
    BY ONLY <1>9, i \in moved
  <2>2. b + rankOf(i, moved) \in (b + 1)..(b + m)
    BY ONLY <1>6, <2>1
  <2> QED  BY ONLY i \in moved, <1>13, <1>20, <2>1, <2>2
<1>26. \A k \in (b + 1)..(b + m) : \E i \in moved : to[i] = k
  <2> TAKE k \in (b + 1)..(b + m)
  <2>1. k - b \in 1..m /\ b + (k - b) = k
    BY ONLY <1>6, k \in (b + 1)..(b + m)
  <2>2. PICK i \in moved : rankOf(i, moved) = k - b
    BY ONLY <1>9, <2>1
  <2> QED  BY ONLY <1>20, <2>1, <2>2
<1>27. \A i, j \in moved : to[i] = to[j] => i = j
  <2>1. \A i \in moved : rankOf(i, moved) \in Nat
    BY ONLY <1>9
  <2> QED  BY ONLY <1>6, <1>16, <1>20, <2>1
<1>28. \A i \in after : to[i] \in (b + m + 2)..l /\ n[to[i]] = o[i]
  <2> TAKE i \in after
  <2>1. rankOf(i, after) \in 1..c /\ C[rankOf(i, after)] = o[i]
    BY ONLY <1>10, i \in after
  <2>2. b + m + 1 + rankOf(i, after) \in (b + m + 2)..l
    BY ONLY <1>5, <1>6, <2>1
  <2> QED  BY ONLY i \in after, <1>13, <1>22, <2>1, <2>2
<1>29. \A k \in (b + m + 2)..l : \E i \in after : to[i] = k
  <2> TAKE k \in (b + m + 2)..l
  <2>1. k - (b + m + 1) \in 1..c /\ b + m + 1 + (k - (b + m + 1)) = k
    BY ONLY <1>5, <1>6, k \in (b + m + 2)..l
  <2>2. PICK i \in after : rankOf(i, after) = k - (b + m + 1)
    BY ONLY <1>10, <2>1
  <2> QED  BY ONLY <1>22, <2>1, <2>2
<1>30. \A i, j \in after : i < j => to[i] < to[j]
  <2>1. \A i \in after : rankOf(i, after) \in Nat
    BY ONLY <1>10
  <2> QED  BY ONLY <1>6, <1>16, <1>22, <2>1
<1>31. \A i \in 1..K : i > l => to[i] = i + 1 /\ n[to[i]] = o[i]
  <2> SUFFICES ASSUME NEW i \in 1..K, i > l PROVE to[i] = i + 1 /\ n[to[i]] = o[i]
    OBVIOUS
  <2>1. to[i] = i + 1
    BY <1>23
  <2>2. i - l \in 1..(K - l) /\ l + 1 + (i - l) = i + 1 /\ l + (i - l) = i
    BY ONLY <1>5, i \in 1..K, i > l
  <2>3. n[l + 1 + (i - l)] = Z[i - l] /\ Z[i - l] = o[l + (i - l)]
    BY ONLY <1>11, <1>13, <2>2
  <2>4. n[i + 1] = o[i]
    BY ONLY <2>2, <2>3
  <2> QED  BY ONLY <2>1, <2>4
<1>32. b + m + 1 <= l
  BY ONLY <1>5, <1>6
<1>33. Parted(o, n, l, e, moved, to, x, y, b, m, K)
  BY ONLY <1>1, <1>2, <1>6, <1>13, <1>21, <1>24, <1>25, <1>26, <1>27, <1>28, <1>29, <1>30, <1>31, <1>32 DEF Parted
<1> QED  BY ONLY <1>13, <1>14, <1>33, PartedIsHoisted DEF IsPlaced
-----------------------------------------------------------------------------
(* The operations a prefetch puts in the place of the load.                *)
issued(o, l, token) == [o[l] EXCEPT !.kind = "dma_load_async", !.def = token]
awaited(token) == Operation("await", 0, NoValue, {token}, NoValue)

pureKinds == {"alloc", "slot", "view"}

IsHoist(o, n, l, e, moved, to, token) ==
  /\ Hoisted(o, n, l, e, moved, to, issued(o, l, token), awaited(token))
  /\ n \in Seq(BlockOperation)
  /\ l \in DOMAIN o /\ o[l].kind = "dma_load" /\ e \in 1..l /\ moved \in SUBSET (1..(l - 1))
  /\ Above(token, o)
  /\ \A i \in moved : o[i].kind \in pureKinds

(* x is operation i of o after a prefetch of l.                            *)
SameBut(x, o, i, l, token) ==
  /\ x.id = o[i].id /\ x.reads = o[i].reads /\ x.write = o[i].write
  /\ IF i = l THEN x.kind = "dma_load_async" /\ x.def = token ELSE x.kind = o[i].kind /\ x.def = o[i].def
  /\ o[i].def \in Nat /\ o[i].def < token /\ o[i].write \in Nat /\ o[i].write < token
  /\ o[i].reads \subseteq Nat /\ token \notin o[i].reads

Hoist(o, n, l, to, token) ==
  /\ DOMAIN o = 1..Len(o) /\ Len(o) \in Nat /\ DOMAIN n = 1..Len(n) /\ Len(n) = Len(o) + 1
  /\ \A i \in DOMAIN o : to[i] \in DOMAIN n /\ to[i] # l + 1 /\ to[i] \in Nat /\ i \in Nat
  /\ \A i, j \in DOMAIN o : to[i] = to[j] => i = j
  /\ \A j \in DOMAIN n : j = l + 1 \/ \E i \in DOMAIN o : j = to[i]
  /\ \A i \in DOMAIN o : SameBut(n[to[i]], o, i, l, token)
  /\ l \in DOMAIN o /\ l \in Nat /\ l + 1 \in DOMAIN n /\ o[l].kind = "dma_load"
  /\ n[l + 1].kind = "await" /\ n[l + 1].id = 0
  /\ n[l + 1].def = NoValue /\ n[l + 1].reads = {token} /\ n[l + 1].write = NoValue
  /\ token \in Nat /\ token # NoValue

(* What a prefetch does to each operation.                                 *)
LEMMA HoistFacts ==
  ASSUME NEW o, definesOnce(o), NEW n, NEW l, NEW e, NEW moved, NEW to, NEW token, IsHoist(o, n, l, e, moved, to, token)
  PROVE  Hoist(o, n, l, to, token)
<1>1. /\ o \in Seq(BlockOperation) /\ Len(o) \in Nat /\ DOMAIN o = 1..Len(o)
      /\ \A i \in DOMAIN o : o[i] \in BlockOperation /\ i \in Nat
  BY OfAWellFormedBlock
<1>2. /\ Hoisted(o, n, l, e, moved, to, issued(o, l, token), awaited(token))
      /\ n \in Seq(BlockOperation) /\ l \in DOMAIN o /\ o[l].kind = "dma_load" /\ Above(token, o)
  BY DEF IsHoist
<1>3. DOMAIN n = 1..Len(n) /\ Len(n) = Len(o) + 1
  BY <1>2 DEF Hoisted
<1>4. /\ \A i \in DOMAIN o : to[i] \in DOMAIN n /\ to[i] # l + 1
      /\ \A i, j \in DOMAIN o : to[i] = to[j] => i = j
      /\ \A j \in DOMAIN n : j = l + 1 \/ \E i \in DOMAIN o : j = to[i]
  BY <1>1, <1>2, <1>3 DEF Hoisted
<1>5. /\ \A i \in DOMAIN o : n[to[i]] = IF i = l THEN issued(o, l, token) ELSE o[i]
      /\ l + 1 \in DOMAIN n /\ n[l + 1] = awaited(token)
  BY <1>1, <1>2, <1>3 DEF Hoisted
<1>6. \A i \in DOMAIN o : to[i] \in Nat
  BY <1>1, <1>3, <1>4
<1>7. token \in Nat /\ \A i \in DOMAIN o : o[i].def < token /\ o[i].write < token /\ \A v \in o[i].reads : v < token
  BY <1>2 DEF Above
<1>8. token # NoValue
  BY <1>1, <1>2, <1>7 DEF NoValue, BlockOperation
<1>9. ASSUME NEW i \in DOMAIN o PROVE SameBut(n[to[i]], o, i, l, token)
  <2>1. o[i].def \in Nat /\ o[i].write \in Nat /\ o[i].reads \subseteq Nat
    BY <1>1 DEF BlockOperation
  <2>2. token \notin o[i].reads
    BY <1>7
  <2>3. i # l => n[to[i]] = o[i]
    BY <1>5
  <2>4. i = l => /\ n[to[i]].id = o[i].id /\ n[to[i]].reads = o[i].reads /\ n[to[i]].write = o[i].write
                 /\ n[to[i]].kind = "dma_load_async" /\ n[to[i]].def = token
    <3>1. o[l] \in BlockOperation
      BY <1>1, <1>2
    <3>2. /\ issued(o, l, token).id = o[l].id /\ issued(o, l, token).reads = o[l].reads
          /\ issued(o, l, token).write = o[l].write
          /\ issued(o, l, token).kind = "dma_load_async" /\ issued(o, l, token).def = token
      BY <3>1 DEF issued, BlockOperation
    <3>3. n[to[l]] = issued(o, l, token)
      BY <1>2, <1>5
    <3> QED  BY <3>2, <3>3
  <2> QED  BY <1>7, <2>1, <2>2, <2>3, <2>4 DEF SameBut
<1>10. /\ n[l + 1].kind = "await" /\ n[l + 1].id = 0
       /\ n[l + 1].def = NoValue /\ n[l + 1].reads = {token} /\ n[l + 1].write = NoValue
  BY <1>5 DEF awaited, Operation
<1> QED  BY <1>1, <1>2, <1>3, <1>4, <1>5, <1>6, <1>7, <1>8, <1>9, <1>10 DEF Hoist

(* The block stays in single assignment form.                              *)
LEMMA HoistDefinesOnce ==
  ASSUME NEW o, definesOnce(o), NEW n \in Seq(BlockOperation), NEW l, NEW to, NEW token, Hoist(o, n, l, to, token)
  PROVE  definesOnce(n)
<1> USE DEF Hoist
<1>1. /\ \A i \in DOMAIN o : IsFiniteSet(o[i].reads)
      /\ \A i, j \in DOMAIN o : o[i].def = o[j].def /\ o[i].def # NoValue => i = j
      /\ \A i \in DOMAIN o : o[i].kind \in {"alloc", "view"} => o[i].def # NoValue
  BY OfAWellFormedBlock
<1>2. ASSUME NEW i \in DOMAIN n, NEW j \in DOMAIN n, n[i].def = n[j].def, n[i].def # NoValue PROVE i = j
  <2>1. i # l + 1 /\ j # l + 1
    BY <1>2
  <2>2. PICK p \in DOMAIN o : i = to[p]
    BY <2>1
  <2>3. PICK q \in DOMAIN o : j = to[q]
    BY <2>1
  <2>4. SameBut(n[i], o, p, l, token) /\ SameBut(n[j], o, q, l, token)
    BY <2>2, <2>3
  <2>5. p = q
    BY <1>1, <1>2, <2>4 DEF SameBut
  <2> QED  BY <2>2, <2>3, <2>5
<1>3. ASSUME NEW i \in DOMAIN n PROVE IsFiniteSet(n[i].reads) /\ (n[i].kind \in {"alloc", "view"} => n[i].def # NoValue)
  <2>1. CASE i = l + 1
    <3>1. IsFiniteSet({token})
      BY FS_Singleton
    <3>2. n[i].reads = {token} /\ n[i].kind = "await"
      BY <2>1
    <3> QED  BY <3>1, <3>2
  <2>2. CASE i # l + 1
    <3>1. PICK p \in DOMAIN o : i = to[p]
      BY <2>2
    <3>2. SameBut(n[i], o, p, l, token)
      BY <3>1
    <3> QED  BY <1>1, <3>2 DEF SameBut
  <2> QED  BY <2>1, <2>2
<1> QED  BY <1>2, <1>3 DEF definesOnce

(* The values the operations of a kind define.                             *)
definedBy(o, kind) == {o[i].def : i \in {j \in DOMAIN o : o[j].kind = kind}}

(* The views and the buffers are the ones there were.                      *)
LEMMA HoistKinds ==
  ASSUME NEW o, NEW n, NEW l, NEW to, NEW token, Hoist(o, n, l, to, token), NEW kind \in {"alloc", "view"}
  PROVE  definedBy(n, kind) = definedBy(o, kind)
<1> USE DEF Hoist
<1>1. ASSUME NEW i \in DOMAIN n, n[i].kind = kind PROVE \E p \in DOMAIN o : o[p].kind = kind /\ o[p].def = n[i].def
  <2>1. i # l + 1
    BY <1>1
  <2>2. PICK p \in DOMAIN o : i = to[p]
    BY <2>1
  <2>3. SameBut(n[i], o, p, l, token)
    BY <2>2
  <2> QED  BY <1>1, <2>3 DEF SameBut
<1>2. ASSUME NEW p \in DOMAIN o, o[p].kind = kind PROVE to[p] \in DOMAIN n /\ n[to[p]].kind = kind /\ n[to[p]].def = o[p].def
  <2>1. SameBut(n[to[p]], o, p, l, token) /\ p # l
    BY <1>2
  <2> QED  BY <1>2, <2>1 DEF SameBut
<1>3. \A v : v \in definedBy(n, kind) <=> v \in definedBy(o, kind)
  <2> TAKE v
  <2>1. ASSUME v \in definedBy(n, kind) PROVE v \in definedBy(o, kind)
    BY <1>1, <2>1 DEF definedBy
  <2>2. ASSUME v \in definedBy(o, kind) PROVE v \in definedBy(n, kind)
    <3>1. PICK p \in DOMAIN o : o[p].kind = kind /\ v = o[p].def
      BY <2>2 DEF definedBy
    <3> QED  BY <1>2, <3>1 DEF definedBy
  <2> QED  BY <2>1, <2>2
<1> QED  BY Zenon, <1>3

(* Views can still be walked back.                                         *)
LEMMA HoistRanked ==
  ASSUME NEW o, NEW n, NEW l, NEW to, NEW token, Hoist(o, n, l, to, token), NEW limit, NEW rank, isRanked(o, limit, rank)
  PROVE  isRanked(n, limit, rank)
<1> USE DEF Hoist
<1>1. ASSUME NEW i \in DOMAIN n, n[i].kind = "view"
      PROVE  \E v \in n[i].reads \ {NoValue} : n[i].reads = {v} /\ rank[v] < rank[n[i].def]
  <2>1. i # l + 1
    BY <1>1
  <2>2. PICK p \in DOMAIN o : i = to[p]
    BY <2>1
  <2>3. SameBut(n[i], o, p, l, token)
    BY <2>2
  <2>4. o[p].kind = "view" /\ n[i].reads = o[p].reads /\ n[i].def = o[p].def
    BY <1>1, <2>3 DEF SameBut
  <2> QED  BY <2>4 DEF isRanked
<1> QED  BY <1>1 DEF isRanked
-----------------------------------------------------------------------------
(* Two blocks with the same views have the same roots.                     *)
LEMMA SameRoots ==
  ASSUME NEW o, definesOnce(o), NEW n, definesOnce(n), NEW limit \in Nat, NEW rank,
         isRanked(o, limit, rank), isRanked(n, limit, rank), viewsOf(n) = viewsOf(o),
         \A i \in DOMAIN o : o[i].kind = "view" =>
           \E j \in DOMAIN n : n[j].kind = "view" /\ n[j].def = o[i].def /\ n[j].reads = o[i].reads
  PROVE  \A v \in Nat : rootOf(n)[v] = rootOf(o)[v]
<1> DEFINE A == {m \in Nat : \A v \in Nat : rank[v] < m => rootOf(n)[v] = rootOf(o)[v]}
<1>1. limit \in Nat /\ \A v \in Nat : rank[v] \in Nat /\ rank[v] <= limit
  BY DEF isRanked
<1>2. 0 \in A
  BY <1>1
<1>3. ASSUME NEW m \in A PROVE m + 1 \in A
  <2>0. m \in Nat /\ \A v \in Nat : rank[v] < m => rootOf(n)[v] = rootOf(o)[v]
    OBVIOUS
  <2> SUFFICES ASSUME NEW v \in Nat, rank[v] < m + 1 PROVE rootOf(n)[v] = rootOf(o)[v]
    BY <2>0
  <2>1. CASE v \notin viewsOf(o)
    BY <2>1, RankedRootStep
  <2>2. CASE v \in viewsOf(o)
    <3>1. PICK i \in DOMAIN o : o[i].kind = "view" /\ o[i].def = v
      BY <2>2 DEF viewsOf
    <3>2. PICK j \in DOMAIN n : n[j].kind = "view" /\ n[j].def = v /\ n[j].reads = o[i].reads
      BY <3>1
    <3>3. viewed(n, j) = viewed(o, i)
      BY <3>2 DEF viewed
    <3>4. viewed(o, i) \in Nat /\ rank[viewed(o, i)] < rank[v]
      BY <3>1, OfARankedView
    <3>5. rank[viewed(o, i)] < m
      BY <1>1, <2>0, <3>4
    <3>6. rootOf(o)[v] = rootOf(o)[viewed(o, i)]
      BY <3>1, RankedRootStep
    <3>7. rootOf(n)[v] = rootOf(n)[viewed(n, j)]
      BY <3>2, RankedRootStep
    <3>8. rootOf(n)[viewed(o, i)] = rootOf(o)[viewed(o, i)]
      BY <2>0, <3>4, <3>5
    <3> QED  BY <3>3, <3>6, <3>7, <3>8
  <2> QED  BY <2>1, <2>2
<1>4. A \subseteq Nat
  OBVIOUS
<1> HIDE DEF A
<1>5. limit + 1 \in A
  BY <1>1, <1>2, <1>3, <1>4, Induct
<1>6. limit + 1 \in Nat /\ \A v \in Nat : rank[v] < limit + 1
  BY <1>1
<1> QED  BY <1>5, <1>6 DEF A

(* A prefetch keeps the views, the buffers and what each value is of.      *)
LEMMA HoistRoots ==
  ASSUME NEW o, definesOnce(o), NEW n \in Seq(BlockOperation), NEW l, NEW to, NEW token, Hoist(o, n, l, to, token),
         NEW limit \in Nat, NEW rank, isRanked(o, limit, rank)
  PROVE  /\ viewsOf(n) = viewsOf(o) /\ buffersOf(n) = buffersOf(o)
         /\ \A v \in Nat : rootOf(n)[v] = rootOf(o)[v]
<1>1. viewsOf(n) = viewsOf(o)
  <2>1. definedBy(n, "view") = definedBy(o, "view")
    BY HoistKinds
  <2> QED  BY <2>1 DEF definedBy, viewsOf
<1>2. buffersOf(n) = buffersOf(o)
  <2>1. definedBy(n, "alloc") = definedBy(o, "alloc")
    BY HoistKinds
  <2> QED  BY <2>1 DEF definedBy, buffersOf, allocs
<1>3. definesOnce(n)
  BY HoistDefinesOnce
<1>4. isRanked(n, limit, rank)
  BY HoistRanked
<1>5. ASSUME NEW i \in DOMAIN o, o[i].kind = "view"
      PROVE  \E j \in DOMAIN n : n[j].kind = "view" /\ n[j].def = o[i].def /\ n[j].reads = o[i].reads
  <2>1. to[i] \in DOMAIN n /\ SameBut(n[to[i]], o, i, l, token) /\ i # l
    BY <1>5 DEF Hoist
  <2> QED  BY <1>5, <2>1 DEF SameBut
<1>6. \A v \in Nat : rootOf(n)[v] = rootOf(o)[v]
  BY <1>1, <1>3, <1>4, <1>5, SameRoots
<1> QED  BY <1>1, <1>2, <1>6

(* An asynchronous transfer has one await, below it.                       *)
isAwaitOf(o, i, k) == k \in DOMAIN o /\ o[k].kind = "await" /\ o[k].reads = {o[i].def}

isAwaited(o) ==
  \A i \in DOMAIN o : o[i].kind = "dma_load_async" =>
    /\ o[i].def # NoValue
    /\ \E k \in DOMAIN o : i < k /\ isAwaitOf(o, i, k) /\ \A j \in DOMAIN o : isAwaitOf(o, i, j) => j = k

(* Where an operation completes.                                           *)
LEMMA OfAnAwaited ==
  ASSUME NEW o, definesOnce(o), isAwaited(o), NEW i \in DOMAIN o
  PROVE  /\ completionOf(o, i) \in DOMAIN o /\ completionOf(o, i) \in Nat /\ i <= completionOf(o, i)
         /\ o[i].kind = "dma_load_async" => i < completionOf(o, i) /\ isAwaitOf(o, i, completionOf(o, i))
         /\ o[i].kind # "dma_load_async" => completionOf(o, i) = i
<1>1. i \in Nat /\ \A j \in DOMAIN o : j \in Nat
  BY OfAWellFormedBlock
<1>2. CASE o[i].kind = "dma_load_async"
  <2>1. PICK k \in DOMAIN o : i < k /\ isAwaitOf(o, i, k) /\ \A j \in DOMAIN o : isAwaitOf(o, i, j) => j = k
    BY <1>2 DEF isAwaited
  <2>2. completionOf(o, i) = CHOOSE j \in DOMAIN o : o[j].kind = "await" /\ o[j].reads = {o[i].def}
    BY <1>2 DEF completionOf
  <2>3. completionOf(o, i) \in DOMAIN o /\ isAwaitOf(o, i, completionOf(o, i))
    BY <2>1, <2>2 DEF isAwaitOf
  <2>4. completionOf(o, i) = k
    BY <2>1, <2>3
  <2> QED  BY <1>1, <1>2, <2>1, <2>3, <2>4
<1>3. CASE o[i].kind # "dma_load_async"
  BY <1>1, <1>3 DEF completionOf
<1> QED  BY <1>2, <1>3

(* What stays keeps its order.                                             *)
LEMMA HoistOrder ==
  ASSUME NEW o, definesOnce(o), NEW n, NEW l, NEW e, NEW moved, NEW to, NEW token, IsHoist(o, n, l, e, moved, to, token),
         NEW i \in DOMAIN o, NEW j \in DOMAIN o, i < j, i # l, j # l,
         o[i].kind \notin pureKinds, o[j].kind \notin pureKinds
  PROVE  to[i] < to[j]
<1>1. DOMAIN o = 1..Len(o)
  BY OfAWellFormedBlock
<1>2. i \in staying(o, l, moved) /\ j \in staying(o, l, moved)
  BY <1>1 DEF staying, IsHoist
<1> QED  BY <1>2 DEF IsHoist, Hoisted

(* After a prefetch every asynchronous transfer still has one await.       *)
LEMMA HoistAwaited ==
  ASSUME NEW o, definesOnce(o), isAwaited(o), NEW n, NEW l, NEW e, NEW moved, NEW to, NEW token,
         IsHoist(o, n, l, e, moved, to, token)
  PROVE  isAwaited(n)
<1>1. Hoist(o, n, l, to, token)
  BY HoistFacts
<1>2. /\ \A i \in DOMAIN o : to[i] \in DOMAIN n /\ to[i] # l + 1 /\ to[i] \in Nat /\ i \in Nat
      /\ \A j \in DOMAIN n : j = l + 1 \/ \E i \in DOMAIN o : j = to[i]
      /\ \A i \in DOMAIN o : SameBut(n[to[i]], o, i, l, token)
      /\ l \in DOMAIN o /\ l \in Nat /\ l + 1 \in DOMAIN n /\ o[l].kind = "dma_load" /\ DOMAIN o = 1..Len(o)
  BY <1>1 DEF Hoist
<1>3. n[l + 1].kind = "await" /\ n[l + 1].reads = {token} /\ token \in Nat /\ token # NoValue
  BY <1>1 DEF Hoist
<1>4. ASSUME NEW j \in DOMAIN n, n[j].kind = "dma_load_async"
      PROVE  /\ n[j].def # NoValue
             /\ \E k \in DOMAIN n : j < k /\ isAwaitOf(n, j, k) /\ \A q \in DOMAIN n : isAwaitOf(n, j, q) => q = k
  <2>1. PICK i \in DOMAIN o : j = to[i]
    BY <1>2, <1>3, <1>4
  <2>2. SameBut(n[j], o, i, l, token)
    BY <1>2, <2>1
  <2>3. CASE i = l
    <3>1. n[j].def = token
      BY <2>2, <2>3 DEF SameBut
    <3>2. j <= l
      BY <1>2, <2>1, <2>3 DEF IsHoist, Hoisted
    <3>3. ASSUME NEW q \in DOMAIN n, isAwaitOf(n, j, q), q # l + 1 PROVE FALSE
      <4>1. PICK p \in DOMAIN o : q = to[p]
        BY <1>2, <3>3
      <4>2. n[q].reads = o[p].reads /\ token \notin o[p].reads
        BY <1>2, <4>1 DEF SameBut
      <4> QED  BY <3>1, <3>3, <4>2 DEF isAwaitOf
    <3>4. isAwaitOf(n, j, l + 1) /\ j < l + 1
      BY <1>2, <1>3, <2>1, <3>1, <3>2 DEF isAwaitOf
    <3> QED  BY <1>2, <1>3, <3>1, <3>3, <3>4
  <2>4. CASE i # l
    <3>1. o[i].kind = "dma_load_async" /\ n[j].def = o[i].def /\ o[i].def < token /\ o[i].def \in Nat
      BY <1>4, <2>2, <2>4 DEF SameBut
    <3>2. PICK k \in DOMAIN o : i < k /\ isAwaitOf(o, i, k) /\ \A q \in DOMAIN o : isAwaitOf(o, i, q) => q = k
      BY <3>1 DEF isAwaited
    <3>3. k # l /\ o[k].kind = "await"
      BY <1>2, <3>2 DEF isAwaitOf
    <3>4. j < to[k]
      BY <2>1, <2>4, <3>1, <3>2, <3>3, HoistOrder DEF pureKinds
    <3>5. n[to[k]].kind = "await" /\ n[to[k]].reads = {o[i].def}
      BY <1>2, <3>2, <3>3 DEF SameBut, isAwaitOf
    <3>6. ASSUME NEW q \in DOMAIN n, isAwaitOf(n, j, q) PROVE q = to[k]
      <4>1. q # l + 1
        <5>1. n[q].reads = {o[i].def} /\ o[i].def # token
          BY <1>3, <3>1, <3>6 DEF isAwaitOf
        <5> QED  BY <1>3, <5>1
      <4>2. PICK p \in DOMAIN o : q = to[p]
        BY <1>2, <4>1
      <4>3. n[q].reads = o[p].reads /\ n[q].kind = "await" /\ (p # l => n[q].kind = o[p].kind)
            /\ (p = l => n[q].kind = "dma_load_async")
        BY <1>2, <3>6, <4>2 DEF SameBut, isAwaitOf
      <4>4. isAwaitOf(o, i, p)
        BY <3>1, <3>6, <4>3 DEF isAwaitOf
      <4> QED  BY <3>2, <4>2, <4>4
    <3>7. isAwaitOf(n, j, to[k]) /\ to[k] \in DOMAIN n
      BY <1>2, <3>1, <3>5 DEF isAwaitOf
    <3>8. o[i].def # NoValue
      BY <3>1 DEF isAwaited
    <3> QED  BY <3>1, <3>4, <3>6, <3>7, <3>8
  <2> QED  BY <2>3, <2>4
<1> QED  BY <1>4 DEF isAwaited
-----------------------------------------------------------------------------
(* Allocations and slots are made of nothing, and nothing pure writes.     *)
isPlain(o) ==
  \A i \in DOMAIN o :
    /\ o[i].kind \in {"alloc", "slot"} => o[i].reads = {}
    /\ o[i].kind \in pureKinds => o[i].write = NoValue /\ o[i].def # NoValue

(* From l on nothing uses a value that is defined after it and after l.    *)
isSettled(o, l) ==
  \A i, d \in DOMAIN o : (o[d].def # NoValue /\ o[d].def \in o[i].reads \cup {o[i].write}) => d <= i \/ d <= l

(* The pure operations a value is built from, one step of prologueOf.      *)
makersOf(v) == {i \in DOMAIN block : isPure(i) /\ block[i].def = v}
builtOf(f, v) == UNION {{i} \cup UNION {f[s] : s \in block[i].reads} : i \in makersOf(v)}

(* The operations a value is made by, and what it is made of.              *)
LEMMA Makers ==
  ASSUME definesOnce(block), isPlain(block), NEW limit \in Nat, NEW rank, isRanked(block, limit, rank),
         NEW v \in Nat, NEW i \in makersOf(v)
  PROVE  /\ i \in DOMAIN block /\ block[i].def = v /\ v # NoValue /\ block[i].kind \in pureKinds
         /\ \A s \in block[i].reads : /\ s \in Nat /\ s # NoValue /\ rank[s] < rank[v]
                                      /\ rootOf(block)[s] = rootOf(block)[v]
<1>1. i \in DOMAIN block /\ block[i].def = v /\ block[i].kind \in pureKinds
  BY DEF makersOf, isPure, pureKinds
<1>2. v # NoValue
  BY <1>1 DEF isPlain
<1>3. CASE block[i].kind # "view"
  <2>1. block[i].reads = {}
    BY <1>1, <1>3 DEF isPlain, pureKinds
  <2> QED  BY <1>1, <1>2, <2>1
<1>4. CASE block[i].kind = "view"
  <2>1. /\ viewed(block, i) \in Nat /\ viewed(block, i) # NoValue /\ block[i].reads = {viewed(block, i)}
        /\ rank[viewed(block, i)] < rank[v]
    BY <1>1, <1>4, OfARankedView
  <2>2. rootOf(block)[v] = rootOf(block)[viewed(block, i)]
    BY <1>1, <1>4, RankedRootStep
  <2> QED  BY <1>1, <1>2, <2>1, <2>2
<1> QED  BY <1>3, <1>4

(* One step depends on the values of lower rank only.                      *)
LEMMA BuiltSame ==
  ASSUME definesOnce(block), isPlain(block), NEW limit \in Nat, NEW rank, isRanked(block, limit, rank),
         NEW v \in Nat, NEW f, NEW g, \A u \in Nat : rank[u] < rank[v] => f[u] = g[u]
  PROVE  builtOf(f, v) = builtOf(g, v)
<1>1. ASSUME NEW i \in makersOf(v) PROVE {f[s] : s \in block[i].reads} = {g[s] : s \in block[i].reads}
  <2>1. \A s \in block[i].reads : s \in Nat /\ rank[s] < rank[v]
    BY Makers
  <2>2. \A s \in block[i].reads : f[s] = g[s]
    BY <2>1
  <2> QED  BY <2>2
<1>2. \A i \in makersOf(v) : {i} \cup UNION {f[s] : s \in block[i].reads} = {i} \cup UNION {g[s] : s \in block[i].reads}
  BY <1>1
<1>3. {{i} \cup UNION {f[s] : s \in block[i].reads} : i \in makersOf(v)}
        = {{i} \cup UNION {g[s] : s \in block[i].reads} : i \in makersOf(v)}
  BY <1>2
<1> QED  BY <1>3 DEF builtOf

(* The recursive function of prologueOf exists.                            *)
LEMMA BuiltExists ==
  ASSUME definesOnce(block), isPlain(block), NEW limit \in Nat, NEW rank, isRanked(block, limit, rank), NEW l
  PROVE  \E f : /\ \A v \in Nat : f[v] = builtOf(f, v)
                /\ prologueOf(l) = UNION {f[v] : v \in block[l].reads \cup {block[l].write}}
<1> DEFINE Is(f) == f = [v \in Nat |-> UNION {{i} \cup UNION {f[s] : s \in block[i].reads} :
                                              i \in {j \in DOMAIN block : isPure(j) /\ block[j].def = v}}]
           A == {n \in Nat : \E f : \A v \in Nat : rank[v] < n => f[v] = builtOf(f, v)}
           F == CHOOSE f : Is(f)
<1>1. prologueOf(l) = UNION {F[v] : v \in block[l].reads \cup {block[l].write}}
  BY DEF prologueOf
<1>2. SUFFICES \E f : Is(f)
  <2> HIDE DEF Is
  <2>1. Is(F)
    BY <1>2
  <2> HIDE DEF F
  <2>2. \A v \in Nat : F[v] = builtOf(F, v)
    BY <2>1 DEF Is, builtOf, makersOf
  <2> QED  BY <1>1, <2>2
<1>3. \A v \in Nat : rank[v] \in Nat /\ rank[v] <= limit
  BY DEF isRanked
<1>4. 0 \in A
  BY <1>3
<1>5. ASSUME NEW n \in A PROVE n + 1 \in A
  <2>1. n \in Nat
    OBVIOUS
  <2>2. PICK f : \A v \in Nat : rank[v] < n => f[v] = builtOf(f, v)
    OBVIOUS
  <2> DEFINE g == [v \in Nat |-> builtOf(f, v)]
  <2>3. \A v \in Nat : g[v] = builtOf(f, v)
    OBVIOUS
  <2> HIDE DEF g
  <2>4. ASSUME NEW v \in Nat, rank[v] < n + 1 PROVE g[v] = builtOf(g, v)
    <3>1. ASSUME NEW u \in Nat, rank[u] < rank[v] PROVE f[u] = g[u]
      <4>1. rank[u] < n
        BY <1>3, <2>1, <2>4, <3>1
      <4> QED  BY <2>2, <2>3, <4>1
    <3>2. builtOf(f, v) = builtOf(g, v)
      BY <3>1, BuiltSame
    <3> QED  BY <2>3, <3>2
  <2>5. n + 1 \in Nat
    BY <2>1
  <2> QED  BY <2>4, <2>5
<1>6. A \subseteq Nat
  OBVIOUS
<1>7. limit + 1 \in A
  <2> HIDE DEF A
  <2> QED  BY <1>4, <1>5, <1>6, Induct
<1>8. PICK f : \A v \in Nat : rank[v] < limit + 1 => f[v] = builtOf(f, v)
  BY <1>7
<1>9. \A v \in Nat : f[v] = builtOf(f, v)
  BY <1>3, <1>8
<1> DEFINE g == [v \in Nat |-> builtOf(f, v)]
<1>10. \A v \in Nat : g[v] = f[v]
  BY <1>9
<1>11. g = [v \in Nat |-> builtOf(g, v)]
  <2> HIDE DEF g
  <2>1. \A v \in Nat : builtOf(g, v) = builtOf(f, v)
    BY <1>10, BuiltSame
  <2>2. [v \in Nat |-> builtOf(g, v)] = [v \in Nat |-> builtOf(f, v)]
    BY <2>1
  <2> QED  BY <2>2 DEF g
<1> HIDE DEF g
<1>12. Is(g)
  BY <1>11 DEF builtOf, makersOf
<1> QED  BY <1>12

(* What a value is built from: pure operations on the same buffer, defined *)
(* above l when the value is.                                              *)
LEMMA BuiltFrom ==
  ASSUME definesOnce(block), isPlain(block), NEW limit \in Nat, NEW rank, isRanked(block, limit, rank),
         NEW l \in DOMAIN block, isSettled(block, l), NEW f, \A v \in Nat : f[v] = builtOf(f, v)
  PROVE  \A v \in Nat : \A i \in f[v] :
           /\ v # NoValue /\ i \in DOMAIN block /\ block[i].kind \in pureKinds
           /\ rootOf(block)[block[i].def] = rootOf(block)[v]
           /\ (\A d \in DOMAIN block : block[d].def = v => d <= l) => i <= l
<1> DEFINE Good(v, i) == /\ v # NoValue /\ i \in DOMAIN block /\ block[i].kind \in pureKinds
                         /\ rootOf(block)[block[i].def] = rootOf(block)[v]
                         /\ (\A d \in DOMAIN block : block[d].def = v => d <= l) => i <= l
           A == {n \in Nat : \A v \in Nat : rank[v] < n => \A i \in f[v] : Good(v, i)}
<1>1. \A v \in Nat : rank[v] \in Nat /\ rank[v] <= limit
  BY DEF isRanked
<1>2. 0 \in A
  BY <1>1
<1>3. ASSUME NEW n \in A PROVE n + 1 \in A
  <2>1. n \in Nat /\ \A v \in Nat : rank[v] < n => \A i \in f[v] : Good(v, i)
    OBVIOUS
  <2> SUFFICES ASSUME NEW v \in Nat, rank[v] < n + 1, NEW i \in f[v] PROVE Good(v, i)
    BY <2>1
  <2>2. PICK j \in makersOf(v) : i = j \/ \E s \in block[j].reads : i \in f[s]
    BY DEF builtOf
  <2>3. /\ j \in DOMAIN block /\ block[j].def = v /\ v # NoValue /\ block[j].kind \in pureKinds
        /\ \A s \in block[j].reads : /\ s \in Nat /\ s # NoValue /\ rank[s] < rank[v]
                                     /\ rootOf(block)[s] = rootOf(block)[v]
    BY Makers
  <2>4. CASE i = j
    BY <2>3, <2>4
  <2>5. CASE \E s \in block[j].reads : i \in f[s]
    <3>1. PICK s \in block[j].reads : i \in f[s]
      BY <2>5
    <3>2. s \in Nat /\ s # NoValue /\ rank[s] < n /\ rootOf(block)[s] = rootOf(block)[v]
      BY <1>1, <2>1, <2>3, <3>1
    <3>3. Good(s, i)
      BY <2>1, <3>1, <3>2
    <3>4. ASSUME \A d \in DOMAIN block : block[d].def = v => d <= l PROVE i <= l
      <4>1. j <= l
        BY <2>3, <3>4
      <4>2. ASSUME NEW d \in DOMAIN block, block[d].def = s PROVE d <= l
        <5>1. d <= j \/ d <= l
          BY <2>3, <3>1, <3>2, <4>2 DEF isSettled
        <5>2. d \in Nat /\ j \in Nat /\ l \in Nat
          BY <2>3, OfAWellFormedBlock
        <5> QED  BY <4>1, <5>1, <5>2
      <4> QED  BY <3>3, <4>2
    <3> QED  BY <2>3, <3>2, <3>3, <3>4
  <2> QED  BY <2>2, <2>4, <2>5
<1>4. A \subseteq Nat
  OBVIOUS
<1> HIDE DEF A
<1>5. limit + 1 \in A
  BY <1>1, <1>2, <1>3, <1>4, Induct
<1>6. \A v \in Nat : rank[v] < limit + 1
  BY <1>1
<1> QED  BY <1>5, <1>6 DEF A

(* prologueOf(l): pure operations above l, on buffers l uses.              *)
LEMMA Prologue ==
  ASSUME definesOnce(block), isPlain(block), NEW limit \in Nat, NEW rank, isRanked(block, limit, rank),
         NEW l \in DOMAIN block, isSettled(block, l), block[l].kind = "dma_load", NEW i \in prologueOf(l)
  PROVE  /\ i \in 1..(l - 1) /\ block[i].kind \in pureKinds
         /\ \E w \in block[l].reads \cup {block[l].write} :
              w \in Nat /\ rootOf(block)[block[i].def] = rootOf(block)[w]
<1>1. PICK f : /\ \A v \in Nat : f[v] = builtOf(f, v)
               /\ prologueOf(l) = UNION {f[v] : v \in block[l].reads \cup {block[l].write}}
  BY BuiltExists
<1>2. PICK w \in block[l].reads \cup {block[l].write} : i \in f[w]
  BY <1>1
<1>3. w \in Nat /\ block \in Seq(BlockOperation) /\ l \in Nat
  BY OfAWellFormedBlock DEF BlockOperation
<1>4. /\ w # NoValue /\ i \in DOMAIN block /\ block[i].kind \in pureKinds
      /\ rootOf(block)[block[i].def] = rootOf(block)[w]
      /\ (\A d \in DOMAIN block : block[d].def = w => d <= l) => i <= l
  BY <1>1, <1>2, <1>3, BuiltFrom
<1>5. \A d \in DOMAIN block : block[d].def = w => d <= l
  BY <1>2, <1>4 DEF isSettled
<1>6. i <= l /\ i # l /\ i \in Nat /\ 1 <= i
  <2>1. i \in Nat /\ 1 <= i
    BY <1>3, <1>4
  <2> QED  BY <1>4, <1>5, <2>1 DEF pureKinds
<1>7. i \in 1..(l - 1)
  BY <1>3, <1>6
<1> QED  BY <1>2, <1>3, <1>4, <1>7

(* The walk back from a load ends at the load or above it.                 *)
LEMMA EarliestPlace ==
  ASSUME definesOnce(block), NEW l \in DOMAIN block
  PROVE  earliest(l) \in 1..l
<1> DEFINE T == {0} \cup {i \in 1..(l - 1) : stopsTheWalk(l, i)}
<1>1. l \in Nat /\ 1 <= l
  BY OfAWellFormedBlock
<1>2. T \subseteq Nat /\ T # {} /\ l - 1 \in Nat /\ \A n \in T : n <= l - 1
  BY <1>1
<1>3. earliest(l) = 1 + Max(T)
  BY DEF earliest
<1> HIDE DEF T
<1>4. Max(T) \in T
  BY <1>2, MaxNat
<1>5. Max(T) \in Nat /\ Max(T) <= l - 1
  BY <1>2, <1>4
<1> QED  BY <1>1, <1>3, <1>5
-----------------------------------------------------------------------------
(* The rewrite of a prefetch is a hoist.                                   *)
LEMMA RewriteIsHoist ==
  ASSUME definesOnce(block), isPlain(block), NEW limit \in Nat, NEW rank, isRanked(block, limit, rank),
         NEW l \in DOMAIN block, isSettled(block, l), block[l].kind = "dma_load"
  PROVE  \E to : IsHoist(block, HoistRewrite(l), l, earliest(l), prologueOf(l) \ {earliest(l)}, to, freshValue)
<1> DEFINE e == earliest(l)
           moved == prologueOf(l) \ {e}
           x == issued(block, l, freshValue)
           y == awaited(freshValue)
           n == HoistRewrite(l)
<1>1. block \in Seq(BlockOperation) /\ l \in 1..Len(block) /\ block[l] \in BlockOperation /\ DOMAIN block = 1..Len(block)
  BY OfAWellFormedBlock
<1>2. e \in 1..l
  BY EarliestPlace
<1>3. \A i \in prologueOf(l) : i \in 1..(l - 1) /\ block[i].kind \in pureKinds
  BY Prologue
<1>4. moved \in SUBSET (1..(l - 1)) /\ \A i \in moved : block[i].kind \in pureKinds
  <2> HIDE DEF e
  <2> QED  BY <1>3
<1>5. Above(freshValue, block)
  <2>1. block # << >>
    BY <1>1
  <2> QED  BY <2>1, FreshIsAbove
<1>6. freshValue \in Nat
  BY <1>5 DEF Above
<1>7. x \in BlockOperation
  BY <1>1, <1>6 DEF issued, BlockOperation, OperationKind
<1>8. y \in BlockOperation
  BY <1>6 DEF awaited, Operation, BlockOperation, OperationKind, NoValue
<1>9. n = picked(block, stayBefore(e, moved)) \o picked(block, moved) \o <<x>>
            \o picked(block, stayAfter(l, e, moved)) \o <<y>> \o SubSeq(block, l + 1, Len(block))
  BY DEF HoistRewrite, stayBefore, stayAfter, issued, awaited
<1> HIDE DEF e, moved, x, y, n
<1>10. n \in Seq(BlockOperation) /\ \E to : Hoisted(block, n, l, e, moved, to, x, y)
  <2>1. IsPlaced(BlockOperation, block, n, l, e, moved, x, y)
    BY ONLY <1>1, <1>2, <1>4, <1>7, <1>8, <1>9, HoistPlaces
  <2> QED  BY ONLY <2>1 DEF IsPlaced
<1>11. \E to : IsHoist(block, n, l, e, moved, to, freshValue)
  BY <1>1, <1>2, <1>4, <1>5, <1>10 DEF IsHoist, x, y
<1> QED  BY <1>11 DEF e, moved, n

(* Pure operations stay as they were.                                      *)
LEMMA HoistPlain ==
  ASSUME NEW o, isPlain(o), NEW n, NEW l, NEW to, NEW token, Hoist(o, n, l, to, token)
  PROVE  isPlain(n)
<1> USE DEF Hoist
<1>1. ASSUME NEW i \in DOMAIN n
      PROVE  /\ n[i].kind \in {"alloc", "slot"} => n[i].reads = {}
             /\ n[i].kind \in pureKinds => n[i].write = NoValue /\ n[i].def # NoValue
  <2>1. CASE i = l + 1
    BY <2>1 DEF pureKinds
  <2>2. CASE i # l + 1
    <3>1. PICK p \in DOMAIN o : i = to[p]
      BY <2>2
    <3>2. SameBut(n[i], o, p, l, token)
      BY <3>1
    <3>3. CASE p = l
      BY <3>2, <3>3 DEF SameBut, pureKinds
    <3>4. CASE p # l
      BY <3>2, <3>4 DEF SameBut, isPlain
    <3> QED  BY <3>3, <3>4
  <2> QED  BY <2>1, <2>2
<1> QED  BY <1>1 DEF isPlain

(* Below the await nothing is used above its definition.                   *)
LEMMA HoistSettled ==
  ASSUME NEW o, definesOnce(o), NEW n, NEW l, NEW e, NEW moved, NEW to, NEW token,
         IsHoist(o, n, l, e, moved, to, token), isSettled(o, l)
  PROVE  isSettled(n, l + 1)
<1>1. Hoist(o, n, l, to, token)
  BY HoistFacts
<1>2. /\ \A i \in DOMAIN o : to[i] \in DOMAIN n /\ to[i] # l + 1 /\ to[i] \in Nat /\ i \in Nat
      /\ \A j \in DOMAIN n : j = l + 1 \/ \E i \in DOMAIN o : j = to[i]
      /\ \A i \in DOMAIN o : SameBut(n[to[i]], o, i, l, token)
      /\ l \in Nat /\ token \in Nat /\ DOMAIN o = 1..Len(o)
      /\ n[l + 1].def = NoValue /\ n[l + 1].reads = {token} /\ n[l + 1].write = NoValue
  BY <1>1 DEF Hoist
<1>3. \A i \in DOMAIN o : IF i <= l THEN to[i] <= l ELSE to[i] = i + 1
  BY <1>2 DEF IsHoist, Hoisted
<1>4. ASSUME NEW j \in DOMAIN n, NEW q \in DOMAIN n, n[q].def # NoValue, n[q].def \in n[j].reads \cup {n[j].write}
      PROVE  q <= j \/ q <= l + 1
  <2>1. PICK d \in DOMAIN o : q = to[d]
    BY <1>2, <1>4
  <2>2. CASE d <= l
    BY <1>2, <1>3, <2>1, <2>2
  <2>3. CASE d > l
    <3>1. d # l /\ q = d + 1 /\ d \in Nat
      BY <1>2, <1>3, <2>1, <2>3
    <3>2. n[q].def = o[d].def /\ o[d].def < token /\ o[d].def \in Nat
      BY <1>2, <2>1, <3>1 DEF SameBut
    <3>3. j # l + 1
      BY <1>2, <1>4, <3>2
    <3>4. PICK i \in DOMAIN o : j = to[i]
      BY <1>2, <3>3
    <3>5. n[j].reads = o[i].reads /\ n[j].write = o[i].write
      BY <1>2, <3>4 DEF SameBut
    <3>6. d <= i \/ d <= l
      BY <1>4, <3>2, <3>5 DEF isSettled
    <3>7. d <= i /\ i > l /\ i \in Nat
      BY <1>2, <2>3, <3>1, <3>6
    <3>8. j = i + 1
      BY <1>2, <1>3, <3>4, <3>7
    <3> QED  BY <3>1, <3>7, <3>8
  <2> QED  BY <1>2, <2>2, <2>3
<1> QED  BY <1>4 DEF isSettled

(* The loads not yet answered, in order, at their places.                  *)
isWaiting(o, ids, at) ==
  /\ ids \in Seq(Nat)
  /\ \A k \in 1..Len(ids) : at[k] \in DOMAIN o /\ o[at[k]].kind = "dma_load" /\ o[at[k]].id = ids[k]
  /\ \A k \in 1..Len(ids) : \A i \in DOMAIN o : o[i].kind = "dma_load" /\ o[i].id = ids[k] => i = at[k]
  /\ \A j, k \in 1..Len(ids) : j < k => at[j] < at[k]
  /\ \A k \in 1..Len(ids) : isSettled(o, at[k])

(* The first of them is the load the pass is at.                           *)
LEMMA TheLoad ==
  ASSUME NEW at, isWaiting(block, loads, at), loads # << >>
  PROVE  /\ 1 \in 1..Len(loads) /\ load = at[1] /\ load \in DOMAIN block /\ block[load].kind = "dma_load"
         /\ block[load].id = loads[1] /\ isSettled(block, load)
<1>1. loads \in Seq(Nat) /\ 1 \in 1..Len(loads) /\ Head(loads) = loads[1]
  BY DEF isWaiting
<1>2. /\ at[1] \in DOMAIN block /\ block[at[1]].kind = "dma_load" /\ block[at[1]].id = loads[1]
      /\ \A i \in DOMAIN block : block[i].kind = "dma_load" /\ block[i].id = loads[1] => i = at[1]
      /\ isSettled(block, at[1])
  BY <1>1 DEF isWaiting
<1>3. load = CHOOSE i \in DOMAIN block : block[i].id = loads[1] /\ block[i].kind = "dma_load"
  BY <1>1 DEF load
<1>4. load \in DOMAIN block /\ block[load].id = loads[1] /\ block[load].kind = "dma_load"
  BY <1>2, <1>3
<1> QED  BY <1>1, <1>2, <1>4

(* The loads after the first are waiting too.                              *)
LEMMA TailWaits ==
  ASSUME NEW o, NEW ids, NEW at, isWaiting(o, ids, at), ids # << >>
  PROVE  /\ Tail(ids) \in Seq(Nat) /\ Len(Tail(ids)) = Len(ids) - 1 /\ Len(ids) \in Nat /\ 1 \in 1..Len(ids)
         /\ \A k \in 1..Len(Tail(ids)) : k \in Nat /\ k + 1 \in 1..Len(ids) /\ Tail(ids)[k] = ids[k + 1]
         /\ isWaiting(o, Tail(ids), [k \in 1..Len(Tail(ids)) |-> at[k + 1]])
<1> DEFINE t == Tail(ids)
           b == [k \in 1..Len(t) |-> at[k + 1]]
<1>1. ids \in Seq(Nat)
  BY DEF isWaiting
<1>2. t \in Seq(Nat) /\ Len(t) = Len(ids) - 1 /\ Len(ids) \in Nat /\ 1 \in 1..Len(ids)
  BY <1>1
<1>3. \A k \in 1..Len(t) : k \in Nat /\ k + 1 \in 1..Len(ids) /\ t[k] = ids[k + 1]
  BY <1>1
<1> HIDE DEF t
<1>4. \A k \in 1..Len(t) : b[k] = at[k + 1]
  OBVIOUS
<1> HIDE DEF b
<1>5. \A j, k \in 1..Len(t) : j < k => b[j] < b[k]
  <2> SUFFICES ASSUME NEW j \in 1..Len(t), NEW k \in 1..Len(t), j < k PROVE b[j] < b[k]
    OBVIOUS
  <2>1. j + 1 < k + 1 /\ j + 1 \in 1..Len(ids) /\ k + 1 \in 1..Len(ids)
    BY <1>3
  <2>2. at[j + 1] < at[k + 1]
    BY <2>1 DEF isWaiting
  <2> QED  BY <1>4, <2>2
<1>6. isWaiting(o, t, b)
  <2>1. ASSUME NEW k \in 1..Len(t)
        PROVE  /\ b[k] \in DOMAIN o /\ o[b[k]].kind = "dma_load" /\ o[b[k]].id = t[k]
               /\ \A i \in DOMAIN o : o[i].kind = "dma_load" /\ o[i].id = t[k] => i = b[k]
               /\ isSettled(o, b[k])
    <3>1. k + 1 \in 1..Len(ids) /\ t[k] = ids[k + 1] /\ b[k] = at[k + 1]
      BY <1>3, <1>4
    <3> QED  BY <3>1 DEF isWaiting
  <2> QED  BY <1>2, <1>5, <2>1 DEF isWaiting
<1> QED  BY <1>2, <1>3, <1>6 DEF t, b

(* After a prefetch the loads after the first are still waiting.           *)
LEMMA HoistWaits ==
  ASSUME NEW o, definesOnce(o), NEW n, NEW ids, NEW at, isWaiting(o, ids, at), ids # << >>,
         NEW e, NEW moved, NEW to, NEW token, IsHoist(o, n, at[1], e, moved, to, token)
  PROVE  isWaiting(n, Tail(ids), [k \in 1..Len(Tail(ids)) |-> at[k + 1] + 1])
<1>1. PICK l : l = at[1]
  OBVIOUS
<1>2. PICK t, b : t = Tail(ids) /\ b = [k \in 1..Len(Tail(ids)) |-> at[k + 1]]
  OBVIOUS
<1> DEFINE c == [k \in 1..Len(t) |-> at[k + 1] + 1]
<1>3. Hoist(o, n, l, to, token)
  BY <1>1, HoistFacts
<1>4. /\ \A i \in DOMAIN o : to[i] \in DOMAIN n /\ to[i] # l + 1 /\ to[i] \in Nat /\ i \in Nat
      /\ \A j \in DOMAIN n : j = l + 1 \/ \E i \in DOMAIN o : j = to[i]
      /\ \A i \in DOMAIN o : SameBut(n[to[i]], o, i, l, token)
      /\ l \in Nat /\ DOMAIN o = 1..Len(o) /\ n[l + 1].kind = "await"
  BY <1>3 DEF Hoist
<1>5. \A i \in DOMAIN o : i > l => to[i] = i + 1
  <2>1. \A i \in DOMAIN o : IF i <= l THEN to[i] <= l ELSE to[i] = i + 1
    BY <1>1, <1>4 DEF IsHoist, Hoisted
  <2> QED  BY <1>4, <2>1
<1>6. isWaiting(o, t, b) /\ t \in Seq(Nat) /\ \A k \in 1..Len(t) : k \in Nat /\ k + 1 \in 1..Len(ids) /\ 1 \in 1..Len(ids)
  BY <1>2, TailWaits
<1>7. \A k \in 1..Len(t) : b[k] = at[k + 1] /\ c[k] = b[k] + 1
  BY <1>2
<1> HIDE DEF c
<1>8. ASSUME NEW k \in 1..Len(t)
      PROVE  b[k] \in DOMAIN o /\ b[k] \in Nat /\ b[k] > l /\ c[k] = to[b[k]] /\ c[k] \in Nat /\ c[k] \in DOMAIN n
  <2>1. b[k] \in DOMAIN o /\ b[k] \in Nat
    BY <1>4, <1>6 DEF isWaiting
  <2>2. at[1] < at[k + 1]
    <3>1. 1 < k + 1 /\ k + 1 \in 1..Len(ids) /\ 1 \in 1..Len(ids)
      BY <1>6
    <3> QED  BY <3>1 DEF isWaiting
  <2>3. l < b[k]
    BY <1>1, <1>7, <2>2
  <2> QED  BY <1>4, <1>5, <1>7, <2>1, <2>3
<1>9. ASSUME NEW k \in 1..Len(t)
      PROVE  /\ n[c[k]].kind = "dma_load" /\ n[c[k]].id = t[k]
             /\ \A j \in DOMAIN n : n[j].kind = "dma_load" /\ n[j].id = t[k] => j = c[k]
             /\ isSettled(n, c[k])
  <2>1. b[k] # l /\ SameBut(n[c[k]], o, b[k], l, token)
    BY <1>4, <1>8
  <2>2. /\ o[b[k]].kind = "dma_load" /\ o[b[k]].id = t[k]
        /\ \A i \in DOMAIN o : o[i].kind = "dma_load" /\ o[i].id = t[k] => i = b[k]
    BY <1>6 DEF isWaiting
  <2>3. n[c[k]].kind = "dma_load" /\ n[c[k]].id = t[k]
    BY <2>1, <2>2 DEF SameBut
  <2>4. ASSUME NEW j \in DOMAIN n, n[j].kind = "dma_load", n[j].id = t[k] PROVE j = c[k]
    <3>1. j # l + 1
      BY <1>4, <2>4
    <3>2. PICK i \in DOMAIN o : j = to[i]
      BY <1>4, <3>1
    <3>3. o[i].kind = "dma_load" /\ o[i].id = t[k]
      BY <1>4, <2>4, <3>2 DEF SameBut
    <3> QED  BY <1>8, <2>2, <3>2, <3>3
  <2>5. isSettled(n, l + 1)
    <3>1. isSettled(o, l)
      BY <1>1, <1>6 DEF isWaiting
    <3> QED  BY <1>1, <3>1, HoistSettled
  <2>6. l + 1 <= c[k] /\ l + 1 \in Nat
    <3>1. b[k] \in Nat /\ b[k] > l /\ c[k] = b[k] + 1
      BY <1>7, <1>8
    <3> QED  BY <1>4, <3>1
  <2>7. \A d \in DOMAIN n : d \in Nat
    BY <1>4
  <2>8. isSettled(n, c[k])
    BY <1>8, <2>5, <2>6, <2>7 DEF isSettled
  <2> QED  BY <2>3, <2>4, <2>8
<1>10. ASSUME NEW j \in 1..Len(t), NEW k \in 1..Len(t), j < k PROVE c[j] < c[k]
  <2>1. b[j] < b[k]
    BY <1>6, <1>10 DEF isWaiting
  <2> QED  BY <1>7, <1>8, <2>1
<1>11. isWaiting(n, t, c)
  BY <1>6, <1>8, <1>9, <1>10 DEF isWaiting
<1> QED  BY <1>2, <1>11 DEF c
-----------------------------------------------------------------------------
(* The instructions of the source program of some kinds, and their ids.    *)
stepKinds == {"compute", "dma_store"}
loadKinds == {"dma_load", "dma_load_async"}
workAt(o, kinds) == {i \in DOMAIN o : o[i].kind \in kinds /\ o[i].id # 0}
workIn(o, kinds) == picked(o, workAt(o, kinds))
idsOfWork(o, kinds) == [k \in DOMAIN workIn(o, kinds) |-> workIn(o, kinds)[k].id]
splitOf(o) == {i \in DOMAIN o : o[i].kind = "dma_load_async"}

(* The instructions of these kinds are a list of their ids.                *)
LEMMA WorkIs ==
  ASSUME NEW o, definesOnce(o), NEW kinds
  PROVE  /\ workAt(o, kinds) \in SUBSET (1..Len(o)) /\ Len(o) \in Nat /\ o \in Seq(BlockOperation)
         /\ Len(workIn(o, kinds)) = Cardinality(workAt(o, kinds)) /\ Cardinality(workAt(o, kinds)) \in Nat
         /\ DOMAIN workIn(o, kinds) = 1..Cardinality(workAt(o, kinds))
         /\ ToSet(idsOfWork(o, kinds)) = {o[i].id : i \in workAt(o, kinds)}
<1> DEFINE S == workAt(o, kinds)
           p == workIn(o, kinds)
           c == Cardinality(S)
<1>1. o \in Seq(BlockOperation) /\ Len(o) \in Nat /\ S \in SUBSET (1..Len(o))
  BY OfAWellFormedBlock DEF workAt
<1>2. /\ p \in Seq(BlockOperation) /\ Len(p) = c /\ c \in Nat
      /\ \A n \in S : rankOf(n, S) \in 1..c /\ p[rankOf(n, S)] = o[n]
      /\ \A k \in 1..c : \E n \in S : rankOf(n, S) = k /\ p[k] = o[n]
  BY <1>1, Picked DEF workIn
<1> HIDE DEF S, p, c
<1>3. DOMAIN p = 1..c
  BY <1>2
<1> DEFINE ids == [k \in DOMAIN p |-> p[k].id]
<1>4. idsOfWork(o, kinds) = ids
  BY DEF idsOfWork, p
<1>5. \A k \in 1..c : ids[k] = p[k].id
  BY <1>3
<1>6. DOMAIN ids = 1..c
  BY <1>3
<1> HIDE DEF ids
<1>7. ToSet(ids) = {o[i].id : i \in S}
  <2>1. ToSet(ids) = {ids[k] : k \in 1..c}
    BY <1>6 DEF ToSet
  <2>2. \A k \in 1..c : \E i \in S : ids[k] = o[i].id
    BY <1>2, <1>5
  <2>3. \A i \in S : \E k \in 1..c : ids[k] = o[i].id
    BY <1>2, <1>5
  <2> QED  BY <2>1, <2>2, <2>3
<1> QED  BY <1>1, <1>2, <1>3, <1>4, <1>7 DEF S, p, c

(* The instructions of these kinds keep their order and their ids.         *)
LEMMA WorkKeepsOrder ==
  ASSUME NEW o, definesOnce(o), NEW n, definesOnce(n), NEW kinds, NEW to,
         Along(workAt(o, kinds), workAt(n, kinds), to), \A i \in workAt(o, kinds) : n[to[i]].id = o[i].id
  PROVE  idsOfWork(n, kinds) = idsOfWork(o, kinds) /\ Cardinality(workAt(n, kinds)) = Cardinality(workAt(o, kinds))
<1> DEFINE p == workIn(o, kinds)
           q == workIn(n, kinds)
<1>1. /\ workAt(o, kinds) \in SUBSET (1..Len(o)) /\ o \in Seq(BlockOperation)
      /\ Len(p) = Cardinality(workAt(o, kinds)) /\ DOMAIN p = 1..Len(p)
  BY WorkIs
<1>2. /\ workAt(n, kinds) \in SUBSET (1..Len(n)) /\ n \in Seq(BlockOperation)
      /\ Len(q) = Cardinality(workAt(n, kinds)) /\ DOMAIN q = 1..Len(q)
  BY WorkIs
<1>3. /\ Len(q) = Len(p)
      /\ \A k \in 1..Len(p) : \E i \in workAt(o, kinds) : p[k] = o[i] /\ q[k] = n[to[i]]
  <2>1. /\ Len(picked(n, workAt(n, kinds))) = Len(picked(o, workAt(o, kinds)))
        /\ \A k \in 1..Len(picked(o, workAt(o, kinds))) :
             \E i \in workAt(o, kinds) : picked(o, workAt(o, kinds))[k] = o[i] /\ picked(n, workAt(n, kinds))[k] = n[to[i]]
    BY <1>1, <1>2, PickedAlong
  <2> QED  BY <2>1 DEF workIn
<1>4. \A k \in 1..Len(p) : q[k].id = p[k].id
  BY <1>3
<1> HIDE DEF p, q
<1>5. [k \in DOMAIN q |-> q[k].id] = [k \in DOMAIN p |-> p[k].id]
  BY <1>1, <1>2, <1>3, <1>4
<1>6. idsOfWork(n, kinds) = idsOfWork(o, kinds)
  BY <1>5 DEF idsOfWork, p, q
<1> QED  BY <1>1, <1>2, <1>3, <1>6

(* What the prefetch promises of the instructions of the function s.       *)
keepsTheWork(o, s, count) ==
  /\ idsOfWork(o, stepKinds) = idsOfWork(s, stepKinds)
  /\ ToSet(idsOfWork(o, loadKinds)) = ToSet(idsOfWork(s, loadKinds))
  /\ Cardinality(workAt(o, loadKinds)) = Cardinality(workAt(s, loadKinds))
  /\ Cardinality(splitOf(o)) = count

(* The asynchronous loads can be counted.                                  *)
LEMMA SplitIsFinite ==
  ASSUME NEW o, definesOnce(o)
  PROVE  IsFiniteSet(splitOf(o)) /\ Cardinality(splitOf(o)) \in Nat
<1>1. splitOf(o) \in SUBSET (1..Len(o)) /\ Len(o) \in Nat
  BY OfAWellFormedBlock DEF splitOf
<1> QED  BY <1>1, RankFacts

(* A prefetch splits one load and keeps the rest.                          *)
LEMMA HoistKeepsTheWork ==
  ASSUME NEW o, definesOnce(o), NEW n, definesOnce(n), NEW l, NEW e, NEW moved, NEW to, NEW token,
         IsHoist(o, n, l, e, moved, to, token), NEW s, NEW count \in Nat, keepsTheWork(o, s, count)
  PROVE  keepsTheWork(n, s, count + 1)
<1>1. Hoist(o, n, l, to, token)
  BY HoistFacts
<1>2. /\ \A i \in DOMAIN o : to[i] \in DOMAIN n /\ to[i] # l + 1 /\ to[i] \in Nat /\ i \in Nat
      /\ \A i, j \in DOMAIN o : to[i] = to[j] => i = j
      /\ \A j \in DOMAIN n : j = l + 1 \/ \E i \in DOMAIN o : j = to[i]
      /\ \A i \in DOMAIN o : SameBut(n[to[i]], o, i, l, token)
      /\ l \in DOMAIN o /\ l \in Nat /\ l + 1 \in DOMAIN n /\ o[l].kind = "dma_load"
      /\ n[l + 1].kind = "await" /\ n[l + 1].id = 0
  BY <1>1 DEF Hoist
<1>3. \A i \in DOMAIN o : /\ n[to[i]].id = o[i].id
                          /\ IF i = l THEN n[to[i]].kind = "dma_load_async" ELSE n[to[i]].kind = o[i].kind
  BY <1>2 DEF SameBut
<1>4. Along(workAt(o, stepKinds), workAt(n, stepKinds), to)
  <2>1. \A i \in workAt(o, stepKinds) : i \in DOMAIN o /\ i # l /\ o[i].kind \notin pureKinds
    BY <1>2 DEF workAt, stepKinds, pureKinds
  <2>2. \A i \in workAt(o, stepKinds) : to[i] \in workAt(n, stepKinds)
    BY <1>2, <1>3, <2>1 DEF workAt
  <2>3. ASSUME NEW j \in workAt(n, stepKinds) PROVE \E i \in workAt(o, stepKinds) : j = to[i]
    <3>1. j \in DOMAIN n /\ n[j].kind \in stepKinds /\ n[j].id # 0 /\ j # l + 1
      BY <1>2 DEF workAt
    <3>2. PICK i \in DOMAIN o : j = to[i]
      BY <1>2, <3>1
    <3>3. i # l
      BY <1>3, <3>1, <3>2 DEF stepKinds
    <3> QED  BY <1>3, <3>1, <3>2, <3>3 DEF workAt
  <2>4. \A i, j \in workAt(o, stepKinds) : i < j => to[i] < to[j]
    BY <2>1, HoistOrder
  <2> QED  BY <2>2, <2>3, <2>4 DEF Along
<1>5. idsOfWork(n, stepKinds) = idsOfWork(s, stepKinds)
  <2>1. \A i \in workAt(o, stepKinds) : n[to[i]].id = o[i].id
    BY <1>3 DEF workAt
  <2>2. idsOfWork(n, stepKinds) = idsOfWork(o, stepKinds)
    BY <1>4, <2>1, WorkKeepsOrder
  <2> QED  BY <2>2 DEF keepsTheWork
<1>6. /\ \A i \in workAt(o, loadKinds) : to[i] \in workAt(n, loadKinds) /\ i \in DOMAIN o
      /\ \A j \in workAt(n, loadKinds) : \E i \in workAt(o, loadKinds) : j = to[i]
  <2>1. \A i \in workAt(o, loadKinds) : to[i] \in workAt(n, loadKinds) /\ i \in DOMAIN o
    BY <1>2, <1>3 DEF workAt, loadKinds
  <2>2. ASSUME NEW j \in workAt(n, loadKinds) PROVE \E i \in workAt(o, loadKinds) : j = to[i]
    <3>1. j \in DOMAIN n /\ n[j].kind \in loadKinds /\ n[j].id # 0 /\ j # l + 1
      BY <1>2 DEF workAt
    <3>2. PICK i \in DOMAIN o : j = to[i]
      BY <1>2, <3>1
    <3> QED  BY <1>2, <1>3, <3>1, <3>2 DEF workAt, loadKinds
  <2> QED  BY <2>1, <2>2
<1>7. Cardinality(workAt(n, loadKinds)) = Cardinality(workAt(s, loadKinds))
  <2>1. IsFiniteSet(workAt(o, loadKinds))
    BY WorkIs, RankFacts
  <2>2. \A i, j \in workAt(o, loadKinds) : to[i] = to[j] => i = j
    BY <1>2, <1>6
  <2>3. Cardinality(workAt(n, loadKinds)) = Cardinality(workAt(o, loadKinds))
    BY <1>6, <2>1, <2>2, PairedSizes
  <2> QED  BY <2>3 DEF keepsTheWork
<1>8. ToSet(idsOfWork(n, loadKinds)) = ToSet(idsOfWork(s, loadKinds))
  <2>1. /\ ToSet(idsOfWork(n, loadKinds)) = {n[i].id : i \in workAt(n, loadKinds)}
        /\ ToSet(idsOfWork(o, loadKinds)) = {o[i].id : i \in workAt(o, loadKinds)}
    BY WorkIs
  <2>2. {n[i].id : i \in workAt(n, loadKinds)} = {o[i].id : i \in workAt(o, loadKinds)}
    BY <1>3, <1>6
  <2> QED  BY <2>1, <2>2 DEF keepsTheWork
<1>9. Cardinality(splitOf(n)) = count + 1
  <2> DEFINE R == splitOf(n) \ {to[l]}
  <2>1. \A i \in splitOf(o) : i \in DOMAIN o /\ i # l /\ to[i] \in R
    BY <1>2, <1>3 DEF splitOf
  <2>2. \A j \in R : \E i \in splitOf(o) : j = to[i]
    <3>1. ASSUME NEW j \in R PROVE \E i \in splitOf(o) : j = to[i]
      <4>1. j \in DOMAIN n /\ n[j].kind = "dma_load_async" /\ j # to[l] /\ j # l + 1
        BY <1>2 DEF splitOf
      <4>2. PICK i \in DOMAIN o : j = to[i]
        BY <1>2, <4>1
      <4> QED  BY <1>3, <4>1, <4>2 DEF splitOf
    <3> QED  BY <3>1
  <2>3. \A i, j \in splitOf(o) : to[i] = to[j] => i = j
    BY <1>2, <2>1
  <2> HIDE DEF R
  <2>4. IsFiniteSet(R) /\ Cardinality(R) = count
    BY <2>1, <2>2, <2>3, SplitIsFinite, PairedSizes DEF keepsTheWork
  <2>5. splitOf(n) = R \cup {to[l]} /\ to[l] \notin R
    BY <1>2, <1>3 DEF splitOf, R
  <2> QED  BY <2>4, <2>5, FS_AddElement
<1> QED  BY <1>5, <1>7, <1>8, <1>9 DEF keepsTheWork
-----------------------------------------------------------------------------
(* An operation a spill adds has no id, and waits for nothing.             *)
LEMMA SpillIds ==
  ASSUME NEW o, definesOnce(o), NEW n, NEW b, NEW later, NEW store, NEW fresh, NEW kept,
         Shape(o, n, b, later, store, fresh, kept)
  PROVE  /\ \A i \in DOMAIN o : n[kept[i]].id = o[i].id
         /\ \A j \in DOMAIN n : \/ \E i \in DOMAIN o : j = kept[i]
                                \/ n[j].id = 0 /\ n[j].kind \notin {"await", "dma_load_async"}
<1>1. ASSUME NEW i \in DOMAIN o PROVE n[kept[i]].id = o[i].id
  <2>1. n[kept[i]] = IF i \in later THEN reloaded(o, b, fresh, i) ELSE o[i]
    BY DEF Shape
  <2>2. o[i] \in BlockOperation
    BY OfAWellFormedBlock
  <2>3. reloaded(o, b, fresh, i).id = o[i].id
    BY <2>2 DEF reloaded, BlockOperation
  <2> QED  BY <2>1, <2>3
<1>2. ASSUME NEW j \in DOMAIN n, Added(o, n, b, later, store, fresh, kept, j)
      PROVE  n[j].id = 0 /\ n[j].kind \notin {"await", "dma_load_async"}
  BY <1>2 DEF Added, allocOp, loadOp, slotOp, storeOp, Operation
<1>3. \A j \in DOMAIN n : Added(o, n, b, later, store, fresh, kept, j) \/ \E i \in DOMAIN o : j = kept[i]
  BY DEF Shape
<1> QED  BY <1>1, <1>2, <1>3

(* After a spill every asynchronous transfer still has one await.          *)
LEMMA SpillAwaited ==
  ASSUME NEW o, definesOnce(o), isAwaited(o), NEW n, NEW b \in buffersOf(o), NEW later, NEW store, NEW fresh, NEW kept,
         Shape(o, n, b, later, store, fresh, kept)
  PROVE  isAwaited(n)
<1>1. \A i \in DOMAIN o : kept[i] \in DOMAIN n /\ IsKept(n[kept[i]], o, i, b, later, fresh)
  BY KeptPlaces, KeptOperations
<1>2. \A i, j \in DOMAIN o : kept[i] < kept[j] <=> i < j
  BY KeptPlaces
<1>3. later \subseteq readersOf(o, b)
  BY DEF Shape
<1>4. PICK a \in DOMAIN o : o[a].kind = "alloc" /\ o[a].def = b
  BY DEF buffersOf, allocs
<1>5. \A i, j \in DOMAIN o : o[i].def = o[j].def /\ o[i].def # NoValue => i = j
  BY OfAWellFormedBlock
<1>6. ASSUME NEW j \in DOMAIN n, n[j].kind = "dma_load_async"
      PROVE  /\ n[j].def # NoValue
             /\ \E k \in DOMAIN n : j < k /\ isAwaitOf(n, j, k) /\ \A q \in DOMAIN n : isAwaitOf(n, j, q) => q = k
  <2>1. PICK i \in DOMAIN o : j = kept[i]
    BY <1>6, SpillIds
  <2>2. o[i].kind = "dma_load_async" /\ n[j].def = o[i].def /\ o[i].def < fresh /\ o[i].def \in Nat
    BY <1>1, <1>6, <2>1 DEF IsKept
  <2>3. o[i].def # NoValue
    BY <2>2 DEF isAwaited
  <2>4. PICK k \in DOMAIN o : i < k /\ isAwaitOf(o, i, k) /\ \A q \in DOMAIN o : isAwaitOf(o, i, q) => q = k
    BY <2>2 DEF isAwaited
  <2>5. k \notin later
    <3>1. b # o[i].def
      BY <1>4, <1>5, <2>2, <2>3
    <3>2. k \in later => b \in o[k].reads
      BY <1>3 DEF readersOf
    <3> QED  BY <2>4, <3>1, <3>2 DEF isAwaitOf
  <2>6. isAwaitOf(n, j, kept[k])
    BY <1>1, <2>2, <2>4, <2>5 DEF isAwaitOf, IsKept
  <2>7. ASSUME NEW q \in DOMAIN n, isAwaitOf(n, j, q) PROVE q = kept[k]
    <3>1. PICK p \in DOMAIN o : q = kept[p]
      BY <2>7, SpillIds DEF isAwaitOf
    <3>2. IsKept(n[q], o, p, b, later, fresh)
      BY <1>1, <3>1
    <3>3. n[q].kind = "await" /\ n[q].reads = {o[i].def}
      BY <2>2, <2>7 DEF isAwaitOf
    <3>4. p \notin later
      <4>1. p \in later => fresh + p \in n[q].reads /\ fresh + p > fresh /\ fresh \in Nat /\ p \in Nat
        BY <3>2 DEF IsKept
      <4> QED  BY <2>2, <3>3, <4>1
    <3>5. isAwaitOf(o, i, p)
      BY <3>2, <3>3, <3>4 DEF isAwaitOf, IsKept
    <3> QED  BY <2>4, <3>1, <3>5
  <2>8. j < kept[k]
    BY <1>2, <2>1, <2>4
  <2> QED  BY <1>1, <2>2, <2>3, <2>6, <2>7, <2>8
<1> QED  BY <1>6 DEF isAwaited

(* A spill adds no instruction of the function.                            *)
LEMMA SpillKeepsTheWork ==
  ASSUME NEW o, definesOnce(o), NEW n, definesOnce(n), NEW b, NEW later, NEW store, NEW fresh, NEW kept,
         Shape(o, n, b, later, store, fresh, kept), NEW s, NEW count \in Nat, keepsTheWork(o, s, count)
  PROVE  keepsTheWork(n, s, count)
<1>1. /\ \A i \in DOMAIN o : kept[i] \in DOMAIN n /\ n[kept[i]].kind = o[i].kind /\ n[kept[i]].id = o[i].id
      /\ \A i, j \in DOMAIN o : i < j => kept[i] < kept[j]
      /\ \A i, j \in DOMAIN o : kept[i] = kept[j] => i = j
      /\ \A j \in DOMAIN n : \/ \E i \in DOMAIN o : j = kept[i]
                             \/ n[j].id = 0 /\ n[j].kind # "dma_load_async"
  <2>0. \A i \in DOMAIN o : IsKept(n[kept[i]], o, i, b, later, fresh)
    BY KeptOperations
  <2>1. \A i \in DOMAIN o : n[kept[i]].kind = o[i].kind
    BY <2>0 DEF IsKept
  <2> QED  BY <2>1, KeptPlaces, SpillIds
<1>2. ASSUME NEW kinds
      PROVE  idsOfWork(n, kinds) = idsOfWork(o, kinds) /\ Cardinality(workAt(n, kinds)) = Cardinality(workAt(o, kinds))
  <2>1. Along(workAt(o, kinds), workAt(n, kinds), kept)
    BY <1>1 DEF Along, workAt
  <2>2. \A i \in workAt(o, kinds) : n[kept[i]].id = o[i].id
    BY <1>1 DEF workAt
  <2> QED  BY <2>1, <2>2, WorkKeepsOrder
<1>3. Cardinality(splitOf(n)) = count
  <2>1. \A i \in splitOf(o) : i \in DOMAIN o /\ kept[i] \in splitOf(n)
    BY <1>1 DEF splitOf
  <2>2. \A j \in splitOf(n) : \E i \in splitOf(o) : j = kept[i]
    BY <1>1 DEF splitOf
  <2>3. \A i, j \in splitOf(o) : kept[i] = kept[j] => i = j
    BY <1>1, <2>1
  <2>4. Cardinality(splitOf(n)) = Cardinality(splitOf(o))
    BY <2>1, <2>2, <2>3, SplitIsFinite, PairedSizes
  <2> QED  BY <2>4 DEF keepsTheWork
<1>4. /\ idsOfWork(n, stepKinds) = idsOfWork(o, stepKinds)
      /\ idsOfWork(n, loadKinds) = idsOfWork(o, loadKinds)
      /\ Cardinality(workAt(n, loadKinds)) = Cardinality(workAt(o, loadKinds))
  BY <1>2
<1> QED  BY <1>3, <1>4 DEF keepsTheWork
-----------------------------------------------------------------------------
(* The place of allocation i in the list of intervals.                     *)
placeOf(o, i) == rankOf(i, allocs(o))

lastUseOf(o, b) == Max(usesOf(o, b))

IsIntervalOf(x, o, sizes, i) ==
  x.definition = i /\ x.lastUse = lastUseOf(o, o[i].def) /\ x.bytes = sizes[o[i].def]

(* The list of the allocations, each at its place.                         *)
LEMMA Collects ==
  ASSUME NEW o, definesOnce(o)
  PROVE  /\ DOMAIN collected(o) = 1..Cardinality(allocs(o)) /\ Cardinality(allocs(o)) \in Nat
         /\ \A i \in allocs(o) : /\ placeOf(o, i) \in 1..Cardinality(allocs(o))
                                 /\ collected(o)[placeOf(o, i)] = o[i].def
                                 /\ i \in DOMAIN o /\ i \in Nat /\ definitionOf(o, o[i].def) = i
                                 /\ o[i].def \in buffersOf(o) /\ o[i].def \in Nat /\ o[i].def # NoValue
         /\ \A i, j \in allocs(o) : placeOf(o, i) = placeOf(o, j) => i = j
         /\ \A k \in 1..Cardinality(allocs(o)) : \E i \in allocs(o) : placeOf(o, i) = k
<1>1. allocs(o) \in SUBSET (1..Len(o)) /\ Len(o) \in Nat
  BY OfAWellFormedBlock DEF allocs
<1>2. /\ \A i \in allocs(o) : placeOf(o, i) \in 1..Cardinality(allocs(o)) /\ inOrder(allocs(o))[placeOf(o, i)] = i
      /\ Cardinality(allocs(o)) \in Nat
  BY <1>1, RanksOfMembers, InOrder DEF placeOf
<1>3. \A i, j \in allocs(o) : placeOf(o, i) = placeOf(o, j) => i = j
  BY <1>1, RanksOfMembers DEF placeOf
<1>4. \A k \in 1..Cardinality(allocs(o)) : \E i \in allocs(o) : placeOf(o, i) = k
  BY <1>1, RanksOfMembers DEF placeOf
<1>5. /\ DOMAIN collected(o) = 1..Cardinality(allocs(o))
      /\ \A k \in 1..Cardinality(allocs(o)) : collected(o)[k] = o[inOrder(allocs(o))[k]].def
  BY DEF collected, inOrder
<1>6. ASSUME NEW i \in allocs(o)
      PROVE  /\ i \in DOMAIN o /\ i \in Nat /\ definitionOf(o, o[i].def) = i
             /\ o[i].def \in buffersOf(o) /\ o[i].def \in Nat /\ o[i].def # NoValue
  <2>1. i \in DOMAIN o /\ i \in Nat /\ o[i].kind = "alloc" /\ o[i] \in BlockOperation
    BY OfAWellFormedBlock DEF allocs
  <2>2. o[i].def # NoValue /\ \A j \in DOMAIN o : o[j].def = o[i].def => j = i
    BY <2>1, OfAWellFormedBlock
  <2>3. definitionOf(o, o[i].def) = i
    BY <2>1, <2>2 DEF definitionOf
  <2>4. o[i].def \in Nat
    BY <2>1 DEF BlockOperation
  <2> QED  BY <2>1, <2>2, <2>3, <2>4 DEF buffersOf
<1>7. \A i \in allocs(o) : collected(o)[placeOf(o, i)] = o[i].def
  BY <1>2, <1>5
<1> QED  BY <1>2, <1>3, <1>4, <1>5, <1>6, <1>7

(* The last use of a buffer is the greatest of its uses.                   *)
LEMMA LastUse ==
  ASSUME NEW o, definesOnce(o), isAwaited(o), NEW i \in allocs(o)
  PROVE  /\ usesOf(o, o[i].def) \subseteq DOMAIN o
         /\ lastUseOf(o, o[i].def) \in usesOf(o, o[i].def) /\ lastUseOf(o, o[i].def) \in Nat
         /\ i <= lastUseOf(o, o[i].def)
         /\ \A u \in usesOf(o, o[i].def) : u \in Nat /\ u <= lastUseOf(o, o[i].def)
<1> DEFINE U == usesOf(o, o[i].def)
<1>1. definitionOf(o, o[i].def) = i /\ i \in DOMAIN o
  BY Collects
<1>2. \A j \in DOMAIN o : completionOf(o, j) \in DOMAIN o
  BY OfAnAwaited
<1>3. i \in U /\ U \subseteq DOMAIN o
  BY <1>1, <1>2 DEF usesOf, usersOf
<1>4. DOMAIN o = 1..Len(o) /\ Len(o) \in Nat
  BY OfAWellFormedBlock
<1> HIDE DEF U
<1>5. U \subseteq Nat /\ U # {} /\ \A u \in U : u <= Len(o)
  BY <1>3, <1>4
<1>6. Max(U) \in U /\ \A u \in U : u <= Max(U)
  BY <1>4, <1>5, MaxNat
<1>7. lastUseOf(o, o[i].def) = Max(U)
  BY DEF lastUseOf, U
<1> QED  BY <1>3, <1>5, <1>6, <1>7 DEF U

(* The intervals of the buffers of a block.                                *)
LEMMA IntervalsAre ==
  ASSUME NEW o, definesOnce(o), isAwaited(o), NEW sizes, \A b \in buffersOf(o) : sizes[b] \in Nat
  PROVE  /\ liveIntervals(o, sizes) \in Seq(LiveInterval)
         /\ DOMAIN liveIntervals(o, sizes) = 1..Cardinality(allocs(o))
         /\ \A i \in allocs(o) : IsIntervalOf(liveIntervals(o, sizes)[placeOf(o, i)], o, sizes, i)
<1> DEFINE iv == liveIntervals(o, sizes)
<1>1. /\ DOMAIN iv = DOMAIN collected(o)
      /\ \A k \in DOMAIN collected(o) :
           iv[k] = [definition |-> definitionOf(o, collected(o)[k]), lastUse |-> lastUseOf(o, collected(o)[k]),
                    bytes |-> sizes[collected(o)[k]]]
  BY DEF liveIntervals, lastUseOf
<1>0. iv = [k \in DOMAIN iv |-> iv[k]]
  BY DEF liveIntervals
<1> HIDE DEF iv
<1>2. /\ DOMAIN iv = 1..Cardinality(allocs(o)) /\ Cardinality(allocs(o)) \in Nat
  BY <1>1, Collects
<1>3. ASSUME NEW i \in allocs(o)
      PROVE  /\ IsIntervalOf(iv[placeOf(o, i)], o, sizes, i)
             /\ iv[placeOf(o, i)] \in LiveInterval
  <2>1. /\ placeOf(o, i) \in DOMAIN collected(o) /\ collected(o)[placeOf(o, i)] = o[i].def
        /\ definitionOf(o, o[i].def) = i /\ i \in Nat /\ o[i].def \in buffersOf(o)
    BY Collects
  <2>2. iv[placeOf(o, i)] = [definition |-> i, lastUse |-> lastUseOf(o, o[i].def), bytes |-> sizes[o[i].def]]
    BY <1>1, <2>1
  <2>3. lastUseOf(o, o[i].def) \in Nat /\ i <= lastUseOf(o, o[i].def)
    BY LastUse
  <2> QED  BY <2>1, <2>2, <2>3 DEF IsIntervalOf, LiveInterval
<1>4. \A k \in 1..Cardinality(allocs(o)) : iv[k] \in LiveInterval
  <2> TAKE k \in 1..Cardinality(allocs(o))
  <2>1. PICK i \in allocs(o) : placeOf(o, i) = k
    BY Collects
  <2> QED  BY <1>3, <2>1
<1>5. iv \in Seq(LiveInterval)
  BY <1>0, <1>2, <1>4
<1> QED  BY <1>2, <1>3, <1>5 DEF iv
-----------------------------------------------------------------------------
(* was[p] is where operation p of the new block is priced: what moves, at  *)
(* the place it moves to, and what stays, where it was.                    *)
Was(o, n, l, e, moved, to, was) ==
  /\ was[l + 1] = l
  /\ \A i \in DOMAIN o : was[to[i]] = IF i \in moved \cup {l} THEN e ELSE i
  /\ \A p \in DOMAIN n : was[p] \in Nat
  /\ \A p, q \in DOMAIN n : p <= q => was[p] <= was[q]

(* These places exist, in order.                                           *)
LEMMA WasAt ==
  ASSUME NEW o, definesOnce(o), NEW n, NEW l, NEW e, NEW moved, NEW to, NEW token, IsHoist(o, n, l, e, moved, to, token)
  PROVE  \E was : Was(o, n, l, e, moved, to, was)
<1> DEFINE from(p) == CHOOSE i \in DOMAIN o : to[i] = p
           place(i) == IF i \in moved \cup {l} THEN e ELSE i
           was == [p \in DOMAIN n |-> IF p = l + 1 THEN l ELSE place(from(p))]
<1>1. Hoist(o, n, l, to, token)
  BY HoistFacts
<1>2. /\ DOMAIN o = 1..Len(o) /\ l \in DOMAIN o /\ l \in Nat /\ l + 1 \in DOMAIN n /\ DOMAIN n \subseteq Nat
      /\ \A i \in DOMAIN o : to[i] \in DOMAIN n /\ to[i] # l + 1 /\ to[i] \in Nat /\ i \in Nat
      /\ \A i, j \in DOMAIN o : to[i] = to[j] => i = j
      /\ \A j \in DOMAIN n : j = l + 1 \/ \E i \in DOMAIN o : j = to[i]
  BY <1>1 DEF Hoist
<1>3. e \in Nat /\ e <= l /\ \A i \in moved : i < l
  BY <1>2 DEF IsHoist
<1>4. \A i \in DOMAIN o : from(to[i]) = i
  BY <1>2
<1>5. was[l + 1] = l /\ \A i \in DOMAIN o : was[to[i]] = place(i)
  <2> HIDE DEF from
  <2>1. was[l + 1] = l
    BY <1>2
  <2>2. ASSUME NEW i \in DOMAIN o PROVE was[to[i]] = place(i)
    <3>1. to[i] \in DOMAIN n /\ to[i] # l + 1
      BY <1>2
    <3>2. was[to[i]] = place(from(to[i]))
      BY ONLY <3>1
    <3> QED  BY ONLY <1>4, <3>2
  <2> QED  BY ONLY <2>1, <2>2
<1>6. \A i \in DOMAIN o : place(i) \in Nat
  BY <1>2, <1>3
<1> HIDE DEF was, from
<1>7. \A p \in DOMAIN n : was[p] \in Nat
  BY <1>2, <1>5, <1>6
<1>8. ASSUME NEW p \in DOMAIN n, NEW q \in DOMAIN n, p < q PROVE was[p] <= was[q]
  <2>1. /\ \A i \in DOMAIN o : IF i <= l THEN to[i] <= l ELSE to[i] = i + 1
        /\ \A i, j \in staying(o, l, moved) : i < j => to[i] < to[j]
        /\ \A i \in moved \cup {l} : \A j \in staying(o, l, moved) :
             IF j < e THEN to[j] < to[i] ELSE to[i] < to[j]
    BY <1>2 DEF IsHoist, Hoisted
  <2>2. \A i \in DOMAIN o : i \in moved \cup {l} \/ i \in staying(o, l, moved)
    BY <1>2 DEF staying
  <2>3. CASE q = l + 1
    <3>1. PICK i \in DOMAIN o : p = to[i]
      BY <1>2, <2>3, <1>8
    <3>2. i <= l
      BY <1>2, <1>8, <2>1, <2>3, <3>1
    <3> QED  BY <1>2, <1>3, <1>5, <2>3, <3>1, <3>2
  <2>4. CASE p = l + 1
    <3>1. PICK j \in DOMAIN o : q = to[j]
      BY <1>2, <2>4, <1>8
    <3>2. j > l
      BY <1>2, <1>8, <2>1, <2>4, <3>1
    <3>3. j \notin moved /\ j # l
      <4>1. j \in Nat /\ l \in Nat
        BY <1>2
      <4>2. j \in moved => j < l
        BY <1>3
      <4> QED  BY <3>2, <4>1, <4>2
    <3> QED  BY <1>2, <1>5, <2>4, <3>1, <3>2, <3>3
  <2>5. CASE p # l + 1 /\ q # l + 1
    <3>1. PICK i \in DOMAIN o : p = to[i]
      BY <1>2, <2>5
    <3>2. PICK j \in DOMAIN o : q = to[j]
      BY <1>2, <2>5
    <3>3. to[i] < to[j] /\ was[p] = place(i) /\ was[q] = place(j) /\ i \in Nat /\ j \in Nat /\ to[i] \in Nat /\ to[j] \in Nat
      BY <1>2, <1>5, <1>8, <3>1, <3>2
    <3>4. CASE i \in moved \cup {l} /\ j \in moved \cup {l}
      BY <1>3, <3>3, <3>4
    <3>5. CASE i \in moved \cup {l} /\ j \notin moved \cup {l}
      <4>1. ~(j < e)
        BY <2>1, <2>2, <3>3, <3>5
      <4> QED  BY <1>3, <3>3, <3>5, <4>1
    <3>6. CASE i \notin moved \cup {l} /\ j \in moved \cup {l}
      <4>1. i < e
        BY <2>1, <2>2, <3>3, <3>6
      <4> QED  BY <1>3, <3>3, <3>6, <4>1
    <3>7. CASE i \notin moved \cup {l} /\ j \notin moved \cup {l}
      <4>1. ~(j < i)
        BY <2>1, <2>2, <3>3, <3>7
      <4> QED  BY <3>3, <3>7, <4>1
    <3> QED  BY <3>4, <3>5, <3>6, <3>7
  <2> QED  BY <2>3, <2>4, <2>5
<1>9. \A p, q \in DOMAIN n : p <= q => was[p] <= was[q]
  BY <1>2, <1>7, <1>8
<1>10. Was(o, n, l, e, moved, to, was)
  BY <1>5, <1>7, <1>9 DEF Was
<1> QED  BY <1>10

(* A buffer that moved operations are built on is used where the load is.  *)
usedAt(o, l, moved) ==
  \A i \in moved : \E w \in o[l].reads \cup {o[l].write} : w \in Nat /\ rootOf(o)[o[i].def] = rootOf(o)[w]

(* A buffer that something moved is built on is used by the load.          *)
LEMMA MovedIsUsed ==
  ASSUME NEW o, definesOnce(o), isAwaited(o), NEW limit \in Nat, NEW rank, isRanked(o, limit, rank),
         NEW l \in DOMAIN o, o[l].kind = "dma_load", NEW moved, usedAt(o, l, moved),
         NEW i \in moved, NEW b, rootOf(o)[o[i].def] = b
  PROVE  l \in usesOf(o, b)
<1>1. PICK w \in o[l].reads \cup {o[l].write} : w \in Nat /\ rootOf(o)[w] = b
  BY DEF usedAt
<1>2. w \in aliasesOf(o, b)
  BY <1>1, RankedRootStep DEF aliasesOf
<1>3. l \in usersOf(o, w)
  BY <1>1 DEF usersOf
<1>4. completionOf(o, l) = l
  BY OfAnAwaited
<1> QED  BY <1>2, <1>3, <1>4 DEF usesOf
-----------------------------------------------------------------------------
(* An asynchronous transfer completes where its await has gone, the issued *)
(* one at the await left in the place of the load.                         *)
LEMMA HoistCompletes ==
  ASSUME NEW o, definesOnce(o), isAwaited(o), NEW n, definesOnce(n), isAwaited(n), NEW l, NEW to, NEW token,
         Hoist(o, n, l, to, token), NEW i \in DOMAIN o
  PROVE  completionOf(n, to[i]) = IF i = l THEN l + 1 ELSE to[completionOf(o, i)]
<1>1. /\ to[i] \in DOMAIN n /\ SameBut(n[to[i]], o, i, l, token)
      /\ l + 1 \in DOMAIN n /\ n[l + 1].kind = "await" /\ n[l + 1].reads = {token}
  BY DEF Hoist
<1>2. /\ n[to[i]].kind = "dma_load_async" => isAwaitOf(n, to[i], completionOf(n, to[i]))
      /\ n[to[i]].kind # "dma_load_async" => completionOf(n, to[i]) = to[i]
  BY <1>1, OfAnAwaited
<1>3. n[to[i]].kind = "dma_load_async" =>
        \A j, k \in DOMAIN n : isAwaitOf(n, to[i], j) /\ isAwaitOf(n, to[i], k) => j = k
  BY <1>1 DEF isAwaited
<1>4. CASE i = l
  <2>1. n[to[i]].kind = "dma_load_async" /\ n[to[i]].def = token
    BY <1>1, <1>4 DEF SameBut
  <2>2. isAwaitOf(n, to[i], l + 1)
    BY <1>1, <2>1 DEF isAwaitOf
  <2>3. completionOf(n, to[i]) \in DOMAIN n
    BY <1>1, OfAnAwaited
  <2>4. completionOf(n, to[i]) = l + 1
    BY <1>1, <1>2, <1>3, <2>1, <2>2, <2>3
  <2> QED  BY <1>4, <2>4
<1>5. CASE i # l
  <2>1. n[to[i]].kind = o[i].kind /\ n[to[i]].def = o[i].def
    BY <1>1, <1>5 DEF SameBut
  <2>2. CASE o[i].kind = "dma_load_async"
    <3>1. /\ completionOf(o, i) \in DOMAIN o /\ isAwaitOf(o, i, completionOf(o, i))
      BY <2>2, OfAnAwaited
    <3> DEFINE k == completionOf(o, i)
    <3>2. k # l
      BY <3>1 DEF isAwaitOf, Hoist
    <3>3. to[k] \in DOMAIN n /\ SameBut(n[to[k]], o, k, l, token)
      BY <3>1 DEF Hoist
    <3>4. isAwaitOf(n, to[i], to[k])
      BY <2>1, <3>1, <3>2, <3>3 DEF isAwaitOf, SameBut
    <3>5. completionOf(n, to[i]) \in DOMAIN n
      BY <1>1, OfAnAwaited
    <3> HIDE DEF k
    <3>6. completionOf(n, to[i]) = to[k]
      BY <1>2, <1>3, <2>1, <2>2, <3>3, <3>4, <3>5
    <3> QED  BY <1>5, <3>6 DEF k
  <2>3. CASE o[i].kind # "dma_load_async"
    <3>1. completionOf(o, i) = i
      BY <2>3, OfAnAwaited
    <3> QED  BY <1>2, <1>5, <2>1, <2>3, <3>1
  <2> QED  BY <2>2, <2>3
<1> QED  BY <1>4, <1>5

(* The values that stand for a buffer are the ones there were.             *)
LEMMA HoistAliases ==
  ASSUME NEW o, definesOnce(o), NEW n \in Seq(BlockOperation), NEW l, NEW to, NEW token, Hoist(o, n, l, to, token),
         NEW limit \in Nat, NEW rank, isRanked(o, limit, rank), NEW b \in buffersOf(o)
  PROVE  /\ aliasesOf(n, b) = aliasesOf(o, b)
         /\ \A v \in aliasesOf(o, b) : /\ v \in Nat /\ v # NoValue /\ v # token /\ rootOf(o)[v] = b
                                       /\ \E i \in DOMAIN o : o[i].def = v
<1>1. viewsOf(n) = viewsOf(o) /\ \A v \in Nat : rootOf(n)[v] = rootOf(o)[v]
  BY HoistRoots
<1>2. \A v \in viewsOf(o) : \E i \in DOMAIN o : o[i].def = v /\ o[i].kind = "view"
  BY DEF viewsOf
<1>3. PICK a \in DOMAIN o : o[a].def = b /\ o[a].kind = "alloc"
  BY DEF buffersOf, allocs
<1>4. \A i \in DOMAIN o : o[i].kind \in {"alloc", "view"} => o[i].def # NoValue
  BY OfAWellFormedBlock
<1>5. \A i \in DOMAIN o : i # l => SameBut(n[to[i]], o, i, l, token)
  BY DEF Hoist
<1>6. \A i \in DOMAIN o : o[i].def \in Nat /\ o[i].def # token
  <2> TAKE i \in DOMAIN o
  <2>1. SameBut(n[to[i]], o, i, l, token) /\ token \in Nat
    BY DEF Hoist
  <2> QED  BY <2>1 DEF SameBut
<1>7. b \notin viewsOf(o)
  <2>1. \A i, j \in DOMAIN o : o[i].def = o[j].def /\ o[i].def # NoValue => i = j
    BY OfAWellFormedBlock
  <2> QED  BY <1>2, <1>3, <1>4, <2>1
<1>8. b \in Nat /\ rootOf(o)[b] = b
  BY <1>3, <1>6, <1>7, RankedRootStep
<1>9. viewsOf(o) \subseteq Nat
  BY <1>2, <1>6
<1>10. aliasesOf(n, b) = aliasesOf(o, b)
  BY <1>1, <1>9 DEF aliasesOf
<1>11. \A v \in aliasesOf(o, b) : v = b \/ (v \in viewsOf(o) /\ rootOf(o)[v] = b)
  BY DEF aliasesOf
<1> QED  BY <1>2, <1>3, <1>4, <1>6, <1>8, <1>10, <1>11

(* No use of a buffer is later than its last use was, as it was priced.    *)
LEMMA UsesAreEarlier ==
  ASSUME NEW o, definesOnce(o), isAwaited(o), isPlain(o), NEW n, definesOnce(n), isAwaited(n),
         NEW l, NEW e, NEW moved, NEW to, NEW token, IsHoist(o, n, l, e, moved, to, token),
         NEW limit \in Nat, NEW rank, isRanked(o, limit, rank), usedAt(o, l, moved),
         NEW was, Was(o, n, l, e, moved, to, was), NEW a \in allocs(o), NEW u \in usesOf(n, o[a].def)
  PROVE  \E v \in usesOf(o, o[a].def) : was[u] <= v
<1> DEFINE b == o[a].def
<1>1. Hoist(o, n, l, to, token) /\ n \in Seq(BlockOperation)
  BY HoistFacts DEF IsHoist
<1>2. /\ b \in buffersOf(o) /\ a \in DOMAIN o /\ definitionOf(o, b) = a /\ b # NoValue /\ b \in Nat
  BY Collects
<1>3. /\ aliasesOf(n, b) = aliasesOf(o, b)
      /\ \A v \in aliasesOf(o, b) : /\ v \in Nat /\ v # NoValue /\ v # token /\ rootOf(o)[v] = b
                                    /\ \E i \in DOMAIN o : o[i].def = v
  BY <1>1, <1>2, HoistAliases
<1>4. /\ l \in DOMAIN o /\ l \in Nat /\ o[l].kind = "dma_load" /\ e \in Nat /\ e <= l
      /\ \A i \in moved : o[i].kind \in pureKinds
      /\ \A i \in moved : i \in DOMAIN o /\ i \in Nat
  <2>1. l \in DOMAIN o /\ o[l].kind = "dma_load" /\ e \in 1..l /\ moved \in SUBSET (1..(l - 1))
        /\ \A i \in moved : o[i].kind \in pureKinds
    BY DEF IsHoist
  <2>2. DOMAIN o = 1..Len(o) /\ Len(o) \in Nat
    BY OfAWellFormedBlock
  <2> QED  BY <2>1, <2>2
<1>5. /\ was[l + 1] = l
      /\ \A i \in DOMAIN o : was[to[i]] = IF i \in moved \cup {l} THEN e ELSE i
  BY DEF Was
<1>6. \A i \in moved : rootOf(o)[o[i].def] = b => l \in usesOf(o, b)
  BY <1>4, MovedIsUsed
<1>7. u = definitionOf(n, b) \/ \E j \in DOMAIN n : \E v \in aliasesOf(n, b) : j \in usersOf(n, v) /\ u = completionOf(n, j)
  BY DEF usesOf, usersOf
<1> HIDE DEF b
<1>8. CASE u = definitionOf(n, b)
  <2>1. u = to[a]
    <3>1. to[a] \in DOMAIN n /\ SameBut(n[to[a]], o, a, l, token)
      BY <1>1, <1>2 DEF Hoist
    <3>2. a # l
      BY <1>4 DEF allocs
    <3>3. n[to[a]].def = b
      BY <3>1, <3>2 DEF SameBut, b
    <3>4. \A i, j \in DOMAIN n : n[i].def = n[j].def /\ n[i].def # NoValue => i = j
      BY OfAWellFormedBlock
    <3> QED  BY <1>2, <1>8, <3>1, <3>3, <3>4 DEF definitionOf
  <2>2. CASE a \in moved
    <3>1. rootOf(o)[o[a].def] = b
      BY <1>3 DEF b, aliasesOf
    <3>2. l \in usesOf(o, b) /\ was[u] = e
      BY <1>2, <1>5, <1>6, <2>1, <2>2, <3>1
    <3> QED  BY <1>4, <3>2 DEF b
  <2>3. CASE a \notin moved
    <3>1. a # l /\ a \in Nat
      BY <1>2, <1>4, Collects DEF allocs
    <3>2. was[u] = a /\ a \in usesOf(o, b)
      BY <1>2, <1>5, <2>1, <2>3, <3>1 DEF usesOf
    <3> QED  BY <3>1, <3>2 DEF b
  <2> QED  BY <2>2, <2>3
<1>9. CASE \E j \in DOMAIN n : \E v \in aliasesOf(n, b) : j \in usersOf(n, v) /\ u = completionOf(n, j)
  <2>1. PICK j \in DOMAIN n, v \in aliasesOf(o, b) : j \in usersOf(n, v) /\ u = completionOf(n, j)
    BY <1>3, <1>9
  <2>2. v \in Nat /\ v # NoValue /\ v # token /\ rootOf(o)[v] = b
    BY <1>3
  <2>3. j # l + 1
    BY <1>1, <2>1, <2>2 DEF usersOf, Hoist
  <2>4. PICK i \in DOMAIN o : j = to[i]
    BY <1>1, <2>3 DEF Hoist
  <2>5. SameBut(n[to[i]], o, i, l, token)
    BY <1>1 DEF Hoist
  <2>6. i \in usersOf(o, v)
    BY <2>1, <2>4, <2>5 DEF usersOf, SameBut
  <2>7. completionOf(o, i) \in usesOf(o, b)
    BY <2>6 DEF usesOf
  <2>8. u = IF i = l THEN l + 1 ELSE to[completionOf(o, i)]
    BY <1>1, <2>1, <2>4, HoistCompletes
  <2>9. CASE i = l
    <3>1. completionOf(o, l) = l
      BY <1>4, OfAnAwaited
    <3>2. was[u] = l /\ l \in usesOf(o, b)
      BY <1>5, <2>7, <2>8, <2>9, <3>1
    <3> QED  BY <1>4, <3>2 DEF b
  <2>10. CASE i # l
    <3> DEFINE k == completionOf(o, i)
    <3>1. /\ k \in DOMAIN o /\ k \in Nat
          /\ o[i].kind = "dma_load_async" => o[k].kind = "await"
          /\ o[i].kind # "dma_load_async" => k = i
      BY OfAnAwaited DEF isAwaitOf
    <3>2. k # l
      BY <1>4, <2>10, <3>1
    <3>3. was[u] = IF k \in moved THEN e ELSE k
      BY <1>5, <2>8, <2>10, <3>1, <3>2
    <3>4. k \in moved => l \in usesOf(o, b)
      <4> SUFFICES ASSUME k \in moved PROVE l \in usesOf(o, b)
        OBVIOUS
      <4>1. o[k].kind \in pureKinds
        BY <1>4
      <4>2. k = i
        BY <3>1, <4>1 DEF pureKinds
      <4> HIDE DEF k
      <4>3. o[i].write = NoValue /\ (o[i].kind \in {"alloc", "slot"} => o[i].reads = {})
        BY <4>1, <4>2 DEF isPlain
      <4>4. v \in o[i].reads
        BY <2>2, <2>6, <4>3 DEF usersOf
      <4>5. o[i].kind = "view"
        BY <4>1, <4>2, <4>3, <4>4 DEF pureKinds
      <4>6. o[i].reads = {viewed(o, i)}
        BY <4>5, OfARankedView
      <4>7. viewed(o, i) = v
        BY <4>4, <4>6
      <4>8. rootOf(o)[o[i].def] = b
        BY <2>2, <4>5, <4>7, RankedRootStep
      <4> QED  BY <1>6, <4>2, <4>8
    <3> HIDE DEF k
    <3>5. k \in usesOf(o, b)
      BY <2>7 DEF k
    <3> QED  BY <1>4, <3>1, <3>3, <3>4, <3>5 DEF b
  <2> QED  BY <2>9, <2>10
<1> QED  BY <1>7, <1>8, <1>9
-----------------------------------------------------------------------------
(* The proofs about assignOffsets, as the passes call it.                  *)
FirstFit == INSTANCE OffsetAssignmentProofs WITH Problems <- {}

LEMMA NoProblems ==
  {} \subseteq [intervals : Seq(FirstFit!LiveInterval), strategy : FirstFit!Strategy, budget : Nat]
OBVIOUS

(* The allocations are the ones there were, where they have gone.          *)
LEMMA HoistAllocs ==
  ASSUME NEW o, NEW n, NEW l, NEW to, NEW token, Hoist(o, n, l, to, token)
  PROVE  /\ \A a \in allocs(o) : to[a] \in allocs(n) /\ n[to[a]].def = o[a].def /\ a \in DOMAIN o /\ a # l
         /\ \A j \in allocs(n) : \E a \in allocs(o) : j = to[a]
<1>1. /\ \A i \in DOMAIN o : to[i] \in DOMAIN n /\ SameBut(n[to[i]], o, i, l, token)
      /\ \A j \in DOMAIN n : j = l + 1 \/ \E i \in DOMAIN o : j = to[i]
      /\ o[l].kind = "dma_load" /\ n[l + 1].kind = "await"
  BY DEF Hoist
<1>2. ASSUME NEW a \in allocs(o) PROVE to[a] \in allocs(n) /\ n[to[a]].def = o[a].def /\ a \in DOMAIN o /\ a # l
  <2>1. a \in DOMAIN o /\ o[a].kind = "alloc"
    BY DEF allocs
  <2>2. a # l /\ to[a] \in DOMAIN n /\ SameBut(n[to[a]], o, a, l, token)
    BY <1>1, <2>1
  <2> QED  BY <2>1, <2>2 DEF SameBut, allocs
<1>3. ASSUME NEW j \in allocs(n) PROVE \E a \in allocs(o) : j = to[a]
  <2>1. j \in DOMAIN n /\ n[j].kind = "alloc"
    BY DEF allocs
  <2>2. PICK i \in DOMAIN o : j = to[i]
    BY <1>1, <2>1
  <2>3. SameBut(n[to[i]], o, i, l, token)
    BY <1>1
  <2>4. o[i].kind = "alloc"
    BY <2>1, <2>2, <2>3 DEF SameBut
  <2> QED  BY <2>2, <2>4 DEF allocs
<1> QED  BY <1>2, <1>3

(* The intervals a hoist is priced by.                                     *)
IsPrice(pr, o, sizes, e, moved) ==
  /\ pr \in Seq(LiveInterval) /\ DOMAIN pr = 1..Cardinality(allocs(o))
  /\ \A a \in allocs(o) : /\ pr[placeOf(o, a)].definition <= (IF a \in moved THEN e ELSE a)
                          /\ pr[placeOf(o, a)].lastUse = lastUseOf(o, o[a].def)
                          /\ pr[placeOf(o, a)].bytes = sizes[o[a].def]

(* What is live together after the hoist is live together as priced.       *)
LEMMA HoistIsPriced ==
  ASSUME NEW o, definesOnce(o), isAwaited(o), isPlain(o), NEW n, definesOnce(n), isAwaited(n),
         NEW l, NEW e, NEW moved, NEW to, NEW token, IsHoist(o, n, l, e, moved, to, token),
         NEW limit \in Nat, NEW rank, isRanked(o, limit, rank), usedAt(o, l, moved),
         NEW sizes, \A b \in buffersOf(o) : sizes[b] \in Nat,
         NEW pr, IsPrice(pr, o, sizes, e, moved)
  PROVE  /\ liveIntervals(n, sizes) \in Seq(LiveInterval)
         /\ \E m : FirstFit!PricedBy(liveIntervals(n, sizes), pr, m)
<1> DEFINE iv == liveIntervals(n, sizes)
           whose(k) == CHOOSE a \in allocs(o) : placeOf(n, to[a]) = k
           m == [k \in 1..Cardinality(allocs(n)) |-> placeOf(o, whose(k))]
<1>1. Hoist(o, n, l, to, token) /\ n \in Seq(BlockOperation)
  BY HoistFacts DEF IsHoist
<1>2. PICK was : Was(o, n, l, e, moved, to, was)
  BY WasAt
<1>3. /\ \A a \in allocs(o) : to[a] \in allocs(n) /\ n[to[a]].def = o[a].def /\ a \in DOMAIN o /\ a # l
      /\ \A j \in allocs(n) : \E a \in allocs(o) : j = to[a]
  BY <1>1, HoistAllocs
<1>4. \A a, c \in allocs(o) : to[a] = to[c] => a = c
  BY <1>1, <1>3 DEF Hoist
<1>5. \A b \in buffersOf(n) : sizes[b] \in Nat
  BY <1>3 DEF buffersOf
<1>6. /\ iv \in Seq(LiveInterval) /\ DOMAIN iv = 1..Cardinality(allocs(n))
      /\ \A j \in allocs(n) : IsIntervalOf(iv[placeOf(n, j)], n, sizes, j)
  BY <1>5, IntervalsAre
<1> HIDE DEF iv
<1>7. \A k \in 1..Cardinality(allocs(n)) : \E a \in allocs(o) : placeOf(n, to[a]) = k
  BY <1>3, Collects
<1>8. \A k \in 1..Cardinality(allocs(n)) :
        whose(k) \in allocs(o) /\ placeOf(n, to[whose(k)]) = k /\ m[k] = placeOf(o, whose(k))
  BY <1>7
<1> HIDE DEF m, whose
<1>9. ASSUME NEW k \in DOMAIN iv
      PROVE  /\ m[k] \in DOMAIN pr /\ pr[m[k]].bytes = iv[k].bytes
             /\ iv[k].definition = to[whose(k)] /\ iv[k].lastUse = lastUseOf(n, o[whose(k)].def)
  <2>1. whose(k) \in allocs(o) /\ placeOf(n, to[whose(k)]) = k /\ m[k] = placeOf(o, whose(k))
    BY <1>6, <1>8
  <2>2. IsIntervalOf(iv[k], n, sizes, to[whose(k)]) /\ n[to[whose(k)]].def = o[whose(k)].def
    BY <1>3, <1>6, <2>1
  <2>3. placeOf(o, whose(k)) \in DOMAIN pr
    BY <2>1, Collects DEF IsPrice
  <2> QED  BY <2>1, <2>2, <2>3 DEF IsPrice, IsIntervalOf
<1>10. ASSUME NEW j \in DOMAIN iv, NEW k \in DOMAIN iv, m[j] = m[k] PROVE j = k
  <2>1. /\ whose(j) \in allocs(o) /\ placeOf(n, to[whose(j)]) = j /\ m[j] = placeOf(o, whose(j))
        /\ whose(k) \in allocs(o) /\ placeOf(n, to[whose(k)]) = k /\ m[k] = placeOf(o, whose(k))
    BY <1>6, <1>8
  <2>2. \A a, c \in allocs(o) : placeOf(o, a) = placeOf(o, c) => a = c
    BY Collects
  <2>3. whose(j) = whose(k)
    BY <1>10, <2>1, <2>2
  <2> QED  BY <2>1, <2>3
<1>11. ASSUME NEW t \in DOMAIN n, NEW k \in DOMAIN iv, liveAt(iv[k], t)
       PROVE  liveAt(pr[m[k]], was[t])
  <2> DEFINE a == whose(k)
  <2>1. a \in allocs(o) /\ placeOf(n, to[a]) = k /\ m[k] = placeOf(o, a)
    BY <1>6, <1>8
  <2>2. to[a] <= t /\ t <= lastUseOf(n, o[a].def)
    BY <1>9, <1>11 DEF liveAt
  <2> HIDE DEF a
  <2>3. to[a] \in allocs(n) /\ n[to[a]].def = o[a].def /\ a \in DOMAIN o /\ a # l /\ to[a] \in DOMAIN n
    BY <1>3, <2>1 DEF allocs
  <2>4. /\ was[to[a]] = IF a \in moved THEN e ELSE a
        /\ \A p, q \in DOMAIN n : p <= q => was[p] <= was[q]
        /\ \A p \in DOMAIN n : was[p] \in Nat
    BY <1>2, <2>3 DEF Was
  <2>5. lastUseOf(n, o[a].def) \in usesOf(n, o[a].def) /\ lastUseOf(n, o[a].def) \in DOMAIN n
    BY <2>3, LastUse
  <2>6. PICK v \in usesOf(o, o[a].def) : was[lastUseOf(n, o[a].def)] <= v
    BY <1>2, <2>1, <2>5, UsesAreEarlier
  <2>7. v \in Nat /\ v <= lastUseOf(o, o[a].def) /\ lastUseOf(o, o[a].def) \in Nat
    BY <2>1, LastUse
  <2>8. was[t] <= lastUseOf(o, o[a].def)
    BY <2>2, <2>4, <2>5, <2>6, <2>7
  <2>9. was[to[a]] <= was[t] /\ was[t] \in Nat
    BY <2>2, <2>3, <2>4
  <2>10. /\ pr[m[k]].definition <= (IF a \in moved THEN e ELSE a)
         /\ pr[m[k]].lastUse = lastUseOf(o, o[a].def)
    BY <2>1 DEF IsPrice
  <2>11. pr[m[k]].definition \in Nat
    <3>1. m[k] \in DOMAIN pr /\ pr \in Seq(LiveInterval)
      BY <1>9 DEF IsPrice
    <3>2. pr[m[k]] \in LiveInterval
      BY <3>1
    <3> QED  BY <3>2 DEF LiveInterval
  <2>12. was[to[a]] \in Nat /\ pr[m[k]].definition <= was[to[a]]
    BY <2>3, <2>4, <2>10
  <2>13. pr[m[k]].definition <= was[t]
    BY <2>9, <2>11, <2>12
  <2> QED  BY <2>8, <2>10, <2>13 DEF liveAt
<1>12. ASSUME NEW t \in Nat
       PROVE  \E s \in Nat : \A k \in DOMAIN iv : liveAt(iv[k], t) => liveAt(pr[m[k]], s)
  <2>1. CASE t \in DOMAIN n
    <3>1. was[t] \in Nat
      BY <1>2, <2>1 DEF Was
    <3> QED  BY <1>11, <2>1, <3>1
  <2>2. CASE t \notin DOMAIN n
    <3>1. ASSUME NEW k \in DOMAIN iv PROVE ~liveAt(iv[k], t)
      <4>1. whose(k) \in allocs(o)
        BY <1>6, <1>8
      <4>2. to[whose(k)] \in allocs(n) /\ n[to[whose(k)]].def = o[whose(k)].def /\ to[whose(k)] \in DOMAIN n
        BY <1>3, <4>1 DEF allocs
      <4>3. lastUseOf(n, o[whose(k)].def) \in DOMAIN n
        BY <4>2, LastUse
      <4>4. DOMAIN n = 1..Len(n) /\ Len(n) \in Nat
        BY <1>1 DEF Hoist
      <4>5. iv[k].definition \in 1..Len(n) /\ iv[k].lastUse \in 1..Len(n)
        BY <1>9, <4>2, <4>3, <4>4
      <4> QED  BY <2>2, <4>4, <4>5 DEF liveAt
    <3> QED  BY <3>1
  <2> QED  BY <2>1, <2>2
<1>13. /\ \A k \in DOMAIN iv : m[k] \in DOMAIN pr /\ pr[m[k]].bytes = iv[k].bytes
       /\ \A j, k \in DOMAIN iv : m[j] = m[k] => j = k
  BY <1>9, <1>10
<1>14. \A x, t : FirstFit!liveAt(x, t) <=> liveAt(x, t)
  BY DEF FirstFit!liveAt, liveAt
<1>15. FirstFit!PricedBy(iv, pr, m)
  BY <1>12, <1>13, <1>14 DEF FirstFit!PricedBy
<1> QED  BY <1>6, <1>15 DEF iv
-----------------------------------------------------------------------------
(* The intervals a hoist is priced by are of its allocations as it leaves  *)
(* them.                                                                   *)
LEMMA PricedAre ==
  ASSUME definesOnce(block), isAwaited(block), \A b \in buffersOf(block) : size[b] \in Nat,
         NEW l \in DOMAIN block
  PROVE  IsPrice(pricedIntervals(l), block, size, earliest(l), prologueOf(l) \ {earliest(l)})
<1> DEFINE e == earliest(l)
           P == prologueOf(l)
           iv == liveIntervals(block, size)
           pr == pricedIntervals(l)
<1>1. /\ iv \in Seq(LiveInterval) /\ DOMAIN iv = 1..Cardinality(allocs(block))
      /\ \A a \in allocs(block) : IsIntervalOf(iv[placeOf(block, a)], block, size, a)
  BY IntervalsAre
<1>2. e \in 1..l /\ l \in Nat
  BY EarliestPlace, OfAWellFormedBlock
<1>3. pr = [k \in DOMAIN iv |-> IF iv[k].definition \in P
                                  THEN [iv[k] EXCEPT !.definition = lesser(@, e)] ELSE iv[k]]
  BY DEF pricedIntervals
<1> HIDE DEF e, P, iv, pr
<1>4. ASSUME NEW a \in allocs(block), NEW k, k = placeOf(block, a)
      PROVE  /\ k \in DOMAIN iv /\ pr[k] \in LiveInterval
             /\ pr[k].definition <= (IF a \in P \ {e} THEN e ELSE a)
             /\ pr[k].lastUse = lastUseOf(block, block[a].def) /\ pr[k].bytes = size[block[a].def]
  <2>1. k \in DOMAIN iv /\ a \in Nat /\ block[a].def \in buffersOf(block)
    BY <1>1, <1>4, Collects
  <2>2. IsIntervalOf(iv[k], block, size, a) /\ iv[k] \in LiveInterval
    <3>1. iv \in Seq(LiveInterval)
      BY <1>1
    <3>2. iv[k] \in LiveInterval
      BY <2>1, <3>1
    <3> QED  BY <1>1, <1>4, <3>2
  <2>3. /\ iv[k].definition = a /\ iv[k].lastUse = lastUseOf(block, block[a].def) /\ iv[k].bytes = size[block[a].def]
    BY <2>2 DEF IsIntervalOf
  <2>4. a <= lastUseOf(block, block[a].def) /\ lastUseOf(block, block[a].def) \in Nat /\ size[block[a].def] \in Nat
    BY <2>1, LastUse
  <2>5. iv[k] = [definition |-> a, lastUse |-> iv[k].lastUse, bytes |-> iv[k].bytes]
    BY <2>2, <2>3 DEF LiveInterval
  <2>6. lesser(a, e) \in Nat /\ lesser(a, e) <= a /\ lesser(a, e) <= e
    BY <1>2, <2>1 DEF lesser
  <2>7. pr[k] = [definition |-> IF a \in P THEN lesser(a, e) ELSE a, lastUse |-> iv[k].lastUse, bytes |-> iv[k].bytes]
    BY <1>3, <2>1, <2>3, <2>5
  <2>8. /\ pr[k].definition = (IF a \in P THEN lesser(a, e) ELSE a)
        /\ pr[k].lastUse = iv[k].lastUse /\ pr[k].bytes = iv[k].bytes
    BY <2>7
  <2>9. pr[k] \in LiveInterval
    BY <2>1, <2>3, <2>4, <2>6, <2>7 DEF LiveInterval
  <2>10. pr[k].definition <= (IF a \in P \ {e} THEN e ELSE a)
    BY <1>2, <2>1, <2>6, <2>8
  <2> QED  BY <2>1, <2>3, <2>8, <2>9, <2>10
<1>5. DOMAIN pr = 1..Cardinality(allocs(block)) /\ Cardinality(allocs(block)) \in Nat
  BY <1>1, <1>3, Collects
<1>6. \A k \in 1..Cardinality(allocs(block)) : pr[k] \in LiveInterval
  <2> TAKE k \in 1..Cardinality(allocs(block))
  <2>1. PICK a \in allocs(block) : placeOf(block, a) = k
    BY Collects
  <2> QED  BY <1>4, <2>1
<1>7. pr \in Seq(LiveInterval)
  <2>1. pr = [k \in 1..Cardinality(allocs(block)) |-> pr[k]]
    BY <1>3, <1>5
  <2> QED  BY <1>5, <1>6, <2>1
<1>8. \A a \in allocs(block) :
        /\ pr[placeOf(block, a)].definition <= (IF a \in P \ {e} THEN e ELSE a)
        /\ pr[placeOf(block, a)].lastUse = lastUseOf(block, block[a].def)
        /\ pr[placeOf(block, a)].bytes = size[block[a].def]
  BY <1>4
<1>9. IsPrice(pr, block, size, e, P \ {e})
  BY <1>5, <1>7, <1>8 DEF IsPrice
<1> QED  BY <1>9 DEF pr, e, P

(* The operations that move are built on buffers the load uses.            *)
LEMMA PrologueIsUsed ==
  ASSUME definesOnce(block), isPlain(block), NEW limit \in Nat, NEW rank, isRanked(block, limit, rank),
         NEW l \in DOMAIN block, isSettled(block, l), block[l].kind = "dma_load", NEW e
  PROVE  usedAt(block, l, prologueOf(l) \ {e})
BY Prologue DEF usedAt

(* The pressure numbers of the placement are those of the block.           *)
LEMMA SameArithmetic ==
  /\ FirstFit!LiveInterval = LiveInterval
  /\ \A iv : FirstFit!sweepLinePeak(iv) = sweepLinePeak(iv)
<1>1. FirstFit!LiveInterval = LiveInterval
  BY DEF FirstFit!LiveInterval, LiveInterval
<1>2. \A e, f : FirstFit!SweepBefore(e, f) = SweepBefore(e, f)
  BY DEF FirstFit!SweepBefore, SweepBefore, FirstFit!smallerKey, smallerKey
<1>3. \A iv, A : FirstFit!bytesOfAll(iv, A) = bytesOfAll(iv, A)
  <2> TAKE iv, A
  <2>1. FirstFit!Cardinality(DOMAIN iv) = Cardinality(DOMAIN iv)
    BY DEF FirstFit!Cardinality, Cardinality
  <2> QED  BY <2>1 DEF FirstFit!bytesOfAll, bytesOfAll
<1>4. \A iv, b : FirstFit!birthOf(iv, b) = birthOf(iv, b) /\ FirstFit!deathOf(iv, b) = deathOf(iv, b)
  BY DEF FirstFit!birthOf, birthOf, FirstFit!deathOf, deathOf
<1>5. \A iv, e : FirstFit!residentAfter(iv, e) = residentAfter(iv, e)
  BY <1>2, <1>3, <1>4 DEF FirstFit!residentAfter, residentAfter
<1>6. \A S : FirstFit!Max(S) = Max(S) /\ FirstFit!Min(S) = Min(S)
  BY DEF FirstFit!Max, Max, FirstFit!Min, Min
<1>7. \A iv : FirstFit!sweepLinePeak(iv) = sweepLinePeak(iv)
  <2> TAKE iv
  <2>1. {FirstFit!birthOf(iv, b) : b \in DOMAIN iv} = {birthOf(iv, b) : b \in DOMAIN iv}
    BY <1>4
  <2>2. {FirstFit!deathOf(iv, b) : b \in DOMAIN iv} = {deathOf(iv, b) : b \in DOMAIN iv}
    BY <1>4
  <2> DEFINE events == {birthOf(iv, b) : b \in DOMAIN iv} \cup {deathOf(iv, b) : b \in DOMAIN iv}
             pressure == {[bytes |-> residentAfter(iv, e), index |-> e.index] : e \in events}
             opEvents == {FirstFit!birthOf(iv, b) : b \in DOMAIN iv} \cup {FirstFit!deathOf(iv, b) : b \in DOMAIN iv}
             opPressure == {[bytes |-> FirstFit!residentAfter(iv, e), index |-> e.index] : e \in opEvents}
             most == Max({p.bytes : p \in pressure} \cup {0})
             opMost == FirstFit!Max({p.bytes : p \in opPressure} \cup {0})
  <2>3. sweepLinePeak(iv) = [bytes |-> most, index |-> IF most = 0 THEN 0
                             ELSE Min({p.index : p \in {q \in pressure : q.bytes = most}})]
    BY Zenon DEF sweepLinePeak
  <2>4. FirstFit!sweepLinePeak(iv) = [bytes |-> opMost, index |-> IF opMost = 0 THEN 0
                                ELSE FirstFit!Min({p.index : p \in {q \in opPressure : q.bytes = opMost}})]
    BY Zenon DEF FirstFit!sweepLinePeak
  <2>5. opEvents = events
    BY <2>1, <2>2
  <2> HIDE DEF events, opEvents
  <2>6. opPressure = pressure
    BY <1>5, <2>5
  <2> HIDE DEF pressure, opPressure
  <2>7. opMost = most
    BY <1>6, <2>6
  <2> HIDE DEF most, opMost
  <2> QED  BY <1>6, <2>3, <2>4, <2>6, <2>7
<1> QED  BY <1>1, <1>7

(* A hoist whose price could be placed leaves a block whose pressure is    *)
(* inside the budget.                                                      *)
LEMMA PrefetchFits ==
  ASSUME definesOnce(block), isAwaited(block), isPlain(block), NEW limit \in Nat, NEW rank, isRanked(block, limit, rank),
         \A b \in buffersOf(block) : size[b] \in Nat,
         NEW l \in DOMAIN block, isSettled(block, l), block[l].kind = "dma_load",
         intervals = pricedIntervals(l), FirstFit!IInv, outcome = "placed"
  PROVE  sweepLinePeak(liveIntervals(HoistRewrite(l), size)).bytes <= budget
<1> DEFINE n == HoistRewrite(l)
           moved == prologueOf(l) \ {earliest(l)}
           e == earliest(l)
           iv == liveIntervals(n, size)
<1>1. PICK to : IsHoist(block, n, l, e, moved, to, freshValue)
  BY RewriteIsHoist
<1>2. IsPrice(intervals, block, size, e, moved)
  BY PricedAre
<1>3. usedAt(block, l, moved)
  BY PrologueIsUsed
<1> HIDE DEF n, moved, e
<1>4. Hoist(block, n, l, to, freshValue) /\ n \in Seq(BlockOperation)
  BY <1>1, HoistFacts DEF IsHoist
<1>5. definesOnce(n)
  BY <1>4, HoistDefinesOnce
<1>6. isAwaited(n)
  BY <1>1, HoistAwaited
<1>7. iv \in Seq(LiveInterval) /\ \E m : FirstFit!PricedBy(iv, intervals, m)
  BY <1>1, <1>2, <1>3, <1>5, <1>6, HoistIsPriced
<1>8. PICK m : FirstFit!PricedBy(iv, intervals, m)
  BY <1>7
<1> HIDE DEF iv
<1>9. FirstFit!HoldsApart(intervals, offset, budget) /\ intervals \in Seq(FirstFit!LiveInterval) /\ budget \in Nat
  BY PlacementAssumption, FirstFit!PlacedApart, NoProblems
<1>10. iv \in Seq(FirstFit!LiveInterval)
  BY <1>7, SameArithmetic
<1>11. FirstFit!sweepLinePeak(iv).bytes <= budget
  BY <1>8, <1>9, <1>10, PlacementAssumption, FirstFit!PricedPressure, NoProblems
<1> QED  BY <1>11, SameArithmetic DEF iv, n
-----------------------------------------------------------------------------
(* The steps of assignOffsets are those its proofs are about.              *)
LEMMA SameAlgorithm ==
  /\ Offsets!Next => FirstFit!Next
  /\ Offsets!Call => FirstFit!Call
<1>1. Offsets!Buffer = FirstFit!Buffer /\ Offsets!Placed = FirstFit!Placed /\ Offsets!inputs = FirstFit!inputs
      /\ \A b : Offsets!end(b) = FirstFit!end(b)
  BY DEF Offsets!Buffer, FirstFit!Buffer, Offsets!Placed, FirstFit!Placed, Offsets!inputs, FirstFit!inputs,
         Offsets!end, FirstFit!end
<1>2. \A i, s, a, b : Offsets!placedBefore(i, s, a, b) = FirstFit!placedBefore(i, s, a, b)
  BY DEF Offsets!placedBefore, FirstFit!placedBefore, Offsets!PlacementKey, FirstFit!PlacementKey,
         Offsets!smallerKey, FirstFit!smallerKey, Offsets!span, FirstFit!span
<1>3. Offsets!Remaining = FirstFit!Remaining
  BY <1>1 DEF Offsets!Remaining, FirstFit!Remaining, Offsets!neighbours, FirstFit!neighbours,
              Offsets!rangesOverlap, FirstFit!rangesOverlap
<1>4. \A o : Offsets!nextNeighbour(o) <=> FirstFit!nextNeighbour(o)
  BY <1>2, <1>3 DEF Offsets!nextNeighbour, FirstFit!nextNeighbour, Offsets!walkedBefore, FirstFit!walkedBefore
<1>5. Offsets!GapFound <=> FirstFit!GapFound
  BY <1>3, <1>4 DEF Offsets!GapFound, FirstFit!GapFound
<1>6. \A v, a : Offsets!alignUp(v, a) = FirstFit!alignUp(v, a)
  BY DEF Offsets!alignUp, FirstFit!alignUp
<1>7. \A b : Offsets!Take(b) => FirstFit!Take(b)
  BY <1>1, <1>2 DEF Offsets!Take, FirstFit!Take, Offsets!inputs, FirstFit!inputs
<1>8. \A o : Offsets!Skip(o) => FirstFit!Skip(o)
  BY <1>1, <1>4, <1>6 DEF Offsets!Skip, FirstFit!Skip, Offsets!inputs, FirstFit!inputs
<1>9. Offsets!Settle => FirstFit!Settle
  BY <1>1, <1>5 DEF Offsets!Settle, FirstFit!Settle, Offsets!inputs, FirstFit!inputs
<1>10. Offsets!Fail => FirstFit!Fail
  BY <1>5 DEF Offsets!Fail, FirstFit!Fail, Offsets!inputs, FirstFit!inputs
<1>11. Offsets!Finish => FirstFit!Finish
  BY <1>1 DEF Offsets!Finish, FirstFit!Finish, Offsets!inputs, FirstFit!inputs
<1>12. Offsets!Next => FirstFit!Next
  BY <1>1, <1>7, <1>8, <1>9, <1>10, <1>11 DEF Offsets!Next, FirstFit!Next
<1>13. Offsets!Call => FirstFit!Call
  BY DEF Offsets!Call, FirstFit!Call
<1> QED  BY <1>12, <1>13
-----------------------------------------------------------------------------
(* The inductive invariant of the pass and of what follows it.  Its first  *)
(* parts hold to the end: the form of the block, its work and the answers  *)
(* counted.                                                                *)
FormInv ==
  /\ definesOnce(block) /\ definesOnce(source) /\ isAwaited(block)
  /\ prefetched \in Nat /\ keepsTheWork(block, source, prefetched)

AnswerInv ==
  /\ loads \in Seq(Nat) /\ notHoisted \in Nat /\ wouldNotFit \in Nat
  /\ prefetched + notHoisted + wouldNotFit + Len(loads) = Cardinality(workAt(source, loadKinds))

(* While the pass is walking the loads: what it knows of the block, of the *)
(* loads it has still to answer and of the values it was given.            *)
WalkingInv ==
  hoisting # "done" =>
    /\ isPlain(block)
    /\ \E limit \in Nat : \E rank : isRanked(block, limit, rank)
    /\ \E at : isWaiting(block, loads, at)
    /\ stage = "collecting" /\ spilledBuffers = 0
    /\ \A b \in buffersOf(block) : size[b] \in Nat
    /\ budget \in Nat /\ strategy \in Strategy

PricingInv ==
  hoisting = "pricing" =>
    loads # << >> /\ intervals = pricedIntervals(load) /\ FirstFit!IInv

(* What the allocator does once the pass is done.                          *)
AllocatingInv ==
  /\ spilledBuffers \in Nat
  /\ stage \in {"measuring", "placing"} => DOMAIN intervals = DOMAIN collected(block)

PressureInv ==
  (prefetched > 0 /\ stage = "collecting" /\ spilledBuffers = 0) =>
    sweepLinePeak(liveIntervals(block, size)).bytes <= budget

HoistInv == FormInv /\ AnswerInv /\ WalkingInv /\ PricingInv /\ AllocatingInv /\ PressureInv

(* No two loads have the same id, and values are defined above their uses. *)
Telling(o) ==
  \A i, d \in DOMAIN o : o[d].kind = "dma_load" /\ o[i].kind = "dma_load" /\ o[d].id = o[i].id => d = i

DefinedAbove(o) ==
  \A i, d \in DOMAIN o : o[d].def # NoValue /\ o[d].def \in o[i].reads \cup {o[i].write} => d < i

(* The loads the pass collects, in block order.                            *)
LEMMA LoadsWait ==
  ASSUME NEW o, definesOnce(o), NEW S, S = {i \in DOMAIN o : o[i].kind = "dma_load"},
         Telling(o), DefinedAbove(o),
         NEW ids, ids = [k \in DOMAIN picked(o, S) |-> picked(o, S)[k].id]
  PROVE  /\ ids \in Seq(Nat) /\ Len(ids) = Cardinality(S) /\ Cardinality(S) \in Nat
         /\ \E at : isWaiting(o, ids, at)
<1> DEFINE K == Cardinality(S)
           at == [k \in 1..K |-> CHOOSE i \in S : rankOf(i, S) = k]
<1>1. /\ o \in Seq(BlockOperation) /\ DOMAIN o = 1..Len(o) /\ Len(o) \in Nat
      /\ \A i \in DOMAIN o : o[i] \in BlockOperation /\ i \in Nat
  BY OfAWellFormedBlock
<1>2. S \in SUBSET (1..Len(o))
  BY <1>1
<1>3. /\ picked(o, S) \in Seq(BlockOperation) /\ Len(picked(o, S)) = K /\ K \in Nat
      /\ \A k \in 1..K : \E i \in S : rankOf(i, S) = k /\ picked(o, S)[k] = o[i]
  BY <1>1, <1>2, Picked
<1>4. \A i, j \in S : rankOf(i, S) = rankOf(j, S) => i = j
  BY <1>1, <1>2, RanksOfMembers
<1>5. \A k \in 1..K : at[k] \in S /\ rankOf(at[k], S) = k
  BY <1>3
<1> HIDE DEF K, at
<1>6. \A k \in 1..K : picked(o, S)[k] = o[at[k]]
  <2> TAKE k \in 1..K
  <2>1. PICK i \in S : rankOf(i, S) = k /\ picked(o, S)[k] = o[i]
    BY <1>3
  <2>2. at[k] \in S /\ rankOf(at[k], S) = k
    BY <1>5
  <2>3. i = at[k]
    BY <1>4, <2>1, <2>2
  <2> QED  BY <2>1, <2>3
<1>7. DOMAIN picked(o, S) = 1..K
  BY <1>3
<1>8. \A k \in 1..K : ids[k] = o[at[k]].id /\ ids[k] \in Nat
  <2> TAKE k \in 1..K
  <2>1. ids[k] = o[at[k]].id
    BY <1>6, <1>7
  <2>2. at[k] \in DOMAIN o
    BY <1>5
  <2>3. o[at[k]] \in BlockOperation
    BY <1>1, <2>2
  <2> QED  BY <2>1, <2>3 DEF BlockOperation
<1>9. ids \in Seq(Nat) /\ Len(ids) = K
  <2>1. ids = [k \in 1..K |-> ids[k]]
    BY <1>7
  <2>2. \A k \in 1..K : ids[k] \in Nat
    BY <1>8
  <2>3. K \in Nat
    BY <1>3
  <2> QED  BY ONLY <2>1, <2>2, <2>3, IsAList
<1>10. \A k \in 1..K : at[k] \in DOMAIN o /\ o[at[k]].kind = "dma_load"
  BY <1>5
<1>11. ASSUME NEW j \in 1..K, NEW k \in 1..K, j < k PROVE at[j] < at[k]
  <2>1. at[j] \in S /\ at[k] \in S /\ rankOf(at[j], S) = j /\ rankOf(at[k], S) = k /\ at[j] \in Nat /\ at[k] \in Nat
    BY <1>1, <1>2, <1>5
  <2>2. CASE at[k] < at[j]
    <3>1. rankOf(at[k], S) < rankOf(at[j], S)
      BY <1>1, <1>2, <2>1, <2>2, RankGrows
    <3> QED  BY <1>11, <2>1, <3>1
  <2>3. at[k] # at[j]
    BY <1>11, <2>1
  <2> QED  BY <2>1, <2>2, <2>3
<1>12. ASSUME NEW i \in DOMAIN o PROVE isSettled(o, i)
  BY <1>1 DEF isSettled, DefinedAbove
<1>13. \A k \in 1..K : \A i \in DOMAIN o : o[i].kind = "dma_load" /\ o[i].id = ids[k] => i = at[k]
  BY <1>8, <1>10 DEF Telling
<1>14. isWaiting(o, ids, at)
  BY <1>8, <1>9, <1>10, <1>11, <1>12, <1>13 DEF isWaiting
<1> QED  BY <1>3, <1>9, <1>14 DEF K

(* The pass is entered in the invariant.                                   *)
LEMMA InitHoistInv == HoistInit => HoistInv
<1> SUFFICES ASSUME HoistInit PROVE HoistInv
  OBVIOUS
<1>1. PICK p \in Programs : block = p.block /\ size = p.size
  BY DEF HoistInit, Init, PassInit
<1>2. isWellFormed(block) /\ definesOnce(block)
  BY <1>1, ProgramsAssumption, FormedOnce
<1>3. /\ source = block /\ stage = "collecting" /\ spilledBuffers = 0 /\ budget \in Nat /\ strategy \in Strategy
      /\ hoisting = "scanning" /\ prefetched = 0 /\ notHoisted = 0 /\ wouldNotFit = 0
  BY BudgetsAssumption DEF HoistInit, Init, PassInit
<1>4. /\ \A i \in DOMAIN block :
           /\ block[i].kind \notin {"dma_load_async", "await"}
           /\ block[i].kind \in {"alloc", "slot"} => block[i].reads = {}
           /\ block[i].kind \in {"alloc", "slot", "view"} => block[i].write = NoValue /\ block[i].def # NoValue
           /\ block[i].kind = "dma_load" => block[i].id # 0
      /\ \A i, d \in DOMAIN block :
           block[d].kind = "dma_load" /\ block[i].kind = "dma_load" /\ block[d].id = block[i].id => d = i
      /\ \A i, d \in DOMAIN block :
           block[d].def # NoValue /\ block[d].def \in block[i].reads \cup {block[i].write} => d < i
      /\ buffersOf(block) \subseteq DOMAIN size /\ \A b \in DOMAIN size : size[b] \in Nat
  <2>1. isLowered(p)
    BY LoweredAssumption
  <2> QED  BY <1>1, <2>1 DEF isLowered
<1> DEFINE S == {i \in DOMAIN block : block[i].kind = "dma_load"}
<1>5. loads = [k \in DOMAIN picked(block, S) |-> picked(block, S)[k].id]
  BY DEF HoistInit
<1>6. /\ loads \in Seq(Nat) /\ Len(loads) = Cardinality(S) /\ Cardinality(S) \in Nat
      /\ \E at : isWaiting(block, loads, at)
  <2>1. Telling(block) /\ DefinedAbove(block)
    BY <1>4 DEF Telling, DefinedAbove
  <2>2. S = {i \in DOMAIN block : block[i].kind = "dma_load"}
    OBVIOUS
  <2> HIDE DEF S
  <2> QED  BY <1>2, <1>5, <2>1, <2>2, LoadsWait
<1>7. workAt(block, loadKinds) = S
  BY <1>4 DEF workAt, loadKinds
<1> HIDE DEF S
<1>8. isAwaited(block)
  BY <1>4 DEF isAwaited
<1>9. keepsTheWork(block, source, prefetched)
  <2>1. splitOf(block) = {}
    BY <1>4 DEF splitOf
  <2> QED  BY <1>3, <2>1, FS_EmptySet DEF keepsTheWork
<1>10. isPlain(block)
  BY <1>4 DEF isPlain, pureKinds
<1>11. \E limit \in Nat : \E rank : isRanked(block, limit, rank)
  BY <1>2, FormedIsRanked
<1>12. FormInv
  BY <1>2, <1>3, <1>8, <1>9 DEF FormInv
<1>13. AnswerInv
  BY <1>3, <1>6, <1>7 DEF AnswerInv
<1>14. WalkingInv
  BY <1>3, <1>4, <1>6, <1>10, <1>11 DEF WalkingInv
<1>15. PricingInv /\ AllocatingInv /\ PressureInv
  BY <1>3 DEF PricingInv, AllocatingInv, PressureInv
<1> QED  BY <1>12, <1>13, <1>14, <1>15 DEF HoistInv
-----------------------------------------------------------------------------
(* assignOffsets does not change what it is called with.                   *)
LEMMA PlacingKeepsInputs ==
  ASSUME Offsets!Next
  PROVE  intervals' = intervals /\ strategy' = strategy /\ budget' = budget
BY DEF Offsets!Next, Offsets!Take, Offsets!Skip, Offsets!Settle, Offsets!Fail, Offsets!Finish, Offsets!inputs

(* The price of a hoist is of the block and the load it was found for.     *)
LEMMA SamePrice ==
  ASSUME block' = block, size' = size, loads' = loads
  PROVE  pricedIntervals(load)' = pricedIntervals(load)
BY DEF pricedIntervals, load, prologueOf, isPure, earliest, stopsTheWalk, mightTouch

(* The block and what was counted of it stay.                              *)
LEMMA FormStays ==
  ASSUME FormInv, block' = block, source' = source, prefetched' = prefetched
  PROVE  FormInv'
BY DEF FormInv

(* The load the pass is at.                                                *)
LEMMA AtALoad ==
  ASSUME WalkingInv, hoisting # "done", loads # << >>
  PROVE  load \in DOMAIN block /\ block[load].kind = "dma_load" /\ isSettled(block, load)
<1>1. PICK at : isWaiting(block, loads, at)
  BY DEF WalkingInv
<1> QED  BY <1>1, TheLoad

(* A load is answered without a change to the block.                       *)
LEMMA AnswerStays ==
  ASSUME HoistInv, hoisting # "done", loads # << >>, loads' = Tail(loads),
         hoisting' = "scanning", prefetched' = prefetched,
         notHoisted' + wouldNotFit' = notHoisted + wouldNotFit + 1, notHoisted' \in Nat, wouldNotFit' \in Nat,
         block' = block, source' = source, size' = size, stage' = stage, spilledBuffers' = spilledBuffers,
         budget' = budget, strategy' = strategy
  PROVE  HoistInv'
<1>1. PICK at : isWaiting(block, loads, at)
  BY DEF HoistInv, WalkingInv
<1>2. /\ Tail(loads) \in Seq(Nat) /\ Len(Tail(loads)) = Len(loads) - 1 /\ Len(loads) \in Nat
      /\ \E a : isWaiting(block, Tail(loads), a)
  BY <1>1, TailWaits
<1>3. FormInv'
  BY FormStays DEF HoistInv
<1>4. AnswerInv'
  <2>1. prefetched \in Nat /\ notHoisted \in Nat /\ wouldNotFit \in Nat
    BY DEF HoistInv, FormInv, AnswerInv
  <2>2. prefetched + notHoisted + wouldNotFit + Len(loads) = Cardinality(workAt(source, loadKinds))
    BY DEF HoistInv, AnswerInv
  <2>3. prefetched' + notHoisted' + wouldNotFit' + Len(loads') = Cardinality(workAt(source, loadKinds))
    <3>1. PICK m, q, c : m = Len(loads) /\ q = Len(loads') /\ c = Cardinality(workAt(source, loadKinds))
      OBVIOUS
    <3>2. m \in Nat /\ q = m - 1
      BY <1>2, <3>1
    <3>3. prefetched + notHoisted + wouldNotFit + m = c
      BY <2>2, <3>1
    <3>5. PICK p, i, j, x, y : p = prefetched /\ i = notHoisted /\ j = wouldNotFit /\ x = notHoisted' /\ y = wouldNotFit'
      OBVIOUS
    <3>6. p \in Nat /\ i \in Nat /\ j \in Nat /\ x \in Nat /\ y \in Nat /\ m \in Nat /\ x + y = i + j + 1
      BY <2>1, <3>2, <3>5
    <3>7. p + x + y + (m - 1) = p + i + j + m
      BY ONLY <3>6
    <3>8. p + x + y + q = c
      BY <3>2, <3>3, <3>5, <3>7
    <3> QED  BY <3>1, <3>5, <3>8
  <2> QED  BY <1>2, <2>3 DEF AnswerInv
<1>5. WalkingInv'
  <2>1. /\ isPlain(block) /\ \E limit \in Nat : \E rank : isRanked(block, limit, rank)
        /\ stage = "collecting" /\ spilledBuffers = 0
        /\ \A b \in buffersOf(block) : size[b] \in Nat
        /\ budget \in Nat /\ strategy \in Strategy
    BY DEF HoistInv, WalkingInv
  <2> QED  BY <1>2, <2>1 DEF WalkingInv
<1>6. PricingInv' /\ AllocatingInv' /\ PressureInv'
  <2>1. stage = "collecting" /\ spilledBuffers = 0
    BY DEF HoistInv, WalkingInv
  <2> QED  BY <2>1 DEF HoistInv, PricingInv, AllocatingInv, PressureInv
<1> QED  BY <1>3, <1>4, <1>5, <1>6 DEF HoistInv

(* A load is left where it is.                                             *)
LEMMA NotHoistedStep ==
  ASSUME HoistInv, NotHoisted \/ WouldNotFit
  PROVE  HoistInv'
<1>1. loads # << >>
  BY DEF NotHoisted, WouldNotFit, HoistInv, PricingInv
<1>2. notHoisted \in Nat /\ wouldNotFit \in Nat
  BY DEF HoistInv, AnswerInv
<1>3. /\ hoisting # "done" /\ loads' = Tail(loads) /\ hoisting' = "scanning" /\ prefetched' = prefetched
      /\ block' = block
  BY DEF NotHoisted, WouldNotFit
<1>4. notHoisted' + wouldNotFit' = notHoisted + wouldNotFit + 1 /\ notHoisted' \in Nat /\ wouldNotFit' \in Nat
  BY <1>2 DEF NotHoisted, WouldNotFit
<1>5. /\ source' = source /\ size' = size /\ stage' = stage /\ spilledBuffers' = spilledBuffers
      /\ budget' = budget /\ strategy' = strategy
  BY DEF NotHoisted, WouldNotFit, Unchanged, options, counts
<1> QED  BY <1>1, <1>3, <1>4, <1>5, AnswerStays

(* The pass prices a hoist, the block as it was.                           *)
LEMMA PricingStays ==
  ASSUME HoistInv, hoisting # "done", hoisting' = "pricing", loads # << >>, loads' = loads,
         prefetched' = prefetched, notHoisted' = notHoisted, wouldNotFit' = wouldNotFit,
         block' = block, source' = source, size' = size, stage' = stage, spilledBuffers' = spilledBuffers,
         budget' = budget, strategy' = strategy, intervals' = pricedIntervals(load), FirstFit!IInv'
  PROVE  HoistInv'
<1>1. FormInv'
  BY FormStays DEF HoistInv
<1>2. AnswerInv'
  BY DEF HoistInv, AnswerInv
<1>3. /\ isPlain(block) /\ \E limit \in Nat : \E rank : isRanked(block, limit, rank)
      /\ \E at : isWaiting(block, loads, at)
      /\ stage = "collecting" /\ spilledBuffers = 0
      /\ \A b \in buffersOf(block) : size[b] \in Nat
      /\ budget \in Nat /\ strategy \in Strategy
  BY DEF HoistInv, WalkingInv
<1>4. WalkingInv'
  BY <1>3 DEF WalkingInv
<1>5. PricingInv'
  <2>1. intervals' = pricedIntervals(load)'
    BY SamePrice
  <2> QED  BY <2>1 DEF PricingInv
<1>6. AllocatingInv' /\ PressureInv'
  BY <1>3 DEF HoistInv, AllocatingInv, PressureInv
<1> QED  BY <1>1, <1>2, <1>4, <1>5, <1>6 DEF HoistInv

(* assignOffsets is called on the prices.                                  *)
LEMMA PriceStep ==
  ASSUME HoistInv, Price
  PROVE  HoistInv'
<1>1. /\ hoisting # "done" /\ hoisting' = "pricing" /\ loads # << >> /\ loads' = loads
      /\ prefetched' = prefetched /\ notHoisted' = notHoisted /\ wouldNotFit' = wouldNotFit
      /\ block' = block /\ intervals' = pricedIntervals(load) /\ Offsets!Call
  BY DEF Price, answers
<1>2. /\ source' = source /\ size' = size /\ stage' = stage /\ spilledBuffers' = spilledBuffers
      /\ budget' = budget /\ strategy' = strategy
  BY DEF Price, Unchanged, options, counts
<1>3. /\ definesOnce(block) /\ isAwaited(block) /\ load \in DOMAIN block
      /\ \A b \in buffersOf(block) : size[b] \in Nat
      /\ budget \in Nat /\ strategy \in Strategy
  BY <1>1, AtALoad DEF HoistInv, FormInv, WalkingInv
<1>4. intervals' \in Seq(LiveInterval)
  BY <1>1, <1>3, PricedAre DEF IsPrice
<1>5. intervals' \in Seq(FirstFit!LiveInterval) /\ strategy' \in FirstFit!Strategy /\ budget' \in Nat
  BY <1>2, <1>3, <1>4, SameArithmetic DEF Strategy, FirstFit!Strategy
<1>6. FirstFit!IInv'
  BY <1>1, <1>5, SameAlgorithm, PlacementAssumption, FirstFit!CallStarts, NoProblems
<1> QED  BY <1>1, <1>2, <1>6, PricingStays

(* assignOffsets takes a step.                                             *)
LEMMA PricePlacementStep ==
  ASSUME HoistInv, PricePlacement
  PROVE  HoistInv'
<1>1. /\ hoisting = "pricing" /\ hoisting' = hoisting /\ loads' = loads /\ Offsets!Next
      /\ prefetched' = prefetched /\ notHoisted' = notHoisted /\ wouldNotFit' = wouldNotFit
      /\ block' = block /\ source' = source /\ size' = size /\ stage' = stage /\ spilledBuffers' = spilledBuffers
  BY DEF PricePlacement, hoistVars, answers, counts
<1>2. intervals' = intervals /\ strategy' = strategy /\ budget' = budget
  BY <1>1, PlacingKeepsInputs
<1>3. loads # << >> /\ intervals = pricedIntervals(load) /\ FirstFit!IInv
  BY <1>1 DEF HoistInv, PricingInv
<1>4. FirstFit!IInv'
  BY <1>1, <1>3, SameAlgorithm, PlacementAssumption, FirstFit!IInvNext, NoProblems
<1> QED  BY <1>1, <1>2, <1>3, <1>4, PricingStays
-----------------------------------------------------------------------------
(* A prefetch whose price was placed.                                      *)
LEMMA PrefetchStep ==
  ASSUME HoistInv, Prefetch
  PROVE  HoistInv'
<1> DEFINE n == HoistRewrite(load)
           e == earliest(load)
           moved == prologueOf(load) \ {e}
<1>1. /\ hoisting = "pricing" /\ hoisting' = "scanning" /\ outcome = "placed" /\ loads' = Tail(loads)
      /\ block' = n /\ prefetched' = prefetched + 1 /\ notHoisted' = notHoisted /\ wouldNotFit' = wouldNotFit
  BY DEF Prefetch
<1>2. /\ source' = source /\ size' = size /\ stage' = stage /\ spilledBuffers' = spilledBuffers
      /\ budget' = budget /\ strategy' = strategy
  BY DEF Prefetch, Unchanged, options, counts
<1>3. /\ definesOnce(block) /\ definesOnce(source) /\ isAwaited(block) /\ prefetched \in Nat
      /\ keepsTheWork(block, source, prefetched)
  BY DEF HoistInv, FormInv
<1>4. /\ isPlain(block) /\ stage = "collecting" /\ spilledBuffers = 0
      /\ \A b \in buffersOf(block) : size[b] \in Nat
      /\ budget \in Nat /\ strategy \in Strategy
  BY <1>1 DEF HoistInv, WalkingInv
<1>0. PICK limit \in Nat : \E rank : isRanked(block, limit, rank)
  BY <1>1 DEF HoistInv, WalkingInv
<1>5. PICK rank : isRanked(block, limit, rank)
  BY <1>0
<1>6. PICK at : isWaiting(block, loads, at)
  BY <1>1 DEF HoistInv, WalkingInv
<1>7. loads # << >> /\ intervals = pricedIntervals(load) /\ FirstFit!IInv
  BY <1>1 DEF HoistInv, PricingInv
<1>8. load = at[1] /\ load \in DOMAIN block /\ block[load].kind = "dma_load" /\ isSettled(block, load)
  BY <1>6, <1>7, TheLoad
<1>9. PICK to : IsHoist(block, n, load, e, moved, to, freshValue)
  BY <1>3, <1>4, <1>5, <1>8, RewriteIsHoist
<1>10. sweepLinePeak(liveIntervals(n, size)).bytes <= budget
  BY <1>1, <1>3, <1>4, <1>5, <1>7, <1>8, PrefetchFits
<1> HIDE DEF n, e, moved
<1>11. Hoist(block, n, load, to, freshValue) /\ n \in Seq(BlockOperation)
  BY <1>3, <1>9, HoistFacts DEF IsHoist
<1>12. definesOnce(n)
  BY <1>3, <1>11, HoistDefinesOnce
<1>13. isAwaited(n)
  BY <1>3, <1>9, HoistAwaited
<1>14. keepsTheWork(n, source, prefetched + 1)
  BY <1>3, <1>9, <1>12, HoistKeepsTheWork
<1>15. isPlain(n)
  BY <1>4, <1>11, HoistPlain
<1>16. isRanked(n, limit, rank)
  BY <1>5, <1>11, HoistRanked
<1>17. buffersOf(n) = buffersOf(block)
  BY <1>3, <1>5, <1>11, HoistRoots
<1>18. /\ Tail(loads) \in Seq(Nat) /\ Len(Tail(loads)) = Len(loads) - 1 /\ Len(loads) \in Nat
  BY <1>6, <1>7, TailWaits
<1>19. \E a : isWaiting(n, Tail(loads), a)
  <2>1. IsHoist(block, n, at[1], e, moved, to, freshValue)
    BY <1>8, <1>9
  <2>2. isWaiting(n, Tail(loads), [k \in 1..Len(Tail(loads)) |-> at[k + 1] + 1])
    BY <1>3, <1>6, <1>7, <2>1, HoistWaits
  <2> QED  BY <2>2
<1>20. FormInv'
  BY <1>1, <1>2, <1>3, <1>12, <1>13, <1>14 DEF FormInv
<1>21. AnswerInv'
  <2>1. notHoisted \in Nat /\ wouldNotFit \in Nat
    BY DEF HoistInv, AnswerInv
  <2>2. PICK p, i, j, m, c : /\ p = prefetched /\ i = notHoisted /\ j = wouldNotFit /\ m = Len(loads)
                             /\ c = Cardinality(workAt(source, loadKinds))
    OBVIOUS
  <2>3. p + i + j + m = c
    BY <2>2 DEF HoistInv, AnswerInv
  <2>4. p \in Nat /\ i \in Nat /\ j \in Nat /\ m \in Nat
    BY <1>3, <1>18, <2>1, <2>2
  <2>5. (p + 1) + i + j + (m - 1) = p + i + j + m
    BY ONLY <2>4
  <2>6. prefetched' + notHoisted' + wouldNotFit' + Len(loads') = Cardinality(workAt(source', loadKinds))
    BY <1>1, <1>2, <1>18, <2>2, <2>3, <2>5
  <2> QED  BY <1>1, <1>18, <2>1, <2>6 DEF AnswerInv
<1>22. WalkingInv'
  <2>1. \E l \in Nat : \E r : isRanked(n, l, r)
    BY <1>16
  <2>2. \A b \in buffersOf(n) : size[b] \in Nat
    BY <1>4, <1>17
  <2> QED  BY <1>1, <1>2, <1>4, <1>15, <1>19, <2>1, <2>2 DEF WalkingInv
<1>23. PricingInv' /\ AllocatingInv' /\ PressureInv'
  BY <1>1, <1>2, <1>4, <1>10 DEF PricingInv, AllocatingInv, PressureInv
<1> QED  BY <1>20, <1>21, <1>22, <1>23 DEF HoistInv

(* Every load has been answered.                                           *)
LEMMA HoistEndsStep ==
  ASSUME HoistInv, HoistEnds
  PROVE  HoistInv'
<1>1. /\ hoisting' = "done" /\ loads' = loads /\ UNCHANGED vars
      /\ prefetched' = prefetched /\ notHoisted' = notHoisted /\ wouldNotFit' = wouldNotFit
  BY DEF HoistEnds, answers
<1>2. /\ block' = block /\ source' = source /\ size' = size /\ stage' = stage /\ spilledBuffers' = spilledBuffers
      /\ budget' = budget /\ intervals' = intervals
  BY <1>1 DEF vars, passVars, function, counts, placement, options
<1>3. FormInv'
  BY <1>1, <1>2, FormStays DEF HoistInv
<1> QED  BY <1>1, <1>2, <1>3 DEF HoistInv, AnswerInv, WalkingInv, PricingInv, AllocatingInv, PressureInv

(* The allocator and the machine, once the loads are answered: the block   *)
(* is the same, or one buffer of it was spilled.                           *)
LEMMA SpillingStep ==
  ASSUME HoistInv, hoisting = "done", Spill, source' = source, UNCHANGED hoistVars
  PROVE  HoistInv'
<1>1. PICK b : /\ b \in spillableNow /\ block' = SpillRewrite(b)
               /\ spilledBuffers' = spilledBuffers + 1 /\ stage' = "collecting"
  <2>1. definesOnce(block) /\ DOMAIN intervals = DOMAIN collected(block)
    BY DEF HoistInv, FormInv, AllocatingInv, Spill
  <2> QED  BY <2>1, VictimIsSpillable
<1>2. b \in buffersOf(block)
  BY <1>1 DEF spillableNow
<1>3. /\ hoisting' = "done" /\ loads' = loads
      /\ prefetched' = prefetched /\ notHoisted' = notHoisted /\ wouldNotFit' = wouldNotFit
  BY DEF hoistVars, answers
<1>4. /\ definesOnce(block) /\ definesOnce(source) /\ isAwaited(block) /\ prefetched \in Nat
      /\ keepsTheWork(block, source, prefetched)
  BY DEF HoistInv, FormInv
<1>5. PICK kept : Shape(block, SpillRewrite(b), b, LaterReaders(b), storePoint(b), freshValue, kept)
  BY <1>2, <1>4, SpillShape
<1>6. PICK n, later, store, fresh : /\ n = SpillRewrite(b) /\ later = LaterReaders(b)
                                    /\ store = storePoint(b) /\ fresh = freshValue
  OBVIOUS
<1>7. Shape(block, n, b, later, store, fresh, kept)
  BY <1>5, <1>6
<1>8. definesOnce(n)
  BY <1>4, <1>7, SpillDefinesOnce
<1>9. isAwaited(n)
  BY <1>2, <1>4, <1>7, SpillAwaited
<1>10. keepsTheWork(n, source, prefetched)
  BY <1>4, <1>7, <1>8, SpillKeepsTheWork
<1>11. FormInv'
  BY <1>1, <1>3, <1>4, <1>6, <1>8, <1>9, <1>10 DEF FormInv
<1>12. AnswerInv'
  BY <1>3 DEF HoistInv, AnswerInv
<1>13. AllocatingInv'
  BY <1>1 DEF HoistInv, AllocatingInv
<1>14. spilledBuffers' # 0
  BY <1>1 DEF HoistInv, AllocatingInv
<1> QED  BY <1>3, <1>11, <1>12, <1>13, <1>14 DEF HoistInv, WalkingInv, PricingInv, PressureInv

(* A step of the allocator or the machine that keeps the block.            *)
LEMMA DoneStays ==
  ASSUME HoistInv, hoisting = "done", UNCHANGED hoistVars, source' = source,
         block' = block, spilledBuffers' = spilledBuffers,
         stage' = "collecting" => stage = "collecting" /\ size' = size /\ budget' = budget,
         stage' \in {"measuring", "placing"} => DOMAIN intervals' = DOMAIN collected(block)
  PROVE  HoistInv'
<1>1. /\ hoisting' = "done" /\ loads' = loads
      /\ prefetched' = prefetched /\ notHoisted' = notHoisted /\ wouldNotFit' = wouldNotFit
  BY DEF hoistVars, answers
<1>2. FormInv'
  BY <1>1, FormStays DEF HoistInv
<1>3. AnswerInv'
  BY <1>1 DEF HoistInv, AnswerInv
<1> QED  BY <1>1, <1>2, <1>3 DEF HoistInv, WalkingInv, PricingInv, AllocatingInv, PressureInv

(* Every step of the allocator and the machine.                            *)
LEMMA DoneStep ==
  ASSUME HoistInv, hoisting = "done", Next, UNCHANGED hoistVars
  PROVE  HoistInv'
<1>0. stage \in {"measuring", "placing"} => DOMAIN intervals = DOMAIN collected(block)
  BY DEF HoistInv, AllocatingInv
<1>1. ASSUME Collect, source' = source PROVE HoistInv'
  <2>1. /\ block' = block /\ spilledBuffers' = spilledBuffers /\ stage' = "measuring"
        /\ intervals' = liveIntervals(block, size)
    BY <1>1 DEF Collect, function, counts
  <2>2. DOMAIN intervals' = DOMAIN collected(block)
    BY <2>1 DEF liveIntervals
  <2> QED  BY <1>1, <2>1, <2>2, DoneStays
<1>2. ASSUME Measure, source' = source PROVE HoistInv'
  <2>1. /\ block' = block /\ spilledBuffers' = spilledBuffers /\ stage = "measuring" /\ stage' = "placing"
        /\ intervals' = intervals
    BY <1>2 DEF Measure, function, counts
  <2> QED  BY <1>0, <1>2, <2>1, DoneStays
<1>3. ASSUME Place, source' = source PROVE HoistInv'
  <2>1. /\ block' = block /\ spilledBuffers' = spilledBuffers /\ stage' = stage /\ stage = "placing" /\ Offsets!Next
    BY <1>3 DEF Place, function, counts
  <2>2. intervals' = intervals
    BY <2>1, PlacingKeepsInputs
  <2> QED  BY <1>0, <1>3, <2>1, <2>2, DoneStays
<1>4. ASSUME Refuse \/ Materialise, source' = source PROVE HoistInv'
  <2>1. block' = block /\ spilledBuffers' = spilledBuffers /\ stage' \in {"refused", "allocated"}
    BY <1>4 DEF Refuse, Materialise, function, counts
  <2> QED  BY <1>4, <2>1, DoneStays
<1>5. ASSUME Run PROVE HoistInv'
  <2>1. UNCHANGED <<passVars, source>>
    BY <1>5 DEF Run, Load, Define, Compute, DmaLoad, DmaStore, DmaLoadAsync, Land, Await, Issuing
  <2>2. /\ block' = block /\ spilledBuffers' = spilledBuffers /\ stage' = stage /\ size' = size /\ budget' = budget
        /\ intervals' = intervals /\ source' = source
    BY <2>1 DEF passVars, function, counts, placement, options
  <2> QED  BY <1>0, <2>2, DoneStays
<1> QED  BY <1>1, <1>2, <1>3, <1>4, <1>5, SpillingStep DEF Next, PassNext

(* Every step keeps the invariant.                                         *)
LEMMA StepsKeepHoistInv == HoistInv /\ [HoistNext]_allVars => HoistInv'
<1> SUFFICES ASSUME HoistInv, [HoistNext]_allVars PROVE HoistInv'
  OBVIOUS
<1>1. CASE UNCHANGED allVars
  <2>1. UNCHANGED vars /\ UNCHANGED hoistVars
    BY <1>1 DEF allVars
  <2>2. /\ block' = block /\ source' = source /\ size' = size /\ stage' = stage /\ spilledBuffers' = spilledBuffers
        /\ budget' = budget /\ strategy' = strategy /\ intervals' = intervals
        /\ offset' = offset /\ highWaterMark' = highWaterMark /\ current' = current
        /\ candidate' = candidate /\ skipped' = skipped /\ outcome' = outcome
    BY <2>1 DEF vars, passVars, function, counts, placement, assigned, options
  <2>3. /\ hoisting' = hoisting /\ loads' = loads
        /\ prefetched' = prefetched /\ notHoisted' = notHoisted /\ wouldNotFit' = wouldNotFit
    BY <2>1 DEF hoistVars, answers
  <2>4. CASE hoisting = "pricing"
    <3>1. loads # << >> /\ intervals = pricedIntervals(load) /\ FirstFit!IInv
      BY <2>4 DEF HoistInv, PricingInv
    <3>2. UNCHANGED FirstFit!vars
      BY <2>2 DEF FirstFit!vars
    <3>3. FirstFit!IInv'
      BY <3>1, <3>2, PlacementAssumption, FirstFit!IInvNext, NoProblems
    <3> QED  BY <2>2, <2>3, <2>4, <3>1, <3>3, PricingStays
  <2>5. CASE hoisting # "pricing"
    <3>1. FormInv'
      BY <2>2, <2>3, FormStays DEF HoistInv
    <3> QED  BY <2>2, <2>3, <2>5, <3>1 DEF HoistInv, AnswerInv, WalkingInv, PricingInv, AllocatingInv, PressureInv
  <2> QED  BY <2>4, <2>5
<1> QED  BY <1>1, NotHoistedStep, PriceStep, PricePlacementStep, PrefetchStep, HoistEndsStep, DoneStep DEF HoistNext

(* The invariant holds throughout.                                         *)
LEMMA HoistIsInductive == HoistSpec => []HoistInv
BY InitHoistInv, StepsKeepHoistInv, PTL DEF HoistSpec

(* "A prefetch that cannot be placed is not a prefetch" (DoubleBuffer.cpp):*)
(* whatever program the lowering leaves and whatever budget, the pressure  *)
(* of the block after the hoists is inside the budget.  What is live       *)
(* together after a hoist was live together in the intervals it was priced *)
(* by, so the placement that priced it would hold it.                      *)
THEOREM SpecHoistedPressureFits == HoistSpec => []HoistedPressureFits
<1>1. HoistInv => HoistedPressureFits
  BY DEF HoistInv, PressureInv, HoistedPressureFits
<1> QED  BY <1>1, HoistIsInductive, PTL

(* "Nothing else changes: same instructions, same arithmetic, one token    *)
(* added" (DoubleBuffer.cpp): through every hoist and every later spill,   *)
(* each load is there once, split or not, each split one has its await     *)
(* below it, and every other instruction keeps its place in the order.     *)
THEOREM SpecNothingElseChanges == HoistSpec => []NothingElseChanges
<1>1. HoistInv => NothingElseChanges
  <2> SUFFICES ASSUME HoistInv PROVE NothingElseChanges
    OBVIOUS
  <2>1. /\ definesOnce(block) /\ definesOnce(source) /\ isAwaited(block)
        /\ keepsTheWork(block, source, prefetched)
        /\ prefetched + notHoisted + wouldNotFit + Len(loads) = Cardinality(workAt(source, loadKinds))
    BY DEF HoistInv, FormInv, AnswerInv
  <2>2. /\ Len(workIn(block, loadKinds)) = Cardinality(workAt(block, loadKinds))
        /\ Len(workIn(source, loadKinds)) = Cardinality(workAt(source, loadKinds))
    BY <2>1, WorkIs
  <2>3. \A i \in splitOf(block) : i < completionOf(block, i)
    BY <2>1, OfAnAwaited DEF splitOf
  <2>4. /\ idsOfWork(block, stepKinds) = idsOfWork(source, stepKinds)
        /\ ToSet(idsOfWork(block, loadKinds)) = ToSet(idsOfWork(source, loadKinds))
        /\ Len(workIn(block, loadKinds)) = Len(workIn(source, loadKinds))
        /\ Cardinality(splitOf(block)) = prefetched
        /\ prefetched + notHoisted + wouldNotFit + Len(loads) = Len(workIn(source, loadKinds))
    BY <2>1, <2>2 DEF keepsTheWork
  <2> QED  BY <2>3, <2>4 DEF NothingElseChanges, idsOfWork, workIn, workAt, splitOf, stepKinds, loadKinds
<1> QED  BY <1>1, HoistIsInductive, PTL
=============================================================================
