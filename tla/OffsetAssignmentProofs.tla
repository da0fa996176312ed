------------------------ MODULE OffsetAssignmentProofs ------------------------
(***************************************************************************)
(* What the arithmetic of ScratchpadAllocation.* computes for every list   *)
(* of live intervals: the byte totals behind the pressure numbers, and the *)
(* two ways of finding the peak.  Then what assignOffsets guarantees for   *)
(* every list, both strategies, every alignment and every budget.          *)
(***************************************************************************)
EXTENDS OffsetAssignment, Induction

(* The terms bytesOfAll adds.                                              *)
weights(iv, A) == [n \in 1..Len(iv) |-> IF n \in A THEN iv[n].bytes ELSE 0]

LEMMA WeightsType ==
  ASSUME NEW iv \in Seq(LiveInterval), NEW A
  PROVE  /\ Len(iv) \in Nat
         /\ DOMAIN iv = 1..Len(iv)
         /\ \A n \in 1..Len(iv) : iv[n] \in LiveInterval /\ iv[n].bytes \in Nat
         /\ weights(iv, A) \in [1..Len(iv) -> Nat]
         /\ \A n \in 1..Len(iv) :
              weights(iv, A)[n] = IF n \in A THEN iv[n].bytes ELSE 0
BY DEF LiveInterval, weights

(* bytesOfAll is the last of the running sums of its terms.                *)
LEMMA BytesAreASum ==
  ASSUME NEW iv \in Seq(LiveInterval), NEW A
  PROVE  SumIs(Len(iv), weights(iv, A), bytesOfAll(iv, A))
<1> DEFINE K == Len(iv)
           w == weights(iv, A)
           Total(f) == f = [n \in 0..K |-> IF n = 0 THEN 0
                                           ELSE f[n - 1] + (IF n \in A THEN iv[n].bytes ELSE 0)]
           total == CHOOSE f : Total(f)
<1>1. /\ K \in Nat /\ DOMAIN iv = 1..K
      /\ w \in [1..K -> Nat]
      /\ \A n \in 1..K : w[n] = IF n \in A THEN iv[n].bytes ELSE 0
  BY WeightsType
<1>2. Cardinality(DOMAIN iv) = K
  BY <1>1, FS_Interval
<1>3. bytesOfAll(iv, A) = total[K]
  BY <1>2 DEF bytesOfAll
<1>4. Total(total)
  <2> HIDE DEF w, K
  <2>1. PICK f \in [0..K -> Nat] : RunningSum(f, K, w)
    BY <1>1, SumExists
  <2>2. \A n \in 1..K : f[n] = f[n - 1] + (IF n \in A THEN iv[n].bytes ELSE 0)
    BY <1>1, <2>1 DEF RunningSum
  <2>3. f[0] = 0
    BY <2>1 DEF RunningSum
  <2>4. Total(f)
    BY <1>1, <2>1, <2>2, <2>3
  <2> HIDE DEF Total
  <2> QED  BY <2>4
<1>5. RunningSum(total, K, w)
  <2> HIDE DEF total, w, K
  <2> QED  BY <1>1, <1>4 DEF RunningSum
<1> HIDE DEF total
<1> QED  BY <1>3, <1>5 DEF SumIs

LEMMA BytesType ==
  ASSUME NEW iv \in Seq(LiveInterval), NEW A
  PROVE  bytesOfAll(iv, A) \in Nat
BY BytesAreASum, WeightsType, SumType

(* More buffers hold no fewer bytes.                                       *)
LEMMA BytesGrow ==
  ASSUME NEW iv \in Seq(LiveInterval), NEW A, NEW B, A \cap DOMAIN iv \subseteq B
  PROVE  bytesOfAll(iv, A) <= bytesOfAll(iv, B)
<1>1. Below(Len(iv), weights(iv, A), weights(iv, B))
  BY WeightsType DEF Below
<1> DEFINE K == Len(iv)
           v == weights(iv, A)
           w == weights(iv, B)
<1>2. SumIs(K, v, bytesOfAll(iv, A)) /\ SumIs(K, w, bytesOfAll(iv, B))
  BY BytesAreASum
<1>3. K \in Nat /\ v \in [1..K -> Nat] /\ w \in [1..K -> Nat]
  BY WeightsType
<1> HIDE DEF K, v, w
<1>4. Below(K, v, w)
  BY <1>1 DEF K, v, w
<1> QED  BY <1>2, <1>3, <1>4, SumsCompare

(* Taking buffers out of a set takes their bytes out of its total.         *)
LEMMA BytesDiffer ==
  ASSUME NEW iv \in Seq(LiveInterval), NEW A, NEW B, B \subseteq A
  PROVE  bytesOfAll(iv, A) - bytesOfAll(iv, B) = bytesOfAll(iv, A \ B)
<1>1. Adds(Len(iv), weights(iv, A \ B), weights(iv, B), weights(iv, A))
  BY WeightsType DEF Adds
<1>2. bytesOfAll(iv, A) = bytesOfAll(iv, A \ B) + bytesOfAll(iv, B)
  <2> DEFINE K == Len(iv)
             u == weights(iv, A \ B)
             v == weights(iv, B)
             w == weights(iv, A)
  <2>1. /\ SumIs(K, u, bytesOfAll(iv, A \ B))
        /\ SumIs(K, v, bytesOfAll(iv, B))
        /\ SumIs(K, w, bytesOfAll(iv, A))
    BY BytesAreASum
  <2>2. /\ K \in Nat
        /\ u \in [1..K -> Nat] /\ v \in [1..K -> Nat] /\ w \in [1..K -> Nat]
    BY WeightsType
  <2>3. Adds(K, u, v, w)
    BY <1>1
  <2> HIDE DEF K, u, v, w
  <2> QED  BY <2>1, <2>2, <2>3, SumsAdd
<1>3. bytesOfAll(iv, A \ B) \in Nat /\ bytesOfAll(iv, B) \in Nat
  BY BytesType
<1> QED  BY <1>2, <1>3

(* Buffers that own disjoint byte ranges below a limit hold no more bytes  *)
(* than the limit.                                                         *)
LEMMA DisjointBuffersFit ==
  ASSUME NEW iv \in Seq(LiveInterval), NEW A \in SUBSET DOMAIN iv,
         NEW place, NEW limit \in Nat,
         \A a \in A : place[a] \in Nat /\ place[a] + iv[a].bytes <= limit,
         \A a, b \in A : a # b => \/ place[a] + iv[a].bytes <= place[b]
                                  \/ place[b] + iv[b].bytes <= place[a]
  PROVE  bytesOfAll(iv, A) <= limit
<1> DEFINE K == Len(iv)
           w == weights(iv, A)
           own == [n \in 1..K |-> IF n \in A THEN place[n]..(place[n] + iv[n].bytes - 1) ELSE {}]
           U == 0..(limit - 1)
<1>1. /\ K \in Nat /\ DOMAIN iv = 1..K /\ w \in [1..K -> Nat]
      /\ \A n \in 1..K : iv[n].bytes \in Nat
      /\ \A n \in 1..K : w[n] = IF n \in A THEN iv[n].bytes ELSE 0
  BY WeightsType
<1>2. SumIs(K, w, bytesOfAll(iv, A))
  BY BytesAreASum
<1> HIDE DEF w
<1>3. IsFiniteSet(U) /\ Cardinality(U) = limit
  BY FS_Interval
<1>4. own \in [1..K -> SUBSET U]
  <2>1. ASSUME NEW n \in 1..K PROVE own[n] \in SUBSET U
    BY <1>1
  <2> QED  BY <2>1
<1>5. ASSUME NEW n \in 1..K PROVE Cardinality(own[n]) = w[n]
  <2>1. CASE n \in A
    <3>1. own[n] = place[n]..(place[n] + iv[n].bytes - 1)
      BY <2>1
    <3>2. place[n] \in Int /\ place[n] + iv[n].bytes - 1 \in Int /\ iv[n].bytes \in Nat
      BY <1>1, <2>1
    <3>3. Cardinality(place[n]..(place[n] + iv[n].bytes - 1)) =
            IF place[n] > place[n] + iv[n].bytes - 1 THEN 0
            ELSE (place[n] + iv[n].bytes - 1) - place[n] + 1
      BY <3>2, FS_Interval
    <3> QED  BY <1>1, <2>1, <3>1, <3>2, <3>3
  <2>2. CASE n \notin A
    BY <1>1, <2>2, FS_EmptySet
  <2> QED  BY <2>1, <2>2
<1>6. ASSUME NEW m \in 1..K, NEW n \in 1..K, m # n PROVE own[m] \cap own[n] = {}
  <2>1. CASE m \in A /\ n \in A
    <3>1. /\ place[m] \in Nat /\ place[n] \in Nat
          /\ iv[m].bytes \in Nat /\ iv[n].bytes \in Nat
          /\ (place[m] + iv[m].bytes <= place[n] \/ place[n] + iv[n].bytes <= place[m])
      BY <1>1, <1>6, <2>1
    <3>2. /\ own[m] = place[m]..(place[m] + iv[m].bytes - 1)
          /\ own[n] = place[n]..(place[n] + iv[n].bytes - 1)
      BY <2>1
    <3> HIDE DEF own
    <3>3. \A p, q, r, s \in Nat : p + r <= q \/ q + s <= p => (p..(p + r - 1)) \cap (q..(q + s - 1)) = {}
      OBVIOUS
    <3> QED  BY <3>1, <3>2, <3>3
  <2>2. CASE m \notin A \/ n \notin A
    BY <2>2
  <2> QED  BY <2>1, <2>2
<1> HIDE DEF own, U, K
<1>7. OwnApart(K, U, own, w)
  BY <1>4, <1>5, <1>6 DEF OwnApart
<1>8. bytesOfAll(iv, A) <= Cardinality(U)
  BY <1>1, <1>2, <1>3, <1>7, DisjointSizes
<1> QED  BY <1>3, <1>8

-----------------------------------------------------------------------------
(* The order of the sweep, spelled out.                                    *)
LEMMA SweepOrder ==
  ASSUME NEW e, NEW f
  PROVE  SweepBefore(e, f) <=>
           \/ e.index < f.index
           \/ e.index = f.index /\ e.birth < f.birth
           \/ e.index = f.index /\ e.birth = f.birth /\ e.of < f.of
<1> DEFINE k == <<e.index, e.birth, e.of>>
           l == <<f.index, f.birth, f.of>>
<1>1. DOMAIN k = 1..3
  OBVIOUS
<1>2. /\ k[1] = e.index /\ k[2] = e.birth /\ k[3] = e.of
      /\ l[1] = f.index /\ l[2] = f.birth /\ l[3] = f.of
  OBVIOUS
<1>3. SweepBefore(e, f) <=> \E n \in 1..3 : k[n] < l[n] /\ \A m \in 1..(n - 1) : k[m] = l[m]
  BY <1>1 DEF SweepBefore, smallerKey
<1> HIDE DEF k, l
<1>4. (\E n \in 1..3 : k[n] < l[n] /\ \A m \in 1..(n - 1) : k[m] = l[m]) <=>
        \/ k[1] < l[1]
        \/ k[1] = l[1] /\ k[2] < l[2]
        \/ k[1] = l[1] /\ k[2] = l[2] /\ k[3] < l[3]
  OBVIOUS
<1> QED  BY <1>2, <1>3, <1>4

LEMMA EventOrder ==
  ASSUME NEW iv \in Seq(LiveInterval), NEW b \in DOMAIN iv, NEW c \in DOMAIN iv
  PROVE  /\ birthOf(iv, c) = birthOf(iv, b) <=> c = b
         /\ deathOf(iv, c) = deathOf(iv, b) <=> c = b
         /\ birthOf(iv, c) # deathOf(iv, b)
         /\ SweepBefore(birthOf(iv, c), birthOf(iv, b)) <=>
              \/ iv[c].definition < iv[b].definition
              \/ iv[c].definition = iv[b].definition /\ c < b
         /\ SweepBefore(deathOf(iv, c), deathOf(iv, b)) <=>
              \/ iv[c].lastUse < iv[b].lastUse
              \/ iv[c].lastUse = iv[b].lastUse /\ c < b
         /\ SweepBefore(birthOf(iv, c), deathOf(iv, b)) <=>
              iv[c].definition <= iv[b].lastUse
         /\ SweepBefore(deathOf(iv, c), birthOf(iv, b)) <=>
              iv[c].lastUse < iv[b].definition
<1>1. /\ b \in Nat /\ c \in Nat
      /\ iv[b].definition \in Nat /\ iv[b].lastUse \in Nat
      /\ iv[c].definition \in Nat /\ iv[c].lastUse \in Nat
  BY WeightsType DEF LiveInterval
<1>2. \A d \in {b, c} :
        /\ birthOf(iv, d).index = iv[d].definition
        /\ birthOf(iv, d).birth = 1
        /\ birthOf(iv, d).of = d
        /\ deathOf(iv, d).index = iv[d].lastUse + 1
        /\ deathOf(iv, d).birth = 0
        /\ deathOf(iv, d).of = d
  BY DEF birthOf, deathOf
<1>3. /\ birthOf(iv, c) = birthOf(iv, b) <=> c = b
      /\ deathOf(iv, c) = deathOf(iv, b) <=> c = b
      /\ birthOf(iv, c) # deathOf(iv, b)
  BY <1>2
<1>4. SweepBefore(birthOf(iv, c), birthOf(iv, b)) <=>
        \/ iv[c].definition < iv[b].definition
        \/ iv[c].definition = iv[b].definition /\ c < b
  BY <1>1, <1>2, SweepOrder
<1>5. SweepBefore(deathOf(iv, c), deathOf(iv, b)) <=>
        \/ iv[c].lastUse < iv[b].lastUse
        \/ iv[c].lastUse = iv[b].lastUse /\ c < b
  BY <1>1, <1>2, SweepOrder
<1>6. SweepBefore(birthOf(iv, c), deathOf(iv, b)) <=> iv[c].definition <= iv[b].lastUse
  BY <1>1, <1>2, SweepOrder
<1>7. SweepBefore(deathOf(iv, c), birthOf(iv, b)) <=> iv[c].lastUse < iv[b].definition
  BY <1>1, <1>2, SweepOrder
<1> QED  BY <1>3, <1>4, <1>5, <1>6, <1>7

(* What is resident after a birth was live at its index; after a death,    *)
(* at the index before it.                                                 *)
live(iv, t) == {b \in DOMAIN iv : liveAt(iv[b], t)}

LEMMA Residents ==
  ASSUME NEW iv \in Seq(LiveInterval), NEW b \in DOMAIN iv
  PROVE  /\ residentAfter(iv, birthOf(iv, b)) =
              bytesOfAll(iv, {c \in live(iv, iv[b].definition) :
                                iv[c].definition = iv[b].definition => c <= b})
         /\ residentAfter(iv, deathOf(iv, b)) =
              bytesOfAll(iv, {c \in live(iv, iv[b].lastUse) :
                                iv[c].lastUse = iv[b].lastUse => c > b})
<1>0. /\ DOMAIN iv \subseteq Nat
      /\ \A c \in DOMAIN iv : /\ iv[c].definition \in Nat /\ iv[c].lastUse \in Nat
                              /\ iv[c].definition <= iv[c].lastUse
  BY WeightsType DEF LiveInterval
<1>1. ASSUME NEW e, e \in {birthOf(iv, b), deathOf(iv, b)},
             NEW births, NEW deaths, deaths \subseteq births,
             births = {c \in DOMAIN iv : birthOf(iv, c) = e \/ SweepBefore(birthOf(iv, c), e)},
             deaths = {c \in DOMAIN iv : deathOf(iv, c) = e \/ SweepBefore(deathOf(iv, c), e)}
      PROVE  residentAfter(iv, e) = bytesOfAll(iv, births \ deaths)
  BY <1>1, BytesDiffer DEF residentAfter
<1>2. residentAfter(iv, birthOf(iv, b)) =
        bytesOfAll(iv, {c \in live(iv, iv[b].definition) :
                          iv[c].definition = iv[b].definition => c <= b})
  <2> DEFINE e == birthOf(iv, b)
             births == {c \in DOMAIN iv : birthOf(iv, c) = e \/ SweepBefore(birthOf(iv, c), e)}
             deaths == {c \in DOMAIN iv : deathOf(iv, c) = e \/ SweepBefore(deathOf(iv, c), e)}
  <2>1. ASSUME NEW c \in DOMAIN iv
        PROVE  c \in births <=> \/ iv[c].definition < iv[b].definition
                                \/ iv[c].definition = iv[b].definition /\ c <= b
    BY <1>0, EventOrder
  <2>2. ASSUME NEW c \in DOMAIN iv
        PROVE  c \in deaths <=> iv[c].lastUse < iv[b].definition
    BY <1>0, EventOrder
  <2> HIDE DEF births, deaths
  <2>3. deaths \subseteq births
    BY <1>0, <2>1, <2>2 DEF deaths
  <2>4. births \ deaths = {c \in live(iv, iv[b].definition) :
                             iv[c].definition = iv[b].definition => c <= b}
    BY <1>0, <2>1, <2>2 DEF births, live, liveAt
  <2> QED  BY <1>1, <2>3, <2>4 DEF births, deaths
<1>3. residentAfter(iv, deathOf(iv, b)) =
        bytesOfAll(iv, {c \in live(iv, iv[b].lastUse) :
                          iv[c].lastUse = iv[b].lastUse => c > b})
  <2> DEFINE e == deathOf(iv, b)
             births == {c \in DOMAIN iv : birthOf(iv, c) = e \/ SweepBefore(birthOf(iv, c), e)}
             deaths == {c \in DOMAIN iv : deathOf(iv, c) = e \/ SweepBefore(deathOf(iv, c), e)}
  <2>1. ASSUME NEW c \in DOMAIN iv
        PROVE  c \in births <=> iv[c].definition <= iv[b].lastUse
    BY <1>0, EventOrder
  <2>2. ASSUME NEW c \in DOMAIN iv
        PROVE  c \in deaths <=> \/ iv[c].lastUse < iv[b].lastUse
                                \/ iv[c].lastUse = iv[b].lastUse /\ c <= b
    BY <1>0, EventOrder
  <2> HIDE DEF births, deaths
  <2>3. deaths \subseteq births
    BY <1>0, <2>1, <2>2 DEF deaths
  <2>4. births \ deaths = {c \in live(iv, iv[b].lastUse) :
                             iv[c].lastUse = iv[b].lastUse => c > b}
    BY <1>0, <2>1, <2>2 DEF births, live, liveAt
  <2> QED  BY <1>1, <2>3, <2>4 DEF births, deaths
<1> QED  BY <1>2, <1>3
-----------------------------------------------------------------------------
(***************************************************************************)
(* Both recomputations report the peak of a set of pressures.  Two sets    *)
(* report the same one when each pressure of either is matched by one of   *)
(* the other that is no smaller and no later.                              *)
(***************************************************************************)
mostOf(P) == Max({p.bytes : p \in P} \cup {0})

peakOf(P) ==
  [bytes |-> mostOf(P),
   index |-> IF mostOf(P) = 0 THEN 0
             ELSE Min({p.index : p \in {q \in P : q.bytes = mostOf(P)}})]

Pressures(P, limit) ==
  P \subseteq [bytes : Nat, index : Nat] /\ \A p \in P : p.bytes <= limit

Matched(P, Q) ==
  \A p \in P : p.bytes > 0 => \E q \in Q : p.bytes <= q.bytes /\ q.index <= p.index

LEMMA MostOf ==
  ASSUME NEW P, NEW limit \in Nat, Pressures(P, limit)
  PROVE  /\ mostOf(P) \in Nat
         /\ \A p \in P : p.bytes <= mostOf(P)
         /\ mostOf(P) > 0 => \E p \in P : p.bytes = mostOf(P)
<1> DEFINE T == {p.bytes : p \in P} \cup {0}
<1>1. T \subseteq Nat /\ T # {} /\ \A n \in T : n <= limit
  BY DEF Pressures
<1> HIDE DEF T
<1>2. Max(T) \in T /\ \A n \in T : n <= Max(T)
  BY <1>1, MaxNat
<1>3. mostOf(P) = Max(T)
  BY DEF mostOf, T
<1>4. \A p \in P : p.bytes \in T
  BY DEF T
<1>5. \A n \in T : n > 0 => \E p \in P : p.bytes = n
  BY DEF T
<1> QED  BY <1>1, <1>2, <1>3, <1>4, <1>5

LEMMA MatchedMost ==
  ASSUME NEW P, NEW Q, NEW limit \in Nat, Pressures(P, limit), Pressures(Q, limit), Matched(P, Q)
  PROVE  mostOf(P) <= mostOf(Q)
<1>1. /\ mostOf(P) \in Nat /\ mostOf(Q) \in Nat
      /\ \A q \in Q : q.bytes <= mostOf(Q) /\ q.bytes \in Nat
      /\ mostOf(P) > 0 => \E p \in P : p.bytes = mostOf(P)
  BY MostOf DEF Pressures
<1>2. CASE mostOf(P) = 0
  BY <1>1, <1>2
<1>3. CASE mostOf(P) > 0
  <2>1. PICK p \in P : p.bytes = mostOf(P)
    BY <1>1, <1>3
  <2>2. PICK q \in Q : p.bytes <= q.bytes
    BY <1>3, <2>1 DEF Matched
  <2> QED  BY <1>1, <2>1, <2>2
<1> QED  BY <1>1, <1>2, <1>3

firstOf(P) == {p.index : p \in {q \in P : q.bytes = mostOf(P)}}

LEMMA FirstOf ==
  ASSUME NEW P, NEW limit \in Nat, Pressures(P, limit), mostOf(P) > 0
  PROVE  /\ Min(firstOf(P)) \in Nat
         /\ \E p \in P : p.bytes = mostOf(P) /\ p.index = Min(firstOf(P))
         /\ \A p \in P : p.bytes = mostOf(P) => Min(firstOf(P)) <= p.index
<1>1. firstOf(P) \subseteq Nat
  BY DEF Pressures, firstOf
<1>2. firstOf(P) # {}
  BY MostOf DEF firstOf
<1>3. Min(firstOf(P)) \in firstOf(P) /\ \A n \in firstOf(P) : Min(firstOf(P)) <= n
  BY <1>1, <1>2, MinNat
<1>4. \A p \in P : p.bytes = mostOf(P) => p.index \in firstOf(P)
  BY DEF firstOf
<1>5. \A n \in firstOf(P) : \E p \in P : p.bytes = mostOf(P) /\ p.index = n
  BY DEF firstOf
<1> QED  BY <1>1, <1>3, <1>4, <1>5

LEMMA MatchedFirst ==
  ASSUME NEW P, NEW Q, NEW limit \in Nat, Pressures(P, limit), Pressures(Q, limit), Matched(P, Q),
         mostOf(P) = mostOf(Q), mostOf(P) > 0
  PROVE  Min(firstOf(Q)) <= Min(firstOf(P))
<1>1. PICK p \in P : p.bytes = mostOf(P) /\ p.index = Min(firstOf(P))
  BY FirstOf
<1>2. PICK q \in Q : p.bytes <= q.bytes /\ q.index <= p.index
  BY <1>1 DEF Matched
<1>3. q.bytes = mostOf(Q)
  <2>1. q.bytes <= mostOf(Q) /\ q.bytes \in Nat /\ mostOf(Q) \in Nat
    BY MostOf DEF Pressures
  <2> QED  BY <1>1, <1>2, <2>1
<1>4. Min(firstOf(Q)) <= q.index /\ Min(firstOf(Q)) \in Nat
  BY <1>3, FirstOf
<1>5. q.index \in Nat /\ p.index \in Nat
  BY DEF Pressures
<1> QED  BY <1>1, <1>2, <1>4, <1>5

LEMMA SamePeak ==
  ASSUME NEW P, NEW Q, NEW limit \in Nat, Pressures(P, limit), Pressures(Q, limit),
         Matched(P, Q), Matched(Q, P)
  PROVE  peakOf(P) = peakOf(Q)
<1>1. mostOf(P) = mostOf(Q) /\ mostOf(P) \in Nat
  <2>1. mostOf(P) \in Nat /\ mostOf(Q) \in Nat
    BY MostOf
  <2>2. mostOf(P) <= mostOf(Q)
    BY MatchedMost
  <2>3. mostOf(Q) <= mostOf(P)
    BY MatchedMost
  <2> QED  BY <2>1, <2>2, <2>3
<1>2. CASE mostOf(P) = 0
  BY <1>1, <1>2 DEF peakOf
<1>3. CASE mostOf(P) > 0
  <2>1. Min(firstOf(P)) \in Nat /\ Min(firstOf(Q)) \in Nat
    BY <1>1, <1>3, FirstOf
  <2>2. Min(firstOf(Q)) <= Min(firstOf(P))
    BY <1>1, <1>3, MatchedFirst
  <2>3. Min(firstOf(P)) <= Min(firstOf(Q))
    BY <1>1, <1>3, MatchedFirst
  <2>4. Min(firstOf(P)) = Min(firstOf(Q))
    BY <2>1, <2>2, <2>3
  <2> QED  BY <1>1, <1>3, <2>4 DEF peakOf, firstOf
<1> QED  BY <1>1, <1>2, <1>3

-----------------------------------------------------------------------------
sweepPressure(iv) ==
  {[bytes |-> residentAfter(iv, e), index |-> e.index] :
     e \in {birthOf(iv, b) : b \in DOMAIN iv} \cup {deathOf(iv, b) : b \in DOMAIN iv}}

instantPressure(iv) ==
  {[bytes |-> residentAt(iv, t), index |-> t] :
     t \in UNION {iv[b].definition .. iv[b].lastUse : b \in DOMAIN iv}}

(* The sweep line walk and the recomputation at every index find the same  *)
(* peak at the same first index.                                           *)
THEOREM SweepFindsThePeak ==
  ASSUME NEW iv \in Seq(LiveInterval)
  PROVE  sweepLinePeak(iv) = bruteForcePeak(iv)
<1> DEFINE limit == bytesOfAll(iv, DOMAIN iv)
           P == sweepPressure(iv)
           Q == instantPressure(iv)
<1>0. /\ DOMAIN iv = 1..Len(iv) /\ Len(iv) \in Nat
      /\ \A c \in DOMAIN iv : /\ c \in Nat
                              /\ iv[c].definition \in Nat /\ iv[c].lastUse \in Nat
                              /\ iv[c].definition <= iv[c].lastUse
  BY WeightsType DEF LiveInterval
<1>1. limit \in Nat
  BY BytesType
<1>2. \A A \in SUBSET DOMAIN iv : bytesOfAll(iv, A) \in Nat /\ bytesOfAll(iv, A) <= limit
  BY BytesType, BytesGrow
<1>3. \A t : residentAt(iv, t) = bytesOfAll(iv, live(iv, t)) /\ live(iv, t) \in SUBSET DOMAIN iv
  BY DEF residentAt, live
<1>4. ASSUME NEW b \in DOMAIN iv
      PROVE  /\ residentAfter(iv, birthOf(iv, b)) \in Nat
             /\ residentAfter(iv, birthOf(iv, b)) <= limit
             /\ residentAfter(iv, birthOf(iv, b)) <= residentAt(iv, iv[b].definition)
             /\ residentAfter(iv, deathOf(iv, b)) \in Nat
             /\ residentAfter(iv, deathOf(iv, b)) <= limit
             /\ residentAfter(iv, deathOf(iv, b)) <= residentAt(iv, iv[b].lastUse)
  <2> DEFINE A == {c \in live(iv, iv[b].definition) :
                     iv[c].definition = iv[b].definition => c <= b}
             B == {c \in live(iv, iv[b].lastUse) :
                     iv[c].lastUse = iv[b].lastUse => c > b}
  <2>1. /\ residentAfter(iv, birthOf(iv, b)) = bytesOfAll(iv, A)
        /\ residentAfter(iv, deathOf(iv, b)) = bytesOfAll(iv, B)
    BY Residents
  <2>2. /\ A \subseteq live(iv, iv[b].definition) /\ A \in SUBSET DOMAIN iv
        /\ B \subseteq live(iv, iv[b].lastUse) /\ B \in SUBSET DOMAIN iv
    BY DEF live
  <2> HIDE DEF A, B
  <2>3. /\ bytesOfAll(iv, A) <= bytesOfAll(iv, live(iv, iv[b].definition))
        /\ bytesOfAll(iv, B) <= bytesOfAll(iv, live(iv, iv[b].lastUse))
    BY <2>2, BytesGrow
  <2> QED  BY <1>2, <1>3, <2>1, <2>2, <2>3
<1>5. ASSUME NEW p \in P
      PROVE  \E b \in DOMAIN iv :
               \/ p = [bytes |-> residentAfter(iv, birthOf(iv, b)), index |-> iv[b].definition]
               \/ p = [bytes |-> residentAfter(iv, deathOf(iv, b)), index |-> iv[b].lastUse + 1]
  BY DEF sweepPressure, birthOf, deathOf
<1>6. ASSUME NEW q \in Q
      PROVE  \E b \in DOMAIN iv : \E t \in iv[b].definition .. iv[b].lastUse :
               q = [bytes |-> residentAt(iv, t), index |-> t]
  BY DEF instantPressure
<1>7. ASSUME NEW b \in DOMAIN iv, NEW t \in iv[b].definition .. iv[b].lastUse
      PROVE  [bytes |-> residentAt(iv, t), index |-> t] \in Q
  BY DEF instantPressure
<1>8. ASSUME NEW b \in DOMAIN iv
      PROVE  [bytes |-> residentAfter(iv, birthOf(iv, b)), index |-> iv[b].definition] \in P
  BY DEF sweepPressure, birthOf
<1> HIDE DEF P, Q, limit
<1>9. Pressures(P, limit)
  <2>1. ASSUME NEW p \in P PROVE p \in [bytes : Nat, index : Nat] /\ p.bytes <= limit
    BY <1>0, <1>4, <1>5
  <2> QED  BY <2>1 DEF Pressures
<1>10. Pressures(Q, limit)
  <2>1. ASSUME NEW q \in Q PROVE q \in [bytes : Nat, index : Nat] /\ q.bytes <= limit
    BY <1>0, <1>2, <1>3, <1>6
  <2> QED  BY <2>1 DEF Pressures
<1>11. Matched(P, Q)
  <2> SUFFICES ASSUME NEW p \in P
               PROVE  \E q \in Q : p.bytes <= q.bytes /\ q.index <= p.index
    BY DEF Matched
  <2>1. PICK b \in DOMAIN iv :
          \/ p = [bytes |-> residentAfter(iv, birthOf(iv, b)), index |-> iv[b].definition]
          \/ p = [bytes |-> residentAfter(iv, deathOf(iv, b)), index |-> iv[b].lastUse + 1]
    BY <1>5
  <2>2. CASE p = [bytes |-> residentAfter(iv, birthOf(iv, b)), index |-> iv[b].definition]
    <3> DEFINE q == [bytes |-> residentAt(iv, iv[b].definition), index |-> iv[b].definition]
    <3>1. iv[b].definition \in iv[b].definition .. iv[b].lastUse
      BY <1>0
    <3>2. q \in Q
      BY <1>7, <3>1
    <3>3. p.bytes <= q.bytes /\ q.index <= p.index
      BY <1>0, <1>4, <2>2
    <3> QED  BY <3>2, <3>3
  <2>3. CASE p = [bytes |-> residentAfter(iv, deathOf(iv, b)), index |-> iv[b].lastUse + 1]
    <3> DEFINE q == [bytes |-> residentAt(iv, iv[b].lastUse), index |-> iv[b].lastUse]
    <3>1. iv[b].lastUse \in iv[b].definition .. iv[b].lastUse
      BY <1>0
    <3>2. q \in Q
      BY <1>7, <3>1
    <3>3. p.bytes <= q.bytes /\ q.index <= p.index
      BY <1>0, <1>4, <2>3
    <3> QED  BY <3>2, <3>3
  <2> QED  BY <2>1, <2>2, <2>3
<1>12. Matched(Q, P)
  <2> SUFFICES ASSUME NEW q \in Q
               PROVE  \E p \in P : q.bytes <= p.bytes /\ p.index <= q.index
    BY DEF Matched
  <2>0. PICK a \in DOMAIN iv : \E t \in iv[a].definition .. iv[a].lastUse :
          q = [bytes |-> residentAt(iv, t), index |-> t]
    BY <1>6
  <2>1. PICK t \in iv[a].definition .. iv[a].lastUse :
          q = [bytes |-> residentAt(iv, t), index |-> t]
    BY <2>0
  <2>2. t \in Nat /\ a \in live(iv, t)
    BY <1>0 DEF live, liveAt
  <2>3. PICK s \in {iv[c].definition : c \in live(iv, t)} :
          \A r \in {iv[c].definition : c \in live(iv, t)} : r <= s
    <3> DEFINE D == {iv[c].definition : c \in live(iv, t)}
    <3>1. D \subseteq Nat /\ D # {} /\ \A n \in D : n <= t
      BY <1>0, <2>2 DEF live, liveAt
    <3> HIDE DEF D
    <3>2. \E s \in D : \A r \in D : r <= s
      BY <2>2, <3>1, GreatestNat
    <3> QED  BY <3>2 DEF D
  <2>4. /\ s \in Nat /\ s <= t
        /\ \A c \in live(iv, t) : iv[c].definition <= s
        /\ \E c \in DOMAIN iv : iv[c].definition = s
    BY <1>0, <2>2, <2>3 DEF live, liveAt
  <2>5. PICK b \in {c \in DOMAIN iv : iv[c].definition = s} :
          \A c \in {d \in DOMAIN iv : iv[d].definition = s} : c <= b
    <3> DEFINE D == {c \in DOMAIN iv : iv[c].definition = s}
    <3>1. D \subseteq Nat /\ D # {} /\ \A n \in D : n <= Len(iv)
      BY <1>0, <2>4
    <3> HIDE DEF D
    <3>2. \E n \in D : \A c \in D : c <= n
      BY <1>0, <3>1, GreatestNat
    <3> QED  BY <3>2 DEF D
  <2> DEFINE A == {c \in live(iv, iv[b].definition) :
                     iv[c].definition = iv[b].definition => c <= b}
             p == [bytes |-> residentAfter(iv, birthOf(iv, b)), index |-> iv[b].definition]
  <2>6. live(iv, t) \subseteq A
    <3>1. ASSUME NEW c \in live(iv, t) PROVE c \in live(iv, iv[b].definition)
      BY <1>0, <2>2, <2>4, <2>5 DEF live, liveAt
    <3>2. ASSUME NEW c \in live(iv, t), iv[c].definition = iv[b].definition PROVE c <= b
      BY <2>5, <3>2 DEF live
    <3> QED  BY <3>1, <3>2
  <2>7. residentAfter(iv, birthOf(iv, b)) = bytesOfAll(iv, A)
    BY Residents
  <2>8. bytesOfAll(iv, live(iv, t)) <= bytesOfAll(iv, A)
    <3> HIDE DEF A
    <3> QED  BY <2>6, BytesGrow
  <2>9. p \in P
    BY <1>8
  <2>10. q.bytes <= p.bytes /\ p.index <= q.index
    BY <1>3, <2>1, <2>4, <2>5, <2>7, <2>8
  <2> QED  BY <2>9, <2>10
<1>13. peakOf(P) = peakOf(Q)
  BY <1>1, <1>9, <1>10, <1>11, <1>12, SamePeak
<1>14. sweepLinePeak(iv) = peakOf(P)
  BY DEF sweepLinePeak, peakOf, mostOf, P, sweepPressure
<1>15. bruteForcePeak(iv) = peakOf(Q)
  BY DEF bruteForcePeak, peakOf, mostOf, Q, instantPressure
<1> QED  BY <1>13, <1>14, <1>15

(* Where nothing ever holds more than the limit, neither does the peak.    *)
LEMMA PeakIsAttained ==
  ASSUME NEW iv \in Seq(LiveInterval), NEW limit \in Nat,
         \A t \in Nat : residentAt(iv, t) <= limit
  PROVE  bruteForcePeak(iv).bytes <= limit
<1> DEFINE Q == instantPressure(iv)
           total == bytesOfAll(iv, DOMAIN iv)
<1>1. bruteForcePeak(iv).bytes = mostOf(Q)
  BY DEF bruteForcePeak, mostOf, instantPressure
<1>2. \A b \in DOMAIN iv : iv[b].definition .. iv[b].lastUse \subseteq Nat
  BY WeightsType DEF LiveInterval
<1>3. ASSUME NEW q \in Q PROVE \E t \in Nat : q = [bytes |-> residentAt(iv, t), index |-> t]
  BY <1>2 DEF instantPressure
<1>4. \A t : residentAt(iv, t) \in Nat
  BY BytesType DEF residentAt
<1> HIDE DEF Q
<1>5. Pressures(Q, limit)
  <2>1. ASSUME NEW q \in Q PROVE q \in [bytes : Nat, index : Nat] /\ q.bytes <= limit
    BY <1>3, <1>4
  <2> QED  BY <2>1 DEF Pressures
<1>6. mostOf(Q) \in Nat /\ (mostOf(Q) > 0 => \E q \in Q : q.bytes = mostOf(Q))
  BY <1>5, MostOf
<1>7. mostOf(Q) <= limit
  BY <1>5, <1>6 DEF Pressures
<1> QED  BY <1>1, <1>7

-----------------------------------------------------------------------------
(* Rounding up is a multiple, is not below its argument, and leaves no     *)
(* multiple between the two.                                               *)
LEMMA AlignUp ==
  ASSUME NEW v \in Nat, NEW a \in Nat \ {0}
  PROVE  /\ alignUp(v, a) \in Nat
         /\ v <= alignUp(v, a)
         /\ \E k \in 0..alignUp(v, a) : alignUp(v, a) = k * a
         /\ \A k \in Nat : k * a < alignUp(v, a) => k * a < v
<1> DEFINE q == (v + a - 1) \div a
<1>1. /\ q \in Int
      /\ a * q <= v + a - 1
      /\ v + a - 1 < a * q + a
  OBVIOUS
<1> HIDE DEF q
<1>2. alignUp(v, a) = a * q
  BY DEF alignUp, q
<1>3. v <= a * q
  BY <1>1
<1>4. q \in Nat /\ q <= a * q
  <2>1. CASE q < 0
    <3>1. a * q <= -1
      BY <1>1, <2>1
    <3> QED  BY <1>1, <1>3, <3>1
  <2>2. CASE q >= 0
    BY <1>1, <2>2
  <2> QED  BY <1>1, <2>1, <2>2
<1>5. ASSUME NEW k \in Nat, k * a < a * q
      PROVE  k * a < v
  <2>1. k < q
    BY <1>1, <1>4, <1>5
  <2>2. k * a + a <= a * q
    BY <1>4, <2>1
  <2> QED  BY <1>1, <1>4, <2>2
<1>6. a * q \in Nat /\ a * q = q * a
  BY <1>4
<1> QED  BY <1>2, <1>3, <1>4, <1>5, <1>6

-----------------------------------------------------------------------------
(* The walk of the inner loop, which NoReuseWhileLive needs to be          *)
(* inductive: what it has passed ends below the candidate.                 *)
WalkInv ==
  current # None =>
    /\ multipleOfAlignment(candidate)
    /\ \A s \in skipped : end(s) <= candidate

(* The outer loop consumes the placement order front to back.              *)
OrderInv ==
  /\ \A p \in Placed, u \in Buffer \ Placed : placedBefore(intervals, strategy, p, u)
  /\ current # None =>
       \A u \in (Buffer \ Placed) \ {current} : placedBefore(intervals, strategy, current, u)

(* The numbers the other proofs add and compare.                           *)
LEMMA Numbers ==
  ASSUME TypeOK
  PROVE  /\ \A b \in Buffer : intervals[b] \in LiveInterval /\ intervals[b].bytes \in Nat
         /\ \A p \in Placed : p \in Buffer /\ offset[p] \in Nat /\ end(p) \in Nat
<1>1. \A b \in Buffer : intervals[b] \in LiveInterval /\ intervals[b].bytes \in Nat
  BY DEF TypeOK, Buffer, LiveInterval
<1>2. \A p \in Placed : p \in Buffer /\ offset[p] \in Nat
  BY DEF TypeOK, Placed
<1> QED  BY <1>1, <1>2 DEF end

(* Two closed ranges that meet share an operation index, and conversely.   *)
LEMMA OverlapIsLiveTogether ==
  ASSUME TypeOK, NEW a \in Buffer, NEW b \in Buffer
  PROVE  liveTogether(a, b) <=> rangesOverlap(intervals[a], intervals[b])
<1>1. /\ intervals[a] \in LiveInterval
      /\ intervals[b] \in LiveInterval
  BY DEF TypeOK, Buffer
<1>2. ASSUME rangesOverlap(intervals[a], intervals[b])
      PROVE  liveTogether(a, b)
  <2>1. CASE intervals[a].definition <= intervals[b].definition
    <3>1. intervals[b].definition \in intervals[a].definition .. intervals[a].lastUse
      BY <1>1, <1>2, <2>1 DEF rangesOverlap, LiveInterval
    <3>2. intervals[b].definition \in intervals[b].definition .. intervals[b].lastUse
      BY <1>1 DEF LiveInterval
    <3> QED  BY <3>1, <3>2 DEF liveTogether
  <2>2. CASE intervals[b].definition <= intervals[a].definition
    <3>1. intervals[a].definition \in intervals[b].definition .. intervals[b].lastUse
      BY <1>1, <1>2, <2>2 DEF rangesOverlap, LiveInterval
    <3>2. intervals[a].definition \in intervals[a].definition .. intervals[a].lastUse
      BY <1>1 DEF LiveInterval
    <3> QED  BY <3>1, <3>2 DEF liveTogether
  <2> QED  BY <1>1, <2>1, <2>2 DEF LiveInterval
<1>3. ASSUME liveTogether(a, b)
      PROVE  rangesOverlap(intervals[a], intervals[b])
  BY <1>1, <1>3 DEF liveTogether, rangesOverlap, LiveInterval
<1> QED  BY <1>2, <1>3

-----------------------------------------------------------------------------
(* Type correctness.                                                       *)
LEMMA TypeInit == Init => TypeOK
BY ProblemsAssumption
DEF Init, Start, TypeOK, Placed, Buffer

LEMMA TypeNext == TypeOK /\ [Next]_vars => TypeOK'
<1> SUFFICES ASSUME TypeOK, [Next]_vars PROVE TypeOK'
  OBVIOUS
<1>0. ASSUME NEW b \in Buffer PROVE intervals[b].bytes \in Nat
  BY DEF TypeOK, Buffer, LiveInterval
<1>1. ASSUME NEW b \in Buffer, Take(b) PROVE TypeOK'
  BY <1>1 DEF TypeOK, Take, inputs, Placed, Buffer
<1>2. ASSUME NEW o \in Placed, Skip(o) PROVE TypeOK'
  <2>1. end(o) \in Nat
    BY <1>0 DEF TypeOK, Placed, Buffer, end
  <2>2. alignUp(end(o), Alignment) \in Nat
    BY <2>1, AlignUp, AlignmentAssumption
  <2>3. candidate' \in Nat
    BY <1>2, <2>2 DEF TypeOK, Skip
  <2> QED  BY <1>2, <2>3 DEF TypeOK, Skip, inputs, Placed, Buffer
<1>3. CASE Settle
  <2>1. current \in Buffer \ Placed
    BY <1>3 DEF TypeOK, Settle
  <2>2. highWaterMark' \in Nat
    BY <1>0, <1>3, <2>1 DEF TypeOK, Settle
  <2>3. /\ Placed' = Placed \cup {current}
        /\ offset' \in [Placed \cup {current} -> Nat]
    BY <1>3 DEF TypeOK, Settle, Placed
  <2> QED  BY <1>3, <2>1, <2>2, <2>3 DEF TypeOK, Settle, inputs, Buffer
<1>4. CASE Fail
  BY <1>4 DEF TypeOK, Fail, inputs, Placed, Buffer
<1>5. CASE Finish
  BY <1>5 DEF TypeOK, Finish, inputs, Placed, Buffer
<1>6. CASE UNCHANGED vars
  BY <1>6 DEF TypeOK, vars, Placed, Buffer
<1> QED  BY <1>1, <1>2, <1>3, <1>4, <1>5, <1>6 DEF Next

(* The algorithm's state keeps its types.                                  *)
THEOREM TypeCorrect == Spec => []TypeOK
<1> QED  BY TypeInit, TypeNext, PTL DEF Spec

-----------------------------------------------------------------------------
(* The inductive invariant.                                                *)
IInv ==
  /\ TypeOK
  /\ WalkInv
  /\ OrderInv
  /\ NoReuseWhileLive
  /\ LowestOffset
  /\ ArenaHoldsEveryBuffer

LEMMA IInvInit == Init => IInv
<1> SUFFICES ASSUME Init PROVE IInv
  OBVIOUS
<1>1. /\ Placed = {} /\ current = None /\ highWaterMark = 0
      /\ outcome = "placing"
  BY DEF Init, Start, Placed
<1>2. TypeOK
  BY TypeInit
<1> QED
  BY <1>1, <1>2
  DEF IInv, TypeOK, WalkInv, OrderInv, NoReuseWhileLive, LowestOffset, ArenaHoldsEveryBuffer

LEMMA IInvTake ==
  ASSUME IInv, NEW b \in Buffer, Take(b)
  PROVE  IInv'
<1> USE DEF IInv
<1>1. /\ intervals' = intervals /\ strategy' = strategy /\ budget' = budget
      /\ offset' = offset /\ Placed' = Placed /\ Buffer' = Buffer
      /\ highWaterMark' = highWaterMark /\ outcome' = outcome
      /\ current' = b /\ candidate' = 0 /\ skipped' = {}
      /\ b \in Buffer \ Placed
  BY DEF Take, inputs, Placed, Buffer
<1>2. TypeOK'
  BY TypeNext DEF Next
<1>3. WalkInv'
  <2>1. 0 = 0 * Alignment
    BY AlignmentAssumption
  <2> QED  BY <1>1, <2>1 DEF WalkInv, multipleOfAlignment
<1>4. OrderInv'
  BY <1>1 DEF OrderInv, Take
<1>5. NoReuseWhileLive'
  BY <1>1 DEF NoReuseWhileLive, liveTogether, apart, end
<1>6. LowestOffset'
  BY <1>1 DEF LowestOffset, multipleOfAlignment, collides, liveTogether, end
<1>7. ArenaHoldsEveryBuffer'
  BY <1>1 DEF ArenaHoldsEveryBuffer, multipleOfAlignment, end
<1> QED  BY <1>2, <1>3, <1>4, <1>5, <1>6, <1>7

LEMMA IInvSkip ==
  ASSUME IInv, NEW o \in Placed, Skip(o)
  PROVE  IInv'
<1> USE DEF IInv
<1> DEFINE above == alignUp(end(o), Alignment)
<1>1. /\ intervals' = intervals /\ strategy' = strategy /\ budget' = budget
      /\ offset' = offset /\ Placed' = Placed /\ Buffer' = Buffer
      /\ highWaterMark' = highWaterMark /\ outcome' = outcome
      /\ current' = current /\ skipped' = skipped \cup {o}
      /\ current # None /\ current \in Buffer \ Placed
      /\ o \in neighbours(current)
      /\ candidate + intervals[current].bytes > offset[o]
      /\ candidate' = IF above > candidate THEN above ELSE candidate
  BY DEF Skip, inputs, Placed, Buffer, TypeOK, Remaining, nextNeighbour
<1>2. TypeOK'
  BY TypeNext DEF Next
<1>3. /\ intervals[current].bytes \in Nat
      /\ offset[o] \in Nat /\ end(o) \in Nat
      /\ candidate \in Nat /\ candidate' \in Nat
  BY <1>1, <1>2, Numbers DEF TypeOK
<1>4. /\ above \in Nat /\ end(o) <= above
      /\ \E k \in 0..above : above = k * Alignment
      /\ \A k \in Nat : k * Alignment < above => k * Alignment < end(o)
  BY <1>3, AlignUp, AlignmentAssumption
<1> HIDE DEF above
<1>5. WalkInv'
  <2>1. multipleOfAlignment(candidate')
    BY <1>1, <1>4 DEF WalkInv, multipleOfAlignment
  <2>2. ASSUME NEW s \in skipped' PROVE end(s) <= candidate'
    <3>1. end(s) \in Nat
      BY <1>1, <2>2, Numbers DEF TypeOK
    <3> QED  BY <1>1, <1>3, <1>4, <2>2, <3>1 DEF WalkInv
  <2> QED  BY <1>1, <2>1, <2>2 DEF WalkInv, multipleOfAlignment, end
<1>6. OrderInv'
  BY <1>1 DEF OrderInv
<1>7. NoReuseWhileLive'
  BY <1>1 DEF NoReuseWhileLive, liveTogether, apart, end
<1>8. LowestOffset'
  <2>1. liveTogether(current, o)
    BY <1>1, OverlapIsLiveTogether DEF neighbours, TypeOK
  <2>2. ASSUME NEW x \in 0..(candidate' - 1), multipleOfAlignment(x)
        PROVE  \E p \in skipped' : collides(current, x, p)
    <3>1. CASE x < candidate
      <4>1. x \in 0..(candidate - 1)
        BY <1>3, <3>1
      <4>2. PICK p \in skipped : collides(current, x, p)
        BY <1>1, <2>2, <4>1 DEF LowestOffset
      <4> QED  BY <1>1, <4>2
    <3>2. CASE x >= candidate
      <4>1. x < above
        BY <1>1, <1>3, <1>4, <3>2
      <4>2. PICK k \in 0..x : x = k * Alignment
        BY <2>2 DEF multipleOfAlignment
      <4>3. x < end(o)
        BY <1>3, <1>4, <4>1, <4>2
      <4>4. offset[o] < x + intervals[current].bytes
        BY <1>1, <1>3, <3>2
      <4>5. collides(current, x, o)
        BY <2>1, <4>3, <4>4 DEF collides
      <4> QED  BY <1>1, <4>5
    <3> QED  BY <1>3, <3>1, <3>2
  <2> QED
    BY <1>1, <2>2 DEF LowestOffset, multipleOfAlignment, collides, liveTogether, end
<1>9. ArenaHoldsEveryBuffer'
  BY <1>1 DEF ArenaHoldsEveryBuffer, multipleOfAlignment, end
<1> QED  BY <1>2, <1>5, <1>6, <1>7, <1>8, <1>9

(* Where the inner loop stops, the buffer fits between what was skipped    *)
(* and what was not.                                                       *)
LEMMA GapIsClear ==
  ASSUME IInv, current # None, GapFound, NEW p \in Placed, liveTogether(current, p)
  PROVE  end(p) <= candidate \/ candidate + intervals[current].bytes <= offset[p]
<1> USE DEF IInv
<1>1. /\ current \in Buffer /\ candidate \in Nat /\ p \in Buffer
      /\ intervals[current].bytes \in Nat
      /\ \A r \in Placed : offset[r] \in Nat /\ end(r) \in Nat
  BY Numbers DEF TypeOK
<1>2. p \in neighbours(current)
  BY <1>1, OverlapIsLiveTogether DEF neighbours
<1>3. CASE p \in skipped
  BY <1>3 DEF WalkInv
<1>4. CASE p \notin skipped
  <2>1. p \in Remaining
    BY <1>2, <1>4 DEF Remaining
  <2>2. PICK n \in Remaining : /\ nextNeighbour(n)
                               /\ candidate + intervals[current].bytes <= offset[n]
    BY <2>1 DEF GapFound
  <2>3. n \in Placed
    BY <2>2 DEF Remaining, neighbours
  <2>4. offset[n] <= offset[p]
    BY <1>1, <2>1, <2>2, <2>3 DEF nextNeighbour, walkedBefore
  <2> QED  BY <1>1, <2>2, <2>3, <2>4
<1> QED  BY <1>3, <1>4

LEMMA IInvSettle ==
  ASSUME IInv, Settle
  PROVE  IInv'
<1> USE DEF IInv
<1>0. PICK c \in Buffer : c = current
  BY DEF Settle, TypeOK
<1> DEFINE top == candidate + intervals[c].bytes
<1>1. /\ intervals' = intervals /\ strategy' = strategy /\ budget' = budget
      /\ Buffer' = Buffer /\ outcome' = outcome /\ outcome = "placing"
      /\ current' = None
      /\ c # None /\ c \in Buffer \ Placed
      /\ Placed' = Placed \cup {c}
      /\ \A p \in Placed : p # c /\ offset'[p] = offset[p]
      /\ offset'[c] = candidate
      /\ top <= budget
      /\ highWaterMark' = IF top > highWaterMark THEN top ELSE highWaterMark
      /\ GapFound
  BY <1>0 DEF Settle, inputs, Placed, Buffer, TypeOK
<1>2. TypeOK'
  BY TypeNext DEF Next
<1>3. /\ intervals[c].bytes \in Nat /\ candidate \in Nat /\ top \in Nat
      /\ highWaterMark \in Nat /\ budget \in Nat
      /\ \A p \in Placed : offset[p] \in Nat /\ end(p) \in Nat
  BY <1>1, Numbers DEF TypeOK
<1>4. /\ \A p \in Placed : end(p)' = end(p)
      /\ end(c)' = top
  BY <1>1 DEF end
<1> HIDE DEF top
<1>5. WalkInv'
  BY <1>0, <1>1 DEF WalkInv
<1>6. OrderInv'
  BY <1>0, <1>1 DEF OrderInv
<1>7. NoReuseWhileLive'
  <2> SUFFICES ASSUME NEW a \in Placed', NEW b \in Placed', a # b, liveTogether(a, b)'
               PROVE  apart(a, b)'
    BY DEF NoReuseWhileLive
  <2>1. liveTogether(a, b) /\ liveTogether(b, a)
    BY <1>0, <1>1 DEF liveTogether
  <2>2. CASE a \in Placed /\ b \in Placed
    BY <1>0, <1>1, <1>4, <2>1, <2>2 DEF NoReuseWhileLive, apart
  <2>3. CASE a = c /\ b \in Placed
    <3>1. end(b) <= candidate \/ top <= offset[b]
      BY <1>0, <1>1, <2>1, <2>3, GapIsClear DEF top
    <3> QED  BY <1>0, <1>1, <1>4, <2>3, <3>1 DEF apart
  <2>4. CASE b = c /\ a \in Placed
    <3>1. end(a) <= candidate \/ top <= offset[a]
      BY <1>0, <1>1, <2>1, <2>4, GapIsClear DEF top
    <3> QED  BY <1>0, <1>1, <1>4, <2>4, <3>1 DEF apart
  <2> QED  BY <1>0, <1>1, <2>2, <2>3, <2>4
<1>8. LowestOffset'
  <2>1. ASSUME NEW b \in Placed', NEW x \in 0..(offset'[b] - 1), multipleOfAlignment(x)
        PROVE  \E p \in Placed' \ {b} :
                 placedBefore(intervals, strategy, p, b) /\ collides(b, x, p)'
    <3>1. CASE b \in Placed
      <4>1. PICK p \in Placed \ {b} :
              placedBefore(intervals, strategy, p, b) /\ collides(b, x, p)
        BY <1>0, <1>1, <2>1, <3>1 DEF LowestOffset
      <4>2. collides(b, x, p)'
        BY <1>0, <1>1, <1>4, <4>1 DEF collides, liveTogether
      <4> QED  BY <1>0, <1>1, <4>1, <4>2
    <3>2. CASE b = c
      <4>1. PICK p \in skipped : collides(c, x, p)
        BY <1>0, <1>1, <2>1, <3>2 DEF LowestOffset
      <4>2. p \in Placed
        BY <4>1 DEF TypeOK
      <4>3. placedBefore(intervals, strategy, p, c)
        BY <1>0, <1>1, <4>2 DEF OrderInv
      <4>4. collides(c, x, p)'
        BY <1>0, <1>1, <1>4, <4>1, <4>2 DEF collides, liveTogether
      <4> QED  BY <1>0, <1>1, <3>2, <4>2, <4>3, <4>4
    <3> QED  BY <1>0, <1>1, <3>1, <3>2
  <2> QED  BY <1>0, <1>1, <2>1 DEF LowestOffset, multipleOfAlignment
<1>9. ArenaHoldsEveryBuffer'
  <2>1. highWaterMark' <= budget /\ highWaterMark <= highWaterMark' /\ top <= highWaterMark'
    BY <1>0, <1>1, <1>3 DEF ArenaHoldsEveryBuffer
  <2>2. highWaterMark' \in Nat
    BY <1>2 DEF TypeOK
  <2>3. ASSUME NEW b \in Placed'
        PROVE  multipleOfAlignment(offset[b])' /\ end(b)' <= highWaterMark'
    <3>1. CASE b \in Placed
      BY <1>0, <1>1, <1>3, <1>4, <2>1, <2>2, <3>1 DEF ArenaHoldsEveryBuffer, multipleOfAlignment
    <3>2. CASE b = c
      BY <1>0, <1>1, <1>4, <2>1, <3>2 DEF WalkInv, multipleOfAlignment
    <3> QED  BY <1>0, <1>1, <3>1, <3>2
  <2>4. highWaterMark' = 0 \/ \E b \in Placed' : end(b)' = highWaterMark'
    <3>1. CASE top > highWaterMark
      BY <1>0, <1>1, <1>4, <3>1
    <3>2. CASE ~(top > highWaterMark)
      BY <1>0, <1>1, <1>4, <3>2 DEF ArenaHoldsEveryBuffer
    <3> QED  BY <3>1, <3>2
  <2> QED  BY <1>0, <1>1, <2>1, <2>3, <2>4 DEF ArenaHoldsEveryBuffer
<1> QED  BY <1>2, <1>5, <1>6, <1>7, <1>8, <1>9

(* The steps that move no buffer.                                          *)
LEMMA IInvReturn ==
  ASSUME IInv, Fail \/ Finish \/ UNCHANGED vars
  PROVE  IInv'
<1> USE DEF IInv
<1>1. /\ intervals' = intervals /\ strategy' = strategy /\ budget' = budget
      /\ offset' = offset /\ Placed' = Placed /\ Buffer' = Buffer
      /\ highWaterMark' = highWaterMark
      /\ current' = current /\ candidate' = candidate /\ skipped' = skipped
  BY DEF Fail, Finish, vars, inputs, Placed, Buffer
<1>2. TypeOK'
  BY TypeNext DEF Next
<1>3. WalkInv' /\ OrderInv'
  BY <1>1 DEF WalkInv, OrderInv, multipleOfAlignment, end
<1>4. NoReuseWhileLive'
  BY <1>1 DEF NoReuseWhileLive, liveTogether, apart, end
<1>5. LowestOffset'
  BY <1>1 DEF LowestOffset, multipleOfAlignment, collides, liveTogether, end
<1>6. outcome' = "placed" => Placed = Buffer
  BY DEF Fail, Finish, vars, ArenaHoldsEveryBuffer
<1>7. ArenaHoldsEveryBuffer'
  BY <1>1, <1>6 DEF ArenaHoldsEveryBuffer, multipleOfAlignment, end
<1> QED  BY <1>2, <1>3, <1>4, <1>5, <1>7

LEMMA IInvNext == IInv /\ [Next]_vars => IInv'
BY IInvTake, IInvSkip, IInvSettle, IInvReturn DEF Next

LEMMA Inductive == Spec => []IInv
BY IInvInit, IInvNext, PTL DEF Spec

-----------------------------------------------------------------------------
(* Two buffers live at one operation index never own the same byte.        *)
THEOREM ReuseWhileLiveNeverHappens == Spec => []NoReuseWhileLive
<1>1. IInv => NoReuseWhileLive
  BY DEF IInv
<1> QED  BY <1>1, Inductive, PTL

(* First fit takes the lowest aligned offset that is free, so the offset a *)
(* failure reports is the lowest at which the buffer would have fitted.    *)
THEOREM FirstFitIsLowest == Spec => []LowestOffset
<1>1. IInv => LowestOffset
  BY DEF IInv
<1> QED  BY <1>1, Inductive, PTL

(* A successful placement is complete, aligned and inside the budget, and  *)
(* its high water mark is exactly the arena it needs.                      *)
THEOREM ArenaIsExact == Spec => []ArenaHoldsEveryBuffer
<1>1. IInv => ArenaHoldsEveryBuffer
  BY DEF IInv
<1> QED  BY <1>1, Inductive, PTL

(* The buffers live at one operation index own disjoint bytes of the       *)
(* arena.                                                                  *)
LEMMA LiveBytesFit ==
  ASSUME IInv, outcome = "placed", NEW t \in Nat
  PROVE  residentAt(intervals, t) <= highWaterMark
<1> USE DEF IInv
<1> DEFINE A == live(intervals, t)
<1>1. /\ intervals \in Seq(LiveInterval) /\ highWaterMark \in Nat
      /\ A \in SUBSET DOMAIN intervals /\ Placed = DOMAIN intervals
  BY DEF TypeOK, ArenaHoldsEveryBuffer, Buffer, live
<1>2. \A a \in A : offset[a] \in Nat /\ offset[a] + intervals[a].bytes <= highWaterMark
  BY <1>1, Numbers DEF ArenaHoldsEveryBuffer, end
<1>3. ASSUME NEW a \in A, NEW b \in A, a # b
      PROVE  \/ offset[a] + intervals[a].bytes <= offset[b]
             \/ offset[b] + intervals[b].bytes <= offset[a]
  <2>1. /\ t \in intervals[a].definition .. intervals[a].lastUse
        /\ t \in intervals[b].definition .. intervals[b].lastUse
    BY <1>1, WeightsType DEF live, liveAt, LiveInterval
  <2> QED  BY <1>1, <1>3, <2>1 DEF NoReuseWhileLive, liveTogether, apart, end
<1> HIDE DEF A
<1>4. bytesOfAll(intervals, A) <= highWaterMark
  BY <1>1, <1>2, <1>3, DisjointBuffersFit
<1> QED  BY <1>4 DEF A, residentAt, live

(* A placement that succeeded is never smaller than the pressure peak the  *)
(* sweep reports, and that is the peak the brute force finds.              *)
THEOREM PlacementIsNoSmallerThanThePeak == Spec => []PeakIsALowerBound
<1>1. IInv => PeakIsALowerBound
  <2> SUFFICES ASSUME IInv, outcome = "placed"
               PROVE  /\ sweepLinePeak(intervals).bytes <= highWaterMark
                      /\ sweepLinePeak(intervals) = bruteForcePeak(intervals)
    BY DEF PeakIsALowerBound
  <2>1. intervals \in Seq(LiveInterval) /\ highWaterMark \in Nat
    BY DEF IInv, TypeOK
  <2>2. sweepLinePeak(intervals) = bruteForcePeak(intervals)
    BY <2>1, SweepFindsThePeak
  <2>3. bruteForcePeak(intervals).bytes <= highWaterMark
    BY <2>1, LiveBytesFit, PeakIsAttained
  <2> QED  BY <2>2, <2>3
<1> QED  BY <1>1, Inductive, PTL

-----------------------------------------------------------------------------
(* A multiple in the sense of the invariant leaves no remainder.           *)
LEMMA NoRemainder ==
  ASSUME NEW k \in Nat, NEW a \in Nat \ {0}
  PROVE  (k * a) % a = 0
<1> DEFINE m == k * a
           q == m \div a
           r == m % a
<1>1. /\ q \in Int /\ r \in Int /\ 0 <= r /\ r < a /\ m = a * q + r
  OBVIOUS
<1>2. r = a * (k - q)
  BY <1>1
<1> HIDE DEF q, r
<1>3. CASE k - q >= 1
  <2>1. a * (k - q) >= a
    BY <1>1, <1>3
  <2> QED  BY <1>1, <1>2, <2>1
<1>4. CASE k - q <= -1
  <2>1. a * (k - q) <= -a
    BY <1>1, <1>4
  <2> QED  BY <1>1, <1>2, <2>1
<1>5. CASE k - q = 0
  BY <1>1, <1>2, <1>5 DEF r
<1> QED  BY <1>1, <1>3, <1>4, <1>5

LEMMA SettleGives ==
  ASSUME IInv, Settle
  PROVE  Promise!Next
<1> USE DEF IInv
<1>0. PICK c \in Buffer \ Placed : c = current
  BY DEF Settle, TypeOK
<1>1. /\ intervals[c].bytes \in Nat /\ candidate \in Nat /\ budget \in Nat
      /\ highWaterMark \in Nat
      /\ \A p \in Placed : p \in Buffer /\ offset[p] \in Nat /\ end(p) \in Nat
  BY <1>0, Numbers DEF TypeOK
<1>2. candidate \in 0..budget
  BY <1>0, <1>1 DEF Settle
<1>3. candidate % Alignment = 0
  <2>1. PICK k \in 0..candidate : candidate = k * Alignment
    BY <1>0 DEF WalkInv, multipleOfAlignment, Settle
  <2>2. k \in Nat
    BY <1>1, <2>1
  <2> QED  BY <2>1, <2>2, NoRemainder, AlignmentAssumption
<1>4. Promise!Clear(c, candidate)
  <2> SUFFICES ASSUME NEW p \in Placed,
                      ~(intervals[c].lastUse < intervals[p].definition),
                      ~(intervals[p].lastUse < intervals[c].definition)
               PROVE  \/ candidate + intervals[c].bytes <= offset[p]
                      \/ end(p) <= candidate
    BY DEF Promise!Clear, Placed, end
  <2>1. rangesOverlap(intervals[c], intervals[p])
    BY <1>0, <1>1, Numbers DEF rangesOverlap, LiveInterval
  <2>2. liveTogether(c, p)
    BY <1>0, <1>1, <2>1, OverlapIsLiveTogether
  <2> QED  BY <1>0, <2>2, GapIsClear DEF Settle
<1>5. Promise!Give(c, candidate)
  <2>1. /\ candidate + intervals[c].bytes <= budget
        /\ highWaterMark' \in {highWaterMark, candidate + intervals[c].bytes}
        /\ highWaterMark' >= highWaterMark
        /\ highWaterMark' >= candidate + intervals[c].bytes
    BY <1>0, <1>1 DEF Settle
  <2> QED
    BY <1>0, <1>3, <1>4, <2>1 DEF Promise!Give, Settle, Placed, inputs
<1> QED  BY <1>0, <1>2, <1>5 DEF Promise!Next, Buffer

LEMMA StepKeepsPromise ==
  ASSUME IInv, [Next]_vars
  PROVE  [Promise!Next]_(Promise!vars)
<1> USE DEF IInv
<1>1. ASSUME NEW b \in Buffer, Take(b) PROVE UNCHANGED Promise!vars
  BY <1>1 DEF Take, inputs, Promise!vars
<1>2. ASSUME NEW o \in Placed, Skip(o) PROVE UNCHANGED Promise!vars
  BY <1>2 DEF Skip, inputs, Promise!vars
<1>3. CASE Settle
  BY <1>3, SettleGives
<1>4. CASE Fail
  <2>1. Placed # Buffer
    BY <1>4 DEF Fail, TypeOK
  <2> QED  BY <1>4, <2>1 DEF Fail, inputs, Promise!Next, Promise!Answer, Placed, Buffer
<1>5. CASE Finish
  BY <1>5 DEF Finish, inputs, Promise!Next, Promise!Answer, Placed, Buffer
<1>6. CASE UNCHANGED vars
  BY <1>6 DEF vars, Promise!vars
<1> QED  BY <1>1, <1>2, <1>3, <1>4, <1>5, <1>6 DEF Next

(* First fit implements the placement its callers rely on.                 *)
THEOREM FirstFitKeepsItsPromise == Spec => PromiseKept
<1>1. Init => Promise!Init
  BY DEF Init, Start, Promise!Init
<1>2. IInv /\ [Next]_vars => [Promise!Next]_(Promise!vars)
  BY StepKeepsPromise
<1> QED  BY <1>1, <1>2, Inductive, PTL DEF Spec, PromiseKept, Promise!Spec
-----------------------------------------------------------------------------
(* Buffers with the ranges pr own disjoint bytes below the limit whenever  *)
(* they are live together.                                                 *)
HoldsApart(pr, place, limit) ==
  /\ \A a \in DOMAIN pr : place[a] \in Nat /\ place[a] + pr[a].bytes <= limit
  /\ \A a, b \in DOMAIN pr : (a # b /\ rangesOverlap(pr[a], pr[b])) =>
       place[a] + pr[a].bytes <= place[b] \/ place[b] + pr[b].bytes <= place[a]

(* What is live together among iv is live together among pr.               *)
PricedBy(iv, pr, to) ==
  /\ \A k \in DOMAIN iv : to[k] \in DOMAIN pr /\ pr[to[k]].bytes = iv[k].bytes
  /\ \A j, k \in DOMAIN iv : to[j] = to[k] => j = k
  /\ \A t \in Nat : \E s \in Nat : \A k \in DOMAIN iv : liveAt(iv[k], t) => liveAt(pr[to[k]], s)

(* A call of assignOffsets starts in the inductive invariant.              *)
LEMMA CallStarts ==
  ASSUME Call, intervals' \in Seq(LiveInterval), strategy' \in Strategy, budget' \in Nat
  PROVE  IInv'
<1>1. Placed' = {} /\ current' = None /\ highWaterMark' = 0 /\ outcome' = "placing" /\ candidate' = 0 /\ skipped' = {}
  BY DEF Call, Placed
<1>2. TypeOK'
  BY <1>1 DEF Call, TypeOK, Placed, Buffer
<1> QED
  BY <1>1, <1>2
  DEF IInv, TypeOK, WalkInv, OrderInv, NoReuseWhileLive, LowestOffset, ArenaHoldsEveryBuffer

(* A placement that succeeded keeps apart the buffers it was given.        *)
LEMMA PlacedApart ==
  ASSUME IInv, outcome = "placed"
  PROVE  HoldsApart(intervals, offset, budget) /\ intervals \in Seq(LiveInterval) /\ budget \in Nat
<1> USE DEF IInv
<1>1. /\ intervals \in Seq(LiveInterval) /\ highWaterMark \in Nat /\ budget \in Nat
      /\ Placed = DOMAIN intervals /\ highWaterMark <= budget
  BY DEF TypeOK, ArenaHoldsEveryBuffer, Buffer
<1>2. ASSUME NEW a \in DOMAIN intervals
      PROVE  offset[a] \in Nat /\ offset[a] + intervals[a].bytes <= budget
  <2>1. offset[a] \in Nat /\ intervals[a].bytes \in Nat /\ end(a) <= highWaterMark
    BY <1>1, Numbers DEF Buffer, ArenaHoldsEveryBuffer
  <2> QED  BY <1>1, <2>1 DEF end
<1>3. ASSUME NEW a \in DOMAIN intervals, NEW b \in DOMAIN intervals, a # b, rangesOverlap(intervals[a], intervals[b])
      PROVE  \/ offset[a] + intervals[a].bytes <= offset[b]
             \/ offset[b] + intervals[b].bytes <= offset[a]
  <2>1. liveTogether(a, b)
    BY <1>3, OverlapIsLiveTogether DEF Buffer
  <2> QED  BY <1>1, <1>3, <2>1 DEF NoReuseWhileLive, apart, end
<1> QED  BY <1>1, <1>2, <1>3 DEF HoldsApart

(* Where a placement keeps apart the buffers a list was priced by, the     *)
(* pressure of the list is no more than the placement takes.               *)
LEMMA PricedPressure ==
  ASSUME NEW iv \in Seq(LiveInterval), NEW pr \in Seq(LiveInterval), NEW place, NEW limit \in Nat,
         HoldsApart(pr, place, limit), NEW to, PricedBy(iv, pr, to)
  PROVE  sweepLinePeak(iv).bytes <= limit
<1>1. ASSUME NEW t \in Nat PROVE residentAt(iv, t) <= limit
  <2> DEFINE A == live(iv, t)
             at == [k \in A |-> place[to[k]]]
  <2>1. PICK s \in Nat : \A k \in DOMAIN iv : liveAt(iv[k], t) => liveAt(pr[to[k]], s)
    BY DEF PricedBy
  <2>2. A \in SUBSET DOMAIN iv /\ \A k \in A : at[k] = place[to[k]]
    BY DEF live
  <2>3. ASSUME NEW k \in A
        PROVE  to[k] \in DOMAIN pr /\ pr[to[k]].bytes = iv[k].bytes /\ liveAt(pr[to[k]], s)
    BY <2>1 DEF PricedBy, live
  <2>4. \A a \in A : at[a] \in Nat /\ at[a] + iv[a].bytes <= limit
    BY <2>2, <2>3 DEF HoldsApart
  <2>5. ASSUME NEW a \in A, NEW b \in A, a # b
        PROVE  at[a] + iv[a].bytes <= at[b] \/ at[b] + iv[b].bytes <= at[a]
    <3>1. to[a] # to[b]
      BY <2>2, <2>5 DEF PricedBy
    <3>2. pr[to[a]] \in LiveInterval /\ pr[to[b]] \in LiveInterval
      BY <2>3, WeightsType
    <3>3. liveAt(pr[to[a]], s) /\ liveAt(pr[to[b]], s)
      BY <2>3
    <3>4. rangesOverlap(pr[to[a]], pr[to[b]])
      <4>1. \A x, y \in LiveInterval : liveAt(x, s) /\ liveAt(y, s) => rangesOverlap(x, y)
        BY DEF rangesOverlap, liveAt, LiveInterval
      <4> QED  BY <3>2, <3>3, <4>1
    <3> QED  BY <2>2, <2>3, <3>1, <3>4 DEF HoldsApart
  <2> HIDE DEF A, at
  <2>6. bytesOfAll(iv, A) <= limit
    BY <2>2, <2>4, <2>5, DisjointBuffersFit
  <2> QED  BY <2>6 DEF A, residentAt, live
<1>2. bruteForcePeak(iv).bytes <= limit
  BY <1>1, PeakIsAttained
<1> QED  BY <1>2, SweepFindsThePeak
==============================================================================
