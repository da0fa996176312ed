---------------------- MODULE ValidatedExecutionProofs ----------------------
(***************************************************************************)
(* Inside a spill slot the validator's answer is exact, for every memory   *)
(* size, region layout, limit and set of instructions; and a program as    *)
(* the compiler leaves it reads only what was written and never traps.     *)
(***************************************************************************)
EXTENDS ValidatedExecution, SequenceTheorems, TLAPS

(* No two entries of a slot's map overlap or touch.                        *)
apart(i, j) == i.end < j.begin \/ j.end < i.begin

Separated(entries) == \A i, j \in entries : i = j \/ apart(i, j)

-----------------------------------------------------------------------------
(* Among separated entries the one at or below an address is the one that  *)
(* touches it, if any does.                                                *)
LEMMA TouchingIsLast ==
  ASSUME NEW S \in SUBSET Interval, Separated(S), NEW address \in Nat,
         NEW e \in S, e.begin <= address, address <= e.end
  PROVE  lastAtOrBelow(S, address) = {e}
<1>1. ASSUME NEW f \in S, f.begin <= address
      PROVE  f = e \/ f.begin < e.begin
  <2>1. f \in Interval /\ e \in Interval
    OBVIOUS
  <2>2. f = e \/ f.end < e.begin \/ e.end < f.begin
    BY DEF Separated, apart
  <2> QED  BY <1>1, <2>1, <2>2 DEF Interval
<1>2. \A f \in S : f \in Interval
  OBVIOUS
<1>3. e \in lastAtOrBelow(S, address)
  BY <1>1, <1>2 DEF lastAtOrBelow, Interval
<1>4. \A f \in lastAtOrBelow(S, address) : f = e
  BY <1>1, <1>2 DEF lastAtOrBelow, Interval
<1> QED  BY <1>3, <1>4

(* What covers finds in one entry is all there is to find.                 *)
LEMMA CoversIsExact ==
  ASSUME NEW S \in SUBSET Interval, Separated(S),
         NEW from \in Nat, NEW to \in Nat, from < to
  PROVE  covers(S, from, to) <=> from .. to - 1 \subseteq bytesOf(S)
<1>0. \A e \in S : e \in Interval
  OBVIOUS
<1>1. ASSUME from .. to - 1 \subseteq bytesOf(S)
      PROVE  covers(S, from, to)
  <2>1. from \in bytesOf(S)
    BY <1>1
  <2>2. PICK e \in S : from \in bytes(e)
    BY <2>1 DEF bytesOf
  <2>3. e.begin <= from /\ from < e.end /\ e.begin \in Nat /\ e.end \in Nat
    BY <1>0, <2>2 DEF bytes, Interval
  <2>4. lastAtOrBelow(S, from) = {e}
    BY <2>3, TouchingIsLast
  <2>5. ASSUME e.end < to PROVE FALSE
    <3>1. e.end \in bytesOf(S)
      BY <1>1, <2>3, <2>5
    <3>2. PICK f \in S : e.end \in bytes(f)
      BY <3>1 DEF bytesOf
    <3>3. f \in Interval /\ f.begin <= e.end /\ e.end < f.end
      BY <1>0, <2>3, <3>2 DEF bytes, Interval
    <3>4. f = e \/ f.end < e.begin \/ e.end < f.begin
      BY DEF Separated, apart
    <3> QED  BY <2>3, <3>3, <3>4 DEF Interval
  <2> QED  BY <2>3, <2>4, <2>5 DEF covers
<1>2. ASSUME covers(S, from, to)
      PROVE  from .. to - 1 \subseteq bytesOf(S)
  <2>1. PICK e \in S : e.begin <= from /\ to <= e.end
    BY <1>2 DEF covers, lastAtOrBelow
  <2>2. from .. to - 1 \subseteq bytes(e)
    BY <1>0, <2>1 DEF bytes, Interval
  <2> QED  BY <2>1, <2>2 DEF bytesOf
<1> QED  BY <1>1, <1>2

-----------------------------------------------------------------------------
(* cover joins a run to the entries it touches and leaves the rest alone.  *)
LEMMA CoverAddsTheRun ==
  ASSUME NEW S \in SUBSET Interval, Separated(S),
         NEW from \in Nat, NEW to \in Nat, from < to
  PROVE  /\ cover(S, from, to) \subseteq Interval
         /\ Separated(cover(S, from, to))
         /\ bytesOf(cover(S, from, to)) = bytesOf(S) \cup (from .. to - 1)
<1> DEFINE previous == {p \in lastAtOrBelow(S, from) : p.end >= from}
           start    == Min({from} \cup {p.begin : p \in previous})
           reach    == Max({to} \cup {p.end : p \in previous})
           rest     == S \ previous
           ahead    == {i \in rest : i.begin >= start}
           reached(i) == i.begin <= reach
                           \/ \E j \in ahead : j.begin < i.begin /\ i.begin <= j.end
           absorbed == {i \in ahead : \A j \in ahead : j.begin <= i.begin => reached(j)}
           final    == Max({reach} \cup {i.end : i \in absorbed})
           joined   == [begin |-> start, end |-> final]
<1>0. \A e \in S : e \in Interval /\ e.begin \in Nat /\ e.end \in Nat /\ e.begin < e.end
  BY DEF Interval
<1>1. previous = {e \in S : e.begin <= from /\ from <= e.end}
  <2>1. \A e \in previous : e \in S /\ e.begin <= from /\ from <= e.end
    BY <1>0 DEF lastAtOrBelow
  <2>2. ASSUME NEW e \in S, e.begin <= from, from <= e.end
        PROVE  e \in previous
    <3>1. lastAtOrBelow(S, from) = {e}
      BY <2>2, TouchingIsLast
    <3> QED  BY <1>0, <2>2, <3>1
  <2> QED  BY <2>1, <2>2
<1>2. /\ start \in Nat /\ reach \in Nat
      /\ start <= from /\ to <= reach
      /\ \A e \in rest : e.end < start \/ from < e.begin
      /\ bytesOf(previous) \cup (from .. to - 1) = start .. reach - 1
  <2>1. CASE previous = {}
    <3>1. start = Min({from}) /\ reach = Max({to})
      BY <2>1
    <3>2. Min({from}) = from /\ Max({to}) = to
      BY DEF Min, Max
    <3>3. \A e \in rest : e.end < from \/ from < e.begin
      BY <1>0, <1>1, <2>1
    <3>4. bytesOf(previous) = {}
      BY <2>1 DEF bytesOf
    <3> HIDE DEF previous, start, reach
    <3> QED  BY <3>1, <3>2, <3>3, <3>4
  <2>2. CASE previous # {}
    <3>1. PICK p \in previous : TRUE
      BY <2>2
    <3>2. p \in S /\ p.begin <= from /\ from <= p.end
      BY <1>1, <3>1
    <3>3. previous = {p}
      <4>1. lastAtOrBelow(S, from) = {p}
        BY <3>2, TouchingIsLast
      <4> QED  BY <3>1, <4>1
    <3>4. p.begin \in Nat /\ p.end \in Nat /\ p.begin < p.end
      BY <1>0, <3>2
    <3>5. start = Min({from, p.begin}) /\ reach = Max({to, p.end})
      BY <3>3
    <3>6. Min({from, p.begin}) = p.begin
      BY <3>2, <3>4 DEF Min
    <3>7. Max({to, p.end}) = IF p.end <= to THEN to ELSE p.end
      BY <3>4 DEF Max
    <3>8. ASSUME NEW e \in rest PROVE e.end < p.begin \/ from < e.begin
      <4>1. e # p /\ e \in S
        BY <3>3, <3>8
      <4>2. e.end < p.begin \/ p.end < e.begin
        BY <3>2, <4>1 DEF Separated, apart
      <4> QED  BY <1>0, <3>2, <3>4, <4>1, <4>2
    <3>9. bytesOf(previous) = p.begin .. p.end - 1
      BY <3>3 DEF bytesOf, bytes
    <3>10. /\ start = p.begin
           /\ reach = IF p.end <= to THEN to ELSE p.end
      BY <3>5, <3>6, <3>7
    <3> HIDE DEF previous, start, reach, rest
    <3> QED  BY <3>2, <3>4, <3>8, <3>9, <3>10
  <2> QED  BY <2>1, <2>2
<1>3. rest \subseteq S /\ S = rest \cup previous
  BY <1>1
<1> HIDE DEF previous, start, reach, rest
<1>4. absorbed = {i \in rest : from < i.begin /\ i.begin <= reach}
  <2>1. \A i \in rest : i.begin \in Nat /\ i.end \in Nat /\ i.begin < i.end
    BY <1>0, <1>3
  <2>2. \A i \in rest : i \in ahead <=> from < i.begin
    BY <1>2, <2>1
  <2>3. ASSUME NEW i \in ahead, reached(i)
        PROVE  i.begin <= reach
    <3>1. ASSUME NEW j \in ahead, j.begin < i.begin, i.begin <= j.end PROVE FALSE
      <4>1. i \in S /\ j \in S /\ i \in rest /\ j \in rest
        BY <1>3, <2>3, <3>1
      <4>2. i # j
        BY <2>1, <3>1, <4>1
      <4>3. i.end < j.begin \/ j.end < i.begin
        BY <4>1, <4>2 DEF Separated, apart
      <4> QED  BY <2>1, <3>1, <4>1, <4>3
    <3> QED  BY <2>3, <3>1
  <2>4. \A i \in absorbed : i \in rest /\ from < i.begin /\ i.begin <= reach
    <3> SUFFICES ASSUME NEW i \in absorbed PROVE i \in rest /\ from < i.begin /\ i.begin <= reach
      OBVIOUS
    <3>1. i \in ahead /\ i.begin <= i.begin
      BY <2>1
    <3>2. reached(i)
      BY <3>1
    <3> QED  BY <2>2, <2>3, <3>1, <3>2
  <2>5. ASSUME NEW i \in rest, from < i.begin, i.begin <= reach
        PROVE  i \in absorbed
    <3>1. i \in ahead
      BY <2>2, <2>5
    <3>2. ASSUME NEW j \in ahead, j.begin <= i.begin PROVE reached(j)
      BY <1>2, <2>1, <2>5, <3>2
    <3> QED  BY <3>1, <3>2
  <2> QED  BY <2>4, <2>5
<1> HIDE DEF absorbed
<1>5. \A i \in absorbed : /\ i \in S /\ i \in rest
                          /\ i.begin \in Nat /\ i.end \in Nat /\ i.begin < i.end
                          /\ from < i.begin /\ i.begin <= reach
  BY <1>0, <1>3, <1>4
<1>6. /\ final \in Nat /\ reach <= final
      /\ \A i \in absorbed : i.end <= final
      /\ final = reach \/ \E i \in absorbed : final = i.end
  <2> DEFINE ends == {reach} \cup {i.end : i \in absorbed}
  <2>1. \A x \in ends : x \in Nat
    BY <1>2, <1>5
  <2>2. \E x \in ends : \A y \in ends : x >= y
    <3>1. CASE \A i \in absorbed : i.end <= reach
      BY <1>2, <1>5, <3>1
    <3>2. ASSUME NEW i \in absorbed, ~(i.end <= reach)
          PROVE  \E x \in ends : \A y \in ends : x >= y
      <4>1. \A j \in absorbed : j.end <= i.end
        <5> SUFFICES ASSUME NEW j \in absorbed PROVE j.end <= i.end
          OBVIOUS
        <5>1. i = j \/ i.end < j.begin \/ j.end < i.begin
          BY <1>5 DEF Separated, apart
        <5> QED  BY <1>2, <1>5, <3>2, <5>1
      <4> QED  BY <1>2, <1>5, <3>2, <4>1
    <3> QED  BY <3>1, <3>2
  <2>3. final = Max(ends)
    OBVIOUS
  <2>4. Max(ends) \in ends /\ \A y \in ends : Max(ends) >= y
    BY <2>2 DEF Max
  <2> QED  BY <2>1, <2>3, <2>4
<1> HIDE DEF final
<1>7. joined \in Interval
  BY <1>2, <1>6 DEF Interval
<1>8. cover(S, from, to) = (rest \ absorbed) \cup {joined}
  BY DEF cover, previous, start, reach, rest, absorbed, final
<1>9. \A e \in rest \ absorbed : apart(e, joined)
  <2> SUFFICES ASSUME NEW e \in rest \ absorbed PROVE apart(e, joined)
    OBVIOUS
  <2>1. e \in S /\ e.begin \in Nat /\ e.end \in Nat /\ e.begin < e.end
    BY <1>0, <1>3
  <2>2. CASE e.end < start
    BY <2>2 DEF apart
  <2>3. CASE from < e.begin
    <3>1. reach < e.begin
      BY <1>2, <1>4, <2>1, <2>3
    <3>2. final < e.begin
      <4>1. CASE final = reach
        BY <3>1, <4>1
      <4>2. ASSUME NEW i \in absorbed, final = i.end PROVE final < e.begin
        <5>1. e.end < i.begin \/ i.end < e.begin
          BY <1>5, <2>1 DEF Separated, apart
        <5> QED  BY <1>2, <1>5, <2>1, <3>1, <4>2, <5>1
      <4> QED  BY <1>6, <4>1, <4>2
    <3> QED  BY <3>2 DEF apart
  <2> QED  BY <1>2, <2>2, <2>3
<1>10. Separated(cover(S, from, to))
  <2>1. ASSUME NEW i \in cover(S, from, to), NEW j \in cover(S, from, to), i # j
        PROVE  apart(i, j)
    <3>1. CASE i \in rest \ absorbed /\ j \in rest \ absorbed
      BY <1>3, <2>1, <3>1 DEF Separated
    <3>2. CASE i = joined
      BY <1>8, <1>9, <2>1, <3>2 DEF apart
    <3>3. CASE j = joined
      BY <1>8, <1>9, <2>1, <3>3 DEF apart
    <3> QED  BY <1>8, <3>1, <3>2, <3>3
  <2> QED  BY <2>1 DEF Separated
<1>11. bytes(joined) = (start .. reach - 1) \cup bytesOf(absorbed)
  <2>1. \A x : x \in bytes(joined) <=> x \in start .. final - 1
    BY DEF bytes
  <2>2. \A i \in absorbed : bytes(i) \subseteq start .. final - 1
    BY <1>2, <1>5, <1>6 DEF bytes
  <2>3. start .. reach - 1 \subseteq start .. final - 1
    BY <1>2, <1>6
  <2>4. ASSUME NEW x \in start .. final - 1, x \notin start .. reach - 1
        PROVE  x \in bytesOf(absorbed)
    <3>1. x >= reach /\ x < final
      BY <1>2, <1>6, <2>4
    <3>2. PICK i \in absorbed : final = i.end
      BY <1>2, <1>6, <2>4, <3>1
    <3>3. x \in bytes(i)
      BY <1>2, <1>5, <2>4, <3>1, <3>2 DEF bytes
    <3> QED  BY <3>2, <3>3 DEF bytesOf
  <2>5. bytesOf(absorbed) \subseteq start .. final - 1
    BY <2>2 DEF bytesOf
  <2> QED  BY <2>1, <2>3, <2>4, <2>5
<1>12. bytesOf(cover(S, from, to)) = bytesOf(S) \cup (from .. to - 1)
  <2>1. bytesOf(cover(S, from, to)) = bytesOf(rest \ absorbed) \cup bytes(joined)
    BY <1>8 DEF bytesOf
  <2>2. bytesOf(rest \ absorbed) \cup bytesOf(absorbed) = bytesOf(rest)
    BY <1>5 DEF bytesOf
  <2>3. bytesOf(S) = bytesOf(rest) \cup bytesOf(previous)
    BY <1>3 DEF bytesOf
  <2> QED  BY <1>2, <1>11, <2>1, <2>2, <2>3
<1>13. cover(S, from, to) \subseteq Interval
  BY <1>3, <1>7, <1>8
<1> QED  BY <1>10, <1>12, <1>13

-----------------------------------------------------------------------------
(* Rows and columns of the row major position r * columns + c.             *)
LEMMA RowMajor ==
  ASSUME NEW rows \in Nat \ {0}, NEW columns \in Nat \ {0},
         NEW r \in 0 .. rows - 1, NEW c \in 0 .. columns - 1
  PROVE  /\ r * columns + c \in 0 .. rows * columns - 1
         /\ (r * columns + c) \div columns = r
         /\ (r * columns + c) % columns = c
<1> DEFINE p == r * columns + c
<1>1. r \in Nat /\ c \in Nat /\ r + 1 <= rows /\ c < columns
  OBVIOUS
<1>2. r * columns \in Nat
  BY <1>1
<1>3. (r + 1) * columns <= rows * columns
  BY <1>1
<1>4. (r + 1) * columns = r * columns + columns
  BY <1>1
<1>5. p \in Nat /\ p < rows * columns
  BY <1>1, <1>2, <1>3, <1>4
<1>6. p \in 0 .. rows * columns - 1
  BY <1>5
<1>7. p \div columns = r /\ p % columns = c
  BY <1>1, <1>2
<1> QED  BY <1>6, <1>7

LEMMA Quotient ==
  ASSUME NEW n \in Nat, NEW columns \in Nat \ {0}
  PROVE  n \div columns \in Nat /\ n % columns \in Nat
OBVIOUS

(* Every run of an access whose address is not negative is an interval.    *)
LEMMA RunsAreIntervals ==
  ASSUME NEW a \in Access, a.address \in Nat, NEW n \in 1..runCount(a)
  PROVE  /\ byteRuns(a)[n] \in Interval
         /\ runBegin(a, n - 1) \in Nat
<1>1. /\ a.shape[1] \in Nat \ {0} /\ a.shape[2] \in Nat \ {0}
      /\ a.strides[1] \in Nat /\ a.strides[2] \in Nat
  BY DEF Access
<1>2. n - 1 \in Nat
  <2>1. runCount(a) \in Nat
    BY <1>1 DEF runCount, elementCount
  <2> QED  BY <2>1
<1>3. (n - 1) * a.strides[1] \in Nat
  BY <1>1, <1>2
<1>4. (n - 1) \div a.shape[2] \in Nat /\ (n - 1) % a.shape[2] \in Nat
  BY <1>1, <1>2, Quotient
<1>5. /\ ((n - 1) \div a.shape[2]) * a.strides[1] \in Nat
      /\ ((n - 1) % a.shape[2]) * a.strides[2] \in Nat
  BY <1>1, <1>4
<1>6. runBegin(a, n - 1) \in Nat
  BY <1>3, <1>5 DEF runBegin
<1>7. PICK size \in Nat \ {0} :
        byteRuns(a)[n] = [begin |-> runBegin(a, n - 1), end |-> runBegin(a, n - 1) + size]
  BY <1>1 DEF byteRuns
<1> QED  BY <1>6, <1>7 DEF Interval

(* Every byte of a run is an element of the walk over the access.          *)
LEMMA RunsAreElements ==
  ASSUME NEW a \in Access, a.address \in Nat, NEW n \in 1..runCount(a),
         NEW x \in bytes(byteRuns(a)[n])
  PROVE  \E p \in 0 .. (a.shape[1] * a.shape[2] - 1) : x = elementAt(a, a.shape, p)
<1>1. /\ a.shape[1] \in Nat \ {0} /\ a.shape[2] \in Nat \ {0}
      /\ a.strides[1] \in Nat /\ a.strides[2] \in Nat
  BY DEF Access
<1>2. runBegin(a, n - 1) \in Nat
  BY RunsAreIntervals
<1>3. CASE innermostIsContiguous(a)
  <2>1. n - 1 \in 0 .. a.shape[1] - 1
    BY <1>1, <1>3 DEF runCount
  <2>2. byteRuns(a)[n] = [begin |-> runBegin(a, n - 1), end |-> runBegin(a, n - 1) + a.shape[2]]
    BY <1>3 DEF byteRuns
  <2>3. x \in runBegin(a, n - 1) .. runBegin(a, n - 1) + a.shape[2] - 1
    <3>1. bytes(byteRuns(a)[n]) = byteRuns(a)[n].begin .. byteRuns(a)[n].end - 1
      BY DEF bytes
    <3>2. /\ byteRuns(a)[n].begin = runBegin(a, n - 1)
          /\ byteRuns(a)[n].end = runBegin(a, n - 1) + a.shape[2]
      BY <2>2
    <3>3. x \in byteRuns(a)[n].begin .. byteRuns(a)[n].end - 1
      BY <3>1
    <3> QED  BY <1>1, <1>2, <3>2, <3>3
  <2>4. PICK c \in 0 .. a.shape[2] - 1 : x = runBegin(a, n - 1) + c
    <3>1. x - runBegin(a, n - 1) \in 0 .. a.shape[2] - 1
      BY <1>1, <1>2, <2>3
    <3>2. x = runBegin(a, n - 1) + (x - runBegin(a, n - 1))
      BY <1>1, <1>2, <2>3
    <3> QED  BY <3>1, <3>2
  <2>5. runBegin(a, n - 1) = a.address + (n - 1) * a.strides[1]
    BY <1>3 DEF runBegin
  <2> DEFINE p == (n - 1) * a.shape[2] + c
  <2>6. /\ p \in 0 .. (a.shape[1] * a.shape[2] - 1)
        /\ p \div a.shape[2] = n - 1
        /\ p % a.shape[2] = c
    <3> DEFINE rows == a.shape[1]
               columns == a.shape[2]
               r == n - 1
    <3>1. /\ rows \in Nat \ {0} /\ columns \in Nat \ {0}
          /\ r \in 0 .. rows - 1 /\ c \in 0 .. columns - 1
      BY <1>1, <2>1, <2>4
    <3> HIDE DEF rows, columns, r
    <3>2. /\ r * columns + c \in 0 .. rows * columns - 1
          /\ (r * columns + c) \div columns = r
          /\ (r * columns + c) % columns = c
      BY <3>1, RowMajor
    <3> QED  BY <3>2 DEF rows, columns, r
  <2> HIDE DEF p
  <2>7. a.strides[2] = 1
    BY <1>3 DEF innermostIsContiguous
  <2>8. elementAt(a, a.shape, p) = a.address + (n - 1) * a.strides[1] + c * 1
    BY <2>6, <2>7 DEF elementAt
  <2>9. x = a.address + (n - 1) * a.strides[1] + c
    BY <2>4, <2>5
  <2> QED  BY <2>4, <2>6, <2>8, <2>9
<1>4. CASE ~innermostIsContiguous(a)
  <2>1. n - 1 \in 0 .. (a.shape[1] * a.shape[2] - 1)
    <3>1. a.shape[1] * a.shape[2] \in Nat
      BY <1>1
    <3> QED  BY <1>4, <3>1 DEF runCount, elementCount
  <2>2. byteRuns(a)[n] = [begin |-> runBegin(a, n - 1), end |-> runBegin(a, n - 1) + 1]
    BY <1>4 DEF byteRuns
  <2>3. x = runBegin(a, n - 1)
    BY <1>2, <2>2 DEF bytes
  <2>4. (n - 1) \div a.shape[2] \in Nat /\ (n - 1) % a.shape[2] \in Nat
    BY <1>1, <2>1, Quotient
  <2>5. /\ ((n - 1) \div a.shape[2]) * a.strides[1] \in Nat
        /\ ((n - 1) % a.shape[2]) * a.strides[2] \in Nat
    BY <1>1, <2>4
  <2>6. runBegin(a, n - 1) = elementAt(a, a.shape, n - 1)
    BY <1>4, <2>5 DEF runBegin, elementAt
  <2> QED  BY <2>1, <2>3, <2>6
<1> QED  BY <1>3, <1>4

-----------------------------------------------------------------------------
PendingRun == [slot : layout.spillSlots, run : Interval]

Bookkeeping ==
  /\ layout \in Layouts
  /\ defined \in [Space -> SUBSET Interval]
  /\ \A s \in Space : oneEntryPerBegin(defined[s])
  /\ covered \in [layout.spillSlots -> SUBSET Interval]
  /\ \A s \in layout.spillSlots : Separated(covered[s])
  /\ saturated \subseteq layout.spillSlots
  /\ recording \in Seq(PendingRun)
  /\ outcome \in {"regions", "instructions", "valid", "refused"}
  /\ outcome = "regions" => recording = << >> /\ \A s \in layout.spillSlots : covered[s] = {}

LEMMA Regions ==
  ASSUME layout \in Layouts
  PROVE  /\ \A r \in regionsOf(layout) :
              r.offset \in Nat /\ r.bytes \in Nat \ {0} /\ slotEnd(r) \in Nat /\ r.offset < slotEnd(r)
         /\ layout.spillSlots \subseteq regionsOf(layout)
         /\ \A r, s \in regionsOf(layout) : r.offset = s.offset => r = s
<1>1. layout \in Layout
  BY LayoutsAssumption
<1>2. regionsOf(layout) \subseteq Region /\ layout.spillSlots \subseteq regionsOf(layout)
  BY <1>1 DEF regionsOf, Layout
<1>3. \A r \in Region : r.offset \in Nat /\ r.bytes \in Nat \ {0}
  BY DEF Region
<1> QED  BY <1>2, <1>3, LayoutsAssumption DEF slotEnd

(* The slot that judges an access is a declared one that holds its address. *)
LEMMA JudgingSlots ==
  ASSUME layout \in Layouts, NEW a \in Access, NEW s \in judgingSlot(a)
  PROVE  s \in layout.spillSlots /\ a.space = "dram" /\ a.address \in Nat
<1>1. s \in slotAt(a.address) /\ a.space = "dram"
  BY DEF judgingSlot
<1>2. s \in layout.spillSlots /\ s.offset <= a.address /\ a.address \in Int
  BY <1>1 DEF slotAt, Access
<1> QED  BY <1>1, <1>2, Regions

LEMMA AcceptedResult ==
  ASSUME NEW i \in Instructions, accepts(i), hasResult(i.opcode)
  PROVE  /\ resultOf(i) \in Access
         /\ resultOf(i).space = resultSpace(i.opcode)
         /\ resultOf(i).address \in Nat
         /\ elementCount(resultOf(i)) \in Nat \ {0}
         /\ \A r \in i.result : r = resultOf(i)
<1>1. i \in Instruction /\ \A r, s \in i.result : r = s
  BY InstructionsAssumption
<1>2. i.result \subseteq Access
  BY <1>1 DEF Instruction
<1>3. i.result # {}
  BY DEF accepts, resultHolds
<1>4. resultOf(i) \in i.result
  BY <1>3 DEF resultOf
<1>5. resultOf(i).space = resultSpace(i.opcode) /\ inRange(resultOf(i))
  BY <1>4 DEF accepts, resultHolds
<1>6. resultOf(i).address \in Int /\ 0 <= resultOf(i).address
  BY <1>2, <1>4, <1>5 DEF inRange, fitsInMemory, Access
<1>7. resultOf(i).shape[1] \in Nat \ {0} /\ resultOf(i).shape[2] \in Nat \ {0}
  BY <1>2, <1>4 DEF Access
<1>8. elementCount(resultOf(i)) \in Nat \ {0}
  BY <1>7 DEF elementCount
<1> QED  BY <1>1, <1>2, <1>4, <1>5, <1>6, <1>8

LEMMA Recorded ==
  ASSUME layout \in Layouts, NEW i \in Instructions, accepts(i)
  PROVE  /\ runsToRecord(i) \in Seq(PendingRun)
         /\ \A n \in DOMAIN runsToRecord(i) :
              /\ hasResult(i.opcode) /\ resultOf(i).space = "dram"
              /\ n \in 1..runCount(resultOf(i))
              /\ runsToRecord(i)[n].run = byteRuns(resultOf(i))[n]
<1>1. CASE ~recordsRuns(i)
  BY <1>1 DEF runsToRecord
<1>2. CASE recordsRuns(i)
  <2> DEFINE r == resultOf(i)
  <2>1. hasResult(i.opcode)
    BY <1>2 DEF recordsRuns, accepts, resultHolds
  <2>2. r \in Access /\ r.address \in Nat /\ judgingSlot(r) # {}
    BY <1>2, <2>1, AcceptedResult DEF recordsRuns
  <2>3. r.space = "dram"
    BY <2>2, JudgingSlots
  <2>4. (CHOOSE s \in judgingSlot(r) : TRUE) \in layout.spillSlots
    BY <2>2, JudgingSlots
  <2>5. \A n \in 1..runCount(r) : inItsSlot(r, byteRuns(r)[n]) \in PendingRun
    <3> SUFFICES ASSUME NEW n \in 1..runCount(r)
                 PROVE  inItsSlot(r, byteRuns(r)[n]) \in PendingRun
      OBVIOUS
    <3>1. byteRuns(r)[n] \in Interval
      BY <2>2, RunsAreIntervals
    <3> QED  BY <2>4, <3>1 DEF inItsSlot, PendingRun
  <2>6. runsToRecord(i) = [n \in 1..runCount(r) |-> inItsSlot(r, byteRuns(r)[n])]
    BY <1>2 DEF runsToRecord
  <2>7. runCount(r) \in Nat
    <3>1. r.shape[1] \in Nat /\ r.shape[2] \in Nat
      BY <2>2 DEF Access
    <3> QED  BY <3>1 DEF runCount, elementCount
  <2> HIDE DEF r
  <2>8. runsToRecord(i) \in Seq(PendingRun)
    BY <2>5, <2>6, <2>7
  <2>9. \A n \in 1..runCount(r) : runsToRecord(i)[n].run = byteRuns(r)[n]
    BY <2>6 DEF inItsSlot
  <2>10. DOMAIN runsToRecord(i) = 1..runCount(r)
    BY <2>6
  <2> QED  BY <2>1, <2>3, <2>8, <2>9, <2>10 DEF r
<1> QED  BY <1>1, <1>2

LEMMA HeadAndTail ==
  ASSUME NEW R, NEW runs \in Seq(R), runs # << >>
  PROVE  /\ Head(runs) \in R /\ Tail(runs) \in Seq(R)
         /\ 1 \in DOMAIN runs /\ Head(runs) = runs[1]
         /\ \A n \in DOMAIN Tail(runs) : n + 1 \in DOMAIN runs /\ Tail(runs)[n] = runs[n + 1]
OBVIOUS

(* One entry per begin survives a write.                                   *)
LEMMA WriteKeepsOnePerBegin ==
  ASSUME NEW S \in SUBSET Interval, oneEntryPerBegin(S),
         NEW begin \in Nat, NEW size \in Nat \ {0}
  PROVE  /\ write(S, begin, size) \subseteq Interval
         /\ oneEntryPerBegin(write(S, begin, size))
<1>1. [begin |-> begin, end |-> begin + size] \in Interval
  BY DEF Interval
<1> QED  BY <1>1 DEF write, oneEntryPerBegin

-----------------------------------------------------------------------------
LEMMA BookkeepingStarts == Start => Bookkeeping
<1> SUFFICES ASSUME Start PROVE Bookkeeping
  OBVIOUS
<1>1. /\ layout \in Layouts /\ defined = [s \in Space |-> {}]
      /\ covered = [s \in layout.spillSlots |-> {}]
      /\ saturated = {} /\ recording = << >> /\ outcome = "regions"
  BY DEF Start, Init
<1>2. defined \in [Space -> SUBSET Interval] /\ \A s \in Space : oneEntryPerBegin(defined[s])
  BY <1>1 DEF oneEntryPerBegin
<1>3. /\ covered \in [layout.spillSlots -> SUBSET Interval]
      /\ \A s \in layout.spillSlots : covered[s] = {} /\ Separated(covered[s])
  BY <1>1 DEF Separated
<1> QED  BY <1>1, <1>2, <1>3 DEF Bookkeeping

LEMMA BookkeepingKept == Bookkeeping /\ [Next]_vars => Bookkeeping'
<1> SUFFICES ASSUME Bookkeeping, [Next]_vars PROVE Bookkeeping'
  OBVIOUS
<1> USE DEF Bookkeeping
<1>1. CASE Load
  <2>1. /\ UNCHANGED <<layout, covered, saturated, recording>>
        /\ outcome = "regions" /\ outcome' \in {"instructions", "refused"}
    BY <1>1 DEF Load, CheckRegions
  <2> DEFINE entries == {[begin |-> r.offset, end |-> slotEnd(r)] :
                           r \in layout.inputs \cup layout.constants}
  <2>2. entries \subseteq Interval /\ oneEntryPerBegin(entries)
    <3>1. layout.inputs \cup layout.constants \subseteq regionsOf(layout)
      BY DEF regionsOf
    <3>2. \A r \in layout.inputs \cup layout.constants :
             [begin |-> r.offset, end |-> slotEnd(r)] \in Interval
      BY <3>1, Regions DEF Interval
    <3> QED  BY <3>1, <3>2, Regions DEF oneEntryPerBegin
  <2>3. defined' = defined \/ defined' = [defined EXCEPT !["dram"] = entries]
    BY <1>1 DEF Load, CheckRegions
  <2>4. /\ defined' \in [Space -> SUBSET Interval]
        /\ \A s \in Space : oneEntryPerBegin(defined'[s])
    <3> HIDE DEF entries
    <3> QED  BY <2>2, <2>3
  <2> QED  BY <2>1, <2>4
<1>2. ASSUME NEW i \in Instructions, Accept(i) PROVE Bookkeeping'
  <2>1. /\ UNCHANGED <<layout, covered, saturated, outcome>>
        /\ outcome = "instructions" /\ recording' = runsToRecord(i) /\ accepts(i)
    BY <1>2 DEF Accept
  <2>2. recording' \in Seq(PendingRun)'
    BY <2>1, Recorded DEF PendingRun
  <2>3. /\ defined' \in [Space -> SUBSET Interval]
        /\ \A s \in Space : oneEntryPerBegin(defined'[s])
    <3>1. defined' = [s \in Space |->
             IF hasResult(i.opcode) /\ resultOf(i).space = s
               THEN write(defined[s], resultOf(i).address, elementCount(resultOf(i)))
               ELSE defined[s]]
      BY <1>2 DEF Accept
    <3>2. ASSUME NEW s \in Space, hasResult(i.opcode)
          PROVE  LET after == write(defined[s], resultOf(i).address, elementCount(resultOf(i)))
                 IN  after \subseteq Interval /\ oneEntryPerBegin(after)
      BY <2>1, <3>2, AcceptedResult, WriteKeepsOnePerBegin
    <3>3. \A s \in Space : defined'[s] \subseteq Interval /\ oneEntryPerBegin(defined'[s])
      BY <3>1, <3>2
    <3> QED  BY <3>1, <3>3
  <2> QED  BY <2>1, <2>2, <2>3
<1>3. ASSUME NEW i \in Instructions, Refuse(i) PROVE Bookkeeping'
  BY <1>3 DEF Refuse, PendingRun
<1>4. CASE Finish
  BY <1>4 DEF Finish, PendingRun
<1>5. CASE RecordRun
  <2> DEFINE s == Head(recording).slot
             run == Head(recording).run
  <2>1. /\ UNCHANGED <<layout, defined, outcome>>
        /\ recording # << >> /\ recording' = Tail(recording)
    BY <1>5 DEF RecordRun
  <2>2. s \in layout.spillSlots /\ run \in Interval /\ Tail(recording) \in Seq(PendingRun)
    <3>1. Head(recording) \in PendingRun /\ Tail(recording) \in Seq(PendingRun)
      BY <2>1, HeadAndTail
    <3> QED  BY <3>1 DEF PendingRun
  <2>3. recording' \in Seq(PendingRun)'
    BY <2>1, <2>2 DEF PendingRun
  <2>4. cover(covered[s], run.begin, run.end) \in SUBSET Interval
          /\ Separated(cover(covered[s], run.begin, run.end))
    <3> HIDE DEF s, run
    <3>1. run.begin \in Nat /\ run.end \in Nat /\ run.begin < run.end
      BY <2>2 DEF Interval
    <3> QED  BY <2>2, <3>1, CoverAddsTheRun
  <2>5. \/ UNCHANGED <<covered, saturated>>
        \/ /\ saturated' = saturated \cup {s}
           /\ covered' = [covered EXCEPT ![s] = {}]
        \/ /\ covered' = [covered EXCEPT ![s] = cover(covered[s], run.begin, run.end)]
           /\ UNCHANGED saturated
    BY <1>5 DEF RecordRun
  <2>6. Separated({})
    BY DEF Separated
  <2>7. saturated' \subseteq layout.spillSlots
    BY <2>2, <2>5
  <2>8. /\ covered' \in [layout.spillSlots -> SUBSET Interval]
        /\ \A t \in layout.spillSlots : Separated(covered'[t])
    <3> HIDE DEF s, run
    <3> QED  BY <2>2, <2>4, <2>5, <2>6
  <2>9. outcome' # "regions"
    BY <2>1
  <2> QED  BY <2>1, <2>3, <2>7, <2>8, <2>9
<1>6. CASE UNCHANGED vars
  BY <1>6 DEF vars, validatorVars, PendingRun
<1> QED  BY <1>1, <1>2, <1>3, <1>4, <1>5, <1>6 DEF Next, Step, Record, End

THEOREM BookkeepingHolds == Spec => []Bookkeeping
BY BookkeepingStarts, BookkeepingKept, PTL DEF Spec

(* The one map entry that covers looks into answers for every byte of the  *)
(* range (Validation.cpp, SlotCoverage::covers).                           *)
THEOREM CoverageAnswers == Spec => []CoversAnswersForEveryByte
<1>1. Bookkeeping => CoversAnswersForEveryByte
  <2> SUFFICES ASSUME Bookkeeping, NEW s \in layout.spillSlots,
                      NEW from \in s.offset .. slotEnd(s), NEW to \in s.offset .. slotEnd(s),
                      from < to
               PROVE  covers(covered[s], from, to) <=> from .. to - 1 \subseteq bytesOf(covered[s])
    BY DEF CoversAnswersForEveryByte
  <2>1. layout \in Layouts /\ covered[s] \in SUBSET Interval /\ Separated(covered[s])
    BY DEF Bookkeeping
  <2>2. from \in Nat /\ to \in Nat
    BY <2>1, Regions
  <2> QED  BY <2>1, <2>2, CoversIsExact
<1> QED  BY <1>1, BookkeepingHolds, PTL

(* Recording a run adds its bytes to its slot and changes nothing else     *)
(* (SlotCoverage::cover), until the slot passes its limit.                 *)
THEOREM RecordingAddsUp == Spec => RunsAddUp
<1>1. Bookkeeping /\ [Next]_vars => [addsItsRun]_<<covered, recording>>
  <2> SUFFICES ASSUME Bookkeeping, [Next]_vars, <<covered, recording>>' # <<covered, recording>>
               PROVE  addsItsRun
    OBVIOUS
  <2>1. ASSUME recording = << >>, covered' = covered PROVE addsItsRun
    <3>1. \A s : nextRunIn(s) = {}
      BY <2>1 DEF nextRunIn
    <3> QED  BY <2>1, <3>1 DEF bytesOf, addsItsRun
  <2>2. CASE Load
    BY <2>1, <2>2 DEF Load, CheckRegions, Bookkeeping
  <2>3. ASSUME NEW i \in Instructions, Accept(i) \/ Refuse(i) PROVE addsItsRun
    BY <2>1, <2>3 DEF Accept, Refuse
  <2>4. CASE Finish
    BY <2>1, <2>4 DEF Finish
  <2>5. CASE RecordRun
    <3> DEFINE t == Head(recording).slot
               run == Head(recording).run
    <3>1. /\ t \in layout.spillSlots /\ run \in Interval
          /\ 1 \in DOMAIN recording /\ Head(recording) = recording[1]
      <4>1. recording # << >> /\ recording \in Seq(PendingRun)
        BY <2>5 DEF RecordRun, Bookkeeping
      <4>2. /\ Head(recording) \in PendingRun
            /\ 1 \in DOMAIN recording /\ Head(recording) = recording[1]
        BY <4>1, HeadAndTail
      <4> QED  BY <4>2 DEF PendingRun
    <3>2. \A s : nextRunIn(s) = IF t = s /\ insideSlot(s, run) THEN {run} ELSE {}
      BY <3>1 DEF nextRunIn
    <3>3. bytesOf({}) = {} /\ bytesOf({run}) = run.begin .. run.end - 1
      BY DEF bytesOf, bytes
    <3>4. \/ (t \in saturated \/ ~insideSlot(t, run)) /\ UNCHANGED <<covered, saturated>>
          \/ /\ saturated' = saturated \cup {t}
             /\ covered' = [covered EXCEPT ![t] = {}]
          \/ /\ insideSlot(t, run)
             /\ covered' = [covered EXCEPT ![t] = cover(covered[t], run.begin, run.end)]
             /\ UNCHANGED saturated
      BY <2>5 DEF RecordRun
    <3>5. bytesOf(cover(covered[t], run.begin, run.end))
            = bytesOf(covered[t]) \cup (run.begin .. run.end - 1)
      <4>1. covered[t] \in SUBSET Interval /\ Separated(covered[t])
        BY <3>1 DEF Bookkeeping
      <4>2. run.begin \in Nat /\ run.end \in Nat /\ run.begin < run.end
        BY <3>1 DEF Interval
      <4> QED  BY <4>1, <4>2, CoverAddsTheRun
    <3>6. covered \in [layout.spillSlots -> SUBSET Interval]
      BY DEF Bookkeeping
    <3> HIDE DEF t, run
    <3> QED  BY <3>1, <3>2, <3>3, <3>4, <3>5, <3>6 DEF addsItsRun
  <2> QED  BY <2>2, <2>3, <2>4, <2>5 DEF Next, Step, Record, End, vars, validatorVars
<1> QED  BY <1>1, BookkeepingHolds, PTL DEF RunsAddUp, Spec

-----------------------------------------------------------------------------
(* What is recorded, or about to be, has been written by the machine.      *)
RecordedIsWritten ==
  machine = "running" =>
    /\ \A s \in layout.spillSlots : bytesOf(covered[s]) \subseteq written["dram"]
    /\ \A n \in DOMAIN recording : bytes(recording[n].run) \subseteq written["dram"]

(* A transfer that runs to its end writes every run of its result.         *)
LEMMA StoreWritesItsRuns ==
  ASSUME layout \in Layouts, NEW i \in Instructions, Accept(i), Execute(i), machine' = "running",
         NEW n \in DOMAIN runsToRecord(i)
  PROVE  bytes(runsToRecord(i)[n].run) \subseteq written'["dram"]
<1> DEFINE r == resultOf(i)
<1>1. accepts(i) /\ hasResult(i.opcode) /\ r.space = "dram"
        /\ n \in 1..runCount(r) /\ runsToRecord(i)[n].run = byteRuns(r)[n]
  BY Recorded DEF Accept
<1>2. r \in Access /\ r.address \in Nat /\ r.space = resultSpace(i.opcode)
  BY <1>1, AcceptedResult
<1>3. i.opcode = "DMA_STORE"
  BY <1>1, <1>2 DEF resultSpace
<1>4. isTransfer(i) /\ walkedShape(i) = r.shape
  BY <1>3 DEF isTransfer, walkedShape
<1>5. /\ moved(i) = walk(i)
      /\ written' = [s \in Space |->
                       written[s] \cup {b[2] : b \in {c \in touchedBytes(i) : c[1] = s}}]
  BY <1>1 DEF Execute
<1>6. ASSUME NEW x \in bytes(byteRuns(r)[n]) PROVE x \in written'["dram"]
  <2>1. PICK p \in 0 .. (r.shape[1] * r.shape[2] - 1) : x = elementAt(r, r.shape, p)
    BY <1>1, <1>2, <1>6, RunsAreElements
  <2>2. p \in moved(i)
    BY <1>4, <1>5, <2>1 DEF walk
  <2>3. writtenBy(i, p) = <<"dram", x>>
    BY <1>1, <1>4, <2>1 DEF writtenBy
  <2>4. <<"dram", x>> \in touchedBytes(i)
    BY <2>2, <2>3 DEF touchedBytes
  <2>5. written'["dram"] = written["dram"] \cup {b[2] : b \in {c \in touchedBytes(i) : c[1] = "dram"}}
    BY <1>5 DEF Space
  <2> QED  BY <2>4, <2>5
<1> QED  BY <1>1, <1>6

LEMMA RecordedIsWrittenKept ==
  Bookkeeping /\ RecordedIsWritten /\ [Next]_vars => RecordedIsWritten'
<1> SUFFICES ASSUME Bookkeeping, RecordedIsWritten, [Next]_vars PROVE RecordedIsWritten'
  OBVIOUS
<1>1. CASE Load
  <2>1. /\ UNCHANGED <<layout, covered, recording>>
        /\ recording = << >> /\ \A s \in layout.spillSlots : covered[s] = {}
    BY <1>1 DEF Load, CheckRegions, Bookkeeping
  <2> QED  BY <2>1 DEF RecordedIsWritten, bytesOf
<1>2. ASSUME NEW i \in Instructions, Accept(i), Execute(i) PROVE RecordedIsWritten'
  <2> SUFFICES ASSUME machine' = "running"
               PROVE  /\ \A s \in layout'.spillSlots : bytesOf(covered'[s]) \subseteq written'["dram"]
                      /\ \A n \in DOMAIN recording' : bytes(recording'[n].run) \subseteq written'["dram"]
    BY DEF RecordedIsWritten
  <2>1. UNCHANGED <<layout, covered>> /\ recording' = runsToRecord(i)
    BY <1>2 DEF Accept
  <2>2. written["dram"] \subseteq written'["dram"]
    <3>1. \/ UNCHANGED written
          \/ written' = [s \in Space |->
                           written[s] \cup {b[2] : b \in {c \in touchedBytes(i) : c[1] = s}}]
      BY <1>2 DEF Execute
    <3> QED  BY <3>1 DEF Space
  <2>3. machine = "running"
    BY <1>2 DEF Execute
  <2>4. \A n \in DOMAIN runsToRecord(i) : bytes(runsToRecord(i)[n].run) \subseteq written'["dram"]
    BY <1>2, StoreWritesItsRuns DEF Bookkeeping
  <2> QED  BY <2>1, <2>2, <2>3, <2>4 DEF RecordedIsWritten
<1>3. ASSUME NEW i \in Instructions, Refuse(i), UNCHANGED <<written, machine>>
      PROVE  RecordedIsWritten'
  BY <1>3 DEF Refuse, RecordedIsWritten
<1>4. CASE End
  BY <1>4 DEF End, Finish, RecordedIsWritten
<1>5. CASE Record
  <2> SUFFICES ASSUME machine' = "running"
               PROVE  /\ \A s \in layout'.spillSlots : bytesOf(covered'[s]) \subseteq written'["dram"]
                      /\ \A n \in DOMAIN recording' : bytes(recording'[n].run) \subseteq written'["dram"]
    BY DEF RecordedIsWritten
  <2> DEFINE t == Head(recording).slot
             run == Head(recording).run
  <2>1. /\ UNCHANGED <<layout, written, machine>> /\ recording' = Tail(recording)
        /\ recording # << >> /\ recording \in Seq(PendingRun)
    BY <1>5 DEF Record, RecordRun, Bookkeeping
  <2>2. /\ Head(recording) \in PendingRun /\ 1 \in DOMAIN recording
        /\ Head(recording) = recording[1]
        /\ \A n \in DOMAIN Tail(recording) :
             n + 1 \in DOMAIN recording /\ Tail(recording)[n] = recording[n + 1]
    BY <2>1, HeadAndTail
  <2>3. t \in layout.spillSlots /\ run \in Interval
    BY <2>2 DEF PendingRun
  <2>4. /\ \A s \in layout.spillSlots : bytesOf(covered[s]) \subseteq written["dram"]
        /\ bytes(run) \subseteq written["dram"]
        /\ \A n \in DOMAIN Tail(recording) : bytes(Tail(recording)[n].run) \subseteq written["dram"]
    BY <2>1, <2>2 DEF RecordedIsWritten
  <2>5. \/ UNCHANGED covered
        \/ covered' = [covered EXCEPT ![t] = {}]
        \/ covered' = [covered EXCEPT ![t] = cover(covered[t], run.begin, run.end)]
    BY <1>5 DEF Record, RecordRun
  <2>6. bytesOf(cover(covered[t], run.begin, run.end)) = bytesOf(covered[t]) \cup bytes(run)
    <3>1. covered[t] \in SUBSET Interval /\ Separated(covered[t])
      BY <2>3 DEF Bookkeeping
    <3>2. run.begin \in Nat /\ run.end \in Nat /\ run.begin < run.end
      BY <2>3 DEF Interval
    <3> QED  BY <3>1, <3>2, CoverAddsTheRun DEF bytes
  <2>7. bytesOf({}) = {}
    BY DEF bytesOf
  <2>8. covered \in [layout.spillSlots -> SUBSET Interval]
    BY DEF Bookkeeping
  <2> HIDE DEF t, run
  <2> QED  BY <2>1, <2>3, <2>4, <2>5, <2>6, <2>7, <2>8
<1>6. CASE UNCHANGED vars
  BY <1>6 DEF vars, validatorVars, RecordedIsWritten
<1> QED  BY <1>1, <1>2, <1>3, <1>4, <1>5, <1>6 DEF Next, Step

(* No read the validator accepts inside a spill slot touches a byte the    *)
(* machine has not written (ISA check 8, Validation.cpp).                  *)
THEOREM SlotReadsHold == Spec => []SlotReadsAreWritten
<1>1. Start => RecordedIsWritten
  BY DEF Start, Init, RecordedIsWritten, bytesOf
<1>2. Bookkeeping /\ RecordedIsWritten => SlotReadsAreWritten
  <2> SUFFICES ASSUME Bookkeeping, RecordedIsWritten, machine = "running",
                      NEW i \in Instructions, accepts(i), NEW n \in DOMAIN i.operands,
                      judgingSlot(i.operands[n]) # {}
               PROVE  bytesRead(i.operands[n]) \subseteq written["dram"]
    BY DEF SlotReadsAreWritten
  <2> DEFINE a == i.operands[n]
  <2>1. a \in Access
    <3>1. i.operands \in Seq(Access)
      BY InstructionsAssumption DEF Instruction
    <3> QED  BY <3>1, ElementOfSeq
  <2>2. readable(a)
    BY DEF accepts, operandsHold
  <2>3. PICK s \in judgingSlot(a) : TRUE
    OBVIOUS
  <2>4. readableInSlot(s, a)
    BY <2>2, <2>3 DEF readable
  <2>5. /\ layout \in Layouts /\ s \in layout.spillSlots /\ a.address \in Nat
        /\ covered[s] \in SUBSET Interval /\ Separated(covered[s])
    BY <2>1, <2>3, JudgingSlots DEF Bookkeeping
  <2>6. ASSUME NEW m \in DOMAIN byteRuns(a)
        PROVE  bytes(byteRuns(a)[m]) \subseteq bytesOf(covered[s])
    <3>1. m \in 1..runCount(a)
      BY <2>6 DEF byteRuns
    <3>2. byteRuns(a)[m] \in Interval
      BY <2>1, <2>5, <3>1, RunsAreIntervals
    <3>3. /\ byteRuns(a)[m].begin \in Nat /\ byteRuns(a)[m].end \in Nat
          /\ byteRuns(a)[m].begin < byteRuns(a)[m].end
      BY <3>2 DEF Interval
    <3>4. covers(covered[s], byteRuns(a)[m].begin, byteRuns(a)[m].end)
      BY <2>4, <2>6 DEF readableInSlot
    <3> QED  BY <2>5, <3>3, <3>4, CoversIsExact DEF bytes
  <2>7. bytesOf(covered[s]) \subseteq written["dram"]
    BY <2>5 DEF RecordedIsWritten
  <2> QED  BY <2>6, <2>7 DEF bytesRead
<1> QED  BY <1>1, <1>2, RecordedIsWrittenKept, BookkeepingHolds, PTL DEF Spec

-----------------------------------------------------------------------------
(* Every byte a kernel writes is an address of its memory.                 *)
LEMMA TouchedInMemory ==
  ASSUME NEW i \in Instructions, accepts(i), hasResult(i.opcode), NEW b \in touchedBytes(i)
  PROVE  b[2] \in 0 .. memorySize(b[1]) - 1
<1> DEFINE r == resultOf(i)
<1>1. PICK p \in moved(i) : b = writtenBy(i, p)
  BY DEF touchedBytes
<1>2. p \in walk(i) /\ inMemory(b)
  <2>1. p \in walk(i) /\ \A q \in 0..p : \A c \in readBy(i, q) \cup {writtenBy(i, q)} : inMemory(c)
    BY <1>1 DEF moved
  <2>2. p \in 0..p
    BY <2>1 DEF walk
  <2> QED  BY <1>1, <2>1, <2>2
<1>3. p \in Nat
  BY <1>2 DEF walk
<1>4. r \in Access /\ r.address \in Nat
  BY AcceptedResult
<1>5. /\ r.shape[2] \in Nat \ {0} /\ r.strides[1] \in Nat /\ r.strides[2] \in Nat
  BY <1>4 DEF Access
<1>6. p \div r.shape[2] \in Nat /\ p % r.shape[2] \in Nat
  BY <1>3, <1>5, Quotient
<1>7. /\ (p \div r.shape[2]) * r.strides[1] \in Nat
      /\ (p % r.shape[2]) * r.strides[2] \in Nat
  BY <1>5, <1>6
<1>8. elementAt(r, r.shape, p) \in Int /\ r.address + p \in Int
  BY <1>3, <1>4, <1>7 DEF elementAt
<1>9. b[2] \in Int
  BY <1>1, <1>8 DEF writtenBy
<1>10. memorySize(b[1]) \in Nat
  BY MemoryAssumption DEF memorySize
<1> QED  BY <1>2, <1>9, <1>10 DEF inMemory

(* The types of the validator and the machine (Program::validate and       *)
(* Simulator::execute), one map entry per address included.                *)
THEOREM ValidationTypeCorrect == Spec => []TypeOK
<1> DEFINE MachineOK ==
             /\ DOMAIN written = Space
             /\ \A s \in Space : written[s] \subseteq 0 .. memorySize(s) - 1
             /\ machine \in {"running", "halted", "trapped"}
<1>1. Start => MachineOK
  BY DEF Start
<1>2. Bookkeeping /\ MachineOK /\ [Next]_vars => MachineOK'
  <2> SUFFICES ASSUME Bookkeeping, MachineOK, [Next]_vars PROVE MachineOK'
    OBVIOUS
  <2>1. CASE UNCHANGED <<written, machine>>
    BY <2>1 DEF memorySize
  <2>2. CASE Load /\ regionsHold
    <3> DEFINE loaded == UNION {r.offset .. slotEnd(r) - 1 : r \in layout.inputs \cup layout.constants}
    <3>1. layout.inputs \cup layout.constants \subseteq regionsOf(layout)
      BY DEF regionsOf
    <3>2. \A r \in layout.inputs \cup layout.constants : r.offset .. slotEnd(r) - 1 \subseteq 0 .. DramBytes - 1
      BY <2>2, <3>1, Regions, MemoryAssumption DEF regionsHold, fitsInMemory, Bookkeeping, slotEnd
    <3>3. loaded \subseteq 0 .. memorySize("dram") - 1
      BY <3>2 DEF memorySize
    <3>4. written' = [written EXCEPT !["dram"] = loaded] /\ machine' = machine
      BY <2>2 DEF Load
    <3> HIDE DEF loaded
    <3> QED  BY <3>3, <3>4 DEF memorySize
  <2>3. CASE Load /\ ~regionsHold
    BY <2>1, <2>3 DEF Load
  <2>4. ASSUME NEW i \in Instructions, Accept(i), Execute(i) PROVE MachineOK'
    <3>1. CASE machine # "running" \/ ~hasResult(i.opcode)
      BY <2>4, <3>1 DEF Execute, memorySize
    <3>2. CASE machine = "running" /\ hasResult(i.opcode)
      <4>1. /\ written' = [s \in Space |->
                 written[s] \cup {b[2] : b \in {c \in touchedBytes(i) : c[1] = s}}]
            /\ machine' \in {"running", "halted", "trapped"}
        BY <2>4, <3>2 DEF Execute
      <4>2. \A s \in Space : {b[2] : b \in {c \in touchedBytes(i) : c[1] = s}}
                               \subseteq 0 .. memorySize(s) - 1
        BY <2>4, <3>2, TouchedInMemory DEF Accept
      <4> QED  BY <4>1, <4>2 DEF memorySize
    <3> QED  BY <3>1, <3>2
  <2> QED  BY <2>1, <2>2, <2>3, <2>4 DEF Next, Step, Record, End, vars
<1>3. Bookkeeping /\ MachineOK => TypeOK
  <2> SUFFICES ASSUME Bookkeeping, MachineOK PROVE TypeOK
    OBVIOUS
  <2>1. \A s \in layout.spillSlots : oneEntryPerBegin(covered[s])
    <3> SUFFICES ASSUME NEW s \in layout.spillSlots, NEW e \in covered[s], NEW f \in covered[s],
                        e.begin = f.begin
                 PROVE  e = f
      BY DEF oneEntryPerBegin
    <3>1. e \in Interval /\ f \in Interval /\ (e = f \/ apart(e, f))
      BY DEF Bookkeeping, Separated
    <3> QED  BY <3>1 DEF Interval, apart
  <2> QED  BY <2>1 DEF Bookkeeping, TypeOK, PendingRun
<1> QED  BY <1>1, <1>2, <1>3, BookkeepingHolds, PTL DEF Spec

-----------------------------------------------------------------------------
(* The arithmetic of a view: rows and columns of a position.               *)
LEMMA Position ==
  ASSUME NEW rows \in Nat \ {0}, NEW columns \in Nat \ {0},
         NEW p \in 0 .. rows * columns - 1
  PROVE  /\ p \div columns \in 0 .. rows - 1
         /\ p % columns \in 0 .. columns - 1
         /\ p = (p \div columns) * columns + (p % columns)
<1> DEFINE q == p \div columns
           c == p % columns
<1>1. rows * columns \in Nat /\ p \in Nat /\ p < rows * columns
  OBVIOUS
<1>2. q \in Nat /\ c \in 0 .. columns - 1 /\ p = q * columns + c
  BY <1>1
<1> HIDE DEF q, c
<1>3. q * columns < rows * columns
  BY <1>1, <1>2
<1>4. ~(q >= rows)
  <2> SUFFICES ASSUME q >= rows PROVE FALSE
    OBVIOUS
  <2>1. q * columns >= rows * columns
    BY <1>2
  <2> QED  BY <1>1, <1>2, <1>3, <2>1
<1>5. q \in 0 .. rows - 1
  BY <1>2, <1>4
<1> QED  BY <1>2, <1>5 DEF q, c

(* An element of a view lies in the view's hull.                           *)
LEMMA ElementInHull ==
  ASSUME NEW a \in Access, NEW p \in 0 .. a.shape[1] * a.shape[2] - 1
  PROVE  /\ elementAt(a, a.shape, p) \in Int
         /\ a.address <= elementAt(a, a.shape, p)
         /\ elementAt(a, a.shape, p) < a.address + addressedByteSpan(a)
         /\ addressedByteSpan(a) \in Nat
<1> DEFINE q == p \div a.shape[2]
           c == p % a.shape[2]
           s1 == a.strides[1]
           s2 == a.strides[2]
           rows == a.shape[1]
           columns == a.shape[2]
<1>1. /\ rows \in Nat \ {0} /\ columns \in Nat \ {0} /\ s1 \in Nat /\ s2 \in Nat
      /\ a.address \in Int
  BY DEF Access
<1>2. q \in 0 .. rows - 1 /\ c \in 0 .. columns - 1
  <2> HIDE DEF rows, columns
  <2>1. p \in 0 .. rows * columns - 1
    BY DEF rows, columns
  <2>2. p \div columns \in 0 .. rows - 1 /\ p % columns \in 0 .. columns - 1
    BY <1>1, <2>1, Position
  <2> QED  BY <2>2 DEF columns
<1>3. elementAt(a, a.shape, p) = a.address + q * s1 + c * s2
  BY DEF elementAt
<1>4. addressedByteSpan(a) = 1 + (rows - 1) * s1 + (columns - 1) * s2
  BY DEF addressedByteSpan
<1> HIDE DEF q, c, s1, s2, rows, columns
<1>5. q * s1 \in Nat /\ q * s1 <= (rows - 1) * s1
  BY <1>1, <1>2
<1>6. c * s2 \in Nat /\ c * s2 <= (columns - 1) * s2
  BY <1>1, <1>2
<1>7. (rows - 1) * s1 \in Nat /\ (columns - 1) * s2 \in Nat
  BY <1>1
<1> QED  BY <1>1, <1>3, <1>4, <1>5, <1>6, <1>7

(* In a dense view the elements follow one another.                        *)
LEMMA DenseElements ==
  ASSUME NEW a \in Access, contiguous(a)
  PROVE  /\ elementCount(a) \in Nat \ {0}
         /\ addressedByteSpan(a) = elementCount(a)
         /\ \A p \in 0 .. elementCount(a) - 1 : elementAt(a, a.shape, p) = a.address + p
<1> DEFINE rows == a.shape[1]
           columns == a.shape[2]
<1>1. rows \in Nat \ {0} /\ columns \in Nat \ {0} /\ a.address \in Int
  BY DEF Access
<1>2. a.strides[1] = columns /\ a.strides[2] = 1
  BY DEF contiguous
<1>3. elementCount(a) = rows * columns
  BY DEF elementCount
<1>4. addressedByteSpan(a) = 1 + (rows - 1) * columns + (columns - 1) * 1
  BY <1>2 DEF addressedByteSpan
<1>5. \A p : elementAt(a, a.shape, p) = a.address + (p \div columns) * columns + (p % columns) * 1
  BY <1>2 DEF elementAt
<1> HIDE DEF rows, columns
<1>6. rows * columns \in Nat \ {0}
  BY <1>1
<1>7. (rows - 1) * columns = rows * columns - columns
  BY <1>1
<1>8. ASSUME NEW p \in 0 .. elementCount(a) - 1
      PROVE  elementAt(a, a.shape, p) = a.address + p
  <2>1. p \in 0 .. rows * columns - 1
    BY <1>3
  <2>2. /\ p \div columns \in 0 .. rows - 1 /\ p % columns \in 0 .. columns - 1
        /\ p = (p \div columns) * columns + (p % columns)
    BY <1>1, <2>1, Position
  <2> DEFINE t == (p \div columns) * columns
             c == p % columns
  <2>3. t \in Int /\ c \in Int
    BY <1>1, <2>2
  <2>4. elementAt(a, a.shape, p) = a.address + t + c * 1 /\ p = t + c
    BY <1>5, <2>2
  <2> HIDE DEF t, c
  <2> QED  BY <1>1, <2>3, <2>4
<1> QED  BY <1>1, <1>3, <1>4, <1>6, <1>7, <1>8

(* Every element of a view is a byte of one of its runs.                   *)
LEMMA ElementsAreRead ==
  ASSUME NEW a \in Access, NEW p \in 0 .. a.shape[1] * a.shape[2] - 1
  PROVE  elementAt(a, a.shape, p) \in bytesRead(a)
<1> DEFINE q == p \div a.shape[2]
           c == p % a.shape[2]
           rows == a.shape[1]
           columns == a.shape[2]
           x == elementAt(a, a.shape, p)
<1>1. /\ rows \in Nat \ {0} /\ columns \in Nat \ {0}
      /\ a.strides[1] \in Nat /\ a.strides[2] \in Nat /\ a.address \in Int
  BY DEF Access
<1>2. q \in 0 .. rows - 1 /\ c \in 0 .. columns - 1
  <2> HIDE DEF rows, columns
  <2>1. p \in 0 .. rows * columns - 1
    BY DEF rows, columns
  <2>2. p \div columns \in 0 .. rows - 1 /\ p % columns \in 0 .. columns - 1
    BY <1>1, <2>1, Position
  <2> QED  BY <2>2 DEF columns
<1>3. x = a.address + q * a.strides[1] + c * a.strides[2]
  BY DEF elementAt
<1>4. CASE innermostIsContiguous(a)
  <2>1. q + 1 \in 1..runCount(a) /\ (q + 1) - 1 = q
    BY <1>1, <1>2, <1>4 DEF runCount
  <2>2. byteRuns(a)[q + 1] = [begin |-> runBegin(a, q), end |-> runBegin(a, q) + columns]
    <3> HIDE DEF q
    <3> QED  BY <1>4, <2>1 DEF byteRuns
  <2>3. runBegin(a, q) = a.address + q * a.strides[1]
    BY <1>4 DEF runBegin
  <2>4. q * a.strides[1] \in Int
    <3> HIDE DEF q
    <3> QED  BY <1>1, <1>2
  <2>5. x = runBegin(a, q) + c
    <3>1. a.strides[2] = 1
      BY <1>4 DEF innermostIsContiguous
    <3> HIDE DEF q, c, x
    <3> QED  BY <1>1, <1>2, <1>3, <2>3, <2>4, <3>1
  <2>6. x \in bytes(byteRuns(a)[q + 1])
    <3>1. bytes(byteRuns(a)[q + 1]) = runBegin(a, q) .. runBegin(a, q) + columns - 1
      <4> HIDE DEF q, columns
      <4>1. /\ byteRuns(a)[q + 1].begin = runBegin(a, q)
            /\ byteRuns(a)[q + 1].end = runBegin(a, q) + columns
        BY <2>2
      <4>2. bytes(byteRuns(a)[q + 1]) = byteRuns(a)[q + 1].begin .. byteRuns(a)[q + 1].end - 1
        BY DEF bytes
      <4>3. runBegin(a, q) \in Int /\ columns \in Int
        BY <1>1, <2>3, <2>4
      <4> QED  BY <4>1, <4>2, <4>3
    <3>2. runBegin(a, q) \in Int
      BY <1>1, <2>3, <2>4
    <3> HIDE DEF q, c, x, columns
    <3> QED  BY <1>1, <1>2, <2>5, <3>1, <3>2
  <2>7. q + 1 \in DOMAIN byteRuns(a)
    BY <2>1 DEF byteRuns
  <2> QED  BY <2>6, <2>7 DEF bytesRead
<1>5. CASE ~innermostIsContiguous(a)
  <2>1. p + 1 \in 1..runCount(a) /\ (p + 1) - 1 = p
    <3>1. rows * columns \in Nat
      BY <1>1
    <3> QED  BY <1>5, <3>1 DEF runCount, elementCount
  <2>2. byteRuns(a)[p + 1] = [begin |-> runBegin(a, p), end |-> runBegin(a, p) + 1]
    BY <1>5, <2>1 DEF byteRuns
  <2>3. runBegin(a, p) = a.address + (q * a.strides[1] + c * a.strides[2])
    BY <1>5 DEF runBegin
  <2>4. q * a.strides[1] \in Int /\ c * a.strides[2] \in Int
    <3> HIDE DEF q, c
    <3> QED  BY <1>1, <1>2
  <2>5. x = runBegin(a, p) /\ x \in Int
    <3> HIDE DEF q, c, x
    <3> QED  BY <1>1, <1>3, <2>3, <2>4
  <2>6. x \in bytes(byteRuns(a)[p + 1])
    <3> HIDE DEF x
    <3> QED  BY <2>2, <2>5 DEF bytes
  <2>7. p + 1 \in DOMAIN byteRuns(a)
    BY <2>1 DEF byteRuns
  <2> QED  BY <2>6, <2>7 DEF bytesRead
<1> QED  BY <1>4, <1>5

-----------------------------------------------------------------------------
(* What a compiled, accepted instruction walks, reads and writes.          *)
LEMMA AcceptedOperand ==
  ASSUME AsCompiled, NEW i \in Instructions, accepts(i), NEW n \in DOMAIN i.operands
  PROVE  /\ i.operands[n] \in Access
         /\ i.operands[n].shape = walkedShape(i)
         /\ i.operands[n].space = operandSpace(i.opcode)
         /\ inRange(i.operands[n])
         /\ readable(i.operands[n])
<1>1. i.operands \in Seq(Access)
  BY InstructionsAssumption DEF Instruction
<1>2. i.operands[n] \in Access
  BY <1>1, ElementOfSeq
<1>3. i.operands[n].shape = walkedShape(i)
  BY DEF AsCompiled
<1> QED  BY <1>2, <1>3 DEF accepts, operandsHold

LEMMA WalkCountsTheResult ==
  ASSUME AsCompiled, NEW i \in Instructions, accepts(i), hasResult(i.opcode)
  PROVE  walk(i) = 0 .. elementCount(resultOf(i)) - 1
<1>1. resultOf(i) \in i.result
  <2>1. i.result # {}
    BY DEF accepts, resultHolds
  <2> QED  BY <2>1 DEF resultOf
<1>2. CASE i.opcode = "RESHAPE"
  <2>1. elementCount(resultOf(i)) = elementCount(i.operands[1])
    BY <1>1, <1>2 DEF accepts, fieldsHold
  <2> QED  BY <1>2, <2>1 DEF walk, walkedShape, elementCount
<1>3. CASE i.opcode # "RESHAPE"
  BY <1>3 DEF walk, walkedShape, elementCount
<1> QED  BY <1>2, <1>3

(* Only a store may leave its result strided, and then in DRAM.            *)
LEMMA ResultPlace ==
  ASSUME AsCompiled, layout \in Layouts, NEW i \in Instructions, accepts(i), hasResult(i.opcode)
  PROVE  LET r == resultOf(i)
         IN  /\ inRange(r)
             /\ contiguous(r) \/ (/\ i.opcode = "DMA_STORE" /\ r.space = "dram"
                                  /\ \E region \in layout.spillSlots \cup layout.outputs :
                                       roomFor(region, r))
<1> DEFINE r == resultOf(i)
<1>1. r \in i.result /\ r \in Access /\ r.space = resultSpace(i.opcode)
  <2>1. i.result # {}
    BY DEF accepts, resultHolds
  <2> QED  BY <2>1, AcceptedResult DEF resultOf
<1>2. inRange(r)
  BY <1>1 DEF accepts, resultHolds
<1>3. ASSUME ~contiguous(r)
      PROVE  /\ i.opcode = "DMA_STORE" /\ r.space = "dram"
             /\ \E region \in layout.spillSlots \cup layout.outputs : roomFor(region, r)
  <2> HIDE DEF r
  <2>1. /\ r.space = "dram"
        /\ fitsInMemory(r.address, addressedByteSpan(r), DramBytes) =>
             \A l \in Layouts : \E region \in l.spillSlots \cup l.outputs : roomFor(region, r)
    BY <1>1, <1>3 DEF AsCompiled
  <2>2. fitsInMemory(r.address, addressedByteSpan(r), DramBytes)
    BY <1>2, <2>1 DEF inRange, memorySize
  <2>3. i.opcode = "DMA_STORE"
    BY <1>1, <2>1 DEF resultSpace
  <2> QED  BY <2>1, <2>2, <2>3
<1> QED  BY <1>2, <1>3

LEMMA WrittenPlace ==
  ASSUME AsCompiled, layout \in Layouts, NEW i \in Instructions, accepts(i), hasResult(i.opcode),
         NEW p \in walk(i)
  PROVE  /\ inMemory(writtenBy(i, p))
         /\ contiguous(resultOf(i)) =>
              writtenBy(i, p) = <<resultOf(i).space, resultOf(i).address + p>>
<1> DEFINE r == resultOf(i)
<1>1. r \in Access /\ r.address \in Nat
  BY AcceptedResult
<1>2. p \in 0 .. elementCount(r) - 1 /\ p \in 0 .. r.shape[1] * r.shape[2] - 1
  BY WalkCountsTheResult DEF elementCount
<1>3. /\ inRange(r)
      /\ contiguous(r) \/ i.opcode = "DMA_STORE"
  BY ResultPlace
<1> HIDE DEF r
<1>4. /\ elementAt(r, r.shape, p) \in Int
      /\ r.address <= elementAt(r, r.shape, p)
      /\ elementAt(r, r.shape, p) < r.address + addressedByteSpan(r)
      /\ addressedByteSpan(r) \in Nat
  BY <1>1, <1>2, ElementInHull
<1>5. r.address + addressedByteSpan(r) <= memorySize(r.space) /\ memorySize(r.space) \in Nat
  BY <1>3, MemoryAssumption DEF inRange, fitsInMemory, memorySize
<1>6. inMemory(<<r.space, elementAt(r, r.shape, p)>>)
  BY <1>1, <1>4, <1>5 DEF inMemory
<1>7. contiguous(r) => elementAt(r, r.shape, p) = r.address + p
  BY <1>1, <1>2, DenseElements
<1>8. writtenBy(i, p) = <<r.space, IF isTransfer(i) THEN elementAt(r, r.shape, p) ELSE r.address + p>>
  BY DEF writtenBy, r
<1>9. isTransfer(i) \/ contiguous(r)
  BY <1>3 DEF isTransfer
<1> QED  BY <1>6, <1>7, <1>8, <1>9 DEF r

LEMMA ReadPlace ==
  ASSUME AsCompiled, NEW i \in Instructions, accepts(i), NEW n \in DOMAIN i.operands, NEW p \in walk(i)
  PROVE  inMemory(<<i.operands[n].space, elementAt(i.operands[n], walkedShape(i), p)>>)
<1> DEFINE a == i.operands[n]
<1>1. a \in Access /\ a.shape = walkedShape(i) /\ inRange(a)
  BY AcceptedOperand
<1>2. p \in 0 .. a.shape[1] * a.shape[2] - 1
  BY <1>1 DEF walk
<1> HIDE DEF a
<1>3. /\ elementAt(a, a.shape, p) \in Int
      /\ a.address <= elementAt(a, a.shape, p)
      /\ elementAt(a, a.shape, p) < a.address + addressedByteSpan(a)
      /\ addressedByteSpan(a) \in Nat
  BY <1>1, <1>2, ElementInHull
<1>4. /\ 0 <= a.address /\ a.address + addressedByteSpan(a) <= memorySize(a.space)
      /\ memorySize(a.space) \in Nat /\ a.address \in Int
  BY <1>1, MemoryAssumption DEF inRange, fitsInMemory, memorySize, Access
<1>5. inMemory(<<a.space, elementAt(a, a.shape, p)>>)
  BY <1>3, <1>4 DEF inMemory
<1> QED  BY <1>1, <1>5 DEF a

LEMMA KernelRunsToItsEnd ==
  ASSUME AsCompiled, layout \in Layouts, NEW i \in Instructions, accepts(i), hasResult(i.opcode)
  PROVE  kernelRuns(i) /\ moved(i) = walk(i)
<1>1. kernelRuns(i)
  <2> SUFFICES ASSUME isTransfer(i) PROVE i.operands[1].shape = resultOf(i).shape
    BY DEF kernelRuns
  <2>1. i.opcode \in {"DMA_LOAD", "DMA_STORE"}
    BY DEF isTransfer
  <2>2. Len(i.operands) = 1
    BY <2>1 DEF accepts, operandsHold, arity, hasResult
  <2>3. 1 \in DOMAIN i.operands
    <3>1. i.operands \in Seq(Access)
      BY InstructionsAssumption DEF Instruction
    <3> QED  BY <2>2, <3>1
  <2>4. i.operands[1].shape = walkedShape(i)
    BY <2>3, AcceptedOperand
  <2> QED  BY <2>1, <2>4 DEF walkedShape
<1>2. \A p \in walk(i) : \A b \in readBy(i, p) \cup {writtenBy(i, p)} : inMemory(b)
  <2> SUFFICES ASSUME NEW p \in walk(i), NEW b \in readBy(i, p) \cup {writtenBy(i, p)}
               PROVE  inMemory(b)
    OBVIOUS
  <2>1. CASE b = writtenBy(i, p)
    BY <2>1, WrittenPlace
  <2>2. CASE b \in readBy(i, p)
    BY <2>2, ReadPlace DEF readBy
  <2> QED  BY <2>1, <2>2
<1>3. \A p \in walk(i) : \A q \in 0..p : q \in walk(i)
  <2>1. elementCount(resultOf(i)) \in Nat \ {0} /\ walk(i) = 0 .. elementCount(resultOf(i)) - 1
    BY AcceptedResult, WalkCountsTheResult
  <2> QED  BY <2>1
<1> DEFINE fits(p) == \A b \in readBy(i, p) \cup {writtenBy(i, p)} : inMemory(b)
<1>4. \A p \in walk(i) : fits(p)
  BY <1>2
<1>5. moved(i) = IF ~kernelRuns(i) \/ (wholeOrNothing(i) /\ \E p \in walk(i) : ~fits(p)) THEN {}
                 ELSE {p \in walk(i) : \A q \in 0..p : fits(q)}
  BY DEF moved
<1> HIDE DEF fits
<1> QED  BY <1>1, <1>3, <1>4, <1>5

-----------------------------------------------------------------------------
(* What the spans claim was written, or lies where a strided tile may be.  *)
isPlaceOfTiles(e) ==
  \E region \in layout.spillSlots \cup layout.outputs :
    region.offset <= e.begin /\ e.end <= slotEnd(region)

SpansAreWritten ==
  machine = "running" =>
    \A s \in Space : \A e \in defined[s] :
      bytes(e) \subseteq written[s] \/ (s = "dram" /\ isPlaceOfTiles(e))

CompiledRun == AsCompiled /\ NeverTraps /\ SpansAreWritten

LEMMA ResultIsWritten ==
  ASSUME AsCompiled, Bookkeeping, NEW i \in Instructions, Accept(i), Execute(i),
         hasResult(i.opcode), machine = "running"
  PROVE  LET r == resultOf(i)
             e == [begin |-> r.address, end |-> r.address + elementCount(r)]
         IN  bytes(e) \subseteq written'[r.space] \/ (r.space = "dram" /\ isPlaceOfTiles(e))
<1> DEFINE r == resultOf(i)
           e == [begin |-> r.address, end |-> r.address + elementCount(r)]
<1>1. accepts(i) /\ layout \in Layouts
  BY DEF Accept, Bookkeeping
<1>2. /\ r \in Access /\ r.address \in Nat /\ elementCount(r) \in Nat \ {0}
      /\ walk(i) = 0 .. elementCount(r) - 1
  BY <1>1, AcceptedResult, WalkCountsTheResult
<1>3. CASE contiguous(r)
  <2>1. moved(i) = walk(i)
    BY <1>1, KernelRunsToItsEnd
  <2>2. written' = [s \in Space |->
                      written[s] \cup {b[2] : b \in {c \in touchedBytes(i) : c[1] = s}}]
    BY DEF Execute
  <2>3. ASSUME NEW x \in bytes(e) PROVE x \in written'[r.space]
    <3>1. bytes(e) = r.address .. r.address + elementCount(r) - 1
      <4>1. e.begin = r.address /\ e.end = r.address + elementCount(r)
        OBVIOUS
      <4> HIDE DEF r, e
      <4>2. bytes(e) = e.begin .. e.end - 1
        BY DEF bytes
      <4> QED  BY <1>2, <4>1, <4>2
    <3>2. x - r.address \in walk(i) /\ r.address + (x - r.address) = x
      <4> HIDE DEF r, e
      <4>1. x \in r.address .. r.address + elementCount(r) - 1
        BY <2>3, <3>1
      <4> QED  BY <1>2, <4>1
    <3>3. writtenBy(i, x - r.address) = <<r.space, r.address + (x - r.address)>>
      BY <1>1, <1>3, <3>2, WrittenPlace
    <3>4. <<r.space, x>> \in touchedBytes(i)
      BY <2>1, <3>2, <3>3 DEF touchedBytes
    <3>5. r.space \in Space
      BY <1>2 DEF Access
    <3> HIDE DEF r, e
    <3> QED  BY <2>2, <3>4, <3>5
  <2> QED  BY <2>3
<1>4. CASE ~contiguous(r)
  <2>1. /\ r.space = "dram"
        /\ \E region \in layout.spillSlots \cup layout.outputs : roomFor(region, r)
    BY <1>1, <1>4, ResultPlace
  <2> QED  BY <2>1 DEF isPlaceOfTiles, roomFor, holds
<1> QED  BY <1>3, <1>4

LEMMA CompiledRunKept == Bookkeeping /\ TypeOK /\ CompiledRun /\ [Next]_vars => CompiledRun'
<1> SUFFICES ASSUME Bookkeeping, TypeOK, CompiledRun, [Next]_vars PROVE CompiledRun'
  OBVIOUS
<1>1. AsCompiled'
  <2>1. AsCompiled
    BY DEF CompiledRun
  <2>2. AsCompiled' <=> AsCompiled
    BY DEF AsCompiled, holds, roomFor, slotEnd, walkedShape, resultOf, contiguous, fitsInMemory,
           addressedByteSpan, elementCount
  <2> QED  BY <2>1, <2>2
<1>2. AsCompiled /\ machine # "trapped" /\ SpansAreWritten /\ UNCHANGED layout
  <2>1. UNCHANGED layout
    BY DEF Next, Load, CheckRegions, Step, Accept, Refuse, Record, RecordRun, End, Finish, vars,
           validatorVars
  <2> QED  BY <2>1 DEF CompiledRun, NeverTraps
<1>3. \A e : isPlaceOfTiles(e)' <=> isPlaceOfTiles(e)
  BY <1>2 DEF isPlaceOfTiles, slotEnd
<1>4. CASE UNCHANGED <<defined, written, machine>>
  BY <1>1, <1>2, <1>3, <1>4 DEF CompiledRun, NeverTraps, SpansAreWritten, bytes
<1>5. CASE Load
  <2> DEFINE regions == layout.inputs \cup layout.constants
             entries == {[begin |-> q.offset, end |-> slotEnd(q)] : q \in regions}
             loaded == UNION {q.offset .. slotEnd(q) - 1 : q \in regions}
  <2>1. CASE ~regionsHold
    BY <1>4, <1>5, <2>1 DEF Load, CheckRegions
  <2>2. CASE regionsHold
    <3>1. /\ defined' = [defined EXCEPT !["dram"] = entries]
          /\ written' = [written EXCEPT !["dram"] = loaded]
          /\ UNCHANGED machine
      BY <1>5, <2>2 DEF Load, CheckRegions
    <3>2. \A e \in entries : bytes(e) \subseteq loaded
      <4> SUFFICES ASSUME NEW q \in regions
                   PROVE  bytes([begin |-> q.offset, end |-> slotEnd(q)]) \subseteq loaded
        OBVIOUS
      <4>1. bytes([begin |-> q.offset, end |-> slotEnd(q)]) = q.offset .. slotEnd(q) - 1
        <5>1. q \in regionsOf(layout) /\ layout \in Layouts
          BY DEF regionsOf, Bookkeeping
        <5>2. q.offset \in Nat /\ slotEnd(q) \in Nat
          BY <5>1, Regions
        <5> QED  BY <5>2 DEF bytes
      <4> QED  BY <4>1
    <3>3. DOMAIN written = Space /\ DOMAIN defined = Space
      BY DEF TypeOK
    <3> HIDE DEF entries, loaded
    <3>4. ASSUME machine' = "running", NEW s \in Space, NEW e \in defined'[s]
          PROVE  bytes(e) \subseteq written'[s] \/ (s = "dram" /\ isPlaceOfTiles(e))
      <4>1. CASE s = "dram"
        BY <3>1, <3>2, <3>3, <3>4, <4>1 DEF Space
      <4>2. CASE s # "dram"
        <5>1. defined'[s] = defined[s] /\ written'[s] = written[s] /\ machine = "running"
          BY <3>1, <3>3, <3>4, <4>2
        <5> QED  BY <1>2, <3>4, <5>1 DEF SpansAreWritten
      <4> QED  BY <4>1, <4>2
    <3>5. SpansAreWritten'
      BY <1>3, <3>4 DEF SpansAreWritten, bytes
    <3> QED  BY <1>1, <1>2, <3>1, <3>5 DEF CompiledRun, NeverTraps
  <2> QED  BY <2>1, <2>2
<1>6. ASSUME NEW i \in Instructions, Accept(i), Execute(i) PROVE CompiledRun'
  <2>1. accepts(i) /\ layout \in Layouts
    BY <1>6 DEF Accept, Bookkeeping
  <2>2. CASE machine # "running"
    BY <1>1, <1>2, <1>6, <2>2 DEF Execute, CompiledRun, NeverTraps, SpansAreWritten
  <2>3. CASE machine = "running" /\ ~hasResult(i.opcode)
    <3>1. UNCHANGED <<defined, written>> /\ machine' # "trapped"
      <4>1. defined' = [s \in Space |-> defined[s]]
        BY <1>6, <2>3 DEF Accept
      <4>2. defined = [s \in Space |-> defined[s]]
        BY DEF Bookkeeping
      <4> QED  BY <1>6, <2>3, <4>1, <4>2 DEF Execute
    <3>2. SpansAreWritten'
      BY <1>2, <1>3, <2>3, <3>1 DEF SpansAreWritten, bytes
    <3> QED  BY <1>1, <3>1, <3>2 DEF CompiledRun, NeverTraps
  <2>4. CASE machine = "running" /\ hasResult(i.opcode)
    <3> DEFINE r == resultOf(i)
               entry == [begin |-> r.address, end |-> r.address + elementCount(r)]
    <3>1. machine' = machine
      BY <1>2, <1>6, <2>1, <2>4, KernelRunsToItsEnd DEF Execute
    <3>2. /\ written' = [s \in Space |->
                written[s] \cup {b[2] : b \in {c \in touchedBytes(i) : c[1] = s}}]
          /\ defined' = [s \in Space |->
                IF r.space = s THEN write(defined[s], r.address, elementCount(r)) ELSE defined[s]]
      BY <1>6, <2>4 DEF Accept, Execute
    <3>3. \A s \in Space : written[s] \subseteq written'[s]
      BY <3>2
    <3>4. bytes(entry) \subseteq written'[r.space] \/ (r.space = "dram" /\ isPlaceOfTiles(entry))
      BY <1>2, <1>6, <2>4, ResultIsWritten
    <3>5. \A s \in Space : \A e \in defined'[s] : e \in defined[s] \/ (s = r.space /\ e = entry)
      BY <3>2 DEF write
    <3> HIDE DEF r, entry
    <3>6. ASSUME NEW s \in Space, NEW e \in defined'[s]
          PROVE  bytes(e) \subseteq written'[s] \/ (s = "dram" /\ isPlaceOfTiles(e))
      <4>1. CASE e \in defined[s]
        BY <1>2, <2>4, <3>3, <4>1 DEF SpansAreWritten
      <4>2. CASE s = r.space /\ e = entry
        BY <3>4, <4>2
      <4> QED  BY <3>5, <3>6, <4>1, <4>2
    <3>7. SpansAreWritten'
      BY <1>3, <3>6 DEF SpansAreWritten, bytes
    <3> QED  BY <1>1, <1>2, <3>1, <3>7 DEF CompiledRun, NeverTraps
  <2> QED  BY <2>2, <2>3, <2>4
<1>7. ASSUME NEW i \in Instructions, Refuse(i), UNCHANGED <<written, machine>> PROVE CompiledRun'
  BY <1>4, <1>7 DEF Refuse
<1>8. CASE Record \/ End
  BY <1>4, <1>8 DEF Record, RecordRun, End, Finish
<1>9. CASE UNCHANGED vars
  BY <1>4, <1>9 DEF vars, validatorVars
<1> QED  BY <1>5, <1>6, <1>7, <1>8, <1>9 DEF Next, Step

LEMMA CompiledRunHolds == AsCompiled /\ Spec => []CompiledRun
<1>1. AsCompiled /\ Start => CompiledRun
  BY DEF Start, Init, CompiledRun, NeverTraps, SpansAreWritten
<1> QED  BY <1>1, CompiledRunKept, BookkeepingHolds, ValidationTypeCorrect, PTL DEF Spec

(* A program as the lowering leaves it, once validated, runs to its HALT   *)
(* or its end without a trap (Kernels.cpp, Memory.cpp), whatever its       *)
(* length, its addresses and the size of the memories.                     *)
THEOREM CompiledProgramsNeverTrap == AsCompiled /\ Spec => []NeverTraps
<1>1. CompiledRun => NeverTraps
  BY DEF CompiledRun
<1> QED  BY <1>1, CompiledRunHolds, PTL

(* Every byte a kernel of such a program reads was put there before: by    *)
(* the loading of inputs and constants or by an earlier instruction (ISA   *)
(* checks 8 and 9, Validation.cpp).                                        *)
THEOREM CompiledReadsAreWritten == AsCompiled /\ Spec => []ReadsAreWritten
<1>1. Bookkeeping /\ CompiledRun /\ SlotReadsAreWritten => ReadsAreWritten
  <2> SUFFICES ASSUME Bookkeeping, CompiledRun, SlotReadsAreWritten,
                      outcome = "instructions", recording = << >>, machine = "running",
                      NEW i \in Instructions, accepts(i), hasResult(i.opcode),
                      NEW p \in walk(i), NEW n \in DOMAIN i.operands
               PROVE  elementAt(i.operands[n], walkedShape(i), p) \in written[i.operands[n].space]
    BY DEF ReadsAreWritten, readBy
  <2> DEFINE a == i.operands[n]
             x == elementAt(a, a.shape, p)
  <2>1. AsCompiled /\ SpansAreWritten /\ layout \in Layouts
    BY DEF CompiledRun, Bookkeeping
  <2>2. a \in Access /\ a.shape = walkedShape(i) /\ readable(a) /\ a.space \in Space
    BY <2>1, AcceptedOperand DEF Access
  <2>3. p \in 0 .. a.shape[1] * a.shape[2] - 1
    BY <2>2 DEF walk
  <2>4. CASE judgingSlot(a) # {}
    <3>1. a.space = "dram"
      BY <2>4 DEF judgingSlot
    <3>2. bytesRead(a) \subseteq written["dram"]
      BY <2>4 DEF SlotReadsAreWritten
    <3>3. x \in bytesRead(a)
      <4> HIDE DEF a
      <4> QED  BY <2>2, <2>3, ElementsAreRead
    <3> QED  BY <2>2, <3>1, <3>2, <3>3
  <2>5. CASE judgingSlot(a) = {}
    <3>1. readableInSpan(a)
      BY <2>2, <2>5 DEF readable
    <3>2. PICK e \in defined[a.space] :
            e.begin <= a.address /\ a.address < e.end /\ addressedByteSpan(a) <= e.end - a.address
      BY <3>1 DEF readableInSpan, spanEndAt, lastAtOrBelow
    <3>3. e \in Interval
      BY <2>2, <3>2 DEF Bookkeeping
    <3>4. x \in bytes(e)
      <4> HIDE DEF a
      <4>1. x \in Int /\ a.address <= x /\ x < a.address + addressedByteSpan(a)
              /\ addressedByteSpan(a) \in Nat /\ a.address \in Int
        BY <2>2, <2>3, ElementInHull DEF Access
      <4> QED  BY <3>2, <3>3, <4>1 DEF bytes, Interval
    <3>5. ASSUME a.space = "dram", isPlaceOfTiles(e) PROVE FALSE
      <4>1. PICK region \in layout.spillSlots \cup layout.outputs :
              region.offset <= e.begin /\ e.end <= slotEnd(region)
        BY <3>5 DEF isPlaceOfTiles
      <4>2. region \in regionsOf(layout)
        BY DEF regionsOf
      <4>3. region.offset \in Nat /\ slotEnd(region) \in Nat /\ a.address \in Int
        BY <2>1, <2>2, <4>2, Regions DEF Access
      <4>4. holds(region, a)
        <5> HIDE DEF a
        <5> QED  BY <3>2, <3>3, <4>1, <4>3 DEF holds, Interval
      <4>5. region \notin layout.outputs
        BY <2>1, <3>5, <4>4 DEF AsCompiled
      <4>6. region \in layout.spillSlots
        BY <4>5
      <4>7. \A t \in layout.spillSlots : t.offset <= a.address => t.offset <= region.offset
        <5> SUFFICES ASSUME NEW t \in layout.spillSlots, t.offset <= a.address
                     PROVE  t.offset <= region.offset
          OBVIOUS
        <5>1. t = region \/ slotEnd(t) <= region.offset \/ slotEnd(region) <= t.offset
          BY <2>1, <4>6 DEF AsCompiled
        <5>2. t.offset \in Nat /\ slotEnd(t) \in Nat /\ t.offset < slotEnd(t)
          BY <2>1, Regions
        <5> HIDE DEF a
        <5> QED  BY <4>3, <4>4, <5>1, <5>2 DEF holds
      <4>8. region \in slotAt(a.address)
        BY <4>4, <4>6, <4>7 DEF slotAt, holds
      <4> QED  BY <2>5, <3>5, <4>8 DEF judgingSlot
    <3>6. bytes(e) \subseteq written[a.space]
      BY <2>1, <2>2, <3>2, <3>5 DEF SpansAreWritten
    <3> QED  BY <2>2, <3>4, <3>6
  <2> QED  BY <2>4, <2>5
<1> QED  BY <1>1, BookkeepingHolds, CompiledRunHolds, SlotReadsHold, PTL
=============================================================================
