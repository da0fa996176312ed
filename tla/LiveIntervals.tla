---------------------------- MODULE LiveIntervals ----------------------------
(***************************************************************************)
(* The arithmetic of lib/Dialect/NPUISA/Transforms/ScratchpadAllocation.*: *)
(* live intervals, the order they are placed in and the pressure peak.     *)
(*                                                                         *)
(* An interval list is a function from indices to intervals; the indices   *)
(* are the ones assignOffsets returns its offsets under.                   *)
(***************************************************************************)
EXTENDS Integers, FiniteSets, FiniteSetsExt

(* A closed range of operation indices and a size in bytes. *)
LiveInterval ==
  {i \in [definition : Nat, lastUse : Nat, bytes : Nat] : i.definition <= i.lastUse}

Strategy == {"pack", "interval"}

span(i) == i.lastUse - i.definition + 1

(* The least multiple of a not below v: what the mask does for a power of  *)
(* two.                                                                    *)
alignUp(v, a) == a * ((v + a - 1) \div a)

HalfOpenOverlap(i, j) == i.definition < j.lastUse /\ j.definition < i.lastUse

(* Closed at both ends: ranges that touch at one index are live together.  *)
rangesOverlap(i, j) == i.definition <= j.lastUse /\ j.definition <= i.lastUse

(* The comparators of this file compare key after key, the first that      *)
(* differs deciding.                                                       *)
smallerKey(k, l) ==
  \E n \in DOMAIN k : k[n] < l[n] /\ \A m \in 1..(n - 1) : k[m] = l[m]

(***************************************************************************)
(* placementOrder: a lexicographic order on the keys of each strategy,     *)
(* with the index last because both sorts are stable.                      *)
(***************************************************************************)
PlacementKey(intervals, strategy, b) ==
  LET i == intervals[b]
  IN  IF strategy = "pack" THEN <<-i.bytes, -span(i), i.definition, b>>
                           ELSE <<i.definition, -i.bytes, -span(i), b>>

placedBefore(intervals, strategy, a, b) ==
  smallerKey(PlacementKey(intervals, strategy, a), PlacementKey(intervals, strategy, b))

(***************************************************************************)
(* sweepLinePeak: one event per end of a range, deaths first at an index,  *)
(* one walk that moves the peak only on a strictly greater running sum, so *)
(* to the first event that reaches the largest one.                        *)
(***************************************************************************)
birthOf(intervals, b) == [index |-> intervals[b].definition, birth |-> 1, of |-> b]
deathOf(intervals, b) == [index |-> intervals[b].lastUse + 1, birth |-> 0, of |-> b]

BirthsFirst(e, f) == smallerKey(<<e.index, -e.birth, e.of>>, <<f.index, -f.birth, f.of>>)

SweepBefore(e, f) == smallerKey(<<e.index, e.birth, e.of>>, <<f.index, f.birth, f.of>>)

(* The bytes of the chosen buffers.                                        *)
bytesOfAll(intervals, chosen) ==
  LET total[n \in 0..Cardinality(DOMAIN intervals)] ==
        IF n = 0 THEN 0
        ELSE total[n - 1] + (IF n \in chosen THEN intervals[n].bytes ELSE 0)
  IN  total[Cardinality(DOMAIN intervals)]

(* The running sum after event e.                                          *)
residentAfter(intervals, e) ==
  LET happened(f) == f = e \/ SweepBefore(f, e)
  IN  bytesOfAll(intervals, {b \in DOMAIN intervals : happened(birthOf(intervals, b))})
        - bytesOfAll(intervals, {b \in DOMAIN intervals : happened(deathOf(intervals, b))})

sweepLinePeak(intervals) ==
  LET events   == {birthOf(intervals, b) : b \in DOMAIN intervals}
                    \cup {deathOf(intervals, b) : b \in DOMAIN intervals}
      pressure == {[bytes |-> residentAfter(intervals, e), index |-> e.index] : e \in events}
      most     == Max({p.bytes : p \in pressure} \cup {0})
  IN  [bytes |-> most,
       index |-> IF most = 0 THEN 0 ELSE Min({p.index : p \in {q \in pressure : q.bytes = most}})]

(***************************************************************************)
(* bruteForcePeak: the resident bytes of every index, and the first index  *)
(* whose sum is the largest (zero when nothing is resident anywhere).      *)
(***************************************************************************)
liveAt(i, t) == i.definition <= t /\ t <= i.lastUse

residentAt(intervals, t) ==
  bytesOfAll(intervals, {b \in DOMAIN intervals : liveAt(intervals[b], t)})

bruteForcePeak(intervals) ==
  LET instants == UNION {intervals[b].definition .. intervals[b].lastUse : b \in DOMAIN intervals}
      pressure == {[bytes |-> residentAt(intervals, t), index |-> t] : t \in instants}
      most     == Max({p.bytes : p \in pressure} \cup {0})
  IN  [bytes |-> most,
       index |-> IF most = 0 THEN 0 ELSE Min({p.index : p \in {q \in pressure : q.bytes = most}})]

(***************************************************************************)
(* chooseSpillVictim: the best spillable candidate.  A candidate is        *)
(* [buffer, interval, spillable, usesAfterPeak]; ties go to the one listed *)
(* first, and they are listed by buffer.                                   *)
(***************************************************************************)
SpillHeuristic == {"longest-range", "cost"}

SpillKey(heuristic, c) ==
  LET i == c.interval
  IN  IF heuristic = "longest-range"
        THEN <<-span(i), -i.bytes, i.definition, c.buffer>>
        ELSE <<i.bytes * (1 + c.usesAfterPeak), -i.bytes, -span(i), i.definition, c.buffer>>

spillVictims(candidates, heuristic) ==
  LET spillable == {c \in candidates : c.spillable}
  IN  {c \in spillable : \A d \in spillable \ {c} :
         smallerKey(SpillKey(heuristic, c), SpillKey(heuristic, d))}
==============================================================================
