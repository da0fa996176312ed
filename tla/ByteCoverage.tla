---------------------------- MODULE ByteCoverage ----------------------------
(***************************************************************************)
(* The bookkeeping Program::validate() keeps about memory (Validation.cpp, *)
(* Program.cpp): what an access touches, the spans written so far and the  *)
(* exact coverage of a spill slot.  Elements are one byte, and an access   *)
(* is [space, address, shape, strides] of rank two.                        *)
(*                                                                         *)
(* A std::map from begin to end is the set of its entries [begin, end];    *)
(* an optional is a set of at most one element.                            *)
(***************************************************************************)
EXTENDS Integers, FiniteSets, FiniteSetsExt

Space == {"scratchpad", "dram"}

Interval == {i \in [begin : Nat, end : Nat] : i.begin < i.end}

Access ==
  [space : Space, address : Int, shape : (Nat \ {0}) \X (Nat \ {0}), strides : Nat \X Nat]

bytes(i) == i.begin .. i.end - 1
bytesOf(intervals) == UNION {bytes(i) : i \in intervals}

-----------------------------------------------------------------------------
(* What an access touches.                                                 *)
elementCount(a) == a.shape[1] * a.shape[2]

(* The closed hull, which the bound checks use.                            *)
addressedByteSpan(a) ==
  1 + (a.shape[1] - 1) * a.strides[1] + (a.shape[2] - 1) * a.strides[2]

fitsInMemory(address, span, size) == 0 <= address /\ 0 <= span /\ address + span <= size

(* byteRuns: one run per row when the innermost stride is one, else one    *)
(* run per element.                                                        *)
innermostIsContiguous(a) == a.strides[2] = 1

runCount(a) == IF innermostIsContiguous(a) THEN a.shape[1] ELSE elementCount(a)

runBegin(a, n) ==
  a.address + IF innermostIsContiguous(a)
                THEN n * a.strides[1]
                ELSE (n \div a.shape[2]) * a.strides[1] + (n % a.shape[2]) * a.strides[2]

byteRuns(a) ==
  LET runBytes == IF innermostIsContiguous(a) THEN a.shape[2] ELSE 1
  IN  [n \in 1..runCount(a) |->
         [begin |-> runBegin(a, n - 1), end |-> runBegin(a, n - 1) + runBytes]]

-----------------------------------------------------------------------------
(* prev(upper_bound(address)): the entry with the greatest begin that is   *)
(* not above the address.                                                  *)
lastAtOrBelow(entries, address) ==
  {e \in entries : /\ e.begin <= address
                   /\ \A f \in entries : f.begin <= address => f.begin <= e.begin}

(* WrittenSpans.  A later write at an address replaces the earlier one;    *)
(* adjacent spans are never merged.                                        *)
write(spans, begin, size) ==
  {s \in spans : s.begin # begin} \cup {[begin |-> begin, end |-> begin + size]}

spanEndAt(spans, address) ==
  {s.end : s \in {e \in lastAtOrBelow(spans, address) : address < e.end}}

-----------------------------------------------------------------------------
(* SlotCoverage::cover.  The entry before from is joined when it touches;  *)
(* the loop then takes entries in order for as long as the next one begins *)
(* no later than the end grown so far.                                     *)
CoverOverlappingOnly(intervals, from, to) ==
  LET joined == {i \in intervals : i.begin < to /\ from < i.end}
  IN  (intervals \ joined)
        \cup {[begin |-> Min({from} \cup {i.begin : i \in joined}),
               end   |-> Max({to} \cup {i.end : i \in joined})]}

CoverForgettingPrevious(intervals, from, to) ==
  LET previous == {p \in lastAtOrBelow(intervals, from) : p.end >= from}
  IN  (intervals \ previous) \cup {[begin |-> Min({from} \cup {p.begin : p \in previous}),
                                    end   |-> to]}

cover(intervals, from, to) ==
  LET previous   == {p \in lastAtOrBelow(intervals, from) : p.end >= from}
      start      == Min({from} \cup {p.begin : p \in previous})
      reach      == Max({to} \cup {p.end : p \in previous})
      rest       == intervals \ previous
      ahead      == {i \in rest : i.begin >= start}
      reached(i) == i.begin <= reach \/ \E j \in ahead : j.begin < i.begin /\ i.begin <= j.end
      absorbed   == {i \in ahead : \A j \in ahead : j.begin <= i.begin => reached(j)}
  IN  (rest \ absorbed)
        \cup {[begin |-> start, end |-> Max({reach} \cup {i.end : i \in absorbed})]}

(* SlotCoverage::covers looks into one entry only.                         *)
covers(intervals, from, to) ==
  \E e \in lastAtOrBelow(intervals, from) : to <= e.end
==============================================================================
