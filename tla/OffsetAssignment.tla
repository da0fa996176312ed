-------------------------- MODULE OffsetAssignment --------------------------
(***************************************************************************)
(* assignOffsets (ScratchpadAllocation.cpp): the first-fit placement that  *)
(* the allocator runs once per spill round and that -npu-double-buffer     *)
(* runs to price a prefetch.  One action per turn of its two loops.        *)
(***************************************************************************)
EXTENDS LiveIntervals, Sequences

CONSTANTS
  Alignment,      (* the byte alignment of every offset                    *)
  None,           (* no buffer is being placed                             *)
  Problems        (* the calls made: intervals, strategy and budget        *)

ASSUME AlignmentAssumption == Alignment \in Nat \ {0}
ASSUME NoneAssumption == None \notin Nat
ASSUME ProblemsAssumption ==
  Problems \subseteq [intervals : Seq(LiveInterval), strategy : Strategy, budget : Nat]

VARIABLES
  intervals,      (* the argument: index -> live interval                  *)
  strategy,       (* the argument: which order buffers are considered in   *)
  budget,         (* the argument: bytes                                   *)
  offset,         (* placement.offsets, defined for the placed buffers     *)
  highWaterMark,  (* placement.highWaterMark                               *)
  current,        (* the interval of this turn of the outer loop           *)
  candidate,      (* its candidate offset                                  *)
  skipped,        (* the neighbours the inner loop has walked past         *)
  outcome         (* "placing", then "placed" or "failed"                  *)

inputs == <<intervals, strategy, budget>>
vars   == <<intervals, strategy, budget, offset, highWaterMark, current,
            candidate, skipped, outcome>>

Buffer == DOMAIN intervals
Placed == DOMAIN offset
end(b) == offset[b] + intervals[b].bytes

(* The locals assignOffsets starts with.                                   *)
Start ==
  /\ offset = [b \in {} |-> 0]
  /\ highWaterMark = 0
  /\ current = None
  /\ candidate = 0
  /\ skipped = {}
  /\ outcome = "placing"

(* A pass calls assignOffsets, on the arguments the caller sets.           *)
Call ==
  /\ offset' = [b \in {} |-> 0]
  /\ highWaterMark' = 0
  /\ current' = None
  /\ candidate' = 0
  /\ skipped' = {}
  /\ outcome' = "placing"

(***************************************************************************)
(* The outer loop takes the next buffer in placement order.                *)
(***************************************************************************)
TakeKeepingCandidate(b) ==
  /\ outcome = "placing"
  /\ current = None
  /\ b \in Buffer \ Placed
  /\ \A o \in (Buffer \ Placed) \ {b} : placedBefore(intervals, strategy, b, o)
  /\ current' = b
  /\ skipped' = {}
  /\ UNCHANGED <<inputs, offset, highWaterMark, candidate, outcome>>

Take(b) ==
  /\ outcome = "placing"
  /\ current = None
  /\ b \in Buffer \ Placed
  /\ \A o \in (Buffer \ Placed) \ {b} : placedBefore(intervals, strategy, b, o)
  /\ current' = b
  /\ candidate' = 0
  /\ skipped' = {}
  /\ UNCHANGED <<inputs, offset, highWaterMark, outcome>>

(***************************************************************************)
(* The inner loop walks the placed buffers the current one is live with,   *)
(* by increasing offset; equal offsets keep their placement order.         *)
(***************************************************************************)
neighbours(b) == {o \in Placed : rangesOverlap(intervals[b], intervals[o])}

Remaining == neighbours(current) \ skipped

walkedBefore(a, b) ==
  \/ offset[a] < offset[b]
  \/ offset[a] = offset[b] /\ placedBefore(intervals, strategy, a, b)

InPlacementOrder(o) ==
  /\ o \in Remaining
  /\ \A p \in Remaining \ {o} : placedBefore(intervals, strategy, o, p)

nextNeighbour(o) ==
  /\ o \in Remaining
  /\ \A p \in Remaining \ {o} : walkedBefore(o, p)

(* The gap below the next neighbour is too small: realign above it.        *)
Skip(o) ==
  /\ outcome = "placing"
  /\ current # None
  /\ nextNeighbour(o)
  /\ candidate + intervals[current].bytes > offset[o]
  /\ candidate' = LET above == alignUp(end(o), Alignment)
                  IN  IF above > candidate THEN above ELSE candidate
  /\ skipped' = skipped \cup {o}
  /\ UNCHANGED <<inputs, offset, highWaterMark, current, outcome>>

(* The inner loop ends: no neighbour is left, or the gap is large enough.  *)
GapFound ==
  \/ Remaining = {}
  \/ \E o \in Remaining : /\ nextNeighbour(o)
                          /\ candidate + intervals[current].bytes <= offset[o]

SettleUnbounded ==
  /\ outcome = "placing"
  /\ current # None
  /\ GapFound
  /\ offset' = [b \in Placed \cup {current} |-> IF b = current THEN candidate ELSE offset[b]]
  /\ highWaterMark' = candidate + intervals[current].bytes
  /\ current' = None
  /\ UNCHANGED <<inputs, candidate, skipped, outcome>>

SettleKeepingCurrent ==
  /\ outcome = "placing"
  /\ current # None
  /\ GapFound
  /\ candidate + intervals[current].bytes <= budget
  /\ offset' = [b \in Placed \cup {current} |-> IF b = current THEN candidate ELSE offset[b]]
  /\ highWaterMark' = LET top == candidate + intervals[current].bytes
                      IN  IF top > highWaterMark THEN top ELSE highWaterMark
  /\ UNCHANGED <<inputs, current, candidate, skipped, outcome>>

Settle ==
  /\ outcome = "placing"
  /\ current # None
  /\ GapFound
  /\ candidate + intervals[current].bytes <= budget
  /\ offset' = [b \in Placed \cup {current} |-> IF b = current THEN candidate ELSE offset[b]]
  /\ highWaterMark' = LET top == candidate + intervals[current].bytes
                      IN  IF top > highWaterMark THEN top ELSE highWaterMark
  /\ current' = None
  /\ UNCHANGED <<inputs, candidate, skipped, outcome>>

(* PlacementFailure{index, candidate}: left in current and candidate.      *)
Fail ==
  /\ outcome = "placing"
  /\ current # None
  /\ GapFound
  /\ candidate + intervals[current].bytes > budget
  /\ outcome' = "failed"
  /\ UNCHANGED <<inputs, offset, highWaterMark, current, candidate, skipped>>

Finish ==
  /\ outcome = "placing"
  /\ current = None
  /\ Placed = Buffer
  /\ outcome' = "placed"
  /\ UNCHANGED <<inputs, offset, highWaterMark, current, candidate, skipped>>

Next ==
  \/ \E b \in Buffer : Take(b)
  \/ \E o \in Placed : Skip(o)
  \/ Settle
  \/ Fail
  \/ Finish

Init ==
  /\ \E p \in Problems : /\ intervals = p.intervals
                         /\ strategy = p.strategy
                         /\ budget = p.budget
  /\ Start

Spec == Init /\ [][Next]_vars

-----------------------------------------------------------------------------
(* The types of the algorithm's state.                                     *)
TypeOK ==
  /\ intervals \in Seq(LiveInterval)
  /\ strategy \in Strategy
  /\ budget \in Nat
  /\ Placed \subseteq Buffer
  /\ offset \in [Placed -> Nat]
  /\ highWaterMark \in Nat
  /\ current \in (Buffer \ Placed) \cup {None}
  /\ candidate \in Nat
  /\ skipped \subseteq Placed
  /\ outcome \in {"placing", "placed", "failed"}

(* The two closed ranges have an operation index in common.                *)
liveTogether(a, b) ==
  \E t \in intervals[a].definition .. intervals[a].lastUse :
    t \in intervals[b].definition .. intervals[b].lastUse

apart(a, b) == end(a) <= offset[b] \/ end(b) <= offset[a]

(***************************************************************************)
(* Section 13.1's fourth allocator test, reuse while live: two buffers     *)
(* that are live at one operation index never own the same byte.           *)
(***************************************************************************)
NoReuseWhileLive ==
  \A a, b \in Placed : a # b /\ liveTogether(a, b) => apart(a, b)

(***************************************************************************)
(* What PlacementFailure and the header's "lowest offset that does not     *)
(* collide" say: every aligned offset below the one taken, and below the   *)
(* candidate of a buffer still being placed or given up on, collides with  *)
(* a buffer placed earlier that is live with it.                           *)
(***************************************************************************)
multipleOfAlignment(o) == \E k \in 0..o : o = k * Alignment

collides(b, o, p) ==
  /\ liveTogether(b, p)
  /\ offset[p] < o + intervals[b].bytes
  /\ o < end(p)

LowestOffset ==
  /\ \A b \in Placed : \A o \in 0..(offset[b] - 1) :
       multipleOfAlignment(o) =>
         \E p \in Placed \ {b} : placedBefore(intervals, strategy, p, b) /\ collides(b, o, p)
  /\ current # None =>
       \A o \in 0..(candidate - 1) :
         multipleOfAlignment(o) => \E p \in skipped : collides(current, o, p)

(* placed: every offset is aligned, every buffer ends inside the budget    *)
(* and the high water mark is the end of the topmost one, which is what    *)
(* the arena is later sized to.                                            *)
ArenaHoldsEveryBuffer ==
  /\ \A b \in Placed : /\ multipleOfAlignment(offset[b])
                       /\ end(b) <= highWaterMark
  /\ highWaterMark <= budget
  /\ highWaterMark = 0 \/ \E b \in Placed : end(b) = highWaterMark
  /\ outcome = "placed" => Placed = Buffer

(***************************************************************************)
(* The sweep line peak is a lower bound on any placement: it never exceeds *)
(* the arena of a placement that succeeded, so the fragmentation ratio is  *)
(* at least one, and it is the peak the brute force recomputation finds,   *)
(* at the same (first) index.                                              *)
(***************************************************************************)
PeakIsALowerBound ==
  outcome = "placed" =>
    /\ sweepLinePeak(intervals).bytes <= highWaterMark
    /\ sweepLinePeak(intervals) = bruteForcePeak(intervals)

(* The placement promised to the callers of assignOffsets.                 *)
Promise == INSTANCE SafePlacement
PromiseKept == Promise!Spec
==============================================================================
