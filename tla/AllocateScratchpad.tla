-------------------------- MODULE AllocateScratchpad --------------------------
(***************************************************************************)
(* -npu-allocate-scratchpad (AllocateScratchpad.cpp): place every buffer   *)
(* of a block with assignOffsets; each time that fails, spill one buffer   *)
(* live across the pressure peak to DRAM and start over; when none can be  *)
(* spilled, give up.                                                       *)
(***************************************************************************)
EXTENDS ScratchpadLiveness

CONSTANTS Alignment, None

ASSUME PlacementAssumption == Alignment \in Nat \ {0} /\ None \notin Nat

VARIABLES
  stage,          (* "collecting", "measuring", "placing", then        *)
                  (* "allocated" or "refused"                              *)
  block,          (* the body of the function                              *)
  size,           (* bytes of each scratchpad allocation                   *)
  permuted,       (* allocations whose layout map is not the identity      *)
  reloads,        (* allocations marked npuisa.spill_reload                *)
  spilled,        (* allocations marked npuisa.spilled                     *)
  peak,           (* the sweep line peak of this round                     *)
  heuristic,      (* option                                                *)
  spilledBuffers, insertedDma,      (* the counts written on the function  *)
  arenaView,      (* buffer -> the byte offset of its view of the arena    *)
  intervals, strategy, budget, offset, highWaterMark, current, candidate,
  skipped, outcome                  (* assignOffsets                       *)

Offsets == INSTANCE OffsetAssignment WITH Problems <- {}

assigned    == <<offset, highWaterMark, current, candidate, skipped, outcome>>
placement   == <<intervals, assigned>>
options     == <<heuristic, strategy, budget>>
function    == <<block, size, permuted, reloads, spilled>>
counts      == <<spilledBuffers, insertedDma, arenaView>>
passVars    == <<stage, function, options, peak, counts, placement>>

(***************************************************************************)
(* One round: collect the buffers from the block as it now is, start       *)
(* placing them.                                                           *)
(***************************************************************************)
Collect ==
  /\ stage = "collecting"
  /\ stage' = "measuring"
  /\ intervals' = liveIntervals(block, size)
  /\ UNCHANGED <<function, options, peak, counts, assigned>>

Measure ==
  /\ stage = "measuring"
  /\ stage' = "placing"
  /\ peak' = sweepLinePeak(intervals)
  /\ Offsets!Call
  /\ UNCHANGED <<function, options, intervals, counts>>

Place ==
  /\ stage = "placing"
  /\ Offsets!Next
  /\ UNCHANGED <<stage, function, heuristic, peak, counts>>

(***************************************************************************)
(* spillRefusal: why a buffer cannot be spilled.                           *)
(***************************************************************************)
SpillableTwice(b) ==
  /\ hasOneWriter(block, b)
  /\ ~viewWrittenThrough(block, b)
  /\ b \notin permuted
  /\ \E i \in readersOf(block, b) : i > writerOf(block, b)

isSpillable(b) ==
  /\ hasOneWriter(block, b)
  /\ ~viewWrittenThrough(block, b)
  /\ b \notin reloads \cup spilled \cup permuted
  /\ \E i \in readersOf(block, b) : i > writerOf(block, b)

(* The buffers live across the peak, as the heuristic sees them.           *)
CrossesPeak(k) == intervals[k].definition <= peak.index /\ peak.index <= intervals[k].lastUse

Candidates ==
  {[buffer        |-> k,
    interval      |-> intervals[k],
    spillable     |-> isSpillable(collected(block)[k]),
    usesAfterPeak |-> Cardinality({i \in readersOf(block, collected(block)[k]) : i > peak.index})] :
   k \in {x \in DOMAIN intervals : CrossesPeak(x)}}

(***************************************************************************)
(* spill: a DRAM slot and a store after the write (after the await, when   *)
(* the write is asynchronous), and before every later reader a reload that *)
(* replaces the buffer in it.                                              *)
(***************************************************************************)
freshValue == 1 + Max(UNION {block[i].reads \cup {block[i].def, block[i].write} : i \in DOMAIN block})

storePoint(b) == completionOf(block, writerOf(block, b))

LaterReaders(b) == {i \in readersOf(block, b) : i > storePoint(b)}

SpillRewrite(b) ==
  LET slot      == freshValue
      reload(i) == freshValue + i
      around(i) ==
        (IF i \in LaterReaders(b)
           THEN << Operation("alloc", 0, reload(i), {}, NoValue),
                   Operation("dma_load", 0, NoValue, {slot}, reload(i)),
                   [block[i] EXCEPT !.reads = (@ \ {b}) \cup {reload(i)}] >>
           ELSE << block[i] >>)
        \o
        (IF i = storePoint(b)
           THEN << Operation("slot", 0, slot, {}, NoValue),
                   Operation("dma_store", 0, NoValue, {b}, slot) >>
           ELSE << >>)
  IN  FlattenSeq([i \in DOMAIN block |-> around(i)])

SpillNothing ==
  /\ stage = "placing"
  /\ outcome = "failed"
  /\ spillVictims(Candidates, heuristic) # {}
  /\ stage' = "collecting"
  /\ UNCHANGED <<function, options, peak, counts, placement>>

Spill ==
  /\ stage = "placing"
  /\ outcome = "failed"
  /\ \E victim \in spillVictims(Candidates, heuristic) :
       LET b     == collected(block)[victim.buffer]
           fresh == {freshValue + i : i \in LaterReaders(b)}
       IN  /\ block' = SpillRewrite(b)
           /\ size' = [v \in DOMAIN size \cup fresh |-> IF v \in fresh THEN size[b] ELSE size[v]]
           /\ reloads' = reloads \cup fresh
           /\ spilled' = spilled \cup {b}
           /\ insertedDma' = insertedDma + 1 + Cardinality(fresh)
  /\ spilledBuffers' = spilledBuffers + 1
  /\ stage' = "collecting"
  /\ UNCHANGED <<permuted, options, peak, arenaView, placement>>

(* No buffer live across the pressure peak can be spilled.                 *)
Refuse ==
  /\ stage = "placing"
  /\ outcome = "failed"
  /\ spillVictims(Candidates, heuristic) = {}
  /\ stage' = "refused"
  /\ UNCHANGED <<function, options, peak, counts, placement>>

(***************************************************************************)
(* materialise: the buffer of intervals[k] becomes a view, from offset[k], *)
(* of one arena of highWaterMark bytes; the function is given its          *)
(* attributes.                                                             *)
(***************************************************************************)
Materialise ==
  /\ stage = "placing"
  /\ outcome = "placed"
  /\ stage' = "allocated"
  /\ LET buffers == collected(block)
     IN  arenaView' = [b \in buffersOf(block) |-> offset[CHOOSE k \in DOMAIN buffers : buffers[k] = b]]
  /\ UNCHANGED <<function, options, peak, spilledBuffers, insertedDma, placement>>

PassNext ==
  \/ Collect
  \/ Measure
  \/ Place
  \/ Spill
  \/ Refuse
  \/ Materialise
=============================================================================
