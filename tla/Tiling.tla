------------------------------- MODULE Tiling -------------------------------
(***************************************************************************)
(* -npu-tile-to-scratchpad (TileToScratchpad.cpp) on one convolution or    *)
(* matrix product, with the tiles NPUTilingInterfaceImpl.cpp builds.       *)
(*                                                                         *)
(* A domain point is <<batch, group, channel, row, column>>, the parallel  *)
(* part of the iteration domain; a reduction is never split.  A matrix     *)
(* product uses the first and the third slot, as the recorded mapping      *)
(* does.  Cycles are counted in sixteenths, which makes them whole.        *)
(***************************************************************************)
EXTENDS WindowShape, Sequences, FiniteSets, FiniteSetsExt

CONSTANTS
  Problems,    (* the operations, see below                                *)
  Budgets,     (* scratchpad budgets, in bytes                             *)
  Strategies,  (* of "exhaustive", "fixed" and "largest-fit"               *)
  Width,       (* bytes of an element                                      *)
  HalvingSteps (* the code's 63, or as many as halve every extent to one   *)

(***************************************************************************)
(* A problem is [conv, batch, group, channels, inputs, height, width, bias,*)
(* returned, read]: channels and inputs are per group, height and width    *)
(* are windows, and a matrix product has its reduction in inputs.          *)
(***************************************************************************)
isWindow(w) ==
  /\ w \in [input : Nat \ {0}, kernel : Int, stride : Int, dilation : Int, padBegin : Int, padEnd : Int, ceil : {FALSE}]
  /\ accepted(w)

(* The verifier accepted the operation; a matrix product is of one group.  *)
isProblem(p) ==
  /\ p.conv \in BOOLEAN /\ p.bias \in BOOLEAN
  /\ ~p.conv => p.group = 1
  /\ p.batch \in Nat /\ p.group \in Nat /\ p.channels \in Nat /\ p.inputs \in Nat
  /\ isWindow(p.height) /\ isWindow(p.width)

ASSUME ProblemsAssumption == \A p \in Problems : isProblem(p)

ASSUME WidthAssumption == Width \in Nat /\ Budgets \subseteq Nat /\ HalvingSteps \in Nat

VARIABLES
  problem, budget, strategy,
  doubleBuffer,   (* the pass options double-buffer and halo=recompute     *)
  allowSpatial,
  stage,          (* "consider", "tile", "tiled", "declined" or "fits"     *)
  mapping,        (* the factors chosen, a set of at most one              *)
  linear,         (* tiles emitted                                         *)
  tiles,          (* the operations emitted                                *)
  stitched        (* the elements inserted, and the term each one is       *)

vars == <<problem, budget, strategy, doubleBuffer, allowSpatial, stage, mapping, linear, tiles, stitched>>

options == <<problem, budget, strategy, doubleBuffer, allowSpatial>>

Slots == 1..5

extentsOf(p) ==
  IF p.conv THEN <<p.batch, p.group, p.channels, computeWindowedExtent(p.height), computeWindowedExtent(p.width)>>
            ELSE <<p.batch, 1, p.channels, 1, 1>>

product(s) == s[1] * s[2] * s[3] * s[4] * s[5]

divisorsOf(n) == {d \in 1..n : n % d = 0}

-----------------------------------------------------------------------------
(* The elements of the operands of a tile, as the search counts them.      *)
kernelArea(p) == p.height.kernel * p.width.kernel

inputElements(p, t) ==
  t[1] * t[2] * p.inputs
    * (IF p.conv THEN tiledInputExtent(p.height, t[4]) * tiledInputExtent(p.width, t[5]) ELSE 1)

filterElements(p, t) == t[2] * t[3] * p.inputs * (IF p.conv THEN kernelArea(p) ELSE 1)

biasElements(p, t) == IF p.bias THEN t[2] * t[3] ELSE 0

tileBytes(p, t, prefetch) ==
  LET input == inputElements(p, t)
  IN  Width * (input + filterElements(p, t) + biasElements(p, t) + product(t) + IF prefetch THEN input ELSE 0)

(* The whole operation: its operands, the destination among them.          *)
workingSetBytes(p, prefetch) ==
  LET full == extentsOf(p)
      input == p.batch * p.group * p.inputs * (IF p.conv THEN p.height.input * p.width.input ELSE 1)
  IN  Width * (input + filterElements(p, full) + biasElements(p, full) + product(full)
                 + IF prefetch THEN input ELSE 0)

-----------------------------------------------------------------------------
(* The cost model, in sixteenths of a cycle: 16 bytes a cycle and 64 per   *)
(* descriptor, an array of 16 by 16 that retires 256 products a cycle and  *)
(* takes 16 to fill, 4 to issue.  At that peak the occupancy of a fold     *)
(* cancels, and a fold costs its streamed rows and the fill.               *)
dmaCycles(elements) == elements * Width + 16 * 64

issueOverhead == 16 * 4

gemmCharge(rows, reduction, columns) ==
  16 * ceilDivide(reduction, 16) * ceilDivide(columns, 16) * (rows + 16)

computeCycles(p, t) ==
  IF p.conv THEN t[2] * gemmCharge(t[1] * t[4] * t[5], p.inputs * kernelArea(p), t[3])
            ELSE gemmCharge(t[1], p.inputs, t[3])

tileCosts(p, t) ==
  [dma |-> dmaCycles(inputElements(p, t)) + dmaCycles(filterElements(p, t)) + dmaCycles(product(t))
             + (IF p.bias THEN dmaCycles(biasElements(p, t)) + issueOverhead ELSE 0) + 3 * issueOverhead,
   compute |-> computeCycles(p, t) + issueOverhead]

countsOf(p, t) == [n \in Slots |-> extentsOf(p)[n] \div t[n]]

tileCount(p, t) == product(countsOf(p, t))

makespanOf(p, t) ==
  LET c == tileCosts(p, t)
  IN  tileCount(p, t) * Larger(c.dma, c.compute) + Smaller(c.dma, c.compute)

-----------------------------------------------------------------------------
(* The three searches.  The interface folds group and channel into one     *)
(* range, which a tile must cover in whole groups or within one.           *)
foldable(p, t) == t[2] = 1 \/ t[3] = p.channels

sizesAllowed(p, slot, spatial) ==
  IF slot \in {4, 5} /\ ~spatial THEN {extentsOf(p)[slot]} ELSE divisorsOf(extentsOf(p)[slot])

fitting(p, room, prefetch, spatial) ==
  {t \in [Slots -> Nat \cap UNION {sizesAllowed(p, n, spatial) : n \in Slots}] :
     /\ \A n \in Slots : t[n] \in sizesAllowed(p, n, spatial)
     /\ foldable(p, t)
     /\ tileBytes(p, t, prefetch) <= room}

(* Mutant: the price of a mapping is not looked at.                        *)
tieBreakOnly(p, t) == <<t[3], t[4], t[5], t[1], t[2]>>

(* Cheapest first; ties split the channel, then height, width and batch,   *)
(* and the enumeration meets the smaller group first.                      *)
preference(p, t) == <<makespanOf(p, t), t[3], t[4], t[5], t[1], t[2]>>

precedes(s, t) ==
  \E n \in DOMAIN s : s[n] < t[n] /\ \A m \in 1..(n - 1) : s[m] = t[m]

searchExhaustive(p, room, prefetch, spatial) ==
  LET all == fitting(p, room, prefetch, spatial)
      key == [t \in all |-> preference(p, t)]
  IN  {t \in all : \A other \in all : ~precedes(key[other], key[t])}

(* Halve the largest halvable extent until the working set fits.           *)
halvable(p, t, spatial) ==
  {n \in Slots :
     /\ t[n] > 1 /\ t[n] % 2 = 0
     /\ n \in {4, 5} => spatial
     /\ n = 2 => p.channels = t[3]
     /\ n = 3 => t[2] = 1}

halved(p, t, spatial) ==
  LET eligible == halvable(p, t, spatial)
      largest == {n \in eligible : \A m \in eligible : t[m] <= t[n]}
  IN  IF eligible = {} THEN t ELSE [t EXCEPT ![Min(largest)] = @ \div 2]

halvedUntilItFits(p, room, prefetch, spatial) ==
  LET after[k \in 0..HalvingSteps] ==
        IF k = 0 THEN extentsOf(p)
        ELSE IF tileBytes(p, after[k - 1], prefetch) <= room THEN after[k - 1]
        ELSE halved(p, after[k - 1], spatial)
  IN  after[HalvingSteps]

ifItFits(p, t, room, prefetch) == IF tileBytes(p, t, prefetch) <= room THEN {t} ELSE {}

searchFixed(p, room, prefetch, spatial) ==
  ifItFits(p, halvedUntilItFits(p, room, prefetch, spatial), room, prefetch)

(* Commit to the largest fitting divisor of one axis after another.        *)
narrowed(p, room, prefetch, spatial, t, slot) ==
  LET sizes == IF slot = 3 /\ t[2] # 1 THEN {p.channels} ELSE divisorsOf(extentsOf(p)[slot])
      fits == {d \in sizes : tileBytes(p, [t EXCEPT ![slot] = d], prefetch) <= room}
  IN  IF slot \in {4, 5} /\ ~spatial THEN t
      ELSE [t EXCEPT ![slot] = IF fits # {} THEN Max(fits) ELSE Min(sizes)]

narrowedAxisByAxis(p, room, prefetch, spatial) ==
  LET next(s, slot) == narrowed(p, room, prefetch, spatial, s, slot)
  IN  next(next(next(next(extentsOf(p), 3), 4), 5), 1)

searchLargestFit(p, room, prefetch, spatial) ==
  ifItFits(p, narrowedAxisByAxis(p, room, prefetch, spatial), room, prefetch)

(* Both baselines of a matrix product take the first rectangle that fits,  *)
(* the largest rows first and then the largest columns.                    *)
searchFirstRectangle(p, room, prefetch) ==
  LET all == fitting(p, room, prefetch, TRUE)
  IN  {t \in all : \A other \in all : ~precedes(<<t[1], t[3]>>, <<other[1], other[3]>>)}

search(p, how, room, prefetch, spatial) ==
  CASE how = "exhaustive"             -> searchExhaustive(p, room, prefetch, spatial)
    [] how # "exhaustive" /\ ~p.conv  -> searchFirstRectangle(p, room, prefetch)
    [] how = "fixed" /\ p.conv        -> searchFixed(p, room, prefetch, spatial)
    [] OTHER                          -> searchLargestFit(p, room, prefetch, spatial)

-----------------------------------------------------------------------------
tilePosition(p, t, k) ==
  LET c == countsOf(p, t)
      inner == <<c[2] * c[3] * c[4] * c[5], c[3] * c[4] * c[5], c[4] * c[5], c[5], 1>>
  IN  [n \in Slots |-> ((k \div inner[n]) % c[n]) * t[n]]

foldedOffset(p, at) == at[2] * p.channels + at[3]

wholeOp(p) ==
  [batchAt |-> 0, inputAt |-> 0, filterAt |-> 0, rowAt |-> 0, columnAt |-> 0,
   batch |-> p.batch, groups |-> p.group, outputs |-> p.group * p.channels,
   height |-> p.height, width |-> p.width]

(* getTiledImplementation: the slices of the operands, the pads and the    *)
(* group of the tile.                                                      *)
tileOp(p, at, t) ==
  [batchAt |-> at[1], inputAt |-> at[2] * p.inputs, filterAt |-> foldedOffset(p, at),
   rowAt |-> IF p.conv THEN sliceBegin(p.height, at[4]) ELSE 0,
   columnAt |-> IF p.conv THEN sliceBegin(p.width, at[5]) ELSE 0,
   batch |-> t[1], groups |-> t[2], outputs |-> t[2] * t[3],
   height |-> IF p.conv THEN windowSlice(p.height, at[4], t[4]) ELSE p.height,
   width |-> IF p.conv THEN windowSlice(p.width, at[5], t[5]) ELSE p.width]

generated(p, at, t) ==
  /\ foldable(p, t)
  /\ p.conv => sliceExists(p.height, at[4], t[4]) /\ sliceExists(p.width, at[5], t[5])

(***************************************************************************)
(* The term of an element of the result: for every tap, which element of   *)
(* the input meets which one of the filter, in the coordinates of the      *)
(* operation as it was before tiling.  An index is <<batch, channel, row,  *)
(* column>> over the operation's own result.                               *)
(***************************************************************************)
tapInput(op, p, index, tap) ==
  LET group == index[2] \div (op.outputs \div op.groups)
      row == tapPosition(op.height, index[3], tap[2])
      column == tapPosition(op.width, index[4], tap[3])
  IN  IF inInput(op.height, row) /\ inInput(op.width, column)
        THEN <<op.batchAt + index[1], op.inputAt + group * p.inputs + tap[1], op.rowAt + row, op.columnAt + column>>
        ELSE <<"pad">>

element(op, p, index) ==
  [taps |-> [tap \in (0..p.inputs - 1) \X (0..p.height.kernel - 1) \X (0..p.width.kernel - 1) |->
               tapInput(op, p, index, tap)],
   filter |-> op.filterAt + index[2]]

resultIndices(sizes) ==
  (0..sizes[1] - 1) \X (0..sizes[2] * sizes[3] - 1) \X (0..sizes[4] - 1) \X (0..sizes[5] - 1)

placedAt(p, at, index) ==
  <<at[1] + index[1], foldedOffset(p, at) + index[2], at[4] + index[3], at[5] + index[4]>>

(* The insert_slice of a tile, over what was assembled before it.          *)
insertSlice(slice, whole) ==
  [e \in DOMAIN slice \cup DOMAIN whole |-> IF e \in DOMAIN slice THEN slice[e] ELSE whole[e]]

inserted(p, at, t) ==
  LET placed == {placedAt(p, at, index) : index \in resultIndices(t)}
      local(e) == CHOOSE index \in resultIndices(t) : placedAt(p, at, index) = e
  IN  [e \in placed |-> element(tileOp(p, at, t), p, local(e))]

resultOf(p) == [index \in resultIndices(extentsOf(p)) |-> element(wholeOp(p), p, index)]

-----------------------------------------------------------------------------
Init ==
  /\ problem \in Problems
  /\ budget \in Budgets
  /\ strategy \in Strategies
  /\ doubleBuffer \in BOOLEAN /\ allowSpatial \in BOOLEAN
  /\ stage = "consider" /\ mapping = {} /\ linear = 0 /\ tiles = {} /\ stitched = << >>

resultCanBeAssembled(p) == ~(p.returned /\ p.read)

pick(found) == CHOOSE t \in found : TRUE

chosen == pick(mapping)

(* The grid of applyTiling: every tile is whole.                           *)
wholeTiles(p, t) == \A n \in Slots : t[n] \in divisorsOf(extentsOf(p)[n])

(* A result both returned and read, a problem nothing fits and a search    *)
(* that comes back with one tile are all declined.                         *)
Consider ==
  /\ stage = "consider"
  /\ LET found == search(problem, strategy, budget, doubleBuffer, allowSpatial)
     IN  IF workingSetBytes(problem, doubleBuffer) <= budget
           THEN stage' = "fits" /\ UNCHANGED mapping
         ELSE IF resultCanBeAssembled(problem) /\ found # {}
                   /\ tileCount(problem, pick(found)) > 1 /\ wholeTiles(problem, pick(found))
           THEN stage' = "tile" /\ mapping' = {pick(found)}
         ELSE stage' = "declined" /\ UNCHANGED mapping
  /\ UNCHANGED <<options, linear, tiles, stitched>>

EmitTile ==
  /\ stage = "tile" /\ linear < tileCount(problem, chosen)
  /\ LET at == tilePosition(problem, chosen, linear)
     IN  IF generated(problem, at, chosen)
           THEN /\ tiles' = tiles \cup {tileOp(problem, at, chosen)}
                /\ stitched' = insertSlice(inserted(problem, at, chosen), stitched)
                /\ linear' = linear + 1
                /\ UNCHANGED stage
           ELSE stage' = "declined" /\ UNCHANGED <<tiles, stitched, linear>>
  /\ UNCHANGED <<options, mapping>>

Replace ==
  /\ stage = "tile" /\ linear = tileCount(problem, chosen)
  /\ stage' = "tiled"
  /\ UNCHANGED <<options, mapping, linear, tiles, stitched>>

Next == Consider \/ EmitTile \/ Replace

Spec == Init /\ [][Next]_vars

-----------------------------------------------------------------------------
(***************************************************************************)
(* A tiled operation computes what the operation did: every element of the *)
(* result is stitched, and each of its taps meets the same element of the  *)
(* input and of the filter, padding included.  No element is inserted      *)
(* twice: the lowering turns each tile into stores over a buffer whose     *)
(* parts it takes to be disjoint.                                          *)
(***************************************************************************)
StitchedIsTheResult ==
  /\ stage = "tile" => Cardinality(DOMAIN stitched) = linear * product(chosen)
  /\ stage = "tiled" => stitched = resultOf(problem)

(***************************************************************************)
(* What a tile really holds on chip, halo and all, is never more than the  *)
(* search priced it at, and that is within the budget.                     *)
(***************************************************************************)
operandBytes(op, p, t) ==
  LET input == op.batch * op.groups * p.inputs * (IF p.conv THEN op.height.input * op.width.input ELSE 1)
  IN  Width * (input + filterElements(p, t) + biasElements(p, t) + product(t) + IF doubleBuffer THEN input ELSE 0)

EveryTileFits ==
  \A op \in tiles :
    /\ operandBytes(op, problem, chosen) <= tileBytes(problem, chosen, doubleBuffer)
    /\ tileBytes(problem, chosen, doubleBuffer) <= budget

(* The dialect's verifier accepts every tile, with the extents it has.     *)
TilesAreVerified ==
  \A op \in tiles : problem.conv =>
    /\ accepted(op.height) /\ computeWindowedExtent(op.height) = chosen[4]
    /\ accepted(op.width) /\ computeWindowedExtent(op.width) = chosen[5]
    /\ op.outputs % op.groups = 0

(***************************************************************************)
(* An operation the pass declines is left alone.  The tiles are emitted    *)
(* one at a time and a tile that cannot be generated declines the whole,   *)
(* so this holds because no tile of an accepted operation can fail.        *)
(***************************************************************************)
DeclinedLeavesNothingBehind == stage = "declined" => tiles = {}

(* A baseline never finds a cheaper mapping than the exhaustive search,    *)
(* nor one where the search finds none: its regret is not negative.        *)
NoBaselineBeatsTheSearch ==
  stage = "tile" /\ strategy # "exhaustive" =>
    \E best \in searchExhaustive(problem, budget, doubleBuffer, allowSpatial) :
      makespanOf(problem, best) <= makespanOf(problem, chosen)
==============================================================================
