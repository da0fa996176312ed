# TLA+ models of the edge NPU compiler backend and its simulator

This directory is a verification project for the C++ code in `lib/`: TLA+
modules translated from the source, TLC configurations that check them on small
instances, and theorems checked by TLAPS. `PROJECT.json` maps every definition
to the lines it models and lists the runs, hazards, findings and theorems.

## 1. The system

A model enters as ONNX (Python front end), becomes `npu` tensor IR, is folded,
fused, tiled and lowered to `npuisa`, a straight-line block of instructions over
buffers. The scratchpad passes decide when transfers are issued and where each
buffer lives, the encoder turns the block into a binary program, and the
simulator executes that program and charges it to two timelines.

| component | state | operations | interacts with | hard behaviour | what makes it correct |
|---|---|---|---|---|---|
| `ScratchpadAllocation` | offsets, high water mark, the candidate of the buffer being placed | `assignOffsets`, `sweepLinePeak`, `chooseSpillVictim` | called by the allocator and by double buffering | closed ranges, tie breaking, walk order, budget edge | no byte shared while live, lowest offset, exact arena, peak is a lower bound |
| `ScratchpadLiveness` | intervals, writers, readers, views of each buffer | `collectScratchpadBuffers` | read by both passes | views of views, asynchronous uses that last until an await | an interval covers every use |
| `AllocateScratchpad` | the block, spill marks, counts | place, spill, refuse, materialise | rewrites the block, then collects again | a loop over IR it modifies itself; spilled prefetches; views of spilled buffers | values preserved, terminates, counts match |
| `DoubleBuffer` | the block, three answers | hoist or decline one load at a time | prices with `assignOffsets`; its output is the allocator's input | moves code past code, prices before it moves | values preserved, fits, nothing lost |
| `Simulator` | two port clocks, written spans, memory, first trap | run one program | `Kernels`, `Memory`, `CostModel` | two concurrent ports, dependencies by byte overlap | dataflow schedule, meaningful overlap fraction |
| `NPUISAOps` verifier | none | rules on tokens and on what may happen in a transfer window | the IR | aliasing of views | accepted blocks have no race |
| `NPUISAMemoryOverlap` | none | byte range of a view | verifier, double buffering, encoder | views of views, strides | disjoint is said only of two that share no byte |
| `Validation` | spans written so far, slot coverage | refuse an illegal program | decoder, simulator | stale or partial coverage | an accepted program reads only written bytes |
| `InstructionEncoder` | the DRAM map, the instructions, the debug section | lay out, resolve addresses, encode | overlap analysis, container | offsets held in views and in layouts at once | regions apart, every element at its address |
| `Program`, `Disassembler` | the reader's cursor | write, read, print | validation, tools | no tags in the file, counts that cannot be trusted | round trip, nothing left over |
| `Kernels`, `Memory`, `CostModel` | two memories, first trap | one kernel per opcode | simulator | a team of threads per convolution, any of which may trap | the operation's meaning, no answer after a trap |
| `LowerNPUToNPUISA` | the block, the buffer of each value, on chip copies of arguments | expand on tensors, then convert | pipeline | destinations shared after CSE, results assembled in DRAM | outputs hold what the graph returns, each value enters once |
| `TileToScratchpad`, `NPUTilingInterfaceImpl` | the mapping chosen, the tiles emitted | search, slice, stitch or decline | pipeline, lowering | halo, dilation, padding at the edges, remainders | the tiles are the operation, each is legal and fits |
| graph passes (`ConstantFold`, `FuseBias`, `FoldBatchNorm`, `FuseOps`, `AssignLayout`) | tensor IR | one rewrite per candidate | pipeline | values with other uses, order of the fusions, a loop over sinks and folds | same values, valid IR, nothing left to fuse |
| `Pipeline`, `PassStats`, tools | options, counts | run passes in order | everything | passes that must agree on budget and strategy; functions compiled on several threads | same options everywhere, one row per pass run |
| Python front end, experiments, scripts | files | import, run, record | tools | none that is concurrent | outside the models |

The list with the status of each component is in `PROJECT.json`.

## 2. The modules

The project falls into five groups, in the order a model meets them.

| module | models | extends / instantiates |
|---|---|---|
| `ChannelGraph` | a function of the tensor dialect on small tensors, and what it computes | |
| `Pipeline` | the pass table of the three levels, ablation, the options given to each pass | |
| `GraphPasses` | the graph level passes, one candidate per step, with the statistics | `ChannelGraph`, `Pipeline` |
| `WindowShape` | sliding window extents and the slice of the input under a tile | |
| `Tiling` | the tile searches (`Consider`), then one tile per step (`EmitTile`, `Replace`) and the decline rules | `WindowShape` |
| `TensorBlocks` | a block of tensors by rows, and what it computes | |
| `Lowering` | validation, the expansions on tensors, then the conversion of one operation per step | `TensorBlocks` |
| `LiveIntervals` | the pure part of `ScratchpadAllocation.cpp`: intervals, orders, peaks, spill victim | |
| `OffsetAssignment` | `assignOffsets`, one action per turn of its two loops (`Take`, `Skip`, `Settle`, `Fail`, `Finish`) | `LiveIntervals`; refines `SafePlacement` |
| `SafePlacement` | what a caller of `assignOffsets` relies on: offsets given one at a time, never moved, clear of live neighbours | |
| `Ranks` | the members of a set of positions, in order | |
| `ScratchpadLiveness` | the block and the walk that collects its buffers | `LiveIntervals`, `Ranks` |
| `AllocateScratchpad` | the pass: `Collect`, `Measure`, `Place` (the steps of `OffsetAssignment`), `Spill`, `Refuse`, `Materialise` | instantiates `OffsetAssignment` |
| `ArenaExecution` | the pass, then the machine running its output over one byte arena | `AllocateScratchpad` |
| `DoubleBuffer` | the prefetch rewrite, then all of the above | `ArenaExecution` |
| `InstructionSet` | opcodes, operands, instructions, the program with its sections | |
| `MemRefs` | buffers and views below the tensor level, `computeBufferRange`, `overlaps` | `InstructionSet` |
| `InstructionEncoding` | the encoder: arguments, `PlaceRegion`, `EncodeOperation`, each refusal | `MemRefs`, `Ranks` |
| `ProgramFile` | writer and reader of the container, field by field | `InstructionSet` |
| `ProgramChecks` | `Program::validate` over a program with all of its fields | `InstructionSet`, instantiates `ByteCoverage` |
| `TensorOps` | the compute operations: what the two verifiers accept and what they mean | `WindowShape`, `InstructionSet` |
| `Kernels` | the simulator: construction, inputs, fetch, one output of one thread per step, traps | `WindowShape`, `InstructionSet` |
| `Toolchain` | encode, write, damage, read, validate, run, one after the other | the five above |
| `ByteCoverage` | the bookkeeping of `Validation.cpp`: spans, byte runs, `WrittenSpans`, `SlotCoverage` | |
| `ProgramValidation` | `Program::validate` over programs of any length: `Accept` or `Refuse` one instruction, `RecordRun` for each run of a result in a spill slot | `ByteCoverage` |
| `ValidatedExecution` | validation and the machine side by side | `ProgramValidation` |
| `SimulatorTimeline` | the issue loop of `Simulator::execute` and its two clocks | |
| `*Proofs` | the theorems, one module for each component proved about | TLAPS |
| `Induction` | induction and recursion over the naturals, as lemmas the provers can use | TLAPS |
| `MC*` | instances for TLC | |

**Graph passes and pipeline.** A step of `GraphPasses` visits one candidate of
the pass a function is at: the list is collected before anything is rewritten, as the
passes do, and `AssignLayout` alternates its two phases until neither changes
anything. Functions of a module advance on their own and meet at a pass on the
module. `-canonicalize`, `-cse` and `-sccp` are MLIR's and appear as what the
pipeline counts on them for. The rewrites rest on algebra, so elements are integers modulo
five, where sums and products are exact and a batch norm has or has not a square
root.

**Tiling.** `search` is the exhaustive search with its price and tie break, or one
of the two baselines; `Consider` chooses a mapping or declines, `EmitTile` emits
the tile of the next grid position. An element of a result is the term that lists
what each tap reads, so `stitched` can be compared with the operation. A tile that
the interface cannot slice declines the whole operation, which `DeclinedLeavesNothingBehind`
shows never happens half way.

**Lowering.** An instruction is emitted where its operation stood, so the model
runs each as it is emitted: `memory` holds the rows each buffer has, `placed` where
each converted value lives, `copies` the on chip copy of a DRAM buffer. A row is a
term. The stages before the conversion (flattening, batch norm, destinations,
constants) are one rewrite per step on tensors.

**Scratchpad.** The variables of
`OffsetAssignment` are the parameters and locals of `assignOffsets`: `offset`
and `highWaterMark` are the fields of `Placement` (`placed` is the domain of
`offset`), `current` and `candidate` the interval and the candidate of the outer
loop, `skipped` the neighbours its inner loop has passed. `PlacementFailure` is
what `current` and `candidate` hold when `Fail` is taken.

A block is a sequence of operations `[kind, id, def, reads, write]`. A buffer is a
number of bytes, a layout is the identity or not, and views cover their whole
buffer. An `id` names a source operation and survives the rewrites; operations the
passes insert have id 0. `isWellFormed` says that a block is in single assignment form and that a view is
of one value defined above it, which MLIR's verifier enforces; the programs given to the pass are
assumed to be, and TLC evaluates that on every instance. The DRAM side of a transfer is a value like any other: an
argument, a spill slot or an assembly buffer (`slot`).

`Spill` is the whole of `spill()`: DRAM slot, store after the write (after the
await when the write is asynchronous), and a reload in front of every later
reader, a view of the buffer counting as one. `Materialise` gives each buffer its
offset in the arena. `ArenaExecution` then executes the rewritten block: each byte of the
arena holds the id of the operation that produced it, so the execution tells
exactly which value a read sees. An asynchronous load fills its destination at
any moment between its issue and its await (`Land`), the window that
the verifier's rules 1 and 4 speak of; the await waits for it.

`DoubleBuffer` answers the loads in block order. `canHoist` is the backward walk
with the dominance check, `Price` and `PricePlacement` run `assignOffsets` on
the lengthened intervals, `Prefetch` is the rewrite, `NotHoisted` and
`WouldNotFit` are the two ways of declining. `HoistRewrite` reproduces the order
in which `hoist` moves things literally, including that the operation it inserts before may
be one of the prologue.

**From buffers to bytes and back.** In `Toolchain` a job is an operation the tensor verifier
accepts, brought into the form the passes leave (loads, arena views, stores;
whole, in two tiles, with a spill, asynchronous, or in place). `PlaceRegion` lays out one DRAM region,
`EncodeOperation` one operation; `WriteFile` validates and writes; `Damage` cuts
the file, lengthens it or changes one byte; `Open`, the header and one entry of a section per
step read it back; then the simulator is constructed, given its inputs and runs. A
convolution is a team of threads, one per image and output channel as in the OpenMP
loop, each taking its outputs in any order relative to the others; the thread that
meets an access out of range records it only if none is recorded yet, goes on, and
the run stops after the kernel. Jobs without an operation encode functions no pass
makes, to reach the refusals; jobs with a program run it without validation, as
`runUnvalidated` does.

**Validation over time.** In `ProgramValidation` the next instruction
may be any member of `Instructions`, so programs have any length and the state
space is finite because what the validator remembers is. `ByteCoverage` computes the reach of
an access (which the bound checks use), its element count (which `WrittenSpans::write`
records) and its exact runs (which `SlotCoverage` records), and keeps these three
apart as the code does. `Simulator::run` validates the whole program and then
executes it; validation reads no memory and execution no coverage, so
`ValidatedExecution` lets the machine take each instruction when it is accepted.
`ProgramChecks` is the same function over whole programs with every field, and leaves
to these two modules what happens at the limits of the coverage.

**Timing.** `SimulatorTimeline` keeps `dmaFree`, `computeFree`, the two totals and
the spans written, as the function does. `Execute` is one turn of the loop, trap and HALT
included; `schedule` is a history variable.

## 3. The runs

All runs are exhaustive on the instance named. Deadlock checking is off in all of
them: each models a function that returns, and the state after it has no step.

| run | instance | what it shows |
|---|---|---|
| `graph_passes` | a convolution followed by every pair of affine stages (bias, residual, batch norms with and without a root or with an unknown gamma, relu, constant arithmetic), every three moves among permutations, layouts and relu, an intermediate value returned or not; all levels, every ablation, budgets absent, zero and positive; two functions at once | after every step the IR verifies and computes what it did, for two inputs; nothing fusable left, nothing dead reaches the lowering, the statistics rows of every function and of the module in order, those of a function continuous, passes agree on budget, strategy and alignment, the pipeline finishes |
| `tiling` | convolutions with strides 1..2, dilations 1..2, kernels 1..3 and every accepted padding on inputs of 4 and 5 rows; two batches, two and four groups (depthwise included), bias; products up to 4 by 4; five budgets, three strategies, both halo and prefetch options | the stitched result is the operation's with each element inserted once, each tile fits what it was priced at and verifies, no half tiled operation, no baseline cheaper than the search |
| `lowering` | functions of two operations over two arguments of four rows with every choice of operands and results, hoisted constants, shared destinations, two tiles of a convolution and of an elementwise operation, fused regions, batch norm, and what the pass refuses | `LoweringKeepsTheMeaning`: every expansion computes what it did and the outputs hold the results; each DRAM value enters once, and what enters is read |
| `offset_assignment` | every list of four buffers in block order over four indices with sizes 1..3, a family of three with coinciding definitions and empty sizes, both strategies, two budgets, alignment 2 | `NoReuseWhileLive`, `LowestOffset`, `ArenaHoldsEveryBuffer`, `PeakIsALowerBound`; refines `SafePlacement` |
| `allocate_scratchpad` | functions of four to six buffers (every dataflow shape with one or two operands), with views, a buffer written again through a view, one with a permuted layout, and prefetched loads; budgets 3 and 4 | `ValuesAreKept`: every read sees its value through spill, reload, rebasing and reuse, and no byte in flight is touched; spilling makes progress |
| `allocate_termination` | a few small functions, some of which spill and one of which waits | `RunEnds` |
| `double_buffer` | functions with a late load, viewed buffers, a buffer filled twice; budgets 2 to 4 | `ValuesAreKept` after the rewrite, the placement and the spills; it stays under the budget's pressure, loses nothing |
| `double_buffer_dominance` | one function with a tiled result assembled in DRAM | the finding below |
| `toolchain` | about a hundred operations of every f32 opcode and the moves of i8, accepted and refused by their verifier; odd functions the encoder refuses; two files damaged in every byte and cut at every length; convolutions and transfers that trap in one or in several threads | regions apart, overlap answers exact, `EncodingIsFaithful` (every element of every operand at its address, names at their instruction), `RoundTrip` (what is written is read back, and what is read re-encodes to itself), what the tensor verifier accepts is valid all the way, the output is the operation's result under every interleaving of threads, no answer after a trap |
| `simulator_timeline` | every program of three instructions on two ports over three spans (two disjoint, one covering both), then with a HALT in front of the last, or a trap | `DataflowSchedule`, `OverlapIsAFraction` |
| `slot_coverage` | nine bytes of DRAM with two spill slots that abut, overlap, leave a gap or end past the memory; rows of 1 to 3 bytes and tiles of two separate bytes stored to and loaded from every address; limits of two runs and two intervals | recording is exact, one entry answers for a range, no accepted read inside a slot touches an unwritten byte |
| `validated_execution` | three bytes of scratchpad, six of DRAM with an input, a constant, an output and a slot; the instructions the compiler emits over rows, columns and broadcasts | accepted reads are written, validated programs never trap; the instructions satisfy `AsCompiled`, the hypothesis of the theorems about them |

**Why the bounds are enough.** Two affine stages after a convolution show every
fusion, every reason to decline one and each order of two; three moves show a sink
past a relu, a fold of a pair and a transpose in the way of both. A window of five
rows with a kernel of three, stride two and dilation two has a first, a middle and a
last tile with padding before, none and after. Two operations let the lowering
share an argument, a destination or a constant, and read one result twice. Three
buffers already exhibit every relation
between two placed ones and a third looking for a gap; the fourth lets a walk
skip one gap and take a later one. For the allocator, the instances were
chosen so that functions are accepted with no, one and two spills and refused
with and without spills before, that an asynchronously written buffer is spilled
and that a view is moved onto a reload. Images of three by two with two
channels, or windows of two by two, give every loop of a kernel more than one turn, an asymmetric
padding tells the axes apart, and a convolution of two channels has two threads.
Three instructions give the timeline a
write and a read with something on either port in between. A slot of five bytes
holds three separate intervals, one more than the limit, and a new run that
touches an entry on each side. Larger functions
repeat these cases; for the tiles, the DRAM map, the trap, the placement, the timeline and
the coverage of slots the theorems below remove the bound altogether.

**Scales.** `Base` is 64 values per byte, a u32 or float field of the file is one byte and
a u64 or i64 two (`Base^2` values, twos complement); the caps `kMaxCount`, the shape limit, the
longest debug name and the memory limit shrink with them, and the minimum sizes of
an entry are counted in these units. An f32 in memory is an integer of two bytes
whose lowest value stands for minus infinity: sums and products are exact, and
averages are taken of multiples that divide. In a quantisation field the byte
`Base - 1` stands for every scale that is not finite. Tiling counts cycles
in sixteenths, which makes the cost of a transfer whole. `HalvingSteps` is 63 in
the code; eight halve every extent of the instance to one.

**Fairness.** Compiler passes are sequential code that waits for nothing, so a
step that can be taken is taken: `FairSpec` is weak fairness of the next-state
relation (`allocate_termination`), which in `GraphPasses` is written out (as long as the pipeline is not
finished, a step is taken again and again), since a pass manager that has a pass to run, runs
it. In `ArenaExecution` it also says that the DMA engine finishes
a transfer it was given. Every other property is checked without fairness.

### The finding

`DefinitionsPrecedeUses`: `hoist` moves the prologue of a load in front of
`earliest` wherever it was. A DRAM allocation that precedes the transfer at
which the walk stopped is moved *later*, below a store into it, and the block
no longer verifies. `hoistIsDominanceSafe` looks at operands only.

### Remarks that no run stands for

- Scratchpad. The refusal diagnostic (`AllocateScratchpad.cpp:560`) names `max(peak, wanted offset + size)` as
  what the budget has to be; first fit is not optimal, so less can be enough. The
  price of a hoist (`DoubleBuffer.cpp:347`) keeps the index of everything the rewrite
  shifts, so placement order, and with it first fit, may differ on the block that
  comes out; what does hold is `HoistedPressureFits`. The walk of `hoist` steps over any number of computations.
- Options. With no budget given, a function that carries `npuisa.scratchpad_budget` is placed
  and prefetched under that budget and tiled under the default one
  (`ScratchpadLiveness.cpp:217`, against the comment at `Pipeline.cpp:341`). The
  models give no function that attribute.
- Graph passes. After CSE the sink of `AssignLayout` finds nothing at -O2 (its transposes already are
  one value), which is why the moves run with CSE ablated. Destinations
  it leaves dead are erased by the pass itself. In the worklist of `foldTranspose`
  an orphaned inner transpose always precedes the outer one, so clearing list entries never matters.
- Tiling and lowering. The interface's remark that a window never lies in padding alone because a pad is below the
  kernel extent (`NPUShapeUtils.cpp:60`) needs a dilation of one; `NoWindowIsAllPadding`
  has that hypothesis. A tiled result that is returned twice is refused by the lowering though tiling accepts it.
  Returning a tiled value something already loaded stores it once more.
- Encoder. A `reinterpret_cast` of a `subview` or of another cast counts the inner offset
  twice; no pass builds one. Offsets of NHWC slices walk rows in row major order in
  the analysis; the shipped pipeline produces none. The minimum size assumed of an instruction
  (76) is below the real one (80), which is safe. The encoder does not check the
  length of a debug name; `npu-translate` does, by validating before it writes.
- Simulator. Only operands are looked up among the writes (`Simulator.cpp:280`), so a
  write after a read of the same bytes on the other port is not held back in the
  reported cycles. RELU, ADD and MUL walk the extents of the result, while the
  validator compares the span of the operand (`Kernels.cpp:537`); outside the spill slots a result is
  recorded by its element count even when it is strided; only the transfers use the
  result strides that the validator checks on every opcode. No program this compiler emits is
  concerned. `spanEndAt` asks only the span with the greatest begin,
  so a short write inside an older buffer may have a legal read refused, never an illegal one accepted.
  A convolution whose result overlaps its own operands (files written by hand only)
  is a race between its threads; `FinishedOutputsStand` speaks of the others.

## 4. The theorems

The proof modules are checked by `tlapm` from the assumptions named in the
modules: alignments are positive, `None` is not an index, problems
and programs are well typed (for tiling: what the verifier accepts), widths, budgets, the issue overhead, the memory
sizes and the limits are natural numbers, an instruction has at most one result, no two regions of a
validated layout begin at one address. For the scratchpad passes `LoweredAssumption` adds what the lowering leaves: no transfer is
split yet, loads can be told apart, values are defined above their uses, and
every buffer has a size.

`TilingProofs`. For one axis, `TileIsAccepted`, `TapsAgree` and `HaloIsPriced`: the
slice under a tile, wherever it starts, is a window the verifier accepts with the tile's own
extent, its taps read what those of the whole operation read, and it is no
longer than the search priced. They rest on `Reach` (the last window ends inside the
padded input) and `SliceNeverEmpty`. For the pass, `IInv` says what the state alone does not: the
factors chosen divide the extents and fit the budget, and every tile emitted is that of a grid
position. With it, `DeclinesWhole`, `TilesPassTheVerifier` and
`TilesFitTheBudget` follow for every problem, budget, strategy and precision.
`TilingKeepsTheResult` adds that the tiles were emitted in grid order and each
filled its own slice (`Assembled`): `GridCoversTheResult` gives every element of the result a grid
position whose slice has it and `TilesApart` no second one, so nothing is inserted twice and nothing is missing when the last tile is
stitched, and `TapsAgree` makes the element what the operation computes there. `BaselinesAreNoBetter`
needs that the factors a baseline stops at are among those the search tries
(`NarrowedIsANarrowing`, by induction on the number of halvings); the search returns a
cheapest candidate (`TheSearchFindsTheCheapest`), so a baseline that fits is never cheaper.

`OffsetAssignmentProofs`. Type correctness first, then an inductive invariant.
`NoReuseWhileLive` is not inductive: that a settled buffer is clear of the
neighbours *above* its gap follows from the walk order, but that it is clear of
those it *skipped* needs `WalkInv` (everything skipped ends at or below the
candidate, which is aligned), and `LowestOffset` needs `OrderInv` (the outer
loop consumes the placement order from the front). From these, `SafePlacement`
is implemented step by step: `Settle` is `Give`, `Fail` and `Finish` are
`Answer`, the rest stutters. `PlacementIsNoSmallerThanThePeak` compares the arena with the
pressure peak the diagnostics report: the buffers live at one index are apart in the arena, so their sizes
add up to no more than its height (`DisjointBuffersFit`, by induction on the height). `SweepFindsThePeak`: the peak
computed by sweeping the sorted events is the greatest pressure at any index. The order in which ends and starts
at one index are handled is what its proof turns on.

`ScratchpadProofs`. `SpecSpillsSourceBuffersOnly` is the argument for termination that `spillRefusal` gives in a comment
(`AllocateScratchpad.cpp:214`), for every block in single assignment form. A spill marks its victim and the buffers
it makes, so what has to be proved is that no *other* buffer becomes spillable, although all instructions move:
two of the rules that refuse a buffer (not one writer, a view written through) are read off the rewritten
block. `SpillShape` says what the rewrite does: a map `kept`, strictly increasing, takes every old
instruction to its new place, and every other instruction is one of the four kinds `spill` adds. From it a value has the
writers and readers it had (`SpilledUses`), and a view keeps its root unless that is the victim (`SpilledViews`,
by induction on the place of the view: a view taken of the victim is rebased onto a reload, so what hangs on it
changes roots). The inductive invariant `SpillInv` says that the block stays in single assignment form
(`SpillKeepsTheForm`: fresh values are fresh, reloads are allocated above their reader), that the intervals are those
of its buffers, that every buffer is of the source program or marked as a reload, and that
as many buffers of the source program are marked as spilled as spills were counted.

Its second half is about `-npu-double-buffer`, then the allocator. `RewriteIsHoist` says what a hoist does to a block
of any length: a one to one map `to` of places in which the prologue and the load come together at `earliest`, and what
stays keeps its order (`HoistPlaces`). Nothing is lost by `HoistRewrite` inserting before an operation it also moves.
With `to`, single assignment, roots, writers and users carry over (`HoistDefinesOnce`, `HoistRoots`), the token has its await
below it (`HoistAwaited`), and so do the loads still to be answered, in their order (`HoistWaits`). The inductive invariant is
`HoistInv`. It does *not* say that definitions precede uses, which the pass breaks (section 3): `isRanked`, that a view
has a higher rank than what it is of, is what remains true and is enough for the walk of aliases to end.
`SpecNothingElseChanges` follows from two of its parts: the work of the block is that of the source (`keepsTheWork`) and every
asynchronous transfer has one await, below it (`isAwaited`). Both survive spills as well (`SpillKeepsTheWork`, `SpillAwaited`).

`SpecHoistedPressureFits` compares two blocks. The pass prices the block as it is, with the intervals of what would move
stretched, and never looks at the block it makes. `WasAt` takes every place of the new block back to a place of the old
one without changing the order, so that two buffers live together after the hoist were priced as live together (`HoistIsPriced`; it needs
that a moved allocation is used by the load, `PrologueIsUsed`, and that no use of a buffer is later than its last use was priced to be, `UsesAreEarlier`). The
placement that priced the hoist keeps those apart (`PricedPressure` in `OffsetAssignmentProofs`, from the invariant
of `assignOffsets`, which is a part of `HoistInv` while a load is priced), so what is live at one index fits side by side and its bytes add up to no more than the budget,
whatever order first fit would take on the new block.

`GraphPassesProofs`. `SpecStatisticsFollowThePipeline` is about two counts that are kept apart: the row a pass
leaves when it ends, and the operation count taken when the next one begins. `StatInv` says where each function is in the pipeline by the rows
it has (`Counted`: its own rows name the passes on functions built before `next`, in order, and the rows of the module those on
the module, which no function can be ahead of or behind), and that the
count the next row will begin with is the one the last row ended with, except behind `-sccp`, which moves constants
and whose row is the module's (`IsIdle`). Two facts about the pass table carry it: the pass a function begins behind `-sccp` is
`-npu-assign-layout` (`SccpIsLate`), and passes are built in the order of the table (`BuiltInOrder`).
`SpecPassesAgreeOnTheMachine` holds of any options: `AllocatesLast` (the allocator cannot be ablated and is the last pass of a whole pipeline),
`PrefetchIsBuilt` (what `build` asks of the table before it builds anything is what it then builds) and `StopsEarly` (stopping at the tensor
level keeps the passes up to a place of the level, since those above it are the tensor passes).

`ToolchainProofs`. `RegionsAreApart` says nothing of the cursor, on which the next
region depends: `LayoutInv` adds that every region is aligned and ends at or below it, and
`AlignUp` that rounding up never goes back. `NoAnswerAfterATrap` needs `TrapInv`:
a trap exists only while its kernel runs on and after the run it stopped.

`SpecEncodesFaithfully` is about the functions the compiler's passes leave. `EncodingIsFaithful` does not hold of
arbitrary chains of casts: the encoder adds up what every view moves and never looks at the layouts in between.
The theorem has the hypothesis `AsThePassesLeaveIt`: every value is a view of an allocation or of an argument, at most
its last step is a cast or the slice of something contiguous, and the type it ends with is the one that
step lays out. TLC evaluates the hypothesis on every job of `toolchain` (`JobsAreAsThePassesLeaveThem`). With it,
`ShiftsAddUp` shows that the walk of the chain counts the offset of the layout once, and that it is the address
the layout means. The invariant is `EncodedInv`: `RootsInv` (no root is placed twice, so an operand has one
base; it needs that the regions to lay out are distinct, `RegionsAreDistinct`) and `BodyInv` (the instructions are the
encodings of the operations consumed, by rank; the names are those of the
operations with a location); `InOrder` relates a rank to a place in the list.
`SpecAnalysesOverlapExactly` has the same hypothesis and invariant. The range the analysis gives a buffer is the hull of
the bytes it addresses (`RangeIsTheHull`): the first turn of the walk is at its lower end and the last at its upper end
(`FirstAndLastTurn`), and where `byteSpan` counts the elements of a contiguous layout instead, the two agree because the row
major strides telescope (`ContiguousReach`).

`SimulatorTimelineProofs`. `OverlapIsAFraction` needs `ChargesCover`: no clock
and no written span is ahead of everything charged so far, and in single port mode
both clocks are exactly the charge. A corollary is that two ports never make a
program slower than one. `DataflowSchedule` needs `HistoryExplains`:
each clock is the last end on its port, each written span ends with its writer.

`ValidatedExecutionProofs`. Everything rests on `Separated`: two entries of a
slot's map neither overlap nor touch. It is why the last entry at or below an
address is the only one that can answer for it (`TouchingIsLast`,
`CoversIsExact`), and `CoverAddsTheRun` shows that `cover` keeps it and adds
exactly the bytes of its run, chains of abutting entries included. With `Bookkeeping` (types and
separation) this gives `CoverageAnswers` and `RecordingAddsUp`.
`SlotReadsAreWritten` also needs `RecordedIsWritten`, as long as the machine
runs: what a slot records, and the runs about to be recorded, have been
written. A recorded run comes from a transfer that finished, and
`RunsAreElements` shows that each of its bytes is one of the elements the
transfer walked, row by row.

`CompiledReadsAreWritten` and `CompiledProgramsNeverTrap` are about the programs
the compiler emits. `NeverTraps` and `ReadsAreWritten` do not hold of arbitrary instructions (section 3,
remarks: outside the slots a strided result is recorded by its element count), so they
have the hypothesis `AsCompiled`, which says of `Instructions` what the lowering emits: slots are disjoint;
operands have the extents the operation walks and do not begin in an output; a result is contiguous, or a strided
tile inside a slot or an output. TLC evaluates the hypothesis on the instance
of `validated_execution` (`CompilerProgramsAreAsCompiled`). The inductive
invariant is `CompiledRun`: the machine has not trapped and every span the
validator recorded has been written. An accepted operand lies in such a span
(`AcceptedOperand`), so the kernel runs to its end (`KernelRunsToItsEnd`) and writes at least what
the validator records for it (`WalkCountsTheResult`, `ResultIsWritten`).

`Induction` states induction over the naturals for a set and existence of a recursive
function, proved from the least element of a nonempty set of naturals. The
library's theorems take an operator as a parameter and cannot be used here. It also relates the rank of
a member of a set of positions to its place in the list of the members (`RanksOfMembers`, `InOrder`), and says what is picked
from a list at a set of places, and from a longer one (`Picked`, `PickedGrows`).

`TypeCorrect`, `TimelineTypeCorrect` and `ValidationTypeCorrect` are the type invariants
of the modules proved about; the last two are proved and not part of a run.

Model-checked only:

- Liveness (`RunEnds`, `PipelineFinishes`): ENABLED and fairness are out of the prover's reach.
- `Lowering`: the expansion of chains is a RECURSIVE operator, with which the prover loses its SMT backend.
- `NothingLeftToFuse`, `PassesKeepTheMeaning`, `NothingDeadReachesTheLowering`:
  blocks are filtered and sorted with
  `SelectSeq` and `SetToSortSeq`, whose definitions the prover cannot expand and about which the library
  states no fact. (For `FlattenSeq`, which the spill rewrite uses, the fact needed, `FlattenPlaces`, is proved; the
  double buffering model picks from a block by `Ranks`, whose facts are in `Induction`.)
- `ValuesAreKept`: it needs, beyond `SpillShape`, the liveness walk and the placement combined in a simulation
  of the original block by the rewritten one; planned.
- `RoundTrip`, `VerifiedIsValid`, `ExecutionComputesTheOperation`: folds over the fields of a file or over the elements of a tensor, with the same difficulty.
- `FinishedOutputsStand`: sums over strides (`MapThenSumSet`) would have to be bounded first.

## 5. What is left out, and the plan

Not modelled, by part:

- Python front end, experiments, scripts: file processing with no state that the compiler depends on.
- Printing: the disassembler, `npu-objdump`, the code generator, diagnostics text, option parsing, the statistics file's text.
- Tiling models of the pools, ADD, MUL and RELU, which only unit tests reach; the mapping attribute; the layout score, a statistic.
- The arithmetic of constant folding on element data beyond one function of the value; floating point rounding; int8 arithmetic.
- The asynchronous window verifier as a function of the IR, and the canonicalization of an immediate await;
  `dma_store_async`, which no pass creates. `ArenaExecution` has what both are about.
- Kernel cost formulas and traffic counters; cycles are whole numbers.
- In the scratchpad models: partial views (`mightTouch` compares buffers), blocks with
  regions, a load whose destination is not an allocation of its block, the restriction of alignments to powers of two.
- In the validator over programs of any length: ranks other than two and elements wider than a byte, which
  `ProgramChecks` has for the programs of `toolchain`. 64-bit overflow is modelled in the
  validator and the reader, at their scaled width; not in the allocator.

Planned, most important first:

1. Proofs: type correctness and progress of `AllocateScratchpad` with the placement used through `SafePlacement`; from `SpillShape`, the part of `ValuesAreKept` that is about the rewrite.
2. The window verifier over partial views, from `MemRefs`.
