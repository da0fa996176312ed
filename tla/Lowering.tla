------------------------------ MODULE Lowering ------------------------------
(***************************************************************************)
(* -npu-lower-to-npuisa (LowerNPUToNPUISA.cpp): a block of tensors becomes *)
(* a straight line of instructions over buffers in two memories.  Stage 1  *)
(* refuses, stage 2 expands on tensors, stage 3 converts in block order.   *)
(*                                                                         *)
(* An instruction is emitted where its operation stood, so emission order  *)
(* is execution order and each instruction runs here as it is emitted.  A  *)
(* place is a view of a buffer: [buffer, offset, size, step] in rows.      *)
(***************************************************************************)
EXTENDS TensorBlocks

CONSTANT Functions    (* [sizes, ops]: the last operation is the return    *)

VARIABLES
  function,   (* the function the pass was given                           *)
  stage,      (* the step of the pass, or "done" or "refused"              *)
  ops,        (* what is left of the block, as tensors                     *)
  next,       (* the operation to convert                                  *)
  memory,     (* the buffers made so far, [space, rows]                    *)
  placed,     (* the place each converted value lives in                   *)
  copies,     (* argumentBuffers: the on chip copy of a DRAM buffer        *)
  transfers   (* history: every dma_load, [from, into], both places        *)

vars == <<function, stage, ops, next, memory, placed, copies, transfers>>

arguments == DOMAIN function.sizes
meaningOf(block) == meaning(function.sizes, Front(block), Last(block).ins)

returned == Last(ops).ins

defining(block, v) == CHOOSE n \in DOMAIN block : block[n].result = v

(* hasOneBlock, the types and the operations nothing below can represent.  *)
refusable(op) == op.kind \in {"scf", "layout constant", "layout transpose", "unconvertible"}

Init ==
  /\ function \in Functions
  /\ stage = "validate"
  /\ ops = function.ops
  /\ next = 0 /\ memory = << >> /\ placed = << >> /\ copies = << >> /\ transfers = {}

advance(from, to) == stage = from /\ stage' = to

untouched == UNCHANGED <<function, next, memory, placed, copies, transfers>>

Validate ==
  /\ stage = "validate"
  /\ stage' = IF \E n \in DOMAIN ops : refusable(ops[n]) THEN "refused" ELSE "flatten"
  /\ UNCHANGED ops
  /\ untouched

-----------------------------------------------------------------------------
(* Stage 2.  Splicing, renaming and moving operations of a block.          *)
renamed(op, v, w) ==
  [op EXCEPT !.ins = [n \in DOMAIN @ |-> IF @[n] = v THEN w ELSE @[n]],
             !.dest = IF v \in @ THEN {w} ELSE @]

renamedIn(block, v, w) == [n \in DOMAIN block |-> renamed(block[n], v, w)]

spliced(block, n, replacement) ==
  SubSeq(block, 1, n - 1) \o replacement \o SubSeq(block, n + 1, Len(block))

movedBefore(block, n, anchor) ==
  SubSeq(block, 1, n - 1) \o SubSeq(block, n + 1, anchor - 1)
    \o <<block[n]>> \o SubSeq(block, anchor, Len(block))

movedAbove(block, n, anchor) ==
  SubSeq(block, 1, anchor - 1) \o <<block[n]>> \o SubSeq(block, anchor, n - 1)
    \o SubSeq(block, n + 1, Len(block))

movedTo(block, n, anchor) ==
  IF n < anchor THEN movedBefore(block, n, anchor) ELSE movedAbove(block, n, anchor)

(* The block arguments become the operands, the yielded value the result.  *)
flattened(block, n) ==
  LET fused == block[n]
      body == FoldLeft(LAMBDA b, p : renamedIn(b, fused.params[p], fused.ins[p]),
                       fused.body, [p \in DOMAIN fused.params |-> p])
  IN  renamedIn(spliced(block, n, body), fused.result, Last(fused.body).result)

FlattenFusedOp ==
  /\ stage = "flatten"
  /\ LET fused == {n \in DOMAIN ops : ops[n].kind = "fused"}
     IN  IF fused = {} THEN stage' = "decompose" /\ UNCHANGED ops
         ELSE ops' = flattened(ops, Min(fused)) /\ UNCHANGED stage
  /\ untouched

(* A multiply and an add over two constants computed now; the parameters   *)
(* have to be constants and the square root has to exist.                  *)
constantParameter(v) ==
  v \notin arguments /\ ops[defining(ops, v)].kind = "constant"

decomposable(op) ==
  /\ \A n \in 2..5 : constantParameter(op.ins[n])
  /\ ops[defining(ops, op.ins[5])].name # "not above minus epsilon"

decomposed(block, n) ==
  LET norm == block[n]
      new == freshIn(block)
      data(i) == block[defining(block, norm.ins[i])].data
      scale == scaleTerm(data(2), data(5))
      plain == [norm EXCEPT !.ins = << >>, !.dest = {}, !.size = 1, !.kind = "constant"]
  IN  spliced(block, n,
        <<[plain EXCEPT !.result = new, !.data = <<scale>>],
          [plain EXCEPT !.result = new + 1, !.data = <<shiftTerm(data(3), data(4), scale)>>],
          [plain EXCEPT !.kind = "empty", !.result = new + 2, !.size = norm.size],
          [norm EXCEPT !.kind = "map", !.name = "mul", !.result = new + 3,
                       !.ins = <<norm.ins[1], new>>, !.dest = {new + 2}],
          [norm EXCEPT !.kind = "map", !.name = "add", !.ins = <<new + 3, new + 1>>]>>)

DecomposeBatchNorm ==
  /\ stage = "decompose"
  /\ LET norms == {n \in DOMAIN ops : ops[n].kind = "batch_norm"}
     IN  IF norms = {} THEN stage' = "split" /\ UNCHANGED ops
         ELSE IF decomposable(ops[Min(norms)])
           THEN ops' = decomposed(ops, Min(norms)) /\ UNCHANGED stage
           ELSE stage' = "refused" /\ UNCHANGED ops
  /\ untouched

isEmpty(op) == op.kind = "empty"
isConstant(op) == op.kind = "constant"

(* Mutant: one destination left to all its users.                          *)
sharedDestination(block, v) == block

(* One destination, one buffer: every user after the first of the use list *)
(* (the last one added) gets a clone, placed above the original.           *)
split(block, v) ==
  LET users == usersOf(block, v)
      others == IF users = {} THEN << >> ELSE SetToSortSeq(users \ {Max(users)}, <)
      new == freshIn(block)
      given == FoldLeft(LAMBDA b, k : [b EXCEPT ![others[k]] = renamed(@, v, new + k - 1)],
                        block, [k \in DOMAIN others |-> k])
      origin == defining(block, v)
  IN  spliced(given, origin,
        [k \in DOMAIN others |-> [block[origin] EXCEPT !.result = new + k - 1]] \o <<block[origin]>>)

emptiesOf(block) == SelectSeq(block, isEmpty)

SplitDestinations ==
  /\ advance("split", "place")
  /\ ops' = FoldLeft(LAMBDA b, e : split(b, e.result), ops, emptiesOf(ops))
  /\ untouched

(* Each destination with one user is moved down to it.                     *)
placedBeforeUser(block, v) ==
  LET users == usersOf(block, v)
  IN  IF Cardinality(users) # 1 THEN block
      ELSE movedTo(block, defining(block, v), only(users))

MoveDestinations ==
  /\ advance("place", "sink")
  /\ ops' = FoldLeft(LAMBDA b, e : placedBeforeUser(b, e.result), ops, emptiesOf(ops))
  /\ untouched

(* A constant sinks to the run of constants and destinations right above   *)
(* its first reader, past computation and nothing else.                    *)
sunk(block, v) ==
  LET users == usersOf(block, v)
      earliest == Min(users)
      run == {a \in 1..earliest : \A n \in a..(earliest - 1) : isEmpty(block[n]) \/ isConstant(block[n])}
  IN  IF users = {} \/ Min(run) <= defining(block, v) THEN block
      ELSE movedTo(block, defining(block, v), Min(run))

SinkConstants ==
  /\ advance("sink", "erase")
  /\ ops' = FoldLeft(LAMBDA b, c : sunk(b, c.result), ops, SelectSeq(ops, isConstant))
  /\ untouched

(* A constant nothing reads would still be transferred.                    *)
EraseDeadConstants ==
  /\ advance("erase", "signature")
  /\ LET isUsed(op) == ~isConstant(op) \/ usersOf(ops, op.result) # {}
     IN  ops' = SelectSeq(ops, isUsed)
  /\ untouched

-----------------------------------------------------------------------------
(* Stage 3.  Places and what an instruction does to the buffers.           *)
whole(b, size) == [buffer |-> b, offset |-> 0, size |-> size, step |-> 1]

isIn(space, p, mem) == mem[p.buffer].space = space

rowsAt(mem, p) == [r \in 1..p.size |-> mem[p.buffer].rows[p.offset + 1 + (r - 1) * p.step]]

stored(mem, p, rows) == [mem EXCEPT ![p.buffer].rows = overwritten(@, p.offset, rows)]

allocated(mem, space, size) == Append(mem, [space |-> space, rows |-> [r \in 1..size |-> Junk]])

(* The kernel reads its operands anew for every row it writes.             *)
computed(mem, op, sources, into) ==
  FoldLeft(LAMBDA m, r :
             stored(m, [into EXCEPT !.offset = @ + r - 1],
                    <<resultRow(op, [n \in DOMAIN sources |-> rowsAt(m, sources[n])], r)>>),
           mem, [r \in 1..op.size |-> r])

(* buffer(): the recorded copy of a DRAM buffer, or the buffer itself.     *)
resolve(p) == IF p.buffer \in DOMAIN copies THEN copies[p.buffer] ELSE p

place(v) == resolve(placed[v])

(* A rank 1 operand is read with stride 0 at the destination's extents.    *)
channelBroadcast(p, size) == IF p.size = size THEN p ELSE [p EXCEPT !.size = size, !.step = 0]

(* alloc, then one dma_load into it, remembered as a transfer.             *)
load(mem, from) ==
  LET grown == allocated(mem, "scratchpad", from.size)
  IN  stored(grown, whole(Len(grown), from.size), rowsAt(mem, from))

loaded(from, mem) == [from |-> from, into |-> whole(Len(mem) + 1, from.size)]

sizeOf(v) == IF v \in arguments THEN function.sizes[v] ELSE ops[defining(ops, v)].size

(* An argument every use of which is a proper slice is not loaded whole.   *)
slices(op, v) ==
  \/ op.kind = "extract" /\ op.size # sizeOf(v)
  \/ op.kind = "insert" /\ sizeOf(op.ins[1]) # sizeOf(v)

isRead(v) == usersOf(ops, v) # {} /\ \E n \in usersOf(ops, v) : ~slices(ops[n], v)

outParameter(n) == whole(Len(function.sizes) + n, sizeOf(returned[n]))

(* The out parameters follow the arguments, then one load per argument     *)
(* that is read whole.                                                     *)
FuncOpLowering ==
  LET signature == [a \in arguments |-> [space |-> "dram", rows |-> argumentsOf(function.sizes)[a]]]
                     \o [n \in DOMAIN returned |->
                           [space |-> "dram", rows |-> [r \in 1..sizeOf(returned[n]) |-> Junk]]]
      read == SetToSortSeq({a \in arguments : isRead(a)}, <)
      at(a) == whole(a, function.sizes[a])
      copyOf(k) == whole(Len(signature) + k, function.sizes[read[k]])
  IN  /\ advance("signature", "convert")
      /\ memory' = FoldLeft(LAMBDA m, a : load(m, at(a)), signature, read)
      /\ placed' = [a \in arguments |-> at(a)]
      /\ copies' = [a \in ToSet(read) |-> copyOf(CHOOSE k \in DOMAIN read : read[k] = a)]
      /\ transfers' = {[from |-> at(read[k]), into |-> copyOf(k)] : k \in DOMAIN read}
      /\ next' = 1
      /\ UNCHANGED <<function, ops>>
current == ops[next]

converting(kinds) == stage = "convert" /\ current.kind \in kinds

(* The operation is replaced by the value at p.                            *)
replacedBy(p) ==
  /\ placed' = extend(placed, current.result, p)
  /\ next' = next + 1
  /\ UNCHANGED <<function, stage, ops>>

refusedHere ==
  /\ stage' = "refused"
  /\ UNCHANGED <<function, ops, next, memory, placed, copies, transfers>>

(* npuisa.const in DRAM, and the one load that brings it on chip.          *)
ConstantOpLowering ==
  /\ converting({"constant"})
  /\ LET inDram == Append(memory, [space |-> "dram", rows |-> current.data])
         dram == whole(Len(inDram), Len(current.data))
     IN  /\ memory' = load(inDram, dram)
         /\ transfers' = transfers \cup {loaded(dram, inDram)}
         /\ replacedBy(loaded(dram, inDram).into)
  /\ UNCHANGED copies

(* A destination tiles are inserted into is assembled in DRAM: in the out  *)
(* parameter its chain of inserts is returned through, or in a spill slot. *)
insertsInto(v) == {n \in DOMAIN ops : ops[n].kind = "insert" /\ v \in ops[n].dest}

RECURSIVE chainEnd(_)
chainEnd(v) == IF insertsInto(v) = {} THEN v ELSE chainEnd(ops[Max(insertsInto(v))].result)

assembledInto(v) == {n \in DOMAIN returned : returned[n] = chainEnd(v)}

EmptyOpLowering ==
  /\ converting({"empty"})
  /\ LET out == assembledInto(current.result)
         space == IF insertsInto(current.result) # {} THEN "dram" ELSE "scratchpad"
     IN  IF out # {}
           THEN replacedBy(outParameter(Min(out))) /\ UNCHANGED memory
           ELSE /\ memory' = allocated(memory, space, current.size)
                /\ replacedBy(whole(Len(memory) + 1, current.size))
  /\ UNCHANGED <<copies, transfers>>

(* The slice is what enters the scratchpad; a slice of what is on chip is  *)
(* a view, and the driver folds a slice of everything away.                *)
view(p, offset, size) == [p EXCEPT !.offset = @ + offset * p.step, !.size = size]

ExtractSliceOpLowering ==
  /\ converting({"extract"})
  /\ LET source == place(current.ins[1])
         slice == view(source, current.offset, current.size)
     IN  IF current.size = sizeOf(current.ins[1])
           THEN replacedBy(placed[current.ins[1]]) /\ UNCHANGED <<memory, transfers>>
         ELSE IF isIn("dram", source, memory)
           THEN /\ memory' = load(memory, slice)
                /\ transfers' = transfers \cup {loaded(slice, memory)}
                /\ replacedBy(loaded(slice, memory).into)
         ELSE replacedBy(slice) /\ UNCHANGED <<memory, transfers>>
  /\ UNCHANGED copies

(* The tile leaves for its place in DRAM and the assembled value is the    *)
(* destination itself.  An assembly in the scratchpad is refused, and the  *)
(* verifier of dma_store takes its source from the scratchpad only.        *)
InsertSliceOpLowering ==
  /\ converting({"insert"})
  /\ LET into == place(only(current.dest))
         tile == place(current.ins[1])
     IN  IF isIn("scratchpad", into, memory) \/ isIn("dram", tile, memory) THEN refusedHere
         ELSE /\ memory' = stored(memory, view(into, current.offset, tile.size), rowsAt(memory, tile))
              /\ replacedBy(into)
              /\ UNCHANGED <<copies, transfers>>

(* resident(): what an instruction reads is brought on chip first, once    *)
(* for each DRAM buffer, in the order the operands are evaluated in, which *)
(* the language leaves to the compiler.                                    *)
Computing == {"window", "map", "whole", "reshape"}

inDram == {n \in DOMAIN current.ins : isIn("dram", place(current.ins[n]), memory)}

(* Mutant: a buffer brought on chip is not remembered.                     *)
ResidentForgotten ==
  /\ converting(Computing)
  /\ \E n \in inDram :
       LET from == place(current.ins[n]) IN
       /\ memory' = load(memory, from)
       /\ transfers' = transfers \cup {loaded(from, memory)}
  /\ UNCHANGED <<function, stage, ops, next, placed, copies>>

Resident ==
  /\ converting(Computing)
  /\ \E n \in inDram :
       LET from == place(current.ins[n]) IN
       /\ memory' = load(memory, from)
       /\ copies' = extend(copies, from.buffer, loaded(from, memory).into)
       /\ transfers' = transfers \cup {loaded(from, memory)}
  /\ UNCHANGED <<function, stage, ops, next, placed>>

operands ==
  [n \in DOMAIN current.ins |->
     IF current.kind = "map" /\ n = 2 THEN channelBroadcast(place(current.ins[n]), current.size)
                                     ELSE place(current.ins[n])]

(* One instruction into the destination; a reshape allocates its own.      *)
ComputeOpLowering ==
  /\ converting(Computing \ {"reshape"}) /\ inDram = {}
  /\ LET into == place(only(current.dest))
     IN  IF isIn("dram", into, memory) THEN refusedHere
         ELSE /\ memory' = computed(memory, current, operands, into)
              /\ replacedBy(into)
              /\ UNCHANGED <<copies, transfers>>

ReshapeOpLowering ==
  /\ converting({"reshape"}) /\ inDram = {}
  /\ LET into == whole(Len(memory) + 1, current.size)
     IN  /\ memory' = computed(allocated(memory, "scratchpad", current.size),
                               [current EXCEPT !.kind = "whole"], operands, into)
         /\ replacedBy(into)
  /\ UNCHANGED <<copies, transfers>>

(* One dma_store per returned value, except the one tiles were already     *)
(* written into.                                                           *)
ReturnOpLowering ==
  /\ converting({"return"})
  /\ LET pending == {n \in DOMAIN returned : place(returned[n]) # outParameter(n)}
     IN  IF \E n \in pending : isIn("dram", place(returned[n]), memory) THEN refusedHere
         ELSE /\ memory' = FoldLeft(LAMBDA m, n : stored(m, outParameter(n), rowsAt(m, place(returned[n]))),
                                    memory, SetToSortSeq(pending, <))
              /\ stage' = "done"
              /\ UNCHANGED <<function, ops, next, placed, copies, transfers>>

Expand ==
  \/ FlattenFusedOp \/ DecomposeBatchNorm
  \/ SplitDestinations \/ MoveDestinations \/ SinkConstants \/ EraseDeadConstants

Convert ==
  \/ FuncOpLowering \/ ConstantOpLowering \/ EmptyOpLowering
  \/ ExtractSliceOpLowering \/ InsertSliceOpLowering
  \/ Resident \/ ComputeOpLowering \/ ReshapeOpLowering \/ ReturnOpLowering

Next == Validate \/ Expand \/ Convert

Spec == Init /\ [][Next]_vars

-----------------------------------------------------------------------------
(***************************************************************************)
(* No expansion changes what the function computes, and each leaves every  *)
(* definition above its uses: flattening, the decomposition, the clones of *)
(* a shared destination and the two reorderings.                           *)
(***************************************************************************)
ExpansionKeepsTheMeaning ==
  stage \notin {"refused", "convert", "done"} /\ (stage = "validate" => ~\E n \in DOMAIN ops : refusable(ops[n])) =>
    /\ dominates(Len(function.sizes), ops)
    /\ meaningOf(ops) = meaningOf(function.ops)

(***************************************************************************)
(* The instructions leave in every out parameter the value the graph       *)
(* returns there, whatever buffers were shared, assembled, viewed or       *)
(* loaded on the way.                                                      *)
(***************************************************************************)
OutputsHoldTheResults ==
  stage = "done" =>
    \A n \in DOMAIN returned : rowsAt(memory, outParameter(n)) = meaningOf(function.ops)[n]

(* The lowering computes what it was given, expanded and converted.        *)
LoweringKeepsTheMeaning == ExpansionKeepsTheMeaning /\ OutputsHoldTheResults

(***************************************************************************)
(* Section 8: one dma_load per DRAM value entering the scratchpad.  A      *)
(* buffer is loaded whole once at most, however many operations read it,   *)
(* and the slices of an argument loaded whole are views of the copy.  What *)
(* enters is read by an operation.                                         *)
(***************************************************************************)
isWhole(p) == p.offset = 0 /\ p.size = Len(memory[p.buffer].rows)

EachValueEntersOnce ==
  /\ \A s, t \in transfers :
       s # t /\ s.from.buffer = t.from.buffer /\ isWhole(s.from) =>
         ~isWhole(t.from) /\ s.from.buffer \notin arguments
  /\ stage = "done" =>
       \A t \in transfers : \E n \in DOMAIN ops : \E v \in usesOf(ops[n]) :
         resolve(placed[v]).buffer = t.into.buffer
==============================================================================
