------------------------------- MODULE TensorOps -------------------------------
(***************************************************************************)
(* The compute operations of the two dialects: what their verifiers accept *)
(* (NPUOps.cpp for tensors, NPUISAOps.cpp for buffers) and what they mean. *)
(*                                                                         *)
(* An operation is [name, ins, dest, kernel, strides, dilations, pads,     *)
(* group, axes, ceil]; ins and dest are [element, shape], and [space,      *)
(* element, shape] when they are buffers.  The names are those of the      *)
(* instruction dialect.  Tensors have no layout encoding: they are NCHW.   *)
(***************************************************************************)
EXTENDS WindowShape, InstructionSet

PoolNames == {"pool_max", "pool_avg"}
MoveNames == {"reshape", "transpose", "concat"}
LoadNames == {"dma_load", "dma_load_async"}
StoreNames == {"dma_store", "dma_store_async"}
TransferNames == LoadNames \cup StoreNames

rank(type) == Len(type.shape)

sameShape(a, b) == a.shape = b.shape

-----------------------------------------------------------------------------
(* What the rules of both dialects are made of.  The pads are in ONNX      *)
(* order, every begin and then every end.                                  *)
windowOf(op, kernel, axis) ==
  [input |-> op.ins[1].shape[axis + 2], kernel |-> kernel[axis], stride |-> op.strides[axis],
   dilation |-> op.dilations[axis], padBegin |-> op.pads[axis], padEnd |-> op.pads[axis + 2],
   ceil |-> op.ceil]

windowArity(op, kernel) ==
  Len(kernel) = 2 /\ Len(op.strides) = 2 /\ Len(op.dilations) = 2 /\ Len(op.pads) = 4

filterKernel(op) == SubSeq(op.ins[2].shape, 3, 4)

sameElements(op) == \A n \in DOMAIN op.ins : op.ins[n].element = op.dest.element

permutes(op) ==
  /\ Len(op.axes) = rank(op.dest) /\ rank(op.ins[1]) = rank(op.dest)
  /\ {op.axes[n] : n \in DOMAIN op.axes} = 0 .. rank(op.dest) - 1
  /\ \A n \in DOMAIN op.axes : op.dest.shape[n] = op.ins[1].shape[op.axes[n] + 1]

joins(op, axis) ==
  /\ op.ins # << >>
  /\ axis \in 1..rank(op.dest)
  /\ \A n \in DOMAIN op.ins :
       /\ rank(op.ins[n]) = rank(op.dest)
       /\ \A d \in (1..rank(op.dest)) \ {axis} : op.ins[n].shape[d] = op.dest.shape[d]
  /\ MapThenSumSet(LAMBDA n : op.ins[n].shape[axis], DOMAIN op.ins) = op.dest.shape[axis]

-----------------------------------------------------------------------------
(* The tensor dialect.  A computation is f32, and the second operand of an *)
(* ADD or MUL may be one element per channel.                              *)
npuWindow(op, kernel) ==
  /\ rank(op.ins[1]) = 4 /\ rank(op.dest) = 4
  /\ windowArity(op, kernel)
  /\ op.ins[1].shape[1] = op.dest.shape[1]
  /\ \A axis \in 1..2 : /\ accepted(windowOf(op, kernel, axis))
                         /\ op.dest.shape[axis + 2] = computeWindowedExtent(windowOf(op, kernel, axis))

npuPool(op) == npuWindow(op, op.kernel) /\ op.ins[1].shape[2] = op.dest.shape[2]

npuConv(op) ==
  LET channels == op.ins[1].shape[2]
      filter == op.ins[2].shape
  IN  /\ rank(op.ins[1]) = 4 /\ Len(filter) = 4
      /\ op.group > 0 /\ channels % op.group = 0 /\ filter[1] % op.group = 0
      /\ filter[2] = channels \div op.group
      /\ npuWindow(op, filterKernel(op))
      /\ op.dest.shape[2] = filter[1]
      /\ Len(op.ins) = 3 => op.ins[3].shape = <<filter[1]>>

npuMatMul(op) ==
  LET lhs == op.ins[1].shape
      rhs == op.ins[2].shape
  IN  /\ Len(lhs) = 2 /\ Len(rhs) = 2
      /\ rhs[1] = lhs[2]
      /\ op.dest.shape = <<lhs[1], rhs[2]>>
      /\ Len(op.ins) = 3 => op.ins[3].shape = <<rhs[2]>>

broadcasts(op) ==
  op.name \in {"add", "mul"} /\ rank(op.ins[2]) = 1 /\ rank(op.dest) = 4 /\ ~sameShape(op.ins[2], op.dest)

npuElementwise(op) ==
  /\ sameShape(op.ins[1], op.dest)
  /\ IF broadcasts(op) THEN op.ins[2].shape[1] = op.dest.shape[2] ELSE sameShape(op.ins[2], op.dest)

npuRelu(op) == sameShape(op.ins[1], op.dest)

npuReshape(op) == sameElements(op) /\ product(op.ins[1].shape) = product(op.dest.shape)

npuTranspose(op) == sameElements(op) /\ permutes(op)

npuConcat(op) == sameElements(op) /\ joins(op, op.axes[1] + 1)

npuVerifies(op) ==
  /\ op.name \notin MoveNames => sameElements(op) /\ op.dest.element = "f32"
  /\ CASE op.name = "conv2d"    -> npuConv(op)
       [] op.name \in PoolNames -> npuPool(op)
       [] op.name = "matmul"    -> npuMatMul(op)
       [] op.name = "relu"      -> npuRelu(op)
       [] op.name = "reshape"   -> npuReshape(op)
       [] op.name = "transpose" -> npuTranspose(op)
       [] op.name = "concat"    -> npuConcat(op)
       [] OTHER                 -> npuElementwise(op)

-----------------------------------------------------------------------------
(* The instruction dialect, which has no broadcast.                        *)

(* Mutant: entries 0 and 1 of the pads are taken for one axis.             *)
windowedDestinationPairs(op, kernel, channels) ==
  /\ rank(op.ins[1]) = 4 /\ rank(op.dest) = 4
  /\ windowArity(op, kernel)
  /\ op.dest.shape[1] = op.ins[1].shape[1]
  /\ op.dest.shape[2] = channels
  /\ \A axis \in 1..2 :
       LET w == [windowOf(op, kernel, axis) EXCEPT !.padBegin = op.pads[2 * axis - 1], !.padEnd = op.pads[2 * axis]]
       IN  accepted(w) /\ op.dest.shape[axis + 2] = computeWindowedExtent(w)

windowedDestination(op, kernel, channels) ==
  /\ rank(op.ins[1]) = 4 /\ rank(op.dest) = 4
  /\ windowArity(op, kernel)
  /\ op.dest.shape[1] = op.ins[1].shape[1]
  /\ op.dest.shape[2] = channels
  /\ \A axis \in 1..2 :
       LET w == windowOf(op, kernel, axis)
       IN  accepted(w) /\ op.dest.shape[axis + 2] = computeWindowedExtent(w)

biasHolds(op, length) == Len(op.ins) = 3 => op.ins[3].shape = <<length>>

isaConv(op) ==
  LET channels == op.ins[1].shape[2]
      filter == op.ins[2].shape
  IN  /\ rank(op.ins[1]) = 4 /\ Len(filter) = 4
      /\ op.group > 0 /\ channels % op.group = 0 /\ filter[1] % op.group = 0
      /\ filter[2] = channels \div op.group
      /\ windowedDestination(op, filterKernel(op), filter[1])
      /\ biasHolds(op, filter[1])

isaPool(op) == rank(op.ins[1]) = 4 /\ windowedDestination(op, op.kernel, op.ins[1].shape[2])

isaMatMul(op) ==
  /\ rank(op.ins[1]) = 2 /\ rank(op.ins[2]) = 2
  /\ op.ins[2].shape[1] = op.ins[1].shape[2]
  /\ op.dest.shape = <<op.ins[1].shape[1], op.ins[2].shape[2]>>
  /\ biasHolds(op, op.ins[2].shape[2])

isaElementwise(op) == sameShape(op.ins[1], op.dest) /\ sameShape(op.ins[2], op.dest)

isaRelu(op) == sameShape(op.ins[1], op.dest)

isaReshape(op) == product(op.ins[1].shape) = product(op.dest.shape)

isaTranspose(op) == permutes(op)

isaConcat(op) == joins(op, op.axes[1] + 1)

(* verifyTransferShapes.                                                   *)
transferHolds(op) == sameShape(op.ins[1], op.dest)

(* The operand types: computations are f32, everything else f32 or i8, and *)
(* only a transfer has an operand outside the scratchpad.                  *)
operandTypesHold(op) ==
  LET elements == IF op.name \in MoveNames \cup TransferNames THEN {"f32", "i8"} ELSE {"f32"}
      source   == IF op.name \in LoadNames THEN "dram" ELSE "scratchpad"
  IN  /\ op.dest.element \in elements
      /\ op.dest.space = IF op.name \in StoreNames THEN "dram" ELSE "scratchpad"
      /\ \A n \in DOMAIN op.ins : op.ins[n].element \in elements /\ op.ins[n].space = source

(* The verifiers compare no bias: its operand type says it is f32.         *)
isBias(op, n) == op.name \in {"matmul", "conv2d"} /\ n = 3

verifySameElementType(op) ==
  \A n \in DOMAIN op.ins : ~isBias(op, n) => op.ins[n].element = op.dest.element

isaVerifies(op) ==
  /\ operandTypesHold(op)
  /\ verifySameElementType(op)
  /\ CASE op.name = "conv2d"          -> isaConv(op)
       [] op.name \in PoolNames       -> isaPool(op)
       [] op.name = "matmul"          -> isaMatMul(op)
       [] op.name = "relu"            -> isaRelu(op)
       [] op.name = "reshape"         -> isaReshape(op)
       [] op.name = "transpose"       -> isaTranspose(op)
       [] op.name = "concat"          -> isaConcat(op)
       [] op.name \in {"add", "mul"}  -> isaElementwise(op)
       [] OTHER                       -> transferHolds(op)

-----------------------------------------------------------------------------
(* What an operation means, for element values given in row major order.   *)
valueAt(op, data, n, index) == data[n][1 + dot(index, rowMajor(op.ins[n].shape))]

(* The positions of the input a window covers, by tap.                     *)
covered(op, kernel, at) ==
  {tap \in (0 .. kernel[1] - 1) \X (0 .. kernel[2] - 1) :
     \A axis \in 1..2 :
       LET w == windowOf(op, kernel, axis) IN inInput(w, tapPosition(w, at[axis + 2], tap[axis]))}

positionOf(op, kernel, at, tap) ==
  [axis \in 1..2 |-> tapPosition(windowOf(op, kernel, axis), at[axis + 2], tap[axis])]

biasOf(op, data, channel) == IF Len(op.ins) = 3 THEN data[3][channel + 1] ELSE 0

convMeaning(op, data, at) ==
  LET filter == op.ins[2].shape
      kernel == SubSeq(filter, 3, 4)
      first == (at[2] \div (filter[1] \div op.group)) * filter[2]
      term(c, tap) == valueAt(op, data, 1, <<at[1], first + c>> \o positionOf(op, kernel, at, tap))
                        * valueAt(op, data, 2, <<at[2], c>> \o tap)
  IN  biasOf(op, data, at[2])
        + MapThenSumSet(LAMBDA s : term(s[1], s[2]), (0 .. filter[2] - 1) \X covered(op, kernel, at))

poolMeaning(op, data, at) ==
  LET taps == covered(op, op.kernel, at)
      value(tap) == valueAt(op, data, 1, SubSeq(at, 1, 2) \o positionOf(op, op.kernel, at, tap))
  IN  IF op.name = "pool_max" THEN Max({value(tap) : tap \in taps})
      ELSE MapThenSumSet(value, taps) \div Cardinality(taps)

matmulMeaning(op, data, at) ==
  biasOf(op, data, at[2])
    + MapThenSumSet(LAMBDA k : valueAt(op, data, 1, <<at[1], k>>) * valueAt(op, data, 2, <<k, at[2]>>),
                    0 .. op.ins[1].shape[2] - 1)

secondOf(op, data, at) == IF broadcasts(op) THEN data[2][at[2] + 1] ELSE valueAt(op, data, 2, at)

concatMeaning(op, data, at) ==
  LET axis == op.axes[1] + 1
      start(n) == MapThenSumSet(LAMBDA m : op.ins[m].shape[axis], 1 .. n - 1)
      from == CHOOSE n \in DOMAIN op.ins : start(n) <= at[axis] /\ at[axis] < start(n + 1)
  IN  valueAt(op, data, from, [at EXCEPT ![axis] = @ - start(from)])

meaning(op, data, at) ==
  CASE op.name = "conv2d"    -> convMeaning(op, data, at)
    [] op.name \in PoolNames -> poolMeaning(op, data, at)
    [] op.name = "matmul"    -> matmulMeaning(op, data, at)
    [] op.name = "add"       -> valueAt(op, data, 1, at) + secondOf(op, data, at)
    [] op.name = "mul"       -> valueAt(op, data, 1, at) * secondOf(op, data, at)
    [] op.name = "relu"      -> Larger(valueAt(op, data, 1, at), 0)
    [] op.name = "reshape"   -> data[1][1 + dot(at, rowMajor(op.dest.shape))]
    [] op.name = "transpose" ->
         valueAt(op, data, 1, [n \in DOMAIN at |-> at[CHOOSE m \in DOMAIN at : op.axes[m] + 1 = n]])
    [] op.name = "concat"    -> concatMeaning(op, data, at)

(* The whole result, in row major order.                                   *)
result(op, data) == [n \in 1..product(op.dest.shape) |-> meaning(op, data, odometer(op.dest.shape, n - 1))]
==============================================================================
