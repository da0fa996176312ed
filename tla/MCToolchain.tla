------------------------------ MODULE MCToolchain ------------------------------
(***************************************************************************)
(* The operations, functions and programs that are run.  lowered() gives a *)
(* function the form the lowering, the tiling, the allocator and the       *)
(* double buffering leave it in: every operand is loaded into the arena,   *)
(* the operation computes there and the result is stored.                  *)
(***************************************************************************)
EXTENDS Toolchain

tensor(element, shape) == [element |-> element, shape |-> shape]
f32(shape) == tensor("f32", shape)

plainOp(name, ins, dest) ==
  [name |-> name, ins |-> ins, dest |-> dest, kernel |-> << >>, strides |-> << >>, dilations |-> << >>,
   pads |-> << >>, group |-> 0, axes |-> << >>, ceil |-> FALSE]

windowed(op, kernel, strides, dilations, pads, group, ceil) ==
  [op EXCEPT !.kernel = kernel, !.strides = strides, !.dilations = dilations, !.pads = pads,
             !.group = group, !.ceil = ceil]

-----------------------------------------------------------------------------
(* Operations, among them many a verifier has to refuse.                   *)
PoolOps ==
  {windowed(plainOp(name, <<f32(<<1, 1, 3, 2>>)>>, f32(<<1, 1, h, w>>)),
            <<2, 2>>, <<2, 1>>, <<1, 1>>, pads, 0, ceil) :
     name \in PoolNames, pads \in {<<0, 0, 0, 0>>, <<1, 1, 0, 0>>}, ceil \in BOOLEAN, h \in 1..2, w \in 1..3}

convOp(channels, filter, bias, strides, dilations, pads, group, dest) ==
  windowed(plainOp("conv2d", <<f32(<<dest[1], channels, 3, 2>>), f32(filter)>> \o bias, f32(dest)),
           << >>, strides, dilations, pads, group, FALSE)

ConvOps ==
  {convOp(1, <<2, 1, 2, 2>>, <<f32(<<2>>)>>, <<stride, 1>>, <<1, 1>>, pads, 1, <<1, 2, h, w>>) :
     stride \in 1..2, pads \in {<<0, 1, 0, 0>>, <<1, 1, 0, 0>>}, h \in 1..3, w \in 1..2}
  \cup {convOp(2, <<filters, 1, 2, 1>>, << >>, <<1, 2>>, <<2, 1>>, <<0, 0, 0, 0>>, 2, <<2, filters, 1, 1>>) :
          filters \in 2..3}

MatMulOps ==
  {plainOp("matmul", <<f32(<<2, 3>>), f32(<<3, 2>>)>> \o bias, f32(<<2, n>>)) :
     bias \in {<< >>, <<f32(<<2>>)>>, <<f32(<<3>>)>>}, n \in 2..3}

ElementwiseOps ==
  {plainOp(name, <<f32(<<1, 2, 2, 1>>), f32(rhs)>>, f32(<<1, 2, 2, 1>>)) :
     name \in {"add", "mul"}, rhs \in {<<1, 2, 2, 1>>, <<2>>, <<1>>}}
  \cup {plainOp("add", <<f32(<<2, 4>>), f32(<<2, 4>>)>>, f32(<<2, 4>>)),
        plainOp("relu", <<f32(<<2, 4>>)>>, f32(<<2, 4>>)),
        plainOp("relu", <<tensor("i8", <<2>>)>>, tensor("i8", <<2>>))}

MoveOps ==
  {plainOp("reshape", <<tensor(element, <<2, 3>>)>>, tensor(element, <<3, n>>)) :
     element \in {"f32", "i8"}, n \in 1..2}
  \cup {[plainOp("transpose", <<f32(<<1, 2, 1, 3>>)>>, f32(<<1, 1, 3, 2>>)) EXCEPT !.axes = axes] :
          axes \in {<<0, 2, 3, 1>>, <<0, 3, 1, 2>>, <<0, 2, 3, 3>>}}
  \cup {[plainOp("concat", <<tensor(element, <<2, 1>>), tensor(element, <<2, 2>>)>>, tensor(element, <<2, 3>>))
           EXCEPT !.axes = <<axis>>] : element \in {"f32", "i8"}, axis \in 0..1}

Operations == PoolOps \cup ConvOps \cup MatMulOps \cup ElementwiseOps \cup MoveOps

-----------------------------------------------------------------------------
(* The function an operation is lowered to.                                *)
isConstant(op, n) == n > 1 /\ (op.name \in {"conv2d", "matmul"} \/ broadcasts(op))

scaleOf(op) == IF op.name \in PoolNames THEN 12 ELSE 1

(* Averages of multiples of 12 are whole.                                  *)
elementsFor(op, n) ==
  [e \in 1..product(op.ins[n].shape) |-> (((7 * e + 5 * n) % 9) - 4) * scaleOf(op)]

constantsOf(op) == SelectSeq([n \in DOMAIN op.ins |-> n], LAMBDA n : isConstant(op, n))
inputsOf(op) == SelectSeq([n \in DOMAIN op.ins |-> n], LAMBDA n : ~isConstant(op, n))

dramType(type) == contiguousType("dram", type.element, type.shape)

placeOf(numbers, n) == CHOOSE k \in DOMAIN numbers : numbers[k] = n

sourceOf(op, n) ==
  rootValue(IF isConstant(op, n) THEN constantRoot(placeOf(constantsOf(op), n))
            ELSE argumentRoot(placeOf(inputsOf(op), n)), dramType(op.ins[n]))

destinationArgument(op) == rootValue(argumentRoot(Len(inputsOf(op)) + 1), dramType(op.dest))

(* A bump allocation, each buffer at an even address.                      *)
roomFor(type) == LET bytes == product(type.shape) * byteWidth(type.element) IN bytes + (bytes % FloatBytes)

bufferTypes(op) == op.ins \o <<op.dest, op.dest>>

bufferStart(op, n) == MapThenSumSet(LAMBDA m : roomFor(bufferTypes(op)[m]), 1 .. n - 1)

arenaBytes(op) == bufferStart(op, Len(bufferTypes(op)) + 1)

arena(op) == rootValue(Arena, contiguousType("scratchpad", "i8", <<arenaBytes(op)>>))

buffer(op, n) ==
  viewOf(arena(op), bufferStart(op, n), bufferTypes(op)[n].element, bufferTypes(op)[n].shape)

operation(name, ins, dest) ==
  [name |-> name, ins |-> ins, dest |-> {dest}, kernel |-> << >>, strides |-> << >>, dilations |-> << >>,
   pads |-> << >>, group |-> 0, axes |-> << >>, ceil |-> FALSE, location |-> << >>]

computation(op, ins, dest, location) ==
  [op EXCEPT !.ins = ins, !.dest = {dest}] @@ [location |-> location]

nothing(name) == [operation(name, << >>, << >>) EXCEPT !.dest = {}]

(* The channel broadcast is a view with strides of zero.                   *)
computeOperand(op, n) ==
  IF n = 2 /\ broadcasts(op) THEN reinterpretCast(buffer(op, n), 0, op.dest.shape, <<0, 1, 0, 0>>)
  ELSE buffer(op, n)

loads(op, name) == [n \in DOMAIN op.ins |-> operation(name, <<sourceOf(op, n)>>, buffer(op, n))]

operandsIn(op) == [n \in DOMAIN op.ins |-> computeOperand(op, n)]

last(op) == Len(op.ins) + 1

plainBody(op) ==
  loads(op, "dma_load")
    \o <<computation(op, operandsIn(op), buffer(op, last(op)), <<5, 6>>),
         operation("dma_store", <<buffer(op, last(op))>>, destinationArgument(op))>>

(* Transfers that do not wait, and the result over the first operand.      *)
asyncBody(op) ==
  loads(op, "dma_load_async")
    \o <<nothing("await"),
         computation(op, operandsIn(op), buffer(op, 1), <<5, 6>>),
         operation("dma_store_async", <<buffer(op, 1)>>, destinationArgument(op)), nothing("await")>>

(* The result is spilled and loaded back.                                  *)
spillBody(op) ==
  LET slot == rootValue(slotRoot(1), dramType(op.dest))
  IN  loads(op, "dma_load")
        \o <<computation(op, operandsIn(op), buffer(op, last(op)), <<5>>),
             operation("dma_store", <<buffer(op, last(op))>>, slot),
             operation("dma_load", <<slot>>, buffer(op, last(op) + 1)),
             operation("dma_store", <<buffer(op, last(op) + 1)>>, destinationArgument(op))>>

(* Two tiles along the last axis: a slice of each argument is loaded, and  *)
(* the tile is stored into a slice of the result.                          *)
tileShape(type) == <<type.shape[1], type.shape[2] \div 2>>

slice(v, type, half) == subview(v, <<0, half * tileShape(type)[2]>>, tileShape(type))

tileBuffer(op, n) == viewOf(arena(op), bufferStart(op, n), "f32", tileShape(bufferTypes(op)[n]))

tileOf(op, half) ==
  [n \in DOMAIN op.ins |-> operation("dma_load", <<slice(sourceOf(op, n), op.ins[n], half)>>, tileBuffer(op, n))]
    \o <<computation(op, [n \in DOMAIN op.ins |-> tileBuffer(op, n)], tileBuffer(op, last(op)), <<5 + half>>),
         operation("dma_store", <<tileBuffer(op, last(op))>>, slice(destinationArgument(op), op.dest, half))>>

bodyOf(op, form) ==
  CASE form = "plain" -> plainBody(op)
    [] form = "async" -> asyncBody(op)
    [] form = "spill" -> spillBody(op)
    [] form = "tiled" -> tileOf(op, 0) \o tileOf(op, 1)

lowered(op, form) ==
  [arguments |-> [k \in DOMAIN inputsOf(op) |-> [kind |-> "in", type |-> dramType(op.ins[inputsOf(op)[k]])]]
                   \o <<[kind |-> "out", type |-> dramType(op.dest)]>>,
   constants |-> [k \in DOMAIN constantsOf(op) |->
                    [type |-> dramType(op.ins[constantsOf(op)[k]]), elements |-> elementsFor(op, constantsOf(op)[k])]],
   slots |-> IF form = "spill" THEN <<dramType(op.dest)>> ELSE << >>,
   arenas |-> 1, scratchpadBytes |-> arenaBytes(op), stripDebug |-> form = "async",
   body |-> bodyOf(op, form) \o <<nothing("return")>>]

formsOf(op) ==
  {"plain"}
    \cup (IF op.dest.shape = <<2, 4>> THEN {"async", "spill", "tiled"} ELSE {})
    \cup (IF op.name = "reshape" THEN {"spill"} ELSE {})

NoJob == [ops |-> {}, function |-> << >>, values |-> << >>, inputs |-> << >>, programs |-> {}, damaged |-> FALSE]

OperationJobs ==
  UNION {{[NoJob EXCEPT !.ops = {op}, !.function = lowered(op, form),
                        !.values = [n \in DOMAIN op.ins |-> elementsFor(op, n)],
                        !.inputs = [k \in DOMAIN inputsOf(op) |-> elementsFor(op, inputsOf(op)[k])]] :
            form \in formsOf(op)} : op \in Operations}

-----------------------------------------------------------------------------
(* Functions the encoder refuses, or that no pass would leave behind.      *)
Small == plainOp("relu", <<f32(<<2>>)>>, f32(<<2>>))

SmallFunctions == {lowered(Small, "plain")}

constantType == dramType(f32(<<2>>))

source == rootValue(argumentRoot(1), constantType)

buffer1 == viewOf(rootValue(Arena, contiguousType("scratchpad", "i8", <<12>>)), 0, "f32", <<2>>)

constant == rootValue(constantRoot(1), constantType)

(* What the body of a function may load.                                   *)
OddSources ==
  {dynamicView(source), rootValue(slotRoot(1), constantType), reinterpretCast(source, 0, <<2>>, <<-1>>),
   reinterpretCast(source, -1, <<2>>, <<1>>)}

(* A constant is loaded whole: no view of one is encoded.                  *)
ConstantSources == {constant, reinterpretCast(constant, 0, <<2>>, <<1>>)}

copyIn(v) == <<operation("dma_load", <<v>>, buffer1)>>

withConstant(f, body, shape, elements) ==
  [f EXCEPT !.body = body, !.constants = <<[type |-> dramType(f32(shape)), elements |-> elements]>>]

OddFunctions ==
  UNION {{[f EXCEPT !.scratchpadBytes = -1],
          [f EXCEPT !.scratchpadBytes = MaxMemoryBytes + 1],
          [f EXCEPT !.arenas = 2],
          [f EXCEPT !.arenas = 0],
          [f EXCEPT !.arguments[1].kind = "none"],
          [f EXCEPT !.arguments[1].kind = "out", !.arguments[2].kind = "in"],
          [f EXCEPT !.arguments[1].type.element = "bf16"],
          [f EXCEPT !.arguments[2].type.identity = FALSE],
          withConstant(f, << >>, <<0>>, << >>),
          [f EXCEPT !.body = <<nothing("unknown")>>],
          [f EXCEPT !.body[2].location = <<5, 0>>],
          [f EXCEPT !.body[2].location = <<5, 6, 7>>]}
         \cup {[f EXCEPT !.body = copyIn(v)] : v \in OddSources}
         \cup {withConstant(f, copyIn(v), <<2>>, <<3>>) : v \in ConstantSources} : f \in SmallFunctions}

OddJobs == {[NoJob EXCEPT !.function = f, !.inputs = <<<<1, 2>>>>] : f \in OddFunctions}

(* Files that get damaged: one without an operation, one with a constant.  *)
DamagedFunctions ==
  UNION {{[f EXCEPT !.body = << >>], withConstant(f, copyIn(constant), <<2>>, <<3>>)} : f \in SmallFunctions}

DamagedJobs == {[NoJob EXCEPT !.function = f, !.inputs = <<<<1, 2>>>>, !.damaged = TRUE] : f \in DamagedFunctions}

-----------------------------------------------------------------------------
(* Programs built by hand and run without validation.                      *)
at32(space, address, shape) ==
  [space |-> space, elementType |-> F32, address |-> address, shape |-> shape, strides |-> rowMajor(shape)]

computes(opcode, operands, address, shape) ==
  [NoInstruction EXCEPT !.opcode = opcode, !.operands = operands, !.resultAddress = address,
                        !.resultShape = shape, !.resultStrides = rowMajor(shape)]

windowInstruction(i, kernel, group) ==
  [i EXCEPT !.kernel = kernel, !.strides = <<1, 1>>, !.dilations = <<1, 1>>, !.pads = <<0, 0, 0, 0>>, !.group = group]

handProgram(list) == [EmptyProgram EXCEPT !.scratchpadBytes = 24, !.dramBytes = 8, !.instructions = list]

(* Two channels each, of which the second of the input, or of the output,  *)
(* or the bias, is past the end of the scratchpad.                         *)
smallConv(input, filter, bias, address) ==
  windowInstruction(computes(CONV2D, <<at32(Scratchpad, input, <<1, 2, 1, 2>>),
                                       at32(Scratchpad, filter, <<2, 1, 1, 1>>),
                                       at32(Scratchpad, bias, <<2>>)>>, address, <<1, 2, 1, 2>>), << >>, 2)

poolAll(opcode) ==
  [windowInstruction(computes(opcode, <<at32(Scratchpad, 0, <<1, 1, 1, 1>>)>>, 8, <<1, 1, 1, 2>>), <<1, 1>>, 0)
     EXCEPT !.pads = <<0, 1, 0, 0>>]

HandPrograms ==
  {handProgram(<<smallConv(20, 12, 8, 0), NoInstruction>>),
   handProgram(<<smallConv(0, 8, 22, 20)>>),
   handProgram(<<smallConv(0, 8, 12, 16), [NoInstruction EXCEPT !.opcode = HALT]>>),
   handProgram(<<poolAll(POOL_MAX), poolAll(POOL_AVG)>>),
   handProgram(<<computes(ADD, <<at32(Scratchpad, 0, <<2>>), at32(Scratchpad, 22, <<2>>)>>, 8, <<2>>)>>),
   handProgram(<<computes(MUL, <<at32(Scratchpad, 0, <<2>>), at32(Scratchpad, 4, <<2, 1>>)>>, 8, <<2>>)>>),
   handProgram(<<computes(RELU, <<at32(Scratchpad, 1, <<2>>)>>, 8, <<2>>)>>),
   handProgram(<<computes(MATMUL, <<at32(Scratchpad, 0, <<1, 2>>), at32(Scratchpad, 20, <<2, 2>>)>>, 8, <<1, 2>>)>>),
   handProgram(<<computes(CONCAT, <<at32(Scratchpad, 0, <<1>>), at32(Scratchpad, 4, <<1, 1>>)>>, 8, <<2>>)>>),
   handProgram(<<computes(DMA_LOAD, <<at32(Dram, 2, <<4>>)>>, 0, <<4>>)>>),
   handProgram(<<computes(RELU, << >>, 8, <<2>>)>>),
   handProgram(<<computes(QUANT, <<at32(Scratchpad, 0, <<1>>)>>, 8, <<1>>)>>),
   [EmptyProgram EXCEPT !.dramBytes = MaxMemoryBytes + 1],
   [EmptyProgram EXCEPT !.dramBytes = 4,
      !.constants = <<[offset |-> 0, elementType |-> F32, shape |-> <<2>>, data |-> <<1, 2>>]>>],
   [EmptyProgram EXCEPT !.dramBytes = 4, !.inputs = <<[offset |-> 2, elementType |-> F32, shape |-> <<2>>]>>]}

HandJobs ==
  {[NoJob EXCEPT !.inputs = IF p.inputs = << >> THEN << >> ELSE <<<<1, 2>>>>,
                 !.programs = {p}] : p \in HandPrograms}

AllJobs == OperationJobs \cup OddJobs \cup DamagedJobs \cup HandJobs

(* The functions of every job are in the form the theorems are about.      *)
ASSUME JobsAreAsThePassesLeaveThem == Jobs = AllJobs => AsThePassesLeaveIt
==============================================================================
