---------------------------- MODULE InstructionSet ----------------------------
(***************************************************************************)
(* What the encoder, the file format, the validator and the simulator      *)
(* share: the instruction table (NPUISADescription.td), the numbers the    *)
(* file gives to types, spaces and opcodes, and the arithmetic of shapes   *)
(* and strides (Program.cpp, Kernels.cpp).                                 *)
(*                                                                         *)
(* A byte is a number below Base, and FloatBytes of them make an f32 or an *)
(* i32.  An operand is [space, elementType, address, shape, strides], and  *)
(* an instruction has the fields of NoInstruction.                         *)
(***************************************************************************)
EXTENDS Integers, Sequences, FiniteSets, SequencesExt, FiniteSetsExt

CONSTANTS
  Base,          (* the values of a byte                                   *)
  FloatBytes,    (* the bytes of an f32                                    *)
  ShapeLimit,    (* kShapeLimit                                            *)
  MaxDebugName   (* kMaxDebugNameBytes                                     *)

ASSUME BaseAssumption == Base \in Nat /\ Base > 1
ASSUME FloatBytesAssumption == FloatBytes \in Nat \ {0}
ASSUME ShapeLimitAssumption == ShapeLimit \in Nat
ASSUME MaxDebugNameAssumption == MaxDebugName \in Nat

F32 == 0
I8 == 1
I32 == 2
ElemType == {F32, I8, I32}

Scratchpad == 0
Dram == 1
MemSpace == {Scratchpad, Dram}

None == 0
Relu == 1
Activation == {None, Relu}

NOP == 0
HALT == 1
DMA_LOAD == 2
DMA_STORE == 3
MATMUL == 4
CONV2D == 5
ADD == 6
MUL == 7
RELU == 8
POOL_MAX == 9
POOL_AVG == 10
RESHAPE == 11
TRANSPOSE == 12
CONCAT == 13
QUANT == 14
DEQUANT == 15
Opcode == 0..15

-----------------------------------------------------------------------------
(* The table.                                                              *)
Transfers == {DMA_LOAD, DMA_STORE}
Pools == {POOL_MAX, POOL_AVG}
Moves == Transfers \cup {RESHAPE, TRANSPOSE, CONCAT}

writesResult(opcode) == opcode \notin {NOP, HALT}

operandCounts(opcode) ==
  CASE opcode \in {NOP, HALT}      -> {0}
    [] opcode \in {MATMUL, CONV2D} -> {2, 3}
    [] opcode \in {ADD, MUL}       -> {2}
    [] opcode = CONCAT             -> Nat \ {0}
    [] OTHER                       -> {1}

leastOperands(opcode) ==
  CASE opcode \in {NOP, HALT} -> 0 [] opcode \in {MATMUL, CONV2D, ADD, MUL} -> 2 [] OTHER -> 1

resultSpaceOf(opcode) == IF opcode = DMA_STORE THEN Dram ELSE Scratchpad
operandSpaceOf(opcode) == IF opcode = DMA_LOAD THEN Dram ELSE Scratchpad

resultTypesOf(opcode) ==
  CASE opcode \in Moves -> ElemType
    [] opcode = QUANT   -> {I8}
    [] OTHER            -> {F32}

(* QUANT and DEQUANT bridge two types, every other operand has the type of *)
(* the result.                                                             *)
operandTypesOf(opcode, resultType) ==
  CASE opcode = QUANT   -> {F32}
    [] opcode = DEQUANT -> {I8}
    [] OTHER            -> {resultType}

fieldsOf(opcode) ==
  CASE opcode = CONV2D              -> {"strides", "pads", "dilations", "group", "requantize", "activation"}
    [] opcode \in {MATMUL, ADD, MUL} -> {"requantize", "activation"}
    [] opcode \in Pools             -> {"kernel", "strides", "pads", "dilations"}
    [] opcode \in {TRANSPOSE, CONCAT} -> {"axes"}
    [] opcode \in {QUANT, DEQUANT}  -> {"scale", "zeroPoint"}
    [] OTHER                        -> {}

(* The values an Instruction starts with.                                  *)
NoInstruction ==
  [opcode |-> NOP, activation |-> None, resultSpace |-> Scratchpad, resultElementType |-> F32,
   resultAddress |-> 0, resultShape |-> << >>, resultStrides |-> << >>, operands |-> << >>,
   pads |-> << >>, strides |-> << >>, dilations |-> << >>, kernel |-> << >>, group |-> 0,
   axes |-> << >>, scale |-> 0, zeroPoint |-> 0, requantMultiplier |-> 1, requantShift |-> 0]

-----------------------------------------------------------------------------
(* Shapes and strides.                                                     *)
elementByteSize(type) == IF type = I8 THEN 1 ELSE FloatBytes

(* The elements that one step along each axis passes, counted from the     *)
(* last axis; the step at 0 passes all of them.                            *)
stepsOf(shape) ==
  LET step[n \in 0..Len(shape)] == IF n = Len(shape) THEN 1 ELSE shape[n + 1] * step[n + 1]
  IN  step

product(shape) == stepsOf(shape)[0]

(* The sum of a list of numbers.                                           *)
total(terms) ==
  LET sum[n \in 0..Len(terms)] == IF n = 0 THEN 0 ELSE sum[n - 1] + terms[n]
  IN  sum[Len(terms)]

dot(index, strides) == total([n \in DOMAIN strides |-> index[n] * strides[n]])

(* checkedElementCount and the spans built on it: a set of at most one     *)
(* number, empty for a shape that is refused.                              *)
withinLimit(counts) == counts \cap (1..ShapeLimit)

checkedElementCount(shape) ==
  IF shape = << >> \/ \E n \in DOMAIN shape : shape[n] <= 0 THEN {}
  ELSE withinLimit({FoldLeft(LAMBDA p, extent : IF p > ShapeLimit THEN p ELSE p * extent, 1, shape)})

byteSize(type, shape) == withinLimit({count * elementByteSize(type) : count \in checkedElementCount(shape)})

(* The closed hull of a strided view.                                      *)
addressedByteSpan(type, shape, strides) ==
  IF \/ shape = << >> \/ Len(shape) # Len(strides)
     \/ \E n \in DOMAIN shape : shape[n] <= 0 \/ strides[n] < 0 THEN {}
  ELSE withinLimit({(1 + dot([n \in DOMAIN shape |-> shape[n] - 1], strides)) * elementByteSize(type)})

(* Row major strides, and the index an Odometer over shape shows at turn p.*)
rowMajor(shape) == [n \in DOMAIN shape |-> stepsOf(shape)[n]]

odometer(shape, p) ==
  LET steps == rowMajor(shape) IN [n \in DOMAIN shape |-> (p \div steps[n]) % shape[n]]

turns(shape) == 0..(product(shape) - 1)

-----------------------------------------------------------------------------
(* A number as the bytes put() writes, low byte first, and back.           *)
toBytes(number, width) == [n \in 1..width |-> (number \div Base^(n - 1)) % Base]

unsigned(word) == MapThenSumSet(LAMBDA n : word[n] * Base^(n - 1), DOMAIN word)

signed(word) ==
  IF 2 * unsigned(word) >= Base^Len(word) THEN unsigned(word) - Base^Len(word) ELSE unsigned(word)
==============================================================================
