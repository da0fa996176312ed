------------------------- MODULE InstructionEncoding -------------------------
(***************************************************************************)
(* The instruction encoder (InstructionEncoder.cpp): it checks the         *)
(* arguments, lays out the DRAM map one region at a time and encodes the   *)
(* body one operation at a time.  The first failure is the answer.         *)
(*                                                                         *)
(* A function is [arguments, constants, slots, arenas, scratchpadBytes,    *)
(* stripDebug, body]: an argument is [kind, type], a constant [type,       *)
(* elements], a slot a type; kind is the arg_kind attribute, and           *)
(* scratchpadBytes is -1 when the attribute is missing.  An operation is   *)
(* [name, ins, dest, kernel, strides, dilations, pads, group, axes,        *)
(* location]; dest is a set of at most one value, and location the bytes   *)
(* of the node name, or << >>.                                             *)
(***************************************************************************)
EXTENDS MemRefs, Ranks

CONSTANT DramAlignment

ASSUME DramAlignmentAssumption == DramAlignment \in Nat \ {0}

VARIABLES
  function,        (* the function being encoded                           *)
  stage,           (* where the compiler is                                *)
  queue,           (* the regions, then the operations, still to come      *)
  cursor,          (* the first DRAM byte no region has                    *)
  dramAddresses,   (* the regions placed: [root, offset, bytes]            *)
  instructions,    (* Program::instructions                                *)
  debug            (* Program::debug                                       *)

encoderVars == <<function, stage, queue, cursor, dramAddresses, instructions, debug>>

refuse ==
  /\ stage' = "refused"
  /\ UNCHANGED <<function, queue, cursor, dramAddresses, instructions, debug>>

-----------------------------------------------------------------------------
(* The DRAM map.                                                           *)
argumentRoot(n) == [kind |-> "argument", number |-> n]
constantRoot(n) == [kind |-> "const", number |-> n]
slotRoot(n) == [kind |-> "slot", number |-> n]
Arena == [kind |-> "arena", number |-> 1]

ofKind(kind) == {n \in DOMAIN function.arguments : function.arguments[n].kind = kind}

typeOf(root) ==
  CASE root.kind = "argument" -> function.arguments[root.number].type
    [] root.kind = "const"    -> function.constants[root.number].type
    [] root.kind = "slot"     -> function.slots[root.number]

encodable(type) == type.element \in {"f32", "i8", "i32"}

elemTypeOf(element) == CASE element = "f32" -> F32 [] element = "i8" -> I8 [] element = "i32" -> I32

(* Any other memory space is refused; the operand types of the instruction *)
(* dialect let none through.                                               *)
spacesOf(space) ==
  CASE space = "scratchpad" -> {Scratchpad}
    [] space = "dram"       -> {Dram}
    [] OTHER                -> {}

(* regionFor: the bytes of what the header can declare.                    *)
regionSizes(type) ==
  IF type.identity /\ encodable(type) THEN byteSize(elemTypeOf(type.element), type.shape) ELSE {}

(* Every argument says what it is, and the outputs come last.              *)
argumentsHold ==
  /\ \A n \in DOMAIN function.arguments :
       function.arguments[n].kind \in {"in", "out"} /\ regionSizes(function.arguments[n].type) # {}
  /\ \A i \in ofKind("in"), o \in ofKind("out") : i < o

regionsInOrder ==
  [n \in 1..Cardinality(ofKind("in")) |-> argumentRoot(inOrder(ofKind("in"))[n])]
    \o [n \in 1..Cardinality(ofKind("out")) |-> argumentRoot(inOrder(ofKind("out"))[n])]
    \o [n \in DOMAIN function.constants |-> constantRoot(n)]
    \o [n \in DOMAIN function.slots |-> slotRoot(n)]

(* readScratchpadSize, findArena and the checks of layOutDram.             *)
ReadAttributes ==
  /\ stage = "encode"
  /\ IF function.scratchpadBytes < 0 \/ function.arenas > 1 \/ ~argumentsHold THEN refuse
     ELSE /\ stage' = "layout"
          /\ queue' = regionsInOrder
          /\ UNCHANGED <<function, cursor, dramAddresses, instructions, debug>>

(* Mutant: the alignment rounds down.                                      *)
alignDown(value) == value - (value % DramAlignment)

alignUp(value) ==
  IF value % DramAlignment = 0 THEN value ELSE value + (DramAlignment - (value % DramAlignment))

PlaceRegion ==
  /\ stage = "layout" /\ queue # << >>
  /\ LET root == Head(queue)
     IN  IF regionSizes(typeOf(root)) = {} THEN refuse
         ELSE \E size \in regionSizes(typeOf(root)) :
                /\ dramAddresses' = dramAddresses \cup
                     {[root |-> root, offset |-> alignUp(cursor), bytes |-> size]}
                /\ cursor' = alignUp(cursor) + size
                /\ queue' = Tail(queue)
                /\ UNCHANGED <<function, stage, instructions, debug>>

EndLayout ==
  /\ stage = "layout" /\ queue = << >>
  /\ stage' = "body"
  /\ queue' = function.body
  /\ UNCHANGED <<function, cursor, dramAddresses, instructions, debug>>

dramBytes == alignUp(cursor)

-----------------------------------------------------------------------------
(* The address of a buffer: the region or the arena its views lead back    *)
(* to, and what the views add.  A value the walk cannot follow is looked   *)
(* up itself.                                                              *)
placedAt(root) == {p.offset : p \in {q \in dramAddresses : q.root = root}}

dramAddressOf(v) ==
  IF computeBufferRange(v) # {}
    THEN UNION {{base + r.offset : base \in placedAt(r.base)} : r \in computeBufferRange(v)}
    ELSE IF v.chain = << >> THEN placedAt(v.root) ELSE {}

scratchpadAddressOf(v) ==
  IF function.arenas = 0 THEN {}
  ELSE {r.offset : r \in {s \in computeBufferRange(v) : s.base = Arena}}

addressOf(v) == IF v.type.space = "dram" THEN dramAddressOf(v) ELSE scratchpadAddressOf(v)

(* stridesOf and the check after it: no negative stride or offset, and no  *)
(* offset that the walk of the views has not seen.                         *)
layoutEncodes(v) ==
  /\ \A n \in DOMAIN v.type.strides : v.type.strides[n] >= 0
  /\ v.type.offset >= 0
  /\ v.type.offset # 0 => computeBufferRange(v) # {}

(* Mutant: the layout's own offset is added to the address of the walk.    *)
makeOperandOffsetTwice(v) ==
  {[space |-> space, elementType |-> elemTypeOf(v.type.element), shape |-> v.type.shape,
    strides |-> v.type.strides, address |-> a + v.type.offset * byteWidth(v.type.element)] :
     space \in spacesOf(v.type.space), a \in addressOf(v)}

(* An operand, or nothing when the value cannot be encoded.                *)
makeOperand(v) ==
  IF ~encodable(v.type) \/ ~layoutEncodes(v) THEN {} ELSE
  {[space |-> space, elementType |-> elemTypeOf(v.type.element), shape |-> v.type.shape,
    strides |-> v.type.strides, address |-> a] : space \in spacesOf(v.type.space), a \in addressOf(v)}

-----------------------------------------------------------------------------
(* The body.  An await encodes to nothing and an asynchronous transfer to  *)
(* the synchronous opcode.                                                 *)
Skipped ==
  {"alloc", "view", "reinterpret_cast", "subview", "constant", "const", "await", "return"}

opcodesOf(name) ==
  CASE name \in {"dma_load", "dma_load_async"}   -> {DMA_LOAD}
    [] name \in {"dma_store", "dma_store_async"} -> {DMA_STORE}
    [] name = "matmul"    -> {MATMUL}
    [] name = "conv2d"    -> {CONV2D}
    [] name = "add"       -> {ADD}
    [] name = "mul"       -> {MUL}
    [] name = "relu"      -> {RELU}
    [] name = "pool_max"  -> {POOL_MAX}
    [] name = "pool_avg"  -> {POOL_AVG}
    [] name = "reshape"   -> {RESHAPE}
    [] name = "transpose" -> {TRANSPOSE}
    [] name = "concat"    -> {CONCAT}
    [] OTHER              -> {}

(* setResult takes all five fields of the destination.                     *)
instructionOf(opcode, operation, operands, result) ==
  [NoInstruction EXCEPT
     !.opcode = opcode, !.operands = operands,
     !.resultSpace = result.space, !.resultElementType = result.elementType,
     !.resultAddress = result.address, !.resultShape = result.shape, !.resultStrides = result.strides,
     !.kernel = operation.kernel, !.strides = operation.strides, !.dilations = operation.dilations,
     !.pads = operation.pads, !.group = operation.group, !.axes = operation.axes]

operandLists(operation) ==
  IF \E n \in DOMAIN operation.ins : makeOperand(operation.ins[n]) = {} THEN {}
  ELSE {[n \in DOMAIN operation.ins |-> CHOOSE o \in makeOperand(operation.ins[n]) : TRUE]}

encodingsOf(operation) ==
  {instructionOf(opcode, operation, operands, result) :
     opcode \in opcodesOf(operation.name), operands \in operandLists(operation),
     result \in UNION {makeOperand(v) : v \in operation.dest}}

(* record, called when the instruction has just been appended.             *)
record(operation) ==
  IF function.stripDebug \/ operation.location = << >> THEN debug
  ELSE Append(debug, [pc |-> Len(instructions), name |-> operation.location])

EncodeOperation ==
  /\ stage = "body" /\ queue # << >>
  /\ LET operation == Head(queue)
     IN  IF operation.name \in Skipped
           THEN /\ queue' = Tail(queue)
                /\ UNCHANGED <<function, stage, cursor, dramAddresses, instructions, debug>>
         ELSE IF encodingsOf(operation) = {} THEN refuse
         ELSE /\ \E instruction \in encodingsOf(operation) : instructions' = Append(instructions, instruction)
              /\ debug' = record(operation)
              /\ queue' = Tail(queue)
              /\ UNCHANGED <<function, stage, cursor, dramAddresses>>

(* Every program ends with HALT, which has no location.                    *)
EncodeHalt ==
  /\ stage = "body" /\ queue = << >>
  /\ instructions' = Append(instructions, [NoInstruction EXCEPT !.opcode = HALT])
  /\ stage' = "encoded"
  /\ UNCHANGED <<function, queue, cursor, dramAddresses, debug>>

EncoderInit(functions) ==
  /\ function \in functions
  /\ stage = "encode"
  /\ queue = << >>
  /\ cursor = 0
  /\ dramAddresses = {}
  /\ instructions = << >>
  /\ debug = << >>

EncoderNext == ReadAttributes \/ PlaceRegion \/ EndLayout \/ EncodeOperation \/ EncodeHalt

-----------------------------------------------------------------------------
(* The Program.  appendConstantData expands a splat to every element.      *)
regionOf(root) ==
  [offset |-> CHOOSE a \in placedAt(root) : TRUE, elementType |-> elemTypeOf(typeOf(root).element),
   shape |-> typeOf(root).shape]

dataOf(constant) ==
  LET splat == Len(constant.elements) = 1
  IN  FlattenSeq([n \in 1..product(constant.type.shape) |->
        toBytes(constant.elements[IF splat THEN 1 ELSE n], byteWidth(constant.type.element))])

constantOf(n) ==
  LET region == regionOf(constantRoot(n))
  IN  [offset |-> region.offset, elementType |-> region.elementType, shape |-> region.shape,
       data |-> dataOf(function.constants[n])]

regionsOfKind(kind) ==
  [n \in 1..Cardinality(ofKind(kind)) |-> regionOf(argumentRoot(inOrder(ofKind(kind))[n]))]

encodedProgram ==
  [scratchpadBytes |-> function.scratchpadBytes, dramBytes |-> dramBytes,
   inputs |-> regionsOfKind("in"), outputs |-> regionsOfKind("out"),
   constants |-> [n \in DOMAIN function.constants |-> constantOf(n)],
   spillSlots |-> [n \in DOMAIN function.slots |-> regionOf(slotRoot(n))],
   instructions |-> instructions, debug |-> debug]
==============================================================================
