---------------------------- MODULE ProgramChecks ----------------------------
(***************************************************************************)
(* Program::validate() over a whole program with all of its fields         *)
(* (Validation.cpp): the regions, each instruction against what the ones   *)
(* before it wrote, then the debug section.                                *)
(*                                                                         *)
(* The intervals of SlotCoverage are the set of the bytes they hold, and   *)
(* the limits on their number are not reached: ProgramValidation models    *)
(* both, for programs of any length.                                       *)
(***************************************************************************)
EXTENDS InstructionSet

CONSTANTS
  ZeroPointLimit,    (* an i8 zero point is within -128 .. 127             *)
  RequantShiftLimit  (* 31                                                 *)

ASSUME QuantAssumption == ZeroPointLimit \in Nat /\ RequantShiftLimit \in Nat

Spans == INSTANCE ByteCoverage

LargestInt64 == Base^2 \div 2 - 1

(* The byte Base - 1 stands for every scale that is not a finite number.   *)
isFinite(scale) == scale < Base - 1

memorySize(program, space) == IF space = Scratchpad THEN program.scratchpadBytes ELSE program.dramBytes

fitsInMemory(address, sizes, memory) == address >= 0 /\ \E size \in sizes : address + size <= memory

-----------------------------------------------------------------------------
(* The regions.                                                            *)
bytesOfRegion(r) == byteSize(r.elementType, r.shape)

checkRegion(program, r) ==
  /\ r.elementType \in ElemType
  /\ \E size \in bytesOfRegion(r) : r.offset <= LargestInt64 - size
  /\ fitsInMemory(r.offset, bytesOfRegion(r), program.dramBytes)

checkRegions(program) ==
  /\ \A n \in DOMAIN program.inputs : checkRegion(program, program.inputs[n])
  /\ \A n \in DOMAIN program.outputs : checkRegion(program, program.outputs[n])
  /\ \A n \in DOMAIN program.constants :
       /\ checkRegion(program, program.constants[n])
       /\ Len(program.constants[n].data) \in bytesOfRegion(program.constants[n])
  /\ \A n \in DOMAIN program.spillSlots : checkRegion(program, program.spillSlots[n])

(* Inputs and constants hold data before the first instruction, a later    *)
(* region at an address replacing an earlier one.                          *)
writeRegions(spans, regions) ==
  FoldLeft(LAMBDA s, r : Spans!write(s, r.offset, CHOOSE size \in bytesOfRegion(r) : TRUE), spans, regions)

definedAtStart(program) ==
  [space \in MemSpace |->
     IF space = Dram THEN writeRegions(writeRegions({}, program.inputs), program.constants) ELSE {}]

-----------------------------------------------------------------------------
(* What an instruction declares about itself.                              *)
checkTypes(i) ==
  /\ i.opcode \in Opcode
  /\ Len(i.operands) \in operandCounts(i.opcode)
  /\ i.resultElementType \in ElemType
  /\ i.resultSpace \in MemSpace
  /\ \A n \in DOMAIN i.operands : i.operands[n].elementType \in ElemType /\ i.operands[n].space \in MemSpace
  /\ writesResult(i.opcode) =>
       /\ i.resultElementType \in resultTypesOf(i.opcode)
       /\ \A n \in DOMAIN i.operands :
            i.operands[n].elementType \in operandTypesOf(i.opcode, i.resultElementType)
  /\ i.activation \in Activation
  /\ "activation" \notin fieldsOf(i.opcode) => i.activation = None

lengthsOf(name) == CASE name = "pads" -> {4} [] name = "axes" -> Nat [] OTHER -> {2}

checkAttributeSizes(i) ==
  \A name \in {"pads", "strides", "dilations", "kernel", "axes"} :
    IF name \in fieldsOf(i.opcode) THEN Len(i[name]) \in lengthsOf(name) ELSE i[name] = << >>

checkAttributeValues(i) ==
  /\ \A n \in DOMAIN i.strides : i.strides[n] > 0
  /\ \A n \in DOMAIN i.dilations : i.dilations[n] > 0
  /\ \A n \in DOMAIN i.pads : i.pads[n] >= 0
  /\ IF "group" \in fieldsOf(i.opcode) THEN i.group > 0 ELSE i.group = 0

checkQuantization(i) ==
  /\ IF "scale" \in fieldsOf(i.opcode)
       THEN /\ isFinite(i.scale) /\ i.scale > 0
            /\ i.zeroPoint \in -ZeroPointLimit .. ZeroPointLimit - 1
       ELSE i.scale = 0 /\ i.zeroPoint = 0
  /\ i.requantMultiplier > 0
  /\ i.requantShift \in 0..RequantShiftLimit
  /\ "requantize" \notin fieldsOf(i.opcode) => i.requantMultiplier = 1 /\ i.requantShift = 0

checkTranspose(i) ==
  LET rank == Len(i.resultShape)
      from == i.operands[1].shape
  IN  /\ Len(i.axes) = rank
      /\ {i.axes[n] : n \in 1..rank} = 0 .. rank - 1
      /\ Len(from) = rank
      /\ \A n \in 1..rank : i.resultShape[n] = from[i.axes[n] + 1]

checkConcat(i) ==
  LET rank == Len(i.resultShape)
      axis == i.axes[1] + 1
  IN  /\ Len(i.axes) = 1
      /\ axis \in 1..rank
      /\ \A n \in DOMAIN i.operands :
           /\ Len(i.operands[n].shape) = rank
           /\ \A d \in (1..rank) \ {axis} : i.operands[n].shape[d] = i.resultShape[d]
      /\ MapThenSumSet(LAMBDA n : i.operands[n].shape[axis], DOMAIN i.operands) = i.resultShape[axis]

checkShapeSemantics(i) ==
  CASE i.opcode = TRANSPOSE          -> checkTranspose(i)
    [] i.opcode = CONCAT             -> checkConcat(i)
    [] i.opcode \in {QUANT, DEQUANT} -> i.operands[1].shape = i.resultShape
    [] i.opcode = RESHAPE            -> checkedElementCount(i.operands[1].shape) = checkedElementCount(i.resultShape)
    [] OTHER                         -> TRUE

-----------------------------------------------------------------------------
(* What an instruction addresses.                                          *)
resultSpan(i) == addressedByteSpan(i.resultElementType, i.resultShape, i.resultStrides)
operandSpan(a) == addressedByteSpan(a.elementType, a.shape, a.strides)

checkResult(program, i) ==
  IF ~writesResult(i.opcode)
    THEN i.resultShape = << >> /\ i.resultStrides = << >> /\ i.resultAddress = 0
    ELSE /\ byteSize(i.resultElementType, i.resultShape) # {}
         /\ resultSpan(i) # {}
         /\ i.resultSpace = resultSpaceOf(i.opcode)
         /\ fitsInMemory(i.resultAddress, resultSpan(i), memorySize(program, i.resultSpace))

(* byteRuns: one run per row when the innermost stride is one, else one    *)
(* run per element.                                                        *)
byteRuns(address, type, shape, strides) ==
  LET rank == Len(shape)
      rows == IF strides[rank] = 1 THEN [shape EXCEPT ![rank] = 1] ELSE shape
      run == elementByteSize(type) * IF strides[rank] = 1 THEN shape[rank] ELSE 1
      first(p) == address + dot(odometer(rows, p), strides) * elementByteSize(type)
  IN  {first(p) .. first(p) + run - 1 : p \in turns(rows)}

(* The slot a DRAM address lies in: the last that begins at or before it.  *)
slotBytes(program, s) ==
  LET slot == program.spillSlots[s]
  IN  slot.offset .. slot.offset + (CHOOSE size \in bytesOfRegion(slot) : TRUE) - 1

slotAt(program, address) ==
  {s \in DOMAIN program.spillSlots :
     /\ address \in slotBytes(program, s)
     /\ \A t \in DOMAIN program.spillSlots :
          LET begin == program.spillSlots[t].offset
          IN  begin <= address => begin <= program.spillSlots[s].offset}

judgingSlot(program, space, address) == IF space = Dram THEN slotAt(program, address) ELSE {}

(* Checks 8 and 9: a read that begins in a spill slot is covered there run *)
(* by run, any other lies in the one span at its address.                  *)
operandDefined(program, a, memo) ==
  LET slots == judgingSlot(program, a.space, a.address)
      inOneSpan == \E end \in Spans!spanEndAt(memo.defined[a.space], a.address) :
                     \E span \in operandSpan(a) : span <= end - a.address
      inTheSlot == \A s \in slots : \A run \in byteRuns(a.address, a.elementType, a.shape, a.strides) :
                     run \subseteq slotBytes(program, s) /\ run \subseteq memo.covered[s]
  IN  IF slots = {} THEN inOneSpan ELSE inTheSlot

checkOperand(program, i, a, memo) ==
  /\ a.space = operandSpaceOf(i.opcode)
  /\ operandSpan(a) # {}
  /\ fitsInMemory(a.address, operandSpan(a), memorySize(program, a.space))
  /\ operandDefined(program, a, memo)

checkInstruction(program, i, memo) ==
  /\ checkTypes(i)
  /\ checkResult(program, i)
  /\ \A n \in DOMAIN i.operands : checkOperand(program, i, i.operands[n], memo)
  /\ checkAttributeSizes(i)
  /\ checkAttributeValues(i)
  /\ checkQuantization(i)
  /\ checkShapeSemantics(i)

(* The span records the element count, a slot the runs that stay inside.   *)
recordResult(program, i, memo) ==
  LET size == CHOOSE s \in byteSize(i.resultElementType, i.resultShape) : TRUE
      runs == byteRuns(i.resultAddress, i.resultElementType, i.resultShape, i.resultStrides)
      slots == judgingSlot(program, i.resultSpace, i.resultAddress)
  IN  IF ~writesResult(i.opcode) THEN memo
      ELSE [memo EXCEPT
              !.defined[i.resultSpace] = Spans!write(@, i.resultAddress, size),
              !.covered = [s \in DOMAIN @ |->
                 IF s \notin slots THEN @[s]
                 ELSE @[s] \cup UNION {run \in runs : run \subseteq slotBytes(program, s)}]]

checkInstructions(program) ==
  LET start == [ok |-> TRUE, defined |-> definedAtStart(program),
                covered |-> [s \in DOMAIN program.spillSlots |-> {}]]
      next(memo, i) == IF memo.ok /\ checkInstruction(program, i, memo) THEN recordResult(program, i, memo)
                       ELSE [memo EXCEPT !.ok = FALSE]
  IN  FoldLeft(next, start, program.instructions).ok

(* A name is short, ASCII and without NUL, and the entries are strictly    *)
(* increasing.                                                             *)
checkDebug(program) ==
  /\ \A n \in DOMAIN program.debug :
       /\ program.debug[n].pc < Len(program.instructions)
       /\ Len(program.debug[n].name) <= MaxDebugName
       /\ \A c \in DOMAIN program.debug[n].name : program.debug[n].name[c] \in 1 .. Base \div 2 - 1
  /\ \A n \in 2..Len(program.debug) : program.debug[n - 1].pc < program.debug[n].pc

validate(program) == checkRegions(program) /\ checkInstructions(program) /\ checkDebug(program)
==============================================================================
