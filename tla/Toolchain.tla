------------------------------- MODULE Toolchain -------------------------------
(***************************************************************************)
(* From a verified operation to its result: the encoder, the file it       *)
(* writes, the reader, the validator and the simulator, one after the      *)
(* other.  A file may be damaged on the way.                               *)
(*                                                                         *)
(* A job is [ops, function, values, inputs, programs, damaged]: ops is the *)
(* tensor operation the function computes, values its operands, and inputs *)
(* the elements of each input region.  A job with no operation encodes a   *)
(* function no pass would make, and one with a program runs it without     *)
(* validation, as the tests of the simulator do.                           *)
(***************************************************************************)
EXTENDS InstructionEncoding, ProgramFile, ProgramChecks, TensorOps, Kernels

CONSTANT Jobs

VARIABLES
  job,       (* what this behaviour works on                               *)
  intact     (* the file is the one that was written                       *)

vars == <<encoderVars, fileVars, machineVars, job, intact>>

(* The verifier of the tensor dialect decides which operations get in.     *)
Init ==
  /\ job \in {j \in Jobs : \A op \in j.ops : npuVerifies(op)}
  /\ EncoderInit({job.function})
  /\ FileInit
  /\ MachineInit
  /\ intact = TRUE

Encode ==
  /\ job.programs = {}
  /\ EncoderNext
  /\ UNCHANGED <<fileVars, machineVars, job, intact>>

(* npu-translate validates what was encoded, and only then makes a file.   *)
WriteFile ==
  /\ stage = "encoded" /\ reading = "idle"
  /\ IF validate(encodedProgram)
       THEN /\ file' = encode(encodedProgram)
            /\ reading' = "written"
            /\ UNCHANGED encoderVars
       ELSE refuse /\ UNCHANGED <<file, reading>>
  /\ UNCHANGED <<at, section, expected, decoded, machineVars, job, intact>>

(* A file cut short, a file with more at its end, a byte that is wrong.    *)
damagedFiles ==
  {SubSeq(file, 1, n) : n \in 0 .. Len(file) - 1}
    \cup {Append(file, 0)}
    \cup {[file EXCEPT ![n] = byte] : n \in DOMAIN file, byte \in {0, 1, 2, Base - 1}}

Damage ==
  /\ reading = "written" /\ job.damaged
  /\ \E other \in damagedFiles \ {file} : file' = other
  /\ reading' = "reading"
  /\ intact' = FALSE
  /\ UNCHANGED <<encoderVars, at, section, expected, decoded, machineVars, job>>

Open ==
  /\ reading = "written"
  /\ reading' = "reading"
  /\ UNCHANGED <<encoderVars, file, at, section, expected, decoded, machineVars, job, intact>>

Read == ReaderNext /\ UNCHANGED <<encoderVars, machineVars, job, intact>>

(* Program::decode() ends with validate().                                 *)
EndDecode ==
  /\ reading = "decoded"
  /\ reading' = IF validate(decoded) THEN "valid" ELSE "invalid"
  /\ UNCHANGED <<encoderVars, file, at, section, expected, decoded, machineVars, job, intact>>

inputBytes(regions) ==
  [n \in DOMAIN job.inputs |->
     FlattenSeq([e \in DOMAIN job.inputs[n] |->
       toBytes(job.inputs[n][e], elementByteSize(regions[n].elementType))])]

StartSimulator ==
  /\ \/ reading = "valid" /\ intact /\ Construct(decoded)
     \/ \E p \in job.programs : Construct(p)
  /\ UNCHANGED <<encoderVars, fileVars, job, intact>>

Simulate ==
  /\ \/ LoadInputs(inputBytes(program.inputs))
     \/ Run(job.programs # {} \/ validate(program))
     \/ MachineNext
  /\ UNCHANGED <<encoderVars, fileVars, job, intact>>

Next == Encode \/ WriteFile \/ Damage \/ Open \/ Read \/ EndDecode \/ StartSimulator \/ Simulate

Spec == Init /\ [][Next]_vars

-----------------------------------------------------------------------------
(* No two regions of the DRAM map share a byte, each is aligned and inside *)
(* the DRAM the program declares.                                          *)
RegionsAreApart ==
  /\ \A p, q \in dramAddresses : p # q => p.offset + p.bytes <= q.offset \/ q.offset + q.bytes <= p.offset
  /\ \A p \in dramAddresses : p.offset % DramAlignment = 0 /\ p.offset + p.bytes <= dramBytes

-----------------------------------------------------------------------------
encodedPositions == {n \in DOMAIN function.body : function.body[n].name \notin Skipped}

encodedOperations ==
  [k \in 1..Cardinality(encodedPositions) |-> function.body[inOrder(encodedPositions)[k]]]

valuesOf(operation) == {operation.ins[n] : n \in DOMAIN operation.ins} \cup operation.dest

valuesOfBody == UNION {valuesOf(function.body[n]) : n \in DOMAIN function.body}

(* What the passes hand to the encoder.  A value is a view of an           *)
(* allocation, or of an argument, and at most its last step is a cast or   *)
(* the slice of something contiguous: -npu-allocate-scratchpad views the   *)
(* arena, a channel broadcast is cast and a tile is a slice of what lives  *)
(* in DRAM.  Nothing casts or slices what is already cast or sliced.  What *)
(* encodes to nothing carries no value: the views are in the chains.       *)
isList(s) == s \in Seq({s[n] : n \in DOMAIN s})

isContiguous(type) == type.strides = rowMajor(type.shape) /\ type.offset = 0

isLayout(type) ==
  /\ type.shape \in Seq(Nat \ {0})
  /\ type.strides \in Seq(Int) /\ Len(type.strides) = Len(type.shape)
  /\ type.offset \in Int
  /\ type.identity => isContiguous(type)

laysOut(step, type) ==
  \/ step.op = "dynamic_view"
  \/ step.op = "view" /\ isContiguous(type)
  \/ step.op = "reinterpret_cast" /\ step.offset = type.offset /\ step.element = type.element
  \/ /\ step.op = "subview" /\ isContiguous(step.source) /\ step.source.element = type.element
     /\ type.offset = dot(step.offsets, step.source.strides)

isBuilt(v) ==
  /\ isLayout(v.type) /\ isList(v.chain)
  /\ \A n \in DOMAIN v.chain :
       /\ v.chain[n].op = "view" => v.chain[n].bytes \in Nat
       /\ n < Len(v.chain) => v.chain[n].op \in {"view", "dynamic_view"}
  /\ IF v.chain = << >> THEN isContiguous(v.type) ELSE laysOut(v.chain[Len(v.chain)], v.type)

isOperation(operation) ==
  /\ isList(operation.ins)
  /\ \A v, w \in operation.dest : v = w
  /\ \A v \in valuesOf(operation) : isBuilt(v)
  /\ operation.name \in Skipped => valuesOf(operation) = {}

isFunction(f) ==
  /\ isList(f.arguments) /\ isList(f.constants) /\ isList(f.slots) /\ isList(f.body)
  /\ \A n \in DOMAIN f.body : isOperation(f.body[n])

AsThePassesLeaveIt == \A j \in Jobs : j.programs = {} => isFunction(j.function)

(* Where the root of a value begins.                                       *)
baseOf(v) == IF v.root = Arena THEN 0 ELSE CHOOSE a \in placedAt(v.root) : TRUE

hullOf(v) == Min(bytesOfValue(v)) .. Max(bytesOfValue(v))

(* The overlap analysis says that two buffers overlap exactly when they    *)
(* come from one root and the spans of the bytes they address meet, and    *)
(* it says nothing only of a buffer it cannot follow.                      *)
OverlapAnalysisMatchesAddresses ==
  stage = "encoded" /\ reading = "idle" =>
    \A v, w \in valuesOfBody :
      IF ~analysable(v) \/ ~analysable(w) THEN overlaps(v, w) = "Unknown"
      ELSE (overlaps(v, w) = "Overlaps") = (v.root = w.root /\ hullOf(v) \cap hullOf(w) # {})

addresses(operand, v) ==
  \A p \in turns(v.type.shape) :
    LET index == odometer(v.type.shape, p)
    IN  operand.address + dot(index, operand.strides) * byteWidth(v.type.element) = baseOf(v) + elementOf(v, index)

resultOperand(i) == [address |-> i.resultAddress, strides |-> i.resultStrides]

(* Every element of every operand and of every result is where the views   *)
(* of the function put it: the views and the layout are added up once.     *)
OperandsAddressTheirElements ==
  stage = "encoded" /\ reading = "idle" =>
    \A n \in DOMAIN encodedOperations :
      /\ \A k \in DOMAIN encodedOperations[n].ins :
           addresses(instructions[n].operands[k], encodedOperations[n].ins[k])
      /\ \A v \in encodedOperations[n].dest : addresses(resultOperand(instructions[n]), v)

(* Every location of the function that is encoded is named once, at the    *)
(* instruction that encodes it, and nothing is named when names are        *)
(* stripped.                                                               *)
DebugNamesItsInstruction ==
  stage = "encoded" /\ reading = "idle" =>
    LET named == {n \in DOMAIN encodedOperations : ~function.stripDebug /\ encodedOperations[n].location # << >>}
    IN  /\ Len(debug) = Cardinality(named)
        /\ \A n \in named : \E d \in DOMAIN debug :
             debug[d] = [pc |-> n - 1, name |-> encodedOperations[n].location]

(* An instruction stands for its operation: its operands, its result and   *)
(* its name are that operation's.                                          *)
EncodingIsFaithful == OperandsAddressTheirElements /\ DebugNamesItsInstruction

(* What was written is what is read back, field by field; and a file the   *)
(* reader accepts is the file the writer makes of what was read, damaged   *)
(* or not: nothing in it is left over or read twice.                       *)
RoundTrip ==
  /\ intact /\ job.programs = {} =>
       /\ reading \in {"decoded", "valid", "invalid"} => decoded = encodedProgram
       /\ reading # "malformed"
  /\ reading = "decoded" => encode(decoded) = file

typesOf(operation) ==
  LET typed(v) == [space |-> v.type.space, element |-> v.type.element, shape |-> v.type.shape]
  IN  [operation EXCEPT !.ins = [n \in DOMAIN @ |-> typed(@[n])], !.dest = typed(CHOOSE v \in @ : TRUE)]

(* An operation the tensor dialect accepts is accepted by the instruction  *)
(* dialect, encoded, decoded, validated and loaded, and runs to its HALT   *)
(* without a trap: no later stage refuses what an earlier one let through. *)
VerifiedIsValid ==
  job.ops # {} =>
    /\ stage = "encode" => \A n \in DOMAIN encodedOperations : isaVerifies(typesOf(encodedOperations[n]))
    /\ stage # "refused"
    /\ intact => reading \notin {"malformed", "invalid"}
    /\ machine \notin {"refused", "trapped", "stopped"}

elementsOf(region) ==
  LET size == elementByteSize(region.elementType)
  IN  [n \in 1..product(region.shape) |-> signed(bytesAt(Dram, region.offset + (n - 1) * size, size))]

(* When the program halts its output region holds what the operation       *)
(* means for these inputs.                                                 *)
ExecutionComputesTheOperation ==
  machine = "halted" => \A op \in job.ops : elementsOf(program.outputs[1]) = result(op, job.values)

(* A run that goes on, halts or ends has had no trap: nothing is computed  *)
(* from, and no answer given after, an access that was skipped.            *)
NoAnswerAfterATrap == machine \in {"idle", "constructed", "loaded", "fetch", "halted", "stopped"} => trap = {}

bytesOfOperand(a) == UNION {{<<a.space, b>> : b \in a.address .. a.address + span - 1} : span \in operandSpan(a)}

readBy(i) == UNION {bytesOfOperand(i.operands[n]) : n \in DOMAIN i.operands}

writtenBy(i) ==
  UNION {{<<i.resultSpace, write.address + b - 1>> : b \in DOMAIN write.bytes} :
         write \in UNION {writesOf(i, p) : p \in 0 .. turnsOf(i) - 1}}

(* While a kernel whose result is apart from its operands runs, every      *)
(* output done holds its value, whatever the other threads did since; one  *)
(* trap at most is recorded, and it comes from an access that does fault.  *)
FinishedOutputsStand ==
  machine = "kernel" /\ readBy(current) \cap writtenBy(current) = {} =>
    /\ \A t \in DOMAIN team : \A done \in 0 .. team[t] - 1 :
         \A write \in writesOf(current, turnOf(current, t, done)) :
           bytesAt(current.resultSpace, write.address, Len(write.bytes)) = write.bytes
    /\ Cardinality(trap) <= 1
    /\ \A r \in trap : r.pc = pc /\ faults(current, r.turn)
==============================================================================
