-------------------------------- MODULE Kernels --------------------------------
(***************************************************************************)
(* The simulator's machine and its kernels (Simulator.cpp, Memory.cpp,     *)
(* Kernels.cpp): two memories, the loading of constants and inputs, and    *)
(* the execution of a program, one output of one kernel at a time.         *)
(*                                                                         *)
(* A convolution runs as a team of threads, one for each image and output  *)
(* channel; every other kernel is one thread, and a contiguous transfer    *)
(* one copy.  An f32 is an integer of FloatBytes bytes, and the lowest of  *)
(* them stands for minus infinity.                                         *)
(***************************************************************************)
EXTENDS InstructionSet, WindowShape

CONSTANT MaxMemoryBytes

ASSUME MemoryAssumption == MaxMemoryBytes \in Nat

VARIABLES
  program,    (* the program the simulator was built with                  *)
  memory,     (* the bytes of each space                                   *)
  pc,         (* the next instruction, counted from 0                      *)
  machine,    (* "idle", "constructed", "loaded", "fetch", "kernel", then  *)
              (* "halted", "stopped", "trapped" or "refused"               *)
  team,       (* for each thread of the kernel, the outputs it has done    *)
  trap        (* firstTrap: at most one [pc, turn]                         *)

machineVars == <<program, memory, pc, machine, team, trap>>

NoTurn == -1

current == program.instructions[pc + 1]

-----------------------------------------------------------------------------
(* The checked accessors.  A read is a set of at most one value.           *)
inRange(space, address, bytes) == address >= 0 /\ address + bytes <= Len(memory[space])

bytesAt(space, address, count) == SubSeq(memory[space], address + 1, address + count)

overwritten(row, address, bytes) ==
  [n \in DOMAIN row |-> IF n - address \in DOMAIN bytes THEN bytes[n - address] ELSE row[n]]

addressable(space, address) == address % FloatBytes = 0 /\ inRange(space, address, FloatBytes)

readF32(operand, index) ==
  LET address == operand.address + dot(index, operand.strides) * FloatBytes
  IN  IF addressable(operand.space, address) THEN {signed(bytesAt(operand.space, address, FloatBytes))} ELSE {}

(* The source of copyElement, with its guard on the offset.                *)
readElement(operand, index, size) ==
  LET element == dot(index, operand.strides)
      address == operand.address + element * size
  IN  IF element <= ShapeLimit /\ element >= -ShapeLimit /\ inRange(operand.space, address, size)
        THEN {bytesAt(operand.space, address, size)} ELSE {}

-----------------------------------------------------------------------------
(* What a kernel refuses before it moves anything.                         *)
elementsIn(shape) == IF checkedElementCount(shape) = {} THEN 0 ELSE product(shape)

requireRank(operand, rank) == Len(operand.shape) = rank /\ Len(operand.strides) = rank

requireF32(i) == i.resultElementType = F32

axesWithin(i, count) ==
  Len(i.axes) = count /\ \A n \in DOMAIN i.axes : i.axes[n] \in 0 .. Len(i.resultShape) - 1

windowFields(i) == Len(i.resultShape) = 4 /\ Len(i.strides) = 2 /\ Len(i.dilations) = 2 /\ Len(i.pads) = 4

divides(group, channels) == group > 0 /\ channels % group = 0

convolves(i) ==
  LET input == i.operands[1]
      filter == i.operands[2]
  IN  /\ windowFields(i)
      /\ requireRank(input, 4) /\ requireRank(filter, 4)
      /\ input.shape[1] = i.resultShape[1]
      /\ divides(i.group, i.resultShape[2]) /\ divides(i.group, input.shape[2])
      /\ filter.shape[1] = i.resultShape[2]
      /\ filter.shape[2] = input.shape[2] \div i.group
      /\ requireF32(i)

multiplies(i) ==
  LET lhs == i.operands[1]
      rhs == i.operands[2]
  IN  /\ Len(i.resultShape) = 2
      /\ requireRank(lhs, 2) /\ requireRank(rhs, 2)
      /\ lhs.shape[1] = i.resultShape[1]
      /\ rhs.shape = <<lhs.shape[2], i.resultShape[2]>>
      /\ requireF32(i)

pools(i) ==
  /\ windowFields(i) /\ Len(i.kernel) = 2
  /\ elementsIn(i.resultShape) > 0 => requireF32(i) /\ requireRank(i.operands[1], 4)

moves(i) ==
  LET source == i.operands[1]
      rank == Len(i.resultShape)
  IN  CASE i.opcode \in Transfers -> requireRank(source, rank) /\ source.shape = i.resultShape
        [] i.opcode = RESHAPE     -> source.shape # << >> /\ Len(source.shape) = Len(source.strides)
        [] i.opcode = TRANSPOSE   -> requireRank(source, rank) /\ axesWithin(i, rank)
        [] i.opcode = CONCAT      -> axesWithin(i, 1)

combines(i) == requireF32(i) /\ \A n \in DOMAIN i.operands : requireRank(i.operands[n], Len(i.resultShape))

(* kernelFor, and the checks at the top of what it returns.  QUANT and     *)
(* DEQUANT have no arithmetic in this build.                               *)
hasKernel(opcode) == opcode \notin {NOP, HALT}

(* The run loop looks at the number of operands before a kernel indexes    *)
(* one; a program that was not validated may carry fewer.                  *)
hasOperands(i) == Len(i.operands) >= leastOperands(i.opcode)

accepts(i) ==
  CASE i.opcode \in {QUANT, DEQUANT} -> FALSE
    [] i.opcode = CONV2D             -> convolves(i)
    [] i.opcode = MATMUL             -> multiplies(i)
    [] i.opcode \in Pools            -> pools(i)
    [] i.opcode \in Moves            -> elementsIn(i.resultShape) > 0 => moves(i)
    [] OTHER                         -> elementsIn(i.resultShape) > 0 => combines(i)

-----------------------------------------------------------------------------
(* The turns of a kernel: one for each output, in the order of the code.   *)
contiguousCopy(i) ==
  /\ i.opcode \in Transfers
  /\ i.operands[1].strides = rowMajor(i.resultShape)
  /\ i.resultStrides \in {<< >>, rowMajor(i.resultShape)}

(* CONCAT walks its operands one after the other.                          *)
operandStart(i, n) == MapThenSumSet(LAMBDA m : product(i.operands[m].shape), 1 .. n - 1)

operandAt(i, p) == CHOOSE n \in DOMAIN i.operands : operandStart(i, n) <= p /\ p < operandStart(i, n + 1)

turnsOf(i) ==
  CASE elementsIn(i.resultShape) = 0 -> 0
    [] contiguousCopy(i)             -> 1
    [] i.opcode = RESHAPE            -> Smaller(product(i.resultShape), product(i.operands[1].shape))
    [] i.opcode = CONCAT             -> operandStart(i, Len(i.operands) + 1)
    [] OTHER                         -> product(i.resultShape)

threadsOf(i) == IF i.opcode = CONV2D THEN 0 .. i.resultShape[1] * i.resultShape[2] - 1 ELSE {0}

turnsPerThread(i) == turnsOf(i) \div Cardinality(threadsOf(i))

turnOf(i, t, done) == t * turnsPerThread(i) + done

-----------------------------------------------------------------------------
(* The value of an output.                                                 *)
activate(i, value) == IF i.activation = Relu THEN Larger(value, 0) ELSE value

Lowest == -(Base^FloatBytes \div 2)

(* Mutant: entries 0 and 1 of the pads are taken for one axis.             *)
windowAlongPairs(i, axis, input, kernel) ==
  [input |-> input, kernel |-> kernel, stride |-> i.strides[axis], dilation |-> i.dilations[axis],
   padBegin |-> i.pads[2 * axis - 1]]

(* A window along one spatial axis, 1 or 2, and the taps of output o that  *)
(* lie inside the input.                                                   *)
windowAlong(i, axis, input, kernel) ==
  [input |-> input, kernel |-> kernel, stride |-> i.strides[axis], dilation |-> i.dilations[axis],
   padBegin |-> i.pads[axis]]

tapsInside(w, o) == {k \in 0 .. w.kernel - 1 : inInput(w, tapPosition(w, o, k))}

pooled(i, at) ==
  LET source == i.operands[1]
      h == windowAlong(i, 1, source.shape[3], i.kernel[1])
      w == windowAlong(i, 2, source.shape[4], i.kernel[2])
      taps == tapsInside(h, at[3]) \X tapsInside(w, at[4])
      read(tap) == readF32(source, <<at[1], at[2], tapPosition(h, at[3], tap[1]), tapPosition(w, at[4], tap[2])>>)
      sum == MapThenSumSet(LAMBDA tap : CHOOSE v \in read(tap) : TRUE, taps)
  IN  IF \E tap \in taps : read(tap) = {} THEN {}
      ELSE IF i.opcode = POOL_MAX THEN {Max({Lowest} \cup UNION {read(tap) : tap \in taps})}
      ELSE {IF taps = {} THEN 0 ELSE sum \div Cardinality(taps)}

(* biasAt: a rank 1 bias is read by channel, any other by the whole index. *)
biasRead(bias, at, channel) ==
  readF32(bias, IF Len(bias.strides) = 1 THEN <<channel>> ELSE at)

biases(i, at, channel) == IF Len(i.operands) > 2 THEN biasRead(i.operands[3], at, channel) ELSE {0}

multiplied(i, at) ==
  LET terms == [k \in 0 .. i.operands[1].shape[2] - 1 |->
                  {a * b : a \in readF32(i.operands[1], <<at[1], k>>), b \in readF32(i.operands[2], <<k, at[2]>>)}]
      sum == MapThenSumSet(LAMBDA k : CHOOSE v \in terms[k] : TRUE, DOMAIN terms)
  IN  IF \E k \in DOMAIN terms : terms[k] = {} THEN {}
      ELSE {activate(i, sum + bias) : bias \in biases(i, at, at[2])}

(* The products a convolution sums, by channel and tap; a pair that cannot *)
(* be read is recorded and left out.                                       *)
convolutionTerms(i, at) ==
  LET input == i.operands[1]
      filter == i.operands[2]
      h == windowAlong(i, 1, input.shape[3], filter.shape[3])
      w == windowAlong(i, 2, input.shape[4], filter.shape[4])
      channels == input.shape[2] \div i.group
      group == at[2] \div (i.resultShape[2] \div i.group)
      value(c, kh, kw) ==
        readF32(input, <<at[1], group * channels + c, tapPosition(h, at[3], kh), tapPosition(w, at[4], kw)>>)
  IN  [tap \in (0 .. channels - 1) \X tapsInside(h, at[3]) \X tapsInside(w, at[4]) |->
         {v * f : v \in value(tap[1], tap[2], tap[3]), f \in readF32(filter, <<at[2]>> \o tap)}]

convolved(i, at) ==
  LET terms == convolutionTerms(i, at)
      orZero(read) == IF read = {} THEN 0 ELSE CHOOSE v \in read : TRUE
  IN  activate(i, MapThenSumSet(LAMBDA tap : orZero(terms[tap]), DOMAIN terms) + orZero(biases(i, at, at[2])))

combined(i, at) ==
  LET read(n) == readF32(i.operands[n], at)
  IN  CASE i.opcode = ADD  -> {activate(i, a + b) : a \in read(1), b \in read(2)}
        [] i.opcode = MUL  -> {activate(i, a * b) : a \in read(1), b \in read(2)}
        [] i.opcode = RELU -> {Larger(a, 0) : a \in read(1)}

moved(i, p) ==
  LET size == elementByteSize(i.resultElementType)
      source == i.operands[1]
      at == odometer(i.resultShape, p)
      n == operandAt(i, p)
      permuted == [source EXCEPT !.strides = [d \in DOMAIN at |-> source.strides[i.axes[d] + 1]]]
  IN  CASE contiguousCopy(i) ->
             LET bytes == product(i.resultShape) * size
             IN  IF inRange(source.space, source.address, bytes)
                   THEN {bytesAt(source.space, source.address, bytes)} ELSE {}
        [] i.opcode = RESHAPE   -> readElement(source, odometer(source.shape, p), size)
        [] i.opcode = TRANSPOSE -> readElement(permuted, at, size)
        [] i.opcode = CONCAT    ->
             IF ~requireRank(i.operands[n], Len(i.resultShape)) THEN {}
             ELSE readElement(i.operands[n], odometer(i.operands[n].shape, p - operandStart(i, n)), size)
        [] OTHER                -> readElement(source, at, size)

(* The bytes turn p writes.                                                *)
valueBytes(i, p) ==
  LET at == odometer(i.resultShape, p)
      word(values) == {toBytes(v, FloatBytes) : v \in values}
  IN  CASE i.opcode \in Moves  -> moved(i, p)
        [] i.opcode \in Pools  -> word(pooled(i, at))
        [] i.opcode = MATMUL   -> word(multiplied(i, at))
        [] i.opcode = CONV2D   -> word({convolved(i, at)})
        [] OTHER               -> word(combined(i, at))

-----------------------------------------------------------------------------
(* Mutant: the rows of a convolution are as long as its columns.           *)
resultElementOfHeight(i, p) ==
  LET at == odometer(i.resultShape, p)
      height == i.resultShape[3]
  IN  IF i.opcode = CONV2D
        THEN ((at[1] * i.resultShape[2] + at[2]) * height + at[3]) * height + at[4] ELSE p

(* Where turn p writes, in elements from the address of the result: a      *)
(* computation lays its outputs down in a row, whatever the strides of the *)
(* result, a transfer follows them and CONCAT has its own.                 *)
resultElement(i, p) ==
  LET n == operandAt(i, p)
      at == odometer(i.operands[n].shape, p - operandStart(i, n))
      along == MapThenSumSet(LAMBDA m : i.operands[m].shape[i.axes[1] + 1], 1 .. n - 1)
  IN  CASE i.opcode \in Transfers /\ ~contiguousCopy(i) /\ i.resultStrides # << >> ->
             dot(odometer(i.resultShape, p), i.resultStrides)
        [] i.opcode = CONCAT ->
             dot([at EXCEPT ![i.axes[1] + 1] = @ + along], rowMajor(i.resultShape))
        [] OTHER -> p

destinationOf(i, p) == i.resultAddress + resultElement(i, p) * elementByteSize(i.resultElementType)

writable(i, p, count) ==
  /\ i.opcode \in Moves \/ destinationOf(i, p) % FloatBytes = 0
  /\ inRange(i.resultSpace, destinationOf(i, p), count)

(* The write of a turn, if every access it needs succeeds.                 *)
writesOf(i, p) ==
  {[address |-> destinationOf(i, p), bytes |-> bytes] :
     bytes \in {b \in valueBytes(i, p) : writable(i, p, Len(b))}}

faults(i, p) ==
  \/ writesOf(i, p) = {}
  \/ /\ i.opcode = CONV2D
     /\ LET at == odometer(i.resultShape, p)
            terms == convolutionTerms(i, at)
        IN  biases(i, at, at[2]) = {} \/ \E tap \in DOMAIN terms : terms[tap] = {}

(* recordTrap keeps the first.                                             *)
recordTrap(turn) == trap' = IF trap = {} THEN {[pc |-> pc, turn |-> turn]} ELSE trap

-----------------------------------------------------------------------------
(* The constructor: strictly the memory the program declares, zeroed, then *)
(* the constants.                                                          *)
sizesAgree(region, data) ==
  Len(data) \in byteSize(region.elementType, region.shape)

loaded(row, region, data) ==
  IF region.offset + Len(data) <= Len(row) THEN {overwritten(row, region.offset, data)} ELSE {}

loadAll(rows, regions, data) ==
  FoldLeft(LAMBDA r, n : IF sizesAgree(regions[n], data[n]) THEN UNION {loaded(row, regions[n], data[n]) : row \in r}
                         ELSE {},
           rows, [n \in DOMAIN regions |-> n])

zeroes(count) == [n \in 1..count |-> 0]

Construct(p) ==
  /\ machine = "idle"
  /\ program' = p
  /\ LET drams == loadAll({zeroes(p.dramBytes)}, p.constants, [n \in DOMAIN p.constants |-> p.constants[n].data])
     IN  IF p.scratchpadBytes > MaxMemoryBytes \/ p.dramBytes > MaxMemoryBytes \/ drams = {}
           THEN machine' = "refused" /\ UNCHANGED memory
           ELSE /\ machine' = "constructed"
                /\ \E dram \in drams :
                     memory' = [space \in MemSpace |-> IF space = Dram THEN dram ELSE zeroes(p.scratchpadBytes)]
  /\ UNCHANGED <<pc, team, trap>>

(* loadInput for each input; bytes of another size are refused.            *)
LoadInputs(data) ==
  /\ machine = "constructed"
  /\ LET drams == loadAll({memory[Dram]}, program.inputs, data)
     IN  IF drams = {} THEN machine' = "refused" /\ UNCHANGED memory
         ELSE machine' = "loaded" /\ \E dram \in drams : memory' = [memory EXCEPT ![Dram] = dram]
  /\ UNCHANGED <<program, pc, team, trap>>

(* run() validates, runUnvalidated() does not: mayRun is the answer.       *)
Run(mayRun) ==
  /\ machine = "loaded"
  /\ machine' = IF mayRun THEN "fetch" ELSE "refused"
  /\ UNCHANGED <<program, memory, pc, team, trap>>

(* After an instruction a trap stops the run, then HALT does.              *)
afterInstruction(trapped) ==
  /\ pc' = pc + 1
  /\ machine' = IF trapped THEN "trapped" ELSE IF current.opcode = HALT THEN "halted" ELSE "fetch"

Fetch ==
  /\ machine = "fetch" /\ pc < Len(program.instructions)
  /\ IF ~hasKernel(current.opcode)
       THEN afterInstruction(FALSE) /\ UNCHANGED <<team, trap>>
     ELSE IF ~hasOperands(current) \/ ~accepts(current)
       THEN afterInstruction(TRUE) /\ recordTrap(NoTurn) /\ UNCHANGED team
     ELSE /\ machine' = "kernel"
          /\ team' = [t \in threadsOf(current) |-> 0]
          /\ UNCHANGED <<pc, trap>>
  /\ UNCHANGED <<program, memory>>

OffTheEnd ==
  /\ machine = "fetch" /\ pc = Len(program.instructions)
  /\ machine' = "stopped"
  /\ UNCHANGED <<program, memory, pc, team, trap>>

(* A kernel returns at its first fault; only a thread of a convolution     *)
(* goes on.                                                                *)
abandoned == trap # {} /\ current.opcode # CONV2D

finished == \A t \in DOMAIN team : team[t] = turnsPerThread(current)

Step(t) ==
  /\ machine = "kernel" /\ ~abandoned
  /\ t \in DOMAIN team /\ team[t] < turnsPerThread(current)
  /\ LET p == turnOf(current, t, team[t])
     IN  /\ IF faults(current, p) THEN recordTrap(p) ELSE UNCHANGED trap
         /\ IF writesOf(current, p) = {} THEN UNCHANGED memory
            ELSE \E write \in writesOf(current, p) :
                   memory' = [memory EXCEPT ![current.resultSpace] = overwritten(@, write.address, write.bytes)]
  /\ team' = [team EXCEPT ![t] = @ + 1]
  /\ UNCHANGED <<program, pc, machine>>

(* Mutant: only a kernel that returned early has trapped.                  *)
EndKernelIfAbandoned ==
  /\ machine = "kernel" /\ (abandoned \/ finished)
  /\ afterInstruction(abandoned)
  /\ team' = << >>
  /\ UNCHANGED <<program, memory, trap>>

EndKernel ==
  /\ machine = "kernel" /\ (abandoned \/ finished)
  /\ afterInstruction(trap # {})
  /\ team' = << >>
  /\ UNCHANGED <<program, memory, trap>>

MachineInit ==
  /\ program = << >>
  /\ memory = << >>
  /\ pc = 0
  /\ machine = "idle"
  /\ team = << >>
  /\ trap = {}

MachineNext == Fetch \/ OffTheEnd \/ (\E t \in DOMAIN team : Step(t)) \/ EndKernel
==============================================================================
