-------------------------- MODULE ProgramValidation --------------------------
(***************************************************************************)
(* Program::validate() (Validation.cpp): the declared regions first, then  *)
(* the instructions in program order, each judged by what the ones before  *)
(* it wrote.  The first failure is the answer.                             *)
(*                                                                         *)
(* A file's next instruction may be any member of Instructions, so that    *)
(* programs have any length.  An instruction is [opcode, result, operands, *)
(* fields]: result is a set of at most one access, and fields says whether *)
(* the checks that read no memory hold (attribute sizes and values, types, *)
(* quantization, permutations and concatenations).                         *)
(***************************************************************************)
EXTENDS ByteCoverage, Sequences

CONSTANTS
  ScratchpadBytes, DramBytes,
  MaxCoverageRuns,       (* kMaxCoverageRuns                               *)
  MaxIntervalsPerSlot,   (* kMaxIntervalsPerSlot                           *)
  Layouts,               (* the region lists a program may declare         *)
  Instructions           (* the instructions a program may hold            *)

Region == [offset : Nat, bytes : Nat \ {0}]
Layout == [inputs : SUBSET Region, outputs : SUBSET Region, constants : SUBSET Region,
           spillSlots : SUBSET Region]

Opcode == {"NOP", "HALT", "DMA_LOAD", "DMA_STORE", "RELU", "ADD", "RESHAPE"}

Instruction ==
  [opcode : Opcode, result : SUBSET Access, operands : Seq(Access), fields : BOOLEAN]

regionsOf(l) == l.inputs \cup l.outputs \cup l.constants \cup l.spillSlots

ASSUME MemoryAssumption == ScratchpadBytes \in Nat /\ DramBytes \in Nat
ASSUME LimitsAssumption == MaxCoverageRuns \in Nat /\ MaxIntervalsPerSlot \in Nat
ASSUME InstructionsAssumption ==
  /\ Instructions \subseteq Instruction
  /\ \A i \in Instructions : \A r, s \in i.result : r = s

(* No two regions begin at one address: the DRAM map gives each its own.   *)
ASSUME LayoutsAssumption ==
  /\ Layouts \subseteq Layout
  /\ \A l \in Layouts : \A r, s \in regionsOf(l) : r.offset = s.offset => r = s

VARIABLES
  layout,      (* the declared regions                                     *)
  defined,     (* WrittenSpans, per space                                  *)
  covered,     (* SlotCoverage: the intervals of each slot                 *)
  saturated,   (* the slots that passed the interval limit                 *)
  recording,   (* runs of the instruction just accepted, not yet covered   *)
  outcome      (* "regions", "instructions", then "valid" or "refused"     *)

validatorVars == <<layout, defined, covered, saturated, recording, outcome>>

memorySize(space) == IF space = "scratchpad" THEN ScratchpadBytes ELSE DramBytes

slotEnd(s) == s.offset + s.bytes

(* The slot an address lies in: the last that begins at or before it.      *)
slotAt(address) ==
  {s \in layout.spillSlots :
     /\ s.offset <= address /\ address < slotEnd(s)
     /\ \A t \in layout.spillSlots : t.offset <= address => t.offset <= s.offset}

insideSlot(s, run) == s.offset <= run.begin /\ run.end <= slotEnd(s)

(* The ISA description's table: results, spaces and operand counts.        *)
hasResult(opcode) == opcode \notin {"NOP", "HALT"}
resultSpace(opcode) == IF opcode = "DMA_STORE" THEN "dram" ELSE "scratchpad"
operandSpace(opcode) == IF opcode = "DMA_LOAD" THEN "dram" ELSE "scratchpad"
arity(opcode) == IF ~hasResult(opcode) THEN 0 ELSE IF opcode = "ADD" THEN 2 ELSE 1

(* The bound checks use the reach of a view and not its element count.     *)
BoundByCount(a) == fitsInMemory(a.address, elementCount(a), memorySize(a.space))

inRange(a) == fitsInMemory(a.address, addressedByteSpan(a), memorySize(a.space))

resultHolds(i) ==
  /\ hasResult(i.opcode) <=> i.result # {}
  /\ \A r \in i.result : r.space = resultSpace(i.opcode) /\ inRange(r)

(* ISA checks 8 and 9.  A read that begins in a spill slot is judged run   *)
(* by run against that slot, any other by the one span at its address.     *)
readableInSlot(s, a) ==
  /\ s \notin saturated
  /\ runCount(a) <= MaxCoverageRuns
  /\ \A n \in DOMAIN byteRuns(a) :
       /\ insideSlot(s, byteRuns(a)[n])
       /\ covers(covered[s], byteRuns(a)[n].begin, byteRuns(a)[n].end)

MembershipOnly(a) == spanEndAt(defined[a.space], a.address) # {}

readableInSpan(a) ==
  \E end \in spanEndAt(defined[a.space], a.address) : addressedByteSpan(a) <= end - a.address

judgingSlot(a) == IF a.space = "dram" THEN slotAt(a.address) ELSE {}

readable(a) ==
  /\ judgingSlot(a) = {} => readableInSpan(a)
  /\ \A s \in judgingSlot(a) : readableInSlot(s, a)

operandsHold(i) ==
  /\ Len(i.operands) = arity(i.opcode)
  /\ \A n \in DOMAIN i.operands :
       LET a == i.operands[n]
       IN  a.space = operandSpace(i.opcode) /\ inRange(a) /\ readable(a)

(* A reshape moves every element exactly once.                             *)
fieldsHold(i) ==
  /\ i.fields
  /\ i.opcode = "RESHAPE" =>
       \A r \in i.result : elementCount(r) = elementCount(i.operands[1])

accepts(i) == resultHolds(i) /\ operandsHold(i) /\ fieldsHold(i)

-----------------------------------------------------------------------------
Init ==
  /\ layout \in Layouts
  /\ defined = [s \in Space |-> {}]
  /\ covered = [s \in layout.spillSlots |-> {}]
  /\ saturated = {}
  /\ recording = << >>
  /\ outcome = "regions"

(* Inputs and constants hold data before the first instruction.            *)
regionsHold == \A r \in regionsOf(layout) : fitsInMemory(r.offset, r.bytes, DramBytes)

CheckRegions ==
  /\ outcome = "regions"
  /\ outcome' = IF regionsHold THEN "instructions" ELSE "refused"
  /\ defined' = IF ~regionsHold THEN defined
                ELSE [defined EXCEPT !["dram"] =
                        {[begin |-> r.offset, end |-> slotEnd(r)] :
                           r \in layout.inputs \cup layout.constants}]
  /\ UNCHANGED <<layout, covered, saturated, recording>>

(* The runs of a result that begins in a slot; a result with too many of   *)
(* them leaves none.                                                       *)
resultOf(i) == CHOOSE r \in i.result : TRUE

recordsRuns(i) ==
  \E r \in i.result : judgingSlot(r) # {} /\ runCount(r) <= MaxCoverageRuns

inItsSlot(r, run) == [slot |-> CHOOSE s \in judgingSlot(r) : TRUE, run |-> run]

RecordTheCount(i) ==
  LET r == resultOf(i)
  IN  IF ~recordsRuns(i) THEN << >>
      ELSE <<inItsSlot(r, [begin |-> r.address, end |-> r.address + elementCount(r)])>>

runsToRecord(i) ==
  LET r == resultOf(i)
  IN  IF ~recordsRuns(i) THEN << >>
      ELSE [n \in 1..runCount(r) |-> inItsSlot(r, byteRuns(r)[n])]

(* checkInstruction, up to the loop that records the runs one by one.      *)
Accept(i) ==
  /\ outcome = "instructions" /\ recording = << >>
  /\ accepts(i)
  /\ defined' = [s \in Space |->
       IF hasResult(i.opcode) /\ resultOf(i).space = s
         THEN write(defined[s], resultOf(i).address, elementCount(resultOf(i)))
         ELSE defined[s]]
  /\ recording' = runsToRecord(i)
  /\ UNCHANGED <<layout, covered, saturated, outcome>>

Refuse(i) ==
  /\ outcome = "instructions" /\ recording = << >>
  /\ ~accepts(i)
  /\ outcome' = "refused"
  /\ UNCHANGED <<layout, defined, covered, saturated, recording>>

(* One turn of that loop: a run that leaves the slot is dropped.           *)
RecordRun ==
  /\ recording # << >>
  /\ LET s == Head(recording).slot
         run == Head(recording).run
         intervals == cover(covered[s], run.begin, run.end)
     IN  IF s \in saturated \/ ~insideSlot(s, run) THEN UNCHANGED <<covered, saturated>>
         ELSE IF Cardinality(intervals) > MaxIntervalsPerSlot
           THEN /\ saturated' = saturated \cup {s}
                /\ covered' = [covered EXCEPT ![s] = {}]
           ELSE /\ covered' = [covered EXCEPT ![s] = intervals]
                /\ UNCHANGED saturated
  /\ recording' = Tail(recording)
  /\ UNCHANGED <<layout, defined, outcome>>

(* The program ends here.                                                  *)
Finish ==
  /\ outcome = "instructions" /\ recording = << >>
  /\ outcome' = "valid"
  /\ UNCHANGED <<layout, defined, covered, saturated, recording>>
==============================================================================
