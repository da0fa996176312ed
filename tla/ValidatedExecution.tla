-------------------------- MODULE ValidatedExecution --------------------------
(***************************************************************************)
(* Simulator::run: a program is validated, then executed.  The machine     *)
(* (Kernels.cpp, Memory.cpp) takes each instruction at the moment the      *)
(* validator accepts it; validation reads no memory and execution reads no *)
(* coverage, so the two passes may be taken side by side, and a later      *)
(* refusal only means that the program never ran.                          *)
(*                                                                         *)
(* A byte of the machine is written or not; values are left out.           *)
(***************************************************************************)
EXTENDS ProgramValidation

VARIABLES
  written,    (* per space, the bytes something has been put in            *)
  machine     (* "running", "halted" or "trapped"                          *)

vars == <<validatorVars, written, machine>>

(* The walk of a kernel: over the result's extents, or for RESHAPE over    *)
(* the operand's own, in row major order.                                  *)
isTransfer(i) == i.opcode \in {"DMA_LOAD", "DMA_STORE"}

walkedShape(i) == IF i.opcode = "RESHAPE" THEN i.operands[1].shape ELSE resultOf(i).shape

walk(i) == 0 .. (walkedShape(i)[1] * walkedShape(i)[2] - 1)

elementAt(a, shape, p) ==
  a.address + (p \div shape[2]) * a.strides[1] + (p % shape[2]) * a.strides[2]

(* Every kernel indexes its operands through their strides; only the two   *)
(* transfers index the result through its own.                             *)
readBy(i, p) ==
  {<<i.operands[n].space, elementAt(i.operands[n], walkedShape(i), p)>> : n \in DOMAIN i.operands}

writtenBy(i, p) ==
  <<resultOf(i).space,
    IF isTransfer(i) THEN elementAt(resultOf(i), resultOf(i).shape, p)
                     ELSE resultOf(i).address + p>>

inMemory(b) == 0 <= b[2] /\ b[2] < memorySize(b[1])

(* A transfer between contiguous buffers resolves both ends first.         *)
contiguous(a) == a.strides = <<a.shape[2], 1>>

wholeOrNothing(i) == isTransfer(i) /\ contiguous(resultOf(i)) /\ contiguous(i.operands[1])

(* A DMA does not reshape on the way.                                      *)
kernelRuns(i) == isTransfer(i) => i.operands[1].shape = resultOf(i).shape

moved(i) ==
  LET fits(p) == \A b \in readBy(i, p) \cup {writtenBy(i, p)} : inMemory(b)
  IN  IF ~kernelRuns(i) \/ (wholeOrNothing(i) /\ \E p \in walk(i) : ~fits(p)) THEN {}
      ELSE {p \in walk(i) : \A q \in 0..p : fits(q)}

touchedBytes(i) == {writtenBy(i, p) : p \in moved(i)}

Execute(i) ==
  IF machine # "running" THEN UNCHANGED <<written, machine>>
  ELSE IF ~hasResult(i.opcode)
    THEN /\ machine' = IF i.opcode = "HALT" THEN "halted" ELSE machine
         /\ UNCHANGED written
    ELSE /\ written' = [s \in Space |->
                          written[s] \cup {b[2] : b \in {c \in touchedBytes(i) : c[1] = s}}]
         /\ machine' = IF kernelRuns(i) /\ moved(i) = walk(i) THEN machine ELSE "trapped"

(* loadInput and the constructor's copy of the constants.                  *)
Load ==
  /\ CheckRegions
  /\ written' = IF ~regionsHold THEN written
                ELSE [written EXCEPT !["dram"] =
                        UNION {r.offset .. slotEnd(r) - 1 :
                                 r \in layout.inputs \cup layout.constants}]
  /\ UNCHANGED machine

Step(i) ==
  \/ Accept(i) /\ Execute(i)
  \/ Refuse(i) /\ UNCHANGED <<written, machine>>

Record == RecordRun /\ UNCHANGED <<written, machine>>

End == Finish /\ UNCHANGED <<written, machine>>

Start ==
  /\ Init
  /\ written = [s \in Space |-> {}]
  /\ machine = "running"

Next ==
  \/ Load
  \/ \E i \in Instructions : Step(i)
  \/ Record
  \/ End

Spec == Start /\ [][Next]_vars

-----------------------------------------------------------------------------
(* The types, and that the two maps have one entry per address.            *)
oneEntryPerBegin(entries) == \A e, f \in entries : e.begin = f.begin => e = f

TypeOK ==
  /\ layout \in Layouts
  /\ DOMAIN defined = Space
  /\ \A s \in Space : defined[s] \subseteq Interval /\ oneEntryPerBegin(defined[s])
  /\ DOMAIN covered = layout.spillSlots
  /\ \A s \in layout.spillSlots : covered[s] \subseteq Interval /\ oneEntryPerBegin(covered[s])
  /\ saturated \subseteq layout.spillSlots
  /\ recording \in Seq([slot : layout.spillSlots, run : Interval])
  /\ outcome \in {"regions", "instructions", "valid", "refused"}
  /\ DOMAIN written = Space
  /\ \A s \in Space : written[s] \subseteq 0 .. memorySize(s) - 1
  /\ machine \in {"running", "halted", "trapped"}

(***************************************************************************)
(* "Whether every byte of [from, to) has been written": the one entry that *)
(* covers looks into answers for all the bytes recorded in the slot.       *)
(***************************************************************************)
CoversAnswersForEveryByte ==
  \A s \in layout.spillSlots : \A from, to \in s.offset .. slotEnd(s) :
    from < to => (covers(covered[s], from, to) <=> from .. to - 1 \subseteq bytesOf(covered[s]))

(***************************************************************************)
(* Recording a run that stays in its slot adds its bytes and nothing else, *)
(* whatever it touches, until the slot passes the limit.                   *)
(***************************************************************************)
nextRunIn(s) ==
  {recording[n].run :
     n \in {m \in {1} \cap DOMAIN recording :
             recording[m].slot = s /\ insideSlot(s, recording[m].run)}}

addsItsRun ==
  \A s \in layout.spillSlots :
    s \notin saturated' => bytesOf(covered'[s]) = bytesOf(covered[s]) \cup bytesOf(nextRunIn(s))

RunsAddUp == [][addsItsRun]_<<covered, recording>>

(***************************************************************************)
(* Inside a spill slot operand-defined is exact: no accepted read touches  *)
(* a byte that the execution so far has not put something in, however the  *)
(* tiles were strided, abutted, overlapped or left the slot.               *)
(***************************************************************************)
bytesRead(a) == UNION {bytes(byteRuns(a)[n]) : n \in DOMAIN byteRuns(a)}

SlotReadsAreWritten ==
  outcome = "instructions" /\ recording = << >> /\ machine = "running" =>
    \A i \in {j \in Instructions : accepts(j)} : \A n \in DOMAIN i.operands :
      judgingSlot(i.operands[n]) # {} => bytesRead(i.operands[n]) \subseteq written["dram"]

(***************************************************************************)
(* What the lowering promises of a program (LowerNPUToNPUISA.cpp, Section  *)
(* 8).  Spill slots are disjoint; an output is a place to write and never  *)
(* one to read; a kernel's operands have the extents it walks; a buffer is *)
(* dense, and a strided tile is stored into a spill slot or an output with *)
(* room for its elements, unless it runs off the memory and is refused.    *)
(***************************************************************************)
holds(region, a) == region.offset <= a.address /\ a.address < slotEnd(region)

roomFor(region, a) == holds(region, a) /\ a.address + elementCount(a) <= slotEnd(region)

AsCompiled ==
  /\ \A l \in Layouts : \A s, t \in l.spillSlots :
       s = t \/ slotEnd(s) <= t.offset \/ slotEnd(t) <= s.offset
  /\ \A i \in Instructions : \A n \in DOMAIN i.operands :
       /\ i.operands[n].shape = walkedShape(i)
       /\ i.operands[n].space = "dram" =>
            \A l \in Layouts : \A o \in l.outputs : ~holds(o, i.operands[n])
  /\ \A i \in Instructions : \A r \in i.result :
       \/ contiguous(r)
       \/ /\ r.space = "dram"
          /\ fitsInMemory(r.address, addressedByteSpan(r), DramBytes) =>
               \A l \in Layouts : \E region \in l.spillSlots \cup l.outputs : roomFor(region, r)

(* Every byte a kernel is about to read has been written.                  *)
ReadsAreWritten ==
  outcome = "instructions" /\ recording = << >> /\ machine = "running" =>
    \A i \in {j \in Instructions : accepts(j) /\ hasResult(j.opcode)} :
      \A p \in walk(i) : \A b \in readBy(i, p) : b[2] \in written[b[1]]

(* A validated program of the shapes the compiler emits never traps.       *)
NeverTraps == machine # "trapped"
==============================================================================
