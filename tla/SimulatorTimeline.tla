-------------------------- MODULE SimulatorTimeline --------------------------
(***************************************************************************)
(* Simulator::execute (Simulator.cpp): the two timelines an executed       *)
(* program is charged to.  An instruction starts when its port is free and *)
(* the last write that overlaps one of its operands has ended.  Cycles are *)
(* whole numbers here; values and kernels are left out, so an instruction  *)
(* is [opcode, port, reads, write, cycles, traps], a span [space, begin,   *)
(* end], and write a set of at most one span.                              *)
(***************************************************************************)
EXTENDS Integers, Sequences, FiniteSets

CONSTANTS
  Space, Opcode,
  IssueOverhead,  (* kIssueOverheadCycles                                  *)
  Programs        (* sequences of instructions                             *)

Port == {"dma", "compute"}

Span == [space : Space, begin : Nat, end : Nat]

Instruction ==
  [opcode : Opcode, port : Port, reads : SUBSET Span, write : SUBSET Span, cycles : Nat,
   traps : BOOLEAN]

ASSUME OverheadAssumption == IssueOverhead \in Nat
ASSUME TimelineProgramsAssumption == Programs \subseteq Seq(Instruction)

VARIABLES
  program,        (* program.instructions                                  *)
  singlePort,     (* options.singlePort                                    *)
  pc,             (* the next instruction                                  *)
  dmaFree, computeFree,         (* when each port is next free             *)
  dmaTotal, computeTotal,       (* the sum placed on each port             *)
  writes,         (* the spans written so far and when each ended          *)
  stopped,        (* "no", then "halted", "trapped" or "ran off"           *)
  schedule        (* history: the start and end of each one executed       *)

vars == <<program, singlePort, pc, dmaFree, computeFree, dmaTotal, computeTotal,
          writes, stopped, schedule>>

overlap(s, t) == s.space = t.space /\ s.begin < t.end /\ t.begin < s.end

later(s, t) == IF s > t THEN s ELSE t

(* readyAt: when the spans an instruction reads have all been written.     *)
LastWriteOnly(i) ==
  {w.time : w \in {x \in writes : x.of = pc - 1 /\ \E s \in i.reads : overlap(x.span, s)}}

readyTimes(i) ==
  {w.time : w \in {x \in writes : \E s \in i.reads : overlap(x.span, s)}}

portFree(i) ==
  IF singlePort THEN later(dmaFree, computeFree)
  ELSE IF i.port = "dma" THEN dmaFree ELSE computeFree

startBounds(i) == {portFree(i)} \cup readyTimes(i)

(* The charge of instruction i when it starts at t.                        *)
ChargeNetOfOverhead(i, t) ==
  LET ended == t + i.cycles + IssueOverhead
      busy == i.cycles - IssueOverhead
  IN  /\ dmaFree' = IF singlePort \/ i.port = "dma" THEN ended ELSE dmaFree
      /\ computeFree' = IF ~singlePort /\ i.port = "dma" THEN computeFree ELSE ended
      /\ dmaTotal' = IF i.port = "dma" THEN dmaTotal + busy ELSE dmaTotal
      /\ computeTotal' = IF i.port = "dma" THEN computeTotal ELSE computeTotal + busy

Charge(i, t) ==
  LET duration == i.cycles + IssueOverhead
  IN  /\ dmaFree' = IF singlePort \/ i.port = "dma" THEN t + duration ELSE dmaFree
      /\ computeFree' = IF ~singlePort /\ i.port = "dma" THEN computeFree ELSE t + duration
      /\ dmaTotal' = IF i.port = "dma" THEN dmaTotal + duration ELSE dmaTotal
      /\ computeTotal' = IF i.port = "dma" THEN computeTotal ELSE computeTotal + duration

(* One turn of the loop.  An instruction that traps is charged in full; a  *)
(* trap is noticed before a HALT.                                          *)
Execute(i, t) ==
  /\ stopped = "no"
  /\ pc \in DOMAIN program
  /\ i = program[pc]
  /\ \A s \in startBounds(i) : s <= t
  /\ Charge(i, t)
  /\ writes' = writes \cup {[span |-> s, time |-> t + i.cycles + IssueOverhead, of |-> pc] :
                            s \in i.write}
  /\ schedule' = Append(schedule, [start |-> t, end |-> t + i.cycles + IssueOverhead])
  /\ stopped' = IF i.traps THEN "trapped" ELSE IF i.opcode = "HALT" THEN "halted" ELSE "no"
  /\ pc' = pc + 1
  /\ UNCHANGED <<program, singlePort>>

RunOff ==
  /\ stopped = "no"
  /\ pc \notin DOMAIN program
  /\ stopped' = "ran off"
  /\ UNCHANGED <<program, singlePort, pc, dmaFree, computeFree, dmaTotal, computeTotal,
                 writes, schedule>>

Init ==
  /\ program \in Programs
  /\ singlePort \in BOOLEAN
  /\ pc = 1
  /\ dmaFree = 0
  /\ computeFree = 0
  /\ dmaTotal = 0
  /\ computeTotal = 0
  /\ writes = {}
  /\ stopped = "no"
  /\ schedule = << >>

Issue ==
  /\ pc \in DOMAIN program
  /\ \E t \in startBounds(program[pc]) : Execute(program[pc], t)

Next ==
  \/ Issue
  \/ RunOff

Spec == Init /\ [][Next]_vars

cycles == later(dmaFree, computeFree)

-----------------------------------------------------------------------------
(* The types of the clocks, the totals and the history.                    *)
TypeOK ==
  /\ program \in Seq(Instruction)
  /\ singlePort \in BOOLEAN
  /\ pc \in Nat \ {0}
  /\ dmaFree \in Nat /\ computeFree \in Nat
  /\ dmaTotal \in Nat /\ computeTotal \in Nat
  /\ writes \subseteq [span : Span, time : Nat, of : Nat]
  /\ stopped \in {"no", "halted", "trapped", "ran off"}
  /\ schedule \in Seq([start : Nat, end : Nat])

executed == DOMAIN schedule
sharePort(i, j) == singlePort \/ program[i].port = program[j].port
rests(i, j) == \E r \in program[j].reads, w \in program[i].write : overlap(w, r)

(***************************************************************************)
(* The schedule is the dataflow one: an instruction never starts before an *)
(* earlier one of its port or one it reads from has ended, and one that    *)
(* does not start at once starts the moment such an instruction ends.      *)
(***************************************************************************)
holdsBack(i, j) == i < j /\ (sharePort(i, j) \/ rests(i, j))

DataflowSchedule ==
  \A j \in executed :
    /\ \A i \in executed : holdsBack(i, j) => schedule[i].end <= schedule[j].start
    /\ schedule[j].start = 0
         \/ \E i \in executed : holdsBack(i, j) /\ schedule[i].end = schedule[j].start

(***************************************************************************)
(* overlap_fraction is a fraction: the total is never less than the longer *)
(* timeline (1, perfect overlap) nor more than both end to end (0, none),  *)
(* and is exactly that sum in single port mode.                            *)
(***************************************************************************)
OverlapIsAFraction ==
  /\ dmaTotal <= cycles
  /\ computeTotal <= cycles
  /\ cycles <= dmaTotal + computeTotal
  /\ singlePort => cycles = dmaTotal + computeTotal
==============================================================================
