----------------------- MODULE SimulatorTimelineProofs -----------------------
(***************************************************************************)
(* The timelines of Simulator::execute, for every program and every cost:  *)
(* the totals bound the run from both sides, and the recorded schedule is  *)
(* the dataflow one.                                                       *)
(***************************************************************************)
EXTENDS SimulatorTimeline, SequenceTheorems, TLAPS

total == dmaTotal + computeTotal

(* No port and no written span is ahead of everything charged so far, and  *)
(* in single port mode both clocks are exactly the charge.                 *)
ChargesCover ==
  /\ dmaTotal <= dmaFree /\ dmaFree <= total
  /\ computeTotal <= computeFree /\ computeFree <= total
  /\ singlePort => dmaFree = total /\ computeFree = total
  /\ \A w \in writes : w.time <= total

onDma(i) == singlePort \/ program[i].port = "dma"
onCompute(i) == singlePort \/ program[i].port = "compute"

(* The clocks and the written spans are functions of the history: a clock  *)
(* is the last end on its port, a written span ends with its writer.       *)
HistoryExplains ==
  /\ Len(schedule) = pc - 1
  /\ executed \subseteq DOMAIN program
  /\ \A i \in executed : onDma(i) => schedule[i].end <= dmaFree
  /\ \A i \in executed : onCompute(i) => schedule[i].end <= computeFree
  /\ dmaFree = 0 \/ \E i \in executed : onDma(i) /\ schedule[i].end = dmaFree
  /\ computeFree = 0 \/ \E i \in executed : onCompute(i) /\ schedule[i].end = computeFree
  /\ \A w \in writes : \E i \in executed : w.span \in program[i].write
                                           /\ w.time = schedule[i].end
  /\ \A i \in executed : \A s \in program[i].write :
       \E w \in writes : w.span = s /\ w.time = schedule[i].end

-----------------------------------------------------------------------------
(* An instruction is charged from a time on the clock, whole cycles later. *)
LEMMA ExecuteTyped ==
  ASSUME TypeOK, NEW t, pc \in DOMAIN program, t \in startBounds(program[pc])
  PROVE  /\ program[pc] \in Instruction
         /\ t \in Nat
         /\ t + program[pc].cycles + IssueOverhead \in Nat
<1>1. program[pc] \in Instruction
  <2>1. program \in Seq(Instruction)
    BY DEF TypeOK
  <2> QED  BY <2>1, ElementOfSeq, LenProperties
<1>2. portFree(program[pc]) \in Nat
  BY <1>1 DEF TypeOK, portFree, later
<1>3. \A r \in readyTimes(program[pc]) : r \in Nat
  BY DEF TypeOK, readyTimes
<1>4. t \in Nat
  BY <1>2, <1>3 DEF startBounds
<1> QED
  BY <1>1, <1>4, OverheadAssumption DEF Instruction

(* The start is bounded by what a port or a written span is waiting for.   *)
LEMMA StartExplained ==
  ASSUME TypeOK, NEW t, pc \in DOMAIN program, t \in startBounds(program[pc])
  PROVE  \/ t = portFree(program[pc])
         \/ \E w \in writes : t = w.time /\ \E s \in program[pc].reads : overlap(w.span, s)
  BY DEF startBounds, readyTimes

(* The fields keep their types through every turn of the loop.             *)
THEOREM TimelineTypeCorrect == Spec => []TypeOK
<1>1. Init => TypeOK
  BY TimelineProgramsAssumption DEF Init, TypeOK
<1>2. TypeOK /\ [Next]_vars => TypeOK'
  <2> SUFFICES ASSUME TypeOK, [Next]_vars PROVE TypeOK'
    OBVIOUS
  <2>1. CASE Issue
    <3>1. PICK t \in startBounds(program[pc]) : pc \in DOMAIN program /\ Execute(program[pc], t)
      BY <2>1 DEF Issue
    <3> DEFINE i == program[pc]
               ended == t + i.cycles + IssueOverhead
    <3>2. i \in Instruction /\ t \in Nat /\ ended \in Nat
      BY <3>1, ExecuteTyped
    <3>3. /\ dmaFree' \in Nat /\ computeFree' \in Nat
          /\ dmaTotal' \in Nat /\ computeTotal' \in Nat
      <4>1. i.cycles + IssueOverhead \in Nat
        BY <3>2, OverheadAssumption DEF Instruction
      <4>2. ended = t + (i.cycles + IssueOverhead)
        BY <3>2, OverheadAssumption DEF Instruction
      <4> HIDE DEF i, ended
      <4>3. Charge(i, t)
        BY <3>1 DEF Execute, i
      <4>4. dmaFree' \in {dmaFree, ended} /\ computeFree' \in {computeFree, ended}
        BY <4>2, <4>3 DEF Charge
      <4>5. /\ dmaTotal' \in {dmaTotal, dmaTotal + (i.cycles + IssueOverhead)}
            /\ computeTotal' \in {computeTotal, computeTotal + (i.cycles + IssueOverhead)}
        BY <4>3 DEF Charge
      <4>6. /\ dmaFree \in Nat /\ computeFree \in Nat
            /\ dmaTotal \in Nat /\ computeTotal \in Nat
        BY DEF TypeOK
      <4> QED  BY <3>2, <4>1, <4>4, <4>5, <4>6
    <3>4. writes' \subseteq [span : Span, time : Nat, of : Nat]
      BY <3>1, <3>2 DEF TypeOK, Execute, Instruction
    <3>5. schedule' \in Seq([start : Nat, end : Nat])
      BY <3>1, <3>2 DEF TypeOK, Execute
    <3>6. pc' \in Nat \ {0} /\ stopped' \in {"no", "halted", "trapped", "ran off"}
      BY <3>1 DEF TypeOK, Execute
    <3>7. program' \in Seq(Instruction) /\ singlePort' \in BOOLEAN
      BY <3>1 DEF TypeOK, Execute
    <3> QED
      BY <3>3, <3>4, <3>5, <3>6, <3>7 DEF TypeOK
  <2>2. CASE RunOff
    BY <2>2 DEF TypeOK, RunOff
  <2>3. CASE UNCHANGED vars
    BY <2>3 DEF TypeOK, vars
  <2> QED
    BY <2>1, <2>2, <2>3 DEF Next
<1> QED
  BY <1>1, <1>2, PTL DEF Spec

-----------------------------------------------------------------------------
LEMMA Clocks ==
  ASSUME TypeOK
  PROVE  /\ dmaFree \in Nat /\ computeFree \in Nat
         /\ dmaTotal \in Nat /\ computeTotal \in Nat
         /\ \A w \in writes : w.time \in Nat
         /\ singlePort \in BOOLEAN
BY DEF TypeOK

LEMMA ChargesCoverKept ==
  ASSUME TypeOK, ChargesCover, [Next]_vars
  PROVE  ChargesCover'
<1>1. CASE Issue
  <2>1. PICK t \in startBounds(program[pc]) : pc \in DOMAIN program /\ Execute(program[pc], t)
    BY <1>1 DEF Issue
  <2> DEFINE i == program[pc]
             duration == i.cycles + IssueOverhead
  <2>2. /\ i \in Instruction /\ t \in Nat
        /\ duration \in Nat /\ t + i.cycles + IssueOverhead = t + duration
    BY <2>1, ExecuteTyped, OverheadAssumption DEF Instruction
  <2>3. i.port \in Port
    BY <2>2 DEF Instruction
  <2>4. t <= total /\ (singlePort => t = total)
    <3>1. portFree(i) <= t
      BY <2>1 DEF Execute, startBounds
    <3>2. portFree(i) <= total /\ (singlePort => portFree(i) = total)
      BY Clocks DEF portFree, later, ChargesCover, total
    <3>3. t <= total
      BY <2>1, <3>2, StartExplained, Clocks DEF ChargesCover, total
    <3> QED  BY <2>2, <3>1, <3>2, <3>3, Clocks DEF total
  <2>5. \/ i.port = "dma" /\ portFree(i) >= dmaFree
        \/ i.port = "compute" /\ portFree(i) >= computeFree
    BY <2>3, Clocks DEF Port, portFree, later
  <2>6. portFree(i) <= t
    BY <2>1 DEF Execute, startBounds
  <2>7. portFree(i) \in Nat
    BY Clocks DEF portFree, later
  <2>8. Charge(i, t)
    BY <2>1 DEF Execute
  <2>9. writes' = writes \cup {[span |-> s, time |-> t + duration, of |-> pc] : s \in i.write}
    BY <2>1, <2>2 DEF Execute
  <2>10. singlePort' = singlePort
    BY <2>1 DEF Execute
  <2> HIDE DEF i, duration
  <2>11. total' = total + duration
    BY <2>2, <2>8, Clocks DEF total, Charge, duration
  <2>12. \A w \in writes' : w.time <= total'
    BY <2>2, <2>4, <2>9, <2>11, Clocks DEF ChargesCover, total
  <2>13. CASE singlePort
    <3>1. dmaFree' = t + duration /\ computeFree' = t + duration
      BY <2>8, <2>13 DEF Charge, duration
    <3>2. dmaTotal' \in Nat /\ computeTotal' \in Nat /\ total' = dmaTotal' + computeTotal'
      BY <2>2, <2>8, Clocks DEF Charge, duration, total
    <3> QED
      BY <2>4, <2>10, <2>11, <2>12, <2>13, <3>1, <3>2, Clocks DEF ChargesCover, total
  <2>14. CASE ~singlePort /\ i.port = "dma"
    <3>1. dmaFree' = t + duration /\ computeFree' = computeFree
      BY <2>8, <2>14 DEF Charge, duration
    <3>2. dmaTotal' = dmaTotal + duration /\ computeTotal' = computeTotal
      BY <2>8, <2>14 DEF Charge, duration
    <3>3. dmaFree <= t
      BY <2>2, <2>5, <2>6, <2>7, <2>14, Clocks
    <3> QED
      BY <2>2, <2>4, <2>10, <2>11, <2>12, <2>14, <3>1, <3>2, <3>3, Clocks DEF ChargesCover, total
  <2>15. CASE ~singlePort /\ i.port = "compute"
    <3>1. dmaFree' = dmaFree /\ computeFree' = t + duration
      BY <2>8, <2>15 DEF Charge, duration
    <3>2. dmaTotal' = dmaTotal /\ computeTotal' = computeTotal + duration
      BY <2>8, <2>15 DEF Charge, duration
    <3>3. computeFree <= t
      BY <2>2, <2>5, <2>6, <2>7, <2>15, Clocks
    <3> QED
      BY <2>2, <2>4, <2>10, <2>11, <2>12, <2>15, <3>1, <3>2, <3>3, Clocks DEF ChargesCover, total
  <2> QED  BY <2>3, <2>13, <2>14, <2>15, Clocks DEF Port
<1>2. CASE RunOff
  BY <1>2 DEF RunOff, ChargesCover, total
<1>3. CASE UNCHANGED vars
  BY <1>3 DEF vars, ChargesCover, total
<1> QED  BY <1>1, <1>2, <1>3 DEF Next

(* The overlap fraction reported for a run is between 0 and 1: the total   *)
(* is never below the longer timeline nor above both laid end to end.      *)
THEOREM OverlapStaysAFraction == Spec => []OverlapIsAFraction
<1>1. Init => ChargesCover
  BY DEF Init, ChargesCover, total
<1>2. TypeOK /\ ChargesCover /\ [Next]_vars => ChargesCover'
  BY ChargesCoverKept
<1>3. TypeOK /\ ChargesCover => OverlapIsAFraction
  BY Clocks DEF ChargesCover, OverlapIsAFraction, cycles, later, total
<1> QED
  BY <1>1, <1>2, <1>3, TimelineTypeCorrect, PTL DEF Spec

-----------------------------------------------------------------------------
(* One turn of the loop appends one entry to the history and leaves the    *)
(* earlier ones as they were.                                              *)
LEMMA ScheduleGrows ==
  ASSUME TypeOK, HistoryExplains, NEW t, pc \in DOMAIN program,
         t \in startBounds(program[pc]), Execute(program[pc], t)
  PROVE  /\ executed' = executed \cup {pc}
         /\ pc \notin executed /\ \A i \in executed : i < pc
         /\ \A i \in executed : schedule'[i] = schedule[i]
         /\ schedule'[pc].start = t
         /\ schedule'[pc].end = t + program[pc].cycles + IssueOverhead
         /\ Len(schedule') = pc' - 1
         /\ \A i \in executed : schedule[i].end \in Nat
<1>1. /\ schedule \in Seq([start : Nat, end : Nat]) /\ pc \in Nat \ {0}
      /\ Len(schedule) = pc - 1
  BY DEF TypeOK, HistoryExplains
<1> DEFINE last == [start |-> t, end |-> t + program[pc].cycles + IssueOverhead]
<1>2. schedule' = Append(schedule, last) /\ pc' = pc + 1
  BY DEF Execute
<1>3. last \in [start : Nat, end : Nat]
  BY ExecuteTyped
<1>4. executed = 1..(pc - 1)
  BY <1>1, LenProperties DEF executed
<1>5. Len(schedule') = pc /\ executed' = 1..pc
  BY <1>1, <1>2, <1>3, AppendProperties, LenProperties DEF executed
<1>6. \A i \in executed : schedule'[i] = schedule[i]
  BY <1>1, <1>2, <1>3, <1>4, AppendProperties
<1>7. schedule'[pc] = last
  BY <1>1, <1>2, <1>3, AppendProperties
<1>8. ASSUME NEW i \in executed PROVE schedule[i].end \in Nat
  <2>1. i \in 1..Len(schedule)
    BY <1>1, <1>4
  <2>2. schedule[i] \in [start : Nat, end : Nat]
    BY <1>1, <2>1, ElementOfSeq
  <2> QED  BY <2>2
<1> QED  BY <1>1, <1>2, <1>4, <1>5, <1>6, <1>7, <1>8

LEMMA HistoryKept ==
  ASSUME TypeOK, HistoryExplains, [Next]_vars
  PROVE  HistoryExplains'
<1>1. CASE Issue
  <2>1. PICK t \in startBounds(program[pc]) : pc \in DOMAIN program /\ Execute(program[pc], t)
    BY <1>1 DEF Issue
  <2> DEFINE i == program[pc]
             ended == t + i.cycles + IssueOverhead
  <2>2. i \in Instruction /\ t \in Nat /\ ended \in Nat /\ t <= ended
    BY <2>1, ExecuteTyped, OverheadAssumption DEF Instruction
  <2>3. /\ executed' = executed \cup {pc} /\ pc \notin executed
        /\ \A j \in executed : schedule'[j] = schedule[j]
        /\ schedule'[pc].end = ended
        /\ Len(schedule') = pc' - 1
        /\ \A j \in executed : schedule[j].end \in Nat
    BY <2>1, ScheduleGrows
  <2>4. program' = program /\ singlePort' = singlePort
    BY <2>1 DEF Execute
  <2>5. \A j : (onDma(j)' <=> onDma(j)) /\ (onCompute(j)' <=> onCompute(j))
    BY <2>4 DEF onDma, onCompute
  <2>6. portFree(i) <= t
    BY <2>1 DEF Execute, startBounds
  <2>7. i.port \in Port /\ i = program[pc]
    BY <2>2 DEF Instruction
  <2>8. /\ dmaFree' = IF onDma(pc) THEN ended ELSE dmaFree
        /\ computeFree' = IF onCompute(pc) THEN ended ELSE computeFree
    <3>1. Charge(i, t)
      BY <2>1 DEF Execute
    <3>2. t + (i.cycles + IssueOverhead) = ended
      BY <2>2, OverheadAssumption DEF Instruction
    <3> HIDE DEF ended
    <3>3. dmaFree' = IF onDma(pc) THEN ended ELSE dmaFree
      BY <3>1, <3>2 DEF Charge, onDma
    <3>4. computeFree' = IF onCompute(pc) THEN ended ELSE computeFree
      BY <2>7, <3>1, <3>2 DEF Charge, onCompute, Port
    <3> QED  BY <3>3, <3>4
  <2>9. (onDma(pc) => dmaFree <= ended) /\ (onCompute(pc) => computeFree <= ended)
    <3>1. portFree(i) \in Nat
      BY Clocks DEF portFree, later
    <3>2. (onDma(pc) => dmaFree <= portFree(i)) /\ (onCompute(pc) => computeFree <= portFree(i))
      BY <2>7, Clocks DEF portFree, later, onDma, onCompute, Port
    <3> QED  BY <2>2, <2>6, <3>1, <3>2, Clocks
  <2>10. writes' = writes \cup {[span |-> s, time |-> ended, of |-> pc] : s \in i.write}
    BY <2>1 DEF Execute
  <2> HIDE DEF ended
  <2>11. executed' \subseteq DOMAIN program'
    BY <2>1, <2>3, <2>4 DEF HistoryExplains
  <2>12. /\ \A j \in executed' : onDma(j)' => schedule'[j].end <= dmaFree'
         /\ \A j \in executed' : onCompute(j)' => schedule'[j].end <= computeFree'
    <3>1. ASSUME NEW j \in executed', onDma(j) PROVE schedule'[j].end <= dmaFree'
      BY <2>2, <2>3, <2>8, <2>9, <3>1, Clocks DEF HistoryExplains
    <3>2. ASSUME NEW j \in executed', onCompute(j) PROVE schedule'[j].end <= computeFree'
      BY <2>2, <2>3, <2>8, <2>9, <3>2, Clocks DEF HistoryExplains
    <3> QED  BY <2>5, <3>1, <3>2
  <2>13. /\ dmaFree' = 0 \/ \E j \in executed' : onDma(j)' /\ schedule'[j].end = dmaFree'
         /\ computeFree' = 0
              \/ \E j \in executed' : onCompute(j)' /\ schedule'[j].end = computeFree'
    <3>1. dmaFree' = 0 \/ \E j \in executed' : onDma(j) /\ schedule'[j].end = dmaFree'
      BY <2>3, <2>8 DEF HistoryExplains
    <3>2. computeFree' = 0 \/ \E j \in executed' : onCompute(j) /\ schedule'[j].end = computeFree'
      BY <2>3, <2>8 DEF HistoryExplains
    <3> QED  BY <2>5, <3>1, <3>2
  <2>14. \A w \in writes' : \E j \in executed' : w.span \in program'[j].write
                                              /\ w.time = schedule'[j].end
    BY <2>3, <2>4, <2>10 DEF HistoryExplains
  <2>15. \A j \in executed' : \A s \in program'[j].write :
           \E w \in writes' : w.span = s /\ w.time = schedule'[j].end
    <3>1. ASSUME NEW j \in executed, NEW s \in program[j].write
          PROVE  \E w \in writes' : w.span = s /\ w.time = schedule'[j].end
      BY <2>3, <2>10 DEF HistoryExplains
    <3>2. ASSUME NEW s \in program[pc].write
          PROVE  \E w \in writes' : w.span = s /\ w.time = schedule'[pc].end
      <4> DEFINE w == [span |-> s, time |-> ended, of |-> pc]
      <4>1. w \in writes' /\ w.span = s /\ w.time = ended
        BY <2>7, <2>10, <3>2
      <4> QED  BY <2>3, <4>1
    <3> QED  BY <2>3, <2>4, <3>1, <3>2
  <2> QED
    BY <2>3, <2>11, <2>12, <2>13, <2>14, <2>15 DEF HistoryExplains
<1>2. CASE RunOff \/ UNCHANGED vars
  <2>1. UNCHANGED <<program, singlePort, pc, dmaFree, computeFree, writes, schedule>>
    BY <1>2 DEF RunOff, vars
  <2>2. executed' = executed
    BY <2>1 DEF executed
  <2>3. \A j : (onDma(j)' <=> onDma(j)) /\ (onCompute(j)' <=> onCompute(j))
    BY <2>1 DEF onDma, onCompute
  <2> QED  BY <2>1, <2>2, <2>3 DEF HistoryExplains
<1> QED  BY <1>1, <1>2 DEF Next

(* The next entry keeps it: its start is a clock or the end of a span it   *)
(* reads, and every entry that holds it back is under one of those.        *)
LEMMA NextEntryIsDataflow ==
  ASSUME TypeOK, HistoryExplains, NEW t, pc \in DOMAIN program,
         t \in startBounds(program[pc]), Execute(program[pc], t)
  PROVE  /\ \A i \in executed : holdsBack(i, pc) => schedule[i].end <= t
         /\ t = 0 \/ \E i \in executed : holdsBack(i, pc) /\ schedule[i].end = t
<1> DEFINE n == program[pc]
<1>1. n \in Instruction /\ t \in Nat
  BY ExecuteTyped
<1>2. n.port \in Port
  BY <1>1 DEF Instruction
<1>3. \A i \in executed : i < pc /\ schedule[i].end \in Nat
  BY ScheduleGrows
<1>4. \A s \in startBounds(n) : s <= t
  BY DEF Execute
<1>5. ASSUME NEW i \in executed, sharePort(i, pc)
      PROVE  schedule[i].end <= portFree(n)
  <2>1. CASE onDma(i) /\ (singlePort \/ n.port = "dma")
    BY <1>3, <2>1, Clocks DEF HistoryExplains, portFree, later
  <2>2. CASE onCompute(i) /\ ~singlePort /\ n.port = "compute"
    BY <1>3, <2>2, Clocks DEF HistoryExplains, portFree, later
  <2> QED  BY <1>2, <1>5, <2>1, <2>2 DEF sharePort, onDma, onCompute, Port
<1>6. ASSUME NEW i \in executed, rests(i, pc)
      PROVE  schedule[i].end \in readyTimes(n)
  BY <1>6 DEF HistoryExplains, rests, readyTimes
<1>7. ASSUME NEW i \in executed, holdsBack(i, pc)
      PROVE  schedule[i].end <= t
  <2>1. portFree(n) \in Nat
    BY Clocks DEF portFree, later
  <2> QED  BY <1>1, <1>3, <1>4, <1>5, <1>6, <1>7, <2>1 DEF holdsBack, startBounds
<1>8. CASE t = portFree(n)
  <2>1. CASE t = dmaFree /\ (singlePort \/ n.port = "dma")
    <3>1. \A i \in executed : onDma(i) => holdsBack(i, pc)
      BY <1>3, <2>1 DEF holdsBack, sharePort, onDma
    <3> QED  BY <1>7, <2>1, <3>1 DEF HistoryExplains
  <2>2. CASE t = computeFree /\ (singlePort \/ n.port = "compute")
    <3>1. \A i \in executed : onCompute(i) => holdsBack(i, pc)
      BY <1>3, <2>2 DEF holdsBack, sharePort, onCompute
    <3> QED  BY <1>7, <2>2, <3>1 DEF HistoryExplains
  <2> QED  BY <1>2, <1>8, <2>1, <2>2 DEF portFree, later, Port
<1>9. CASE \E w \in writes : t = w.time /\ \E s \in n.reads : overlap(w.span, s)
  <2>1. PICK w \in writes, s \in n.reads : t = w.time /\ overlap(w.span, s)
    BY <1>9
  <2>2. PICK i \in executed : w.span \in program[i].write /\ w.time = schedule[i].end
    BY DEF HistoryExplains
  <2>3. holdsBack(i, pc)
    BY <1>3, <2>1, <2>2 DEF holdsBack, rests
  <2> QED  BY <1>7, <2>1, <2>2, <2>3
<1> QED  BY <1>7, <1>8, <1>9, StartExplained

(* An instruction starts exactly when its port and everything it reads are *)
(* ready, neither earlier nor later, in both modes.                        *)
THEOREM ScheduleIsDataflow == Spec => []DataflowSchedule
<1>1. Init => HistoryExplains /\ DataflowSchedule
  <2> SUFFICES ASSUME Init PROVE HistoryExplains /\ DataflowSchedule
    OBVIOUS
  <2>1. executed = {} /\ Len(schedule) = 0
    BY DEF Init, executed
  <2> QED  BY <2>1 DEF Init, HistoryExplains, DataflowSchedule
<1>2. TypeOK /\ HistoryExplains /\ DataflowSchedule /\ [Next]_vars => DataflowSchedule'
  <2> SUFFICES ASSUME TypeOK, HistoryExplains, DataflowSchedule, [Next]_vars
               PROVE  DataflowSchedule'
    OBVIOUS
  <2>1. CASE Issue
    <3>1. PICK t \in startBounds(program[pc]) : pc \in DOMAIN program /\ Execute(program[pc], t)
      BY <2>1 DEF Issue
    <3>2. /\ executed' = executed \cup {pc} /\ pc \notin executed
          /\ \A j \in executed : j < pc /\ schedule'[j] = schedule[j]
          /\ schedule'[pc].start = t
      BY <3>1, ScheduleGrows
    <3>3. program' = program /\ singlePort' = singlePort /\ pc \in Nat
      BY <3>1 DEF Execute, TypeOK
    <3>4. \A i, j : holdsBack(i, j)' <=> holdsBack(i, j)
      BY <3>3 DEF holdsBack, sharePort, rests
    <3>5. /\ \A i \in executed : holdsBack(i, pc) => schedule[i].end <= t
          /\ t = 0 \/ \E i \in executed : holdsBack(i, pc) /\ schedule[i].end = t
      BY <3>1, NextEntryIsDataflow
    <3>6. executed \subseteq Nat
      <4>1. schedule \in Seq([start : Nat, end : Nat])
        BY DEF TypeOK
      <4> QED  BY <4>1, LenProperties DEF executed
    <3>7. \A j \in executed' : ~holdsBack(pc, j)
      BY <3>2, <3>3, <3>6 DEF holdsBack
    <3>8. \A i, j \in executed' : holdsBack(i, j) => schedule'[i].end <= schedule'[j].start
      BY <3>2, <3>5, <3>7 DEF DataflowSchedule
    <3>9. \A j \in executed' :
            \/ schedule'[j].start = 0
            \/ \E i \in executed' : holdsBack(i, j) /\ schedule'[i].end = schedule'[j].start
      BY <3>2, <3>5 DEF DataflowSchedule
    <3> QED  BY <3>4, <3>8, <3>9 DEF DataflowSchedule
  <2>2. CASE RunOff \/ UNCHANGED vars
    <3>1. UNCHANGED <<program, singlePort, schedule>>
      BY <2>2 DEF RunOff, vars
    <3>2. executed' = executed /\ \A i, j : holdsBack(i, j)' <=> holdsBack(i, j)
      BY <3>1 DEF executed, holdsBack, sharePort, rests
    <3> QED  BY <3>1, <3>2 DEF DataflowSchedule
  <2> QED  BY <2>1, <2>2 DEF Next
<1>3. TypeOK /\ HistoryExplains /\ [Next]_vars => HistoryExplains'
  BY HistoryKept
<1> QED
  BY <1>1, <1>2, <1>3, TimelineTypeCorrect, PTL DEF Spec
==============================================================================
