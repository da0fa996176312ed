------------------------- MODULE MCSimulatorTimeline -------------------------
(***************************************************************************)
(* Programs of three instructions over three spans of one space, two of    *)
(* them disjoint and inside the third, ended by HALT, by the end of the    *)
(* stream or by a trap.                                                    *)
(***************************************************************************)
EXTENDS SimulatorTimeline

span(b, e) == [space |-> "scratchpad", begin |-> b, end |-> e]

MCInstructions ==
  [opcode : {"OP"}, port : Port, reads : {{}, {span(0, 1)}, {span(0, 2)}},
   write : {{span(0, 1)}, {span(1, 2)}}, cycles : {0, 2}, traps : {FALSE}]

Halt(traps) ==
  [opcode |-> "HALT", port |-> "compute", reads |-> {}, write |-> {}, cycles |-> 0,
   traps |-> traps]

MCSimPrograms ==
  {<<a, b, c>> : a, b, c \in MCInstructions}
  \cup {<<a, b, Halt(FALSE), a>> : a, b \in MCInstructions}
  \cup {<<a, [b EXCEPT !.traps = TRUE], Halt(TRUE)>> : a, b \in MCInstructions}
==============================================================================
