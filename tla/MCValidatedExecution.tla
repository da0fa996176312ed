------------------------- MODULE MCValidatedExecution -------------------------
(***************************************************************************)
(* Small programs: memories of a few bytes, shapes of up to three          *)
(* elements, and a slot that saturates at its third separate interval.     *)
(***************************************************************************)
EXTENDS ValidatedExecution

region(offset, size) == [offset |-> offset, bytes |-> size]

declares(slots) ==
  [inputs |-> {region(0, 2)}, outputs |-> {}, constants |-> {}, spillSlots |-> slots]

(* Two slots that abut, overlap or leave a gap, and one past the memory.   *)
MCSlotLayouts ==
  {declares({region(2, 5), region(7, 2)}), declares({region(2, 4), region(4, 4)}),
   declares({region(2, 3), region(6, 3)}), declares({region(2, 5), region(7, 3)})}

at(space, address, shape, strides) ==
  [space |-> space, address |-> address, shape |-> shape, strides |-> strides]

dense(space, address, shape) == at(space, address, shape, <<shape[2], 1>>)

does(opcode, result, operands) ==
  [opcode |-> opcode, result |-> {result}, operands |-> operands, fields |-> TRUE]

control(opcode) == [opcode |-> opcode, result |-> {}, operands |-> << >>, fields |-> TRUE]

(* Whole rows, and tiles of one element per row of a wider buffer.         *)
row(space, address, size) == dense(space, address, <<1, size>>)
tile(space, address, step) == at(space, address, <<2, 1>>, <<step, 1>>)

(* Tiles stored into and read back from DRAM.                              *)
MCSlotInstructions ==
  {does("DMA_LOAD", dense("scratchpad", 0, a.shape), <<a>>) :
     a \in {row("dram", x, size) : x \in 0..8, size \in {1, 2, 3}}
             \cup {tile("dram", x, step) : x \in 2..8, step \in {2, 3}}
             \cup {at("dram", 2, <<3, 1>>, <<2, 1>>), at("dram", 2, <<1, 2>>, <<2, 2>>)}}
  \cup {does("DMA_STORE", a, <<row("scratchpad", 0, 2)>>) : a \in {row("dram", x, 2) : x \in 2..7}}
  \cup {does("DMA_STORE", a, <<tile("scratchpad", 0, 1)>>) :
          a \in {tile("dram", x, step) : x \in 2..6, step \in {2, 3}}}

(* What the compiler emits: a kernel's operands have its result's shape, a *)
(* buffer in the scratchpad is written whole, a tile only in DRAM.         *)
MCCompilerLayouts ==
  {[inputs |-> {region(0, 2)}, outputs |-> {region(5, 1)}, constants |-> {region(2, 1)},
    spillSlots |-> {region(3, 2)}]}

viewsIn(space, addresses) ==
  {row(space, x, size) : x \in addresses, size \in {1, 2}}
    \cup {tile(space, x, step) : x \in addresses, step \in {0, 2}}

sameShape(a, b) == a.shape = b.shape

MCCompilerInstructions ==
  LET buffers == {row("scratchpad", x, size) : x \in 0..2, size \in {1, 2}}
                   \cup {tile("scratchpad", x, 1) : x \in 0..2}
      scratch == viewsIn("scratchpad", 0..2) \cup buffers
      places  == {row("dram", x, size) : x \in 3..5, size \in {1, 2}} 
                   \cup {tile("dram", x, 2) : x \in 3..4}
      onto(opcode, results, sources) ==
        {does(opcode, r, <<a>>) : r \in results, a \in sources}
      matching(steps) == {i \in steps : \A r \in i.result : sameShape(r, i.operands[1])}
  IN  matching(onto("DMA_LOAD", buffers, viewsIn("dram", 0..4)))
        \cup matching(onto("DMA_STORE", places, scratch))
        \cup matching(onto("RELU", buffers, scratch))
        \cup {does("ADD", row("scratchpad", 2, 1), <<row("scratchpad", x, 1), row("scratchpad", 0, 1)>>) :
                x \in 0..2}
        \cup {does("RESHAPE", tile("scratchpad", x, 1), <<row("scratchpad", 0, 2)>>) : x \in 0..1}
        \cup {does("RESHAPE", row("scratchpad", 1, 1), <<row("scratchpad", 0, 2)>>)}
        \cup {control("HALT"), control("NOP"), [control("NOP") EXCEPT !.fields = FALSE]}

ASSUME CompilerProgramsAreAsCompiled == Instructions = MCCompilerInstructions => AsCompiled
==============================================================================
