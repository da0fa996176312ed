--------------------------- MODULE ArenaExecution ---------------------------
(***************************************************************************)
(* Compile one function with -npu-allocate-scratchpad and run the result:  *)
(* every buffer is now a range of one arena, instructions run in order,    *)
(* and an asynchronous transfer fills its destination at some moment       *)
(* between its issue and its await (rules 1 and 4 of the async verifier,   *)
(* NPUISAOps.cpp).  A byte holds the id of the source operation that       *)
(* produced its contents, 0 when nothing has.                              *)
(***************************************************************************)
EXTENDS AllocateScratchpad

CONSTANTS
  Programs,       (* functions: [block, size, permuted]                    *)
  Budgets

ASSUME ProgramsAssumption == \A p \in Programs : isWellFormed(p.block)
ASSUME BudgetsAssumption == Budgets \subseteq Nat

VARIABLES
  source,         (* the function as it was before the scratchpad passes   *)
  pc,             (* the instruction to issue next                         *)
  arena,          (* the scratchpad: byte -> contents                      *)
  slots,          (* DRAM spill slots: slot -> contents of its bytes       *)
  inFlight        (* asynchronous transfers issued and not landed          *)

machine == <<pc, arena, slots, inFlight>>
vars    == <<passVars, source, machine>>

-----------------------------------------------------------------------------
(* Entering the pass, and the inputs it can be given.                      *)
PassInit ==
  /\ \E p \in Programs : /\ block = p.block
                         /\ size = p.size
                         /\ permuted = p.permuted
  /\ reloads = {}
  /\ spilled = {}
  /\ heuristic \in SpillHeuristic
  /\ strategy \in Strategy
  /\ budget \in Budgets
  /\ peak = [bytes |-> 0, index |-> 0]
  /\ spilledBuffers = 0
  /\ insertedDma = 0
  /\ arenaView = << >>
  /\ intervals = << >>
  /\ Offsets!Start

Init ==
  /\ PassInit
  /\ stage = "collecting"
  /\ source = block
  /\ pc = 0
  /\ arena = << >>
  /\ slots = << >>
  /\ inFlight = {}

-----------------------------------------------------------------------------
(* The bytes a scratchpad value denotes once the arena is laid out.        *)
bytesOf(v) ==
  LET b == rootOf(block)[v]
  IN  arenaView[b] .. (arenaView[b] + size[b] - 1)

op == block[pc]

Load ==
  /\ stage = "allocated"
  /\ pc = 0
  /\ pc' = 1
  /\ arena' = [a \in 0..(highWaterMark - 1) |-> 0]
  /\ UNCHANGED <<passVars, source, slots, inFlight>>

(* The bytes of v all hold contents c.                                     *)
Fill(v, c) ==
  LET filled == bytesOf(v)
  IN  arena' = [a \in DOMAIN arena |-> IF a \in filled THEN c ELSE arena[a]]

Issuing(kinds) ==
  /\ pc \in DOMAIN block
  /\ op.kind \in kinds
  /\ pc' = pc + 1
  /\ UNCHANGED <<passVars, source>>

Define ==
  /\ Issuing({"alloc", "slot", "view"})
  /\ UNCHANGED <<arena, slots, inFlight>>

Compute ==
  /\ Issuing({"compute"})
  /\ Fill(op.write, op.id)
  /\ UNCHANGED <<slots, inFlight>>

(* A transfer to or from a spill slot copies; any other load brings in new *)
(* contents, and any other store leaves the machine.                       *)
DmaLoad ==
  /\ Issuing({"dma_load"})
  /\ \/ /\ op.reads \cap DOMAIN slots = {}
        /\ Fill(op.write, op.id)
     \/ \E s \in op.reads \cap DOMAIN slots :
          LET filled == bytesOf(op.write)
          IN  arena' = [a \in DOMAIN arena |->
                          IF a \in filled THEN slots[s][a - Min(filled)] ELSE arena[a]]
  /\ UNCHANGED <<slots, inFlight>>

DmaStore ==
  /\ Issuing({"dma_store"})
  /\ \/ /\ op.id # 0
        /\ UNCHANGED slots
     \/ /\ op.id = 0
        /\ \E v \in op.reads :
             LET read  == bytesOf(v)
                 saved == [n \in {a - Min(read) : a \in read} |-> arena[Min(read) + n]]
             IN  slots' = [s \in DOMAIN slots \cup {op.write} |->
                             IF s = op.write THEN saved ELSE slots[s]]
  /\ UNCHANGED <<arena, inFlight>>

DmaLoadAsync ==
  /\ Issuing({"dma_load_async"})
  /\ inFlight' = inFlight \cup {pc}
  /\ UNCHANGED <<arena, slots>>

Land(i) ==
  /\ i \in inFlight
  /\ inFlight' = inFlight \ {i}
  /\ Fill(block[i].write, block[i].id)
  /\ UNCHANGED <<passVars, source, pc, slots>>

Await ==
  /\ Issuing({"await"})
  /\ \A i \in inFlight : block[i].def \notin op.reads
  /\ UNCHANGED <<arena, slots, inFlight>>

Run ==
  \/ Load
  \/ Define
  \/ Compute
  \/ DmaLoad
  \/ DmaStore
  \/ DmaLoadAsync
  \/ \E i \in inFlight : Land(i)
  \/ Await

Next ==
  \/ PassNext /\ UNCHANGED <<source, machine>>
  \/ Run

Spec == Init /\ [][Next]_vars

(* A pass and the machine it targets run to their end: neither waits.      *)
FairSpec == Spec /\ WF_vars(Next)

-----------------------------------------------------------------------------
(* What the source program reads through v at operation i: the contents    *)
(* the last operation before i that wrote v's allocation left there.       *)
definedFor(v, i) ==
  LET root    == rootOf(source)
      writers == {j \in 1..(i - 1) : source[j].write # NoValue /\ root[source[j].write] = root[v]}
  IN  source[Max(writers)].id

inSource(id) == CHOOSE i \in DOMAIN source : source[i].id = id

(***************************************************************************)
(* Whatever was spilled, reloaded, rebased and overlaid, an instruction    *)
(* reads through each operand exactly what it reads in the source program. *)
(***************************************************************************)
ReadsSeeTheirDefinition ==
  (pc \in DOMAIN block /\ op.id # 0 /\ op.kind \in {"compute", "dma_store"}) =>
    LET i == inSource(op.id)
    IN  {{arena[a] : a \in bytesOf(v)} : v \in op.reads}
          = {{definedFor(v, i)} : v \in source[i].reads}

(***************************************************************************)
(* Rule 4 of the asynchronous operations, on the bytes rather than on the  *)
(* values: while a transfer is filling its destination, no instruction     *)
(* issued touches a byte of it, whatever shares the arena with it.         *)
(***************************************************************************)
touchedBy(o) ==
  UNION {bytesOf(v) : v \in {w \in o.reads \cup {o.write} : rootOf(block)[w] \in DOMAIN arenaView}}

InFlightBytesAreUntouched ==
  (inFlight # {} /\ pc \in DOMAIN block /\ op.kind \in {"compute", "dma_load", "dma_store", "dma_load_async"}) =>
    \A i \in inFlight : touchedBy(op) \cap bytesOf(block[i].write) = {}

(* What the passes promise of the program they leave: every value arrives  *)
(* where it is read, and no transfer in flight is disturbed.               *)
ValuesAreKept == ReadsSeeTheirDefinition /\ InFlightBytesAreUntouched

(***************************************************************************)
(* The spill loop ends whatever it is given, and a function the allocator  *)
(* accepts runs to its last instruction: no await waits for ever.          *)
(***************************************************************************)
RunEnds == <>(stage = "refused" \/ pc = Len(block) + 1)

(* The values that may still be spilled.                                   *)
spillableNow == {b \in buffersOf(block) : isSpillable(b)}

(***************************************************************************)
(* "Both would let the loop spill its own output, which is how a spill     *)
(* loop fails to terminate": a spill uses up one buffer of the source      *)
(* program for good and makes no new buffer spillable.                     *)
(***************************************************************************)
SpillingConsumesSourceBuffers ==
  [][spilledBuffers' # spilledBuffers =>
       /\ spillableNow' \subseteq spillableNow
       /\ spillableNow' # spillableNow
       /\ spilledBuffers' <= Cardinality(buffersOf(source))]_vars
==============================================================================
