-------------------------- MODULE ScratchpadLiveness --------------------------
(***************************************************************************)
(* The straight-line npuisa block the scratchpad passes rewrite, and the   *)
(* walk that collects its buffers (ScratchpadLiveness.cpp).                *)
(*                                                                         *)
(* An operation is [kind, id, def, reads, write]: the value it defines     *)
(* (an allocation, a view, a token), the values it reads and the one it    *)
(* writes.  Values and ids are positive numbers; 0 is no value, and the id *)
(* of an operation no source program contains.  Shapes are left out: a     *)
(* buffer is a number of bytes, and a layout is the identity or not.       *)
(***************************************************************************)
EXTENDS LiveIntervals, Functions, SequencesExt, Ranks

NoValue == 0

OperationKind ==
  {"alloc", "view", "slot", "compute", "dma_load", "dma_load_async", "dma_store", "await"}

Operation(kind, id, def, reads, write) ==
  [kind |-> kind, id |-> id, def |-> def, reads |-> reads, write |-> write]

BlockOperation ==
  [kind : OperationKind, id : Nat, def : Nat, reads : SUBSET Nat, write : Nat]

(* Static single assignment form: a value is defined once.                 *)
definesOnce(block) ==
  /\ block \in Seq(BlockOperation)
  /\ \A i, j \in DOMAIN block : block[i].def = block[j].def /\ block[i].def # NoValue => i = j
  /\ \A i \in DOMAIN block :
       /\ IsFiniteSet(block[i].reads)
       /\ block[i].kind \in {"alloc", "view"} => block[i].def # NoValue

(* And a view is of one value, whose definition is above it.               *)
isWellFormed(block) ==
  /\ definesOnce(block)
  /\ \A i \in DOMAIN block :
       block[i].kind = "view" =>
         \E v \in block[i].reads \ {NoValue} : block[i].reads = {v} /\ \A j \in DOMAIN block : block[j].def = v => j < i

allocs(block) == {i \in DOMAIN block : block[i].kind = "alloc"}

buffersOf(block) == {block[i].def : i \in allocs(block)}

definitionOf(block, v) == CHOOSE i \in DOMAIN block : block[i].def = v

(* The allocation underneath a value: view-like operations walked back.    *)
viewsOf(block) == {block[i].def : i \in {j \in DOMAIN block : block[j].kind = "view"}}

rootOf(block) ==
  LET root[v \in Nat] ==
        IF v \in viewsOf(block)
          THEN root[CHOOSE s \in block[definitionOf(block, v)].reads : TRUE]
          ELSE v
  IN  root

(* A buffer and every view of it, direct or not.                           *)
aliasesOf(block, b) ==
  {b} \cup {v \in viewsOf(block) : rootOf(block)[v] = b}

usersOf(block, v) == {i \in DOMAIN block : v \in block[i].reads \/ v = block[i].write}

(* asynchronousCompletionOf: the await of an asynchronous transfer.        *)
NoCompletion(block, i) == i

completionOf(block, i) ==
  IF block[i].kind = "dma_load_async"
    THEN CHOOSE j \in DOMAIN block : block[j].kind = "await" /\ block[j].reads = {block[i].def}
    ELSE i

(* The interval of a buffer ends at the last use of it or of a view of it, *)
(* an asynchronous use counting until its await.                           *)
usesOf(block, b) ==
  {definitionOf(block, b)} \cup
  {completionOf(block, i) : i \in UNION {usersOf(block, v) : v \in aliasesOf(block, b)}}

writersOf(block, b) == {i \in DOMAIN block : block[i].write = b}

hasOneWriter(block, b) == Cardinality(writersOf(block, b)) = 1

writerOf(block, b) == CHOOSE i \in writersOf(block, b) : TRUE

(* A view taken directly of the allocation counts as a reader of it.       *)
readersOf(block, b) == {i \in DOMAIN block : b \in block[i].reads}

viewWrittenThrough(block, b) ==
  \E i \in DOMAIN block : block[i].write \in aliasesOf(block, b) \ {b}

(* collectScratchpadBuffers, in block order.                               *)
collected(block) ==
  LET order == inOrder(allocs(block))
  IN  [k \in DOMAIN order |-> block[order[k]].def]

liveIntervals(block, size) ==
  LET buffers == collected(block)
  IN  [k \in DOMAIN buffers |->
         [definition |-> definitionOf(block, buffers[k]),
          lastUse    |-> Max(usesOf(block, buffers[k])),
          bytes      |-> size[buffers[k]]]]
==============================================================================
