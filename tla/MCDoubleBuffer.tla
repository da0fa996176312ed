---------------------------- MODULE MCDoubleBuffer ----------------------------
(***************************************************************************)
(* The functions of MCAllocateScratchpad with a load somewhere after a     *)
(* computation, one that fills a buffer again after it was read, and one   *)
(* whose second load reads a buffer assembled in DRAM by an earlier store  *)
(* (a tiled result, LowerNPUToNPUISA).                                     *)
(***************************************************************************)
EXTENDS DoubleBuffer, MCAllocateScratchpad

MCRefilled ==
  [block |->
     << Alloc(1), Operation("dma_load", 1, NoValue, {21}, 1),
        Alloc(2), Operation("compute", 2, NoValue, {1}, 2),
        Operation("dma_load", 5, NoValue, {22}, 1),
        Alloc(3), Operation("compute", 3, NoValue, {1, 2}, 3),
        Operation("dma_store", 30, NoValue, {3}, 40) >>,
   size     |-> Uniform(3),
   permuted |-> {}]

MCLateLoads ==
  {MCRefilled}
  \cup
  {Program(f, "plain", sizes) : f \in Flows(4, {1, 3}), sizes \in [1..4 -> {1, 2}]}
  \cup
  {Program(f, "viewed", Uniform(5)) : f \in Flows(5, {1, 3, 4}) \cup Flows(5, {1, 2, 4})}

(* 1 is loaded and stored into the assembly 25; 2 is computed from 1; 3 is *)
(* the assembly loaded whole; 4 reads both.                                *)
MCAssembly ==
  {[block |->
      << Alloc(1), Operation("dma_load", 1, NoValue, {21}, 1),
         Operation("slot", 0, 25, {}, NoValue),
         Operation("view", 0, 26, {25}, NoValue),
         Operation("dma_store", 31, NoValue, {1}, 26),
         Alloc(2), Operation("compute", 2, NoValue, {1}, 2),
         Alloc(3), Operation("dma_load", 3, NoValue, {25}, 3),
         Alloc(4), Operation("compute", 4, NoValue, {2, 3}, 4),
         Operation("dma_store", 30, NoValue, {4}, 40) >>,
    size     |-> Uniform(4),
    permuted |-> {}]}
==============================================================================
