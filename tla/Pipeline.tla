------------------------------ MODULE Pipeline ------------------------------
(***************************************************************************)
(* Pipeline.cpp: the passes of each optimisation level, in order, and the  *)
(* options each of them is built with.                                     *)
(***************************************************************************)
EXTENDS Ranks, Sequences, SequencesExt

CONSTANTS DefaultBudget, DefaultAlignment

ASSUME DefaultsAssumption == DefaultBudget \in Nat \ {0} /\ DefaultAlignment \in Nat \ {0}

(* A budget of minus one stands for the default; the passes that read the  *)
(* budget refuse any other negative number.                                *)
PipelineOptions ==
  [budget : {n \in Int : n >= -1}, strategy : STRING, alignment : Int, spillHeuristic : STRING,
   halo : STRING, ablate : STRING, stopAfter : {"npu", "npuisa"}]

O0 == <<"npu-lower-to-npuisa", "npu-allocate-scratchpad">>

O1 == <<"npu-constant-fold", "canonicalize">> \o O0

(* Mutant: the batch norm fold runs ahead of the bias fusion.              *)
foldedFirst ==
  <<"npu-constant-fold", "canonicalize", "npu-fold-batchnorm", "npu-fuse-bias", "npu-fuse-ops",
    "canonicalize", "cse", "sccp", "symbol-dce", "npu-assign-layout">>

graphPasses ==
  <<"npu-constant-fold", "canonicalize", "npu-fuse-bias", "npu-fold-batchnorm", "npu-fuse-ops",
    "canonicalize", "cse", "sccp", "symbol-dce", "npu-assign-layout">>

O2 ==
  graphPasses
    \o <<"npu-tile-to-scratchpad", "npu-lower-to-npuisa", "npu-double-buffer", "npu-allocate-scratchpad">>

passesOf(level) == IF level = 0 THEN O0 ELSE IF level = 1 THEN O1 ELSE O2

isAblatable(kind) == kind \notin {"npu-lower-to-npuisa", "npu-allocate-scratchpad"}

isTensorLevel(kind) ==
  kind \notin {"npu-lower-to-npuisa", "npu-double-buffer", "npu-allocate-scratchpad"}

onModule(kind) == kind \in {"sccp", "symbol-dce", "npu-lower-to-npuisa"}

isAblated(kind, options) == isAblatable(kind) /\ kind = options.ablate

(* Asked of the whole level, whatever the stage the caller stops after.    *)
doubleBufferInPipeline(level, options) ==
  \E n \in DOMAIN passesOf(level) :
    passesOf(level)[n] = "npu-double-buffer" /\ ~isAblated("npu-double-buffer", options)

(* A budget of minus one leaves a pass with its own default.               *)
tilingOptions(level, options) ==
  [budget |-> IF options.budget >= 0 THEN options.budget ELSE DefaultBudget,
   doubleBuffer |-> doubleBufferInPipeline(level, options), halo |-> options.halo]

(* Mutant: the prefetch is priced at the default alignment.                *)
prefetchAtDefaultAlignment(options) ==
  [budget |-> options.budget, strategy |-> options.strategy, alignment |-> DefaultAlignment]

prefetchOptions(options) ==
  [budget |-> options.budget, strategy |-> options.strategy, alignment |-> options.alignment]

allocationOptions(options) ==
  [budget |-> options.budget, strategy |-> options.strategy, alignment |-> options.alignment,
   spillHeuristic |-> options.spillHeuristic]

addPass(kind, level, options) ==
  [kind |-> kind,
   given |-> CASE kind = "npu-tile-to-scratchpad"  -> tilingOptions(level, options)
               [] kind = "npu-double-buffer"       -> prefetchOptions(options)
               [] kind = "npu-allocate-scratchpad" -> allocationOptions(options)
               [] OTHER                            -> << >>]

build(level, options) ==
  LET isBuilt(kind) == /\ options.stopAfter = "npu" => isTensorLevel(kind)
                       /\ ~isAblated(kind, options)
      passes == passesOf(level)
      kinds == picked(passes, {n \in DOMAIN passes : isBuilt(passes[n])})
  IN  [n \in DOMAIN kinds |-> addPass(kinds[n], level, options)]

(* readScratchpadBudget, for a function that names no budget of its own.   *)
budgetRead(option) == IF option = -1 THEN DefaultBudget ELSE option
==============================================================================
