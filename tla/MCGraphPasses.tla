---------------------------- MODULE MCGraphPasses ----------------------------
(***************************************************************************)
(* Small functions for the graph level passes: an activation goes through  *)
(* a few stages, and what one of them produced may be returned as well.    *)
(* The importer emits a destination and the constants of a stage right     *)
(* ahead of it, so a bias follows the convolution it is added to.          *)
(***************************************************************************)
EXTENDS GraphPasses

MCDefaultBudget == 9
MCDefaultAlignment == 2

Activation(shape) == [shape |-> shape, layout |-> "none"]
Image == Activation(<<2, 1, 2>>)

(* Argument 1 is the activation and argument 2 a gamma nobody knows.       *)
MCInputs ==
  LET image(a, b, c, d) ==
        [type |-> Image,
         at |-> (<<1, 1, 1>> :> a) @@ (<<1, 1, 2>> :> b) @@ (<<2, 1, 1>> :> c) @@ (<<2, 1, 2>> :> d)]
      gamma == [type |-> Activation(<<2>>), at |-> (<<1, 1, 1>> :> 3) @@ (<<2, 1, 1>> :> 1)]
  IN  {(1 :> image(1, 2, 4, 3)) @@ (2 :> gamma), (1 :> image(0, 3, 1, 4)) @@ (2 :> gamma)}

Op(kind, v, ins, dest, type, attr) ==
  [kind |-> kind, result |-> v, ins |-> ins, dest |-> dest, type |-> type, attr |-> attr,
   params |-> << >>, body |-> << >>]

Const(v, type, k) ==
  Op("constant", v, << >>, << >>, type,
     [i \in indices(type.shape) |-> (k + 2 * i[1] + 3 * i[2] + i[3]) % Prime])

Empty(v, type) == Op("empty", v, << >>, << >>, type, << >>)

(* The operations of one stage, which reads v and numbers from n on; the   *)
(* last of them is its result.                                             *)
Stage(stage, v, n, type) ==
  LET channels == type.shape[1]
      vector == Activation(<<channels>>)
      moved(p) == Activation(permuted(type.shape, p))
      moves(p, layout) == <<Empty(n, [moved(p) EXCEPT !.layout = layout]),
                            Op("transpose", n + 1, <<v>>, <<n>>, [moved(p) EXCEPT !.layout = layout], p)>>
  IN  CASE stage = "conv" ->
             <<Const(n, Activation(<<channels, channels, 1>>), 1), Empty(n + 1, type),
               Op("conv2d", n + 2, <<v, n>>, <<n + 1>>, type, << >>)>>
        [] stage = "bias" ->
             <<Const(n, vector, 2), Empty(n + 1, type),
               Op("add", n + 2, <<v, n>>, <<n + 1>>, type, << >>)>>
        [] stage = "residual" ->
             <<Const(n, type, 3), Empty(n + 1, type),
               Op("add", n + 2, <<v, n>>, <<n + 1>>, type, << >>)>>
        [] stage \in {"norm", "norm of no root"} ->
             <<Const(n, vector, 1), Const(n + 1, vector, 4), Const(n + 2, vector, 2),
               Const(n + 3, vector, IF stage = "norm" THEN 2 ELSE 3), Empty(n + 4, type),
               Op("batch_norm", n + 5, <<v, n, n + 1, n + 2, n + 3>>, <<n + 4>>, type, << >>)>>
        [] stage = "relu" ->
             <<Empty(n, type), Op("relu", n + 1, <<v>>, <<n>>, type, << >>)>>
        [] stage = "to last"   -> moves(<<2, 3, 1>>, "none")
        [] stage = "to nhwc"   -> moves(<<2, 3, 1>>, "nhwc")
        [] stage = "to first"  -> moves(<<3, 1, 2>>, "none")
        [] stage = "stays"     -> moves(<<1, 2, 3>>, "none")
        [] stage = "weights"   ->
             <<Const(n, type, 1), Const(n + 1, type, 4), Empty(n + 2, type),
               Op("mul", n + 3, <<n, n + 1>>, <<n + 2>>, type, << >>), Empty(n + 4, type),
               Op("relu", n + 5, <<n + 3>>, <<n + 4>>, type, << >>),
               Op("reshape", n + 6, <<n + 5>>, << >>, type, << >>), Empty(n + 7, type),
               Op("add", n + 8, <<v, n + 6>>, <<n + 7>>, type, << >>)>>
        [] stage = "unknown norm" ->
             <<Const(n, vector, 4), Const(n + 1, vector, 2), Const(n + 2, vector, 2), Empty(n + 3, type),
               Op("batch_norm", n + 4, <<v, 2, n, n + 1, n + 2>>, <<n + 3>>, type, << >>)>>

Staged(ops, stage) ==
  ops \o Stage(stage, IF ops = << >> THEN 1 ELSE Last(ops).result, 3 + Len(ops),
               IF ops = << >> THEN Image ELSE Last(ops).type)

Returning(ops, also) ==
  ops \o <<Op("return", 0, <<Last(ops).result>> \o also, << >>, Image, << >>)>>

(* leak is the number of stages after which the activation leaves as well. *)
Program(stages, leak) ==
  LET upTo(n) == FoldLeft(Staged, << >>, SubSeq(stages, 1, n))
  IN  Returning(upTo(Len(stages)),
                IF leak = 0 THEN << >>
                ELSE <<Last(upTo(leak)).result>>)

AffineStages == {"bias", "residual", "norm", "norm of no root", "unknown norm", "relu", "weights"}
MoveStages == {"to last", "to nhwc", "to first", "stays", "relu"}

AffinePrograms ==
  {Program(<<"conv", a, b>>, leak) : a \in AffineStages, b \in AffineStages, leak \in {0, 1}}
  \cup {Program(<<"conv", a, b, "relu">>, 0) : a \in {"bias", "norm", "residual"}, b \in {"bias", "norm"}}

MovePrograms ==
  {Program(<<a, b, c>>, leak) : a \in MoveStages, b \in MoveStages, c \in MoveStages, leak \in {0, 1, 2}}
  \cup {Program(<<"to last", "relu", "relu", "to first">>, 0), Program(<<"to last", "relu", "to first", "conv">>, 0)}

DefaultOptions ==
  [budget |-> -1, strategy |-> "pack", alignment |-> MCDefaultAlignment, spillHeuristic |-> "longest-range",
   halo |-> "recompute", ablate |-> "none", stopAfter |-> "npuisa"]

Alone(program) == <<program>>

Run(functions_, level_, options_) == [functions |-> functions_, level |-> level_, options |-> options_]

Ablated == {"npu-constant-fold", "canonicalize", "npu-fuse-bias", "npu-fold-batchnorm", "npu-fuse-ops", "cse",
            "npu-assign-layout", "npu-double-buffer", "npu-tile-to-scratchpad", "npu-allocate-scratchpad"}

SomeProgram == Program(<<"conv", "bias", "norm", "relu">>, 0)
SomeMove == Program(<<"to last", "relu", "to first">>, 0)

MCRuns ==
  {Run(Alone(p), 2, DefaultOptions) : p \in AffinePrograms}
  \cup {Run(Alone(p), 2, [DefaultOptions EXCEPT !.ablate = "cse"]) : p \in MovePrograms}
  \cup {Run(Alone(p), l, [DefaultOptions EXCEPT !.ablate = a]) :
          p \in {SomeProgram, SomeMove, Program(<<"weights">>, 0)}, l \in 0..2, a \in Ablated}
  \cup {Run(Alone(SomeMove), l, [DefaultOptions EXCEPT !.budget = b, !.alignment = n, !.stopAfter = s, !.ablate = a]) :
          l \in 0..2, b \in {-1, 0, 7}, n \in {1, MCDefaultAlignment}, s \in {"npu", "npuisa"},
          a \in {"none", "npu-double-buffer"}}
  \cup {Run(<<SomeProgram, SomeMove>>, 1, DefaultOptions),
        Run(<<Program(<<"relu">>, 0), Program(<<"stays">>, 0)>>, 2, [DefaultOptions EXCEPT !.ablate = "npu-fuse-bias"])}
==============================================================================
