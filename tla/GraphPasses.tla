----------------------------- MODULE GraphPasses -----------------------------
(***************************************************************************)
(* The graph level passes of lib/Dialect/NPU/Transforms, run in the order  *)
(* Pipeline.cpp builds them in, with the statistics PassStats.cpp keeps.   *)
(*                                                                         *)
(* A function pass collects its candidates, then visits them one by one; a *)
(* step here visits one.  The functions of a module are rewritten at the   *)
(* same time, by threads that meet at every pass on the module.            *)
(* -canonicalize, -cse and -sccp are MLIR's, modelled by what the pipeline *)
(* counts on them for.  The passes from tiling on have modules of their    *)
(* own, so a run ends where the first of them would start.                 *)
(***************************************************************************)
EXTENDS ChannelGraph, Pipeline

CONSTANTS Runs,       \* [functions, level, options] the pipeline is started with
          Inputs      \* what the arguments may hold

ASSUME RunsAssumption == \A run \in Runs : run.level \in 0..2 /\ run.options \in PipelineOptions

VARIABLES level, options, block, expected, next, phase, todo, changed, active, records

vars == <<level, options, block, expected, next, phase, todo, changed, active, records>>

functions == DOMAIN block
plan == build(level, options)

elsewhere == {"npu-tile-to-scratchpad", "npu-lower-to-npuisa", "npu-double-buffer",
              "npu-allocate-scratchpad"}

isDone(f) == next[f] > Len(plan) \/ plan[next[f]].kind \in elsewhere

resultsOf(ops) == [n \in DOMAIN ops |-> ops[n].result]
opAt(b, v) == b[at(b, v)]
isConstant(b, v) == definedBy(b, v, {"constant"})
isPlainActivation(type) == Len(type.shape) = 3 /\ type.layout = "none"

-----------------------------------------------------------------------------
(* ConstantFold.cpp                                                        *)
sameShapedConstant(b, v, expectedType) == isConstant(b, v) /\ opAt(b, v).type = expectedType

elementCount(type) == Cardinality(indices(type.shape))

(* An elementwise operation reads constants of the result's own type; only *)
(* the element count of a reshape's operand matters.                       *)
foldable(b, op) ==
  IF op.kind = "reshape"
  THEN isConstant(b, op.ins[1]) /\ elementCount(opAt(b, op.ins[1]).type) = elementCount(op.type)
  ELSE \A v \in ToSet(op.ins) : sameShapedConstant(b, v, op.type)

constantOp(v, type, elements) ==
  [kind |-> "constant", result |-> v, ins |-> << >>, dest |-> << >>, type |-> type,
   attr |-> elements, params |-> << >>, body |-> << >>]

valueHeld(b, v) == [type |-> opAt(b, v).type, at |-> opAt(b, v).attr]

replaceWithConstant(b, op) ==
  LET held == [n \in DOMAIN op.ins |-> valueHeld(b, op.ins[n])]
  IN  [b EXCEPT ![at(b, op.result)] = constantOp(op.result, op.type, computedBy(op, held))]

constantFolded(b, v) ==
  IF foldable(b, opAt(b, v)) THEN replaceWithConstant(b, opAt(b, v)) ELSE b

-----------------------------------------------------------------------------
(* FuseBias.cpp                                                            *)
isChannelConstant(b, v, channels) == isConstant(b, v) /\ opAt(b, v).type.shape = <<channels>>

(* Mutant: the reads of the convolution's result are not counted.          *)
fusableWhateverReadsIt(b, add) ==
  /\ definedBy(b, add.ins[1], {"conv2d"})
  /\ isPlainActivation(add.type)
  /\ Len(opAt(b, add.ins[1]).ins) = 2
  /\ isChannelConstant(b, add.ins[2], add.type.shape[1])

fusableBias(b, add) ==
  /\ definedBy(b, add.ins[1], {"conv2d"})
  /\ hasOneUse(b, add.ins[1])
  /\ isPlainActivation(add.type)
  /\ Len(opAt(b, add.ins[1]).ins) = 2
  /\ isChannelConstant(b, add.ins[2], add.type.shape[1])

hoistAbove(b, constant, consumer) ==
  IF at(b, constant) < at(b, consumer) THEN b ELSE movedBefore(b, constant, consumer)

withBias(b, conv, filter, bias) ==
  [b EXCEPT ![at(b, conv)].ins = <<@[1], filter, bias>>]

(* The destination of the addition stays behind, with no reader.           *)
biasFused(b, v) ==
  LET add    == opAt(b, v)
      conv   == add.ins[1]
      biased == withBias(hoistAbove(b, add.ins[2], conv), conv, opAt(b, conv).ins[2], add.ins[2])
  IN  IF fusableBias(b, add) THEN without(replaced(biased, v, conv), v) ELSE b

-----------------------------------------------------------------------------
(* FoldBatchNorm.cpp                                                       *)
foldableNorm(b, norm) ==
  LET conv == opAt(b, norm.ins[1])
  IN  /\ definedBy(b, norm.ins[1], {"conv2d"})
      /\ hasOneUse(b, norm.ins[1])
      /\ norm.type = conv.type
      /\ isPlainActivation(norm.type)
      /\ \A v \in ToSet(Tail(norm.ins)) \cup ToSet(Tail(conv.ins)) : isConstant(b, v)
      /\ \A v \in ToSet(Tail(norm.ins)) \cup ToSet(SubSeq(conv.ins, 3, Len(conv.ins))) :
           opAt(b, v).type.shape = <<norm.type.shape[1]>>
      /\ \A variance \in Range(opAt(b, norm.ins[5]).attr) : hasInverseRoot(variance)

foldedFilter(filter, scale) ==
  [i \in DOMAIN filter.attr |-> (filter.attr[i] * scale[<<i[1], 1, 1>>]) % Prime]

foldedBias(existing, scale, shift) ==
  [c \in DOMAIN scale |-> (existing[c] * scale[c] + shift[c]) % Prime]

normFolded(b, v) ==
  LET norm     == opAt(b, v)
      conv     == opAt(b, norm.ins[1])
      held(n)  == opAt(b, norm.ins[n]).attr
      scale    == [c \in DOMAIN held(2) |-> scaleOf(held(2)[c], held(5)[c])]
      shift    == [c \in DOMAIN held(2) |-> shiftOf(held(3)[c], held(4)[c], scale[c])]
      existing == IF Len(conv.ins) = 3 THEN opAt(b, conv.ins[3]).attr ELSE [c \in DOMAIN scale |-> 0]
      filter   == opAt(b, conv.ins[2])
      fresh    == freshIn(b)
      inserted ==
        insertedAt(b, at(b, conv.result),
          <<constantOp(fresh, filter.type, foldedFilter(filter, scale)),
            constantOp(fresh + 1, opAt(b, norm.ins[2]).type, foldedBias(existing, scale, shift))>>)
  IN  IF foldableNorm(b, norm)
      THEN without(replaced(withBias(inserted, conv.result, fresh, fresh + 1), v, conv.result), v)
      ELSE b

-----------------------------------------------------------------------------
(* FuseOps.cpp                                                             *)
fusable(b, relu) ==
  /\ definedBy(b, relu.ins[1], {"conv2d", "matmul"})
  /\ hasOneUse(b, relu.ins[1])

(* The region is isolated, so every destination is an operand as well; an  *)
(* operand listed twice is read through the last argument it maps to.      *)
fused(b, v) ==
  LET relu     == opAt(b, v)
      producer == opAt(b, relu.ins[1])
      operands == producer.ins \o producer.dest \o relu.dest
      fresh    == freshIn(b)
      params   == [n \in DOMAIN operands |-> fresh + n]
      last     == fresh + Len(operands)
      mapped(w) == params[Max({n \in DOMAIN operands : operands[n] = w})]
      cloned(op, result, ins) ==
        [op EXCEPT !.result = result, !.ins = ins, !.dest = [n \in DOMAIN @ |-> mapped(@[n])]]
      region   == <<cloned(producer, last + 1, [n \in DOMAIN producer.ins |-> mapped(producer.ins[n])]),
                    cloned(relu, last + 2, <<last + 1>>)>>
      op       == [relu EXCEPT !.kind = "fused_op", !.result = fresh, !.ins = operands, !.dest = << >>,
                               !.params = params, !.body = region]
  IN  IF fusable(b, relu)
      THEN without(without(replaced(insertedAt(b, at(b, v), <<op>>), v, fresh), v), producer.result)
      ELSE b

-----------------------------------------------------------------------------
(* AssignLayout.cpp                                                        *)
isIdentityPermutation(permutation) == \A k \in DOMAIN permutation : permutation[k] = k

composesToIdentity(outer, inner) == \A k \in DOMAIN outer : inner[outer[k]] = k

(* Mutant: what a rewrite orphans is left to a canonicalization.           *)
leftToCanonicalize(b, v) == b

eraseIfDeadEmpty(b, v) == IF definedBy(b, v, {"empty"}) /\ isUnused(b, v) THEN without(b, v) ELSE b

removed(b, v, w) == eraseIfDeadEmpty(without(replaced(b, v, w), v), opAt(b, v).dest[1])

foldTranspose(b, v, types) ==
  LET op    == opAt(b, v)
      inner == opAt(b, op.ins[1])
      outerGone == removed(b, v, inner.ins[1])
  IN  IF isIdentityPermutation(op.attr)
      THEN IF types[op.ins[1]] = op.type THEN removed(b, v, op.ins[1]) ELSE b
      ELSE IF /\ definedBy(b, op.ins[1], {"transpose"})
              /\ composesToIdentity(op.attr, inner.attr)
              /\ types[inner.ins[1]] = op.type
           THEN IF isUnused(outerGone, inner.result)
                THEN removed(outerGone, inner.result, inner.result)
                ELSE outerGone
           ELSE b

sinkable(b, relu) ==
  LET transpose == opAt(b, relu.ins[1])
  IN  /\ definedBy(b, relu.ins[1], {"transpose"})
      /\ hasOneUse(b, relu.ins[1])
      /\ transpose.type = relu.type
      /\ \A v \in {relu.dest[1], transpose.dest[1]} : definedBy(b, v, {"empty"}) /\ hasOneUse(b, v)

emptyOp(v, type) == [constantOp(v, type, << >>) EXCEPT !.kind = "empty"]

(* The relu runs ahead of the transpose, into a destination of its own.    *)
sunkRelu(relu, transpose, sourceType, fresh) ==
  <<emptyOp(fresh, sourceType),
    [relu EXCEPT !.result = fresh + 1, !.ins = transpose.ins, !.dest = <<fresh>>, !.type = sourceType]>>

sinkThroughRelu(b, v, types) ==
  LET relu      == opAt(b, v)
      transpose == opAt(b, relu.ins[1])
      fresh     == freshIn(b)
      inserted  == insertedAt(b, at(b, transpose.result),
                              sunkRelu(relu, transpose, types[transpose.ins[1]], fresh))
      reading   == [inserted EXCEPT ![at(inserted, transpose.result)].ins = <<fresh + 1>>]
  IN  IF sinkable(b, relu)
      THEN eraseIfDeadEmpty(without(replaced(reading, v, transpose.result), v), relu.dest[1])
      ELSE b

-----------------------------------------------------------------------------
(* MLIR's own passes, as far as the pipeline counts on them.               *)
erasable(b, v) == isUnused(b, v) /\ opAt(b, v).kind # "return"

deadErased(b) ==
  FoldRight(LAMBDA v, rest : IF erasable(rest, v) THEN without(rest, v) ELSE rest, resultsOf(b), b)

(* An operation without the numbers of the values it defines.              *)
anonymous(op) ==
  LET relative(vs) == [n \in DOMAIN vs |-> vs[n] - op.result]
      nested(o) == [o EXCEPT !.result = @ - op.result, !.ins = relative(@), !.dest = relative(@)]
  IN  [op EXCEPT !.result = 0, !.params = relative(@), !.body = [n \in DOMAIN @ |-> nested(@[n])]]

twinsOf(b, v) == {m \in 1..(at(b, v) - 1) : anonymous(b[m]) = anonymous(opAt(b, v))}

mergedWithTwin(b, v) ==
  IF twinsOf(b, v) = {} THEN b ELSE without(replaced(b, v, b[Min(twinsOf(b, v))].result), v)

(* Constants move to the top of the block, one of each.                    *)
constantsFirst(b) ==
  LET isConst(op) == op.kind = "constant"
      others(op)  == ~isConst(op)
      hoisted     == SelectSeq(b, isConst)
  IN  FoldLeft(mergedWithTwin, hoisted \o SelectSeq(b, others), resultsOf(hoisted))

canonicalize(b) == deadErased(constantsFirst(deadErased(b)))

cse(b) ==
  FoldLeft(LAMBDA rest, v : IF erasable(rest, v) THEN without(rest, v)
                            ELSE IF opAt(rest, v).kind = "return" THEN rest ELSE mergedWithTwin(rest, v),
           b, resultsOf(b))

-----------------------------------------------------------------------------
(* What a pass visits, and what it makes of the block there.               *)
candidateKinds(kind) ==
  CASE kind = "npu-constant-fold"  -> {"add", "mul", "relu", "reshape"}
    [] kind = "npu-fuse-bias"      -> {"add"}
    [] kind = "npu-fold-batchnorm" -> {"batch_norm"}
    [] kind = "npu-fuse-ops"       -> {"relu"}
    [] kind = "npu-assign-layout"  -> {"relu"}
    [] OTHER                       -> {"return"}

candidates(b, kinds) == resultsOf(SelectSeq(b, LAMBDA op : op.kind \in kinds))

argumentTypes == LET input == CHOOSE i \in Inputs : TRUE IN [v \in DOMAIN input |-> input[v].type]

typesIn(b) == [v \in {op.result : op \in ToSet(b)} |-> opAt(b, v).type] @@ argumentTypes

rewritten(kind, stage, b, v) ==
  CASE kind = "npu-constant-fold"  -> constantFolded(b, v)
    [] kind = "npu-fuse-bias"      -> biasFused(b, v)
    [] kind = "npu-fold-batchnorm" -> normFolded(b, v)
    [] kind = "npu-fuse-ops"       -> fused(b, v)
    [] kind = "npu-assign-layout" /\ stage = "sink" -> sinkThroughRelu(b, v, typesIn(b))
    [] kind = "npu-assign-layout" /\ stage = "fold" -> foldTranspose(b, v, typesIn(b))
    [] kind = "canonicalize"       -> canonicalize(b)
    [] kind = "cse"                -> cse(b)

(* A fold may erase an operation that was listed.                          *)
dropErased(list, b) == SelectSeq(list, LAMBDA v : definitionOf(b, v) # {})

-----------------------------------------------------------------------------
meanings(b) == [input \in Inputs |-> meaning(input, b)]

Init ==
  \E run \in Runs :
    /\ level = run.level
    /\ options = run.options
    /\ block = run.functions
    /\ expected = [f \in DOMAIN run.functions |-> meanings(run.functions[f])]
    /\ next = [f \in DOMAIN run.functions |-> 1]
    /\ phase = [f \in DOMAIN run.functions |-> "idle"]
    /\ todo = [f \in DOMAIN run.functions |-> << >>]
    /\ changed = [f \in DOMAIN run.functions |-> FALSE]
    /\ active = [f \in DOMAIN run.functions |-> {}]
    /\ records = << >>

started == <<level, options, expected>>

kindAt(f) == plan[next[f]].kind

(* runBeforePass, and the walk that collects the candidates.               *)
runBeforePass(f) == active' = [active EXCEPT ![f] = {countInto(block[f])}]

Begin(f) ==
  /\ ~isDone(f) /\ phase[f] = "idle" /\ ~onModule(kindAt(f))
  /\ runBeforePass(f)
  /\ phase' = [phase EXCEPT ![f] = "sink"]
  /\ todo' = [todo EXCEPT ![f] = candidates(block[f], candidateKinds(kindAt(f)))]
  /\ changed' = [changed EXCEPT ![f] = FALSE]
  /\ UNCHANGED <<started, block, next, records>>

Visit(f) ==
  LET after_ == rewritten(kindAt(f), phase[f], block[f], Head(todo[f]))
  IN  /\ phase[f] # "idle" /\ todo[f] # << >>
      /\ block' = [block EXCEPT ![f] = after_]
      /\ todo' = [todo EXCEPT ![f] = dropErased(Tail(@), after_)]
      /\ changed' = [changed EXCEPT ![f] = @ \/ after_ # block[f]]
      /\ UNCHANGED <<started, next, phase, active, records>>

(* AssignLayout: sink, then fold, until neither changed anything.          *)
SinkToFold(f) ==
  /\ phase[f] = "sink" /\ todo[f] = << >> /\ kindAt(f) = "npu-assign-layout"
  /\ phase' = [phase EXCEPT ![f] = "fold"]
  /\ todo' = [todo EXCEPT ![f] = candidates(block[f], {"transpose"})]
  /\ UNCHANGED <<started, block, next, changed, active, records>>

(* Mutant: the flag is not reset before the next round.                    *)
stillChanged == TRUE

changedAtRestart == FALSE

SinkAgain(f) ==
  /\ phase[f] = "fold" /\ todo[f] = << >> /\ changed[f]
  /\ phase' = [phase EXCEPT ![f] = "sink"]
  /\ todo' = [todo EXCEPT ![f] = candidates(block[f], {"relu"})]
  /\ changed' = [changed EXCEPT ![f] = changedAtRestart]
  /\ UNCHANGED <<started, block, next, active, records>>

(* What a pass is run on.                                                  *)
ofFunction(f) == <<"func.func", f>>
ofModule == <<"builtin.module">>

countIntoModule(blocks) == 1 + MapThenSumSet(LAMBDA f : countInto(blocks[f]), DOMAIN blocks)

(* Mutant: the count is taken again from what runBeforePass saw.           *)
recordOfBefore(name, anchor, began, ended) ==
  [name |-> name, anchor |-> anchor, opsBefore |-> began, opsAfter |-> began]

record(name, anchor, began, ended) ==
  [name |-> name, anchor |-> anchor, opsBefore |-> began, opsAfter |-> ended]

closed(f) == [active EXCEPT ![f] = {}]

passIsOver(f) ==
  /\ phase[f] # "idle" /\ todo[f] = << >>
  /\ kindAt(f) = "npu-assign-layout" => phase[f] = "fold" /\ ~changed[f]

(* runAfterPass: the row is completed and appended under the lock.         *)
End(f) ==
  /\ passIsOver(f)
  /\ records' = records \o SetToSeq({record(kindAt(f), ofFunction(f), began, countInto(block[f])) :
                                       began \in active[f]})
  /\ active' = closed(f)
  /\ phase' = [phase EXCEPT ![f] = "idle"]
  /\ next' = [next EXCEPT ![f] = @ + 1]
  /\ UNCHANGED <<started, block, todo, changed>>

(* -sccp finds every constant a constant already, and -symbol-dce finds    *)
(* every function public; all functions have to arrive first, so that      *)
(* nothing is between the pass and its row.                                *)
RunOnModule ==
  \E n \in DOMAIN plan :
    LET kind == plan[n].kind
    IN  /\ onModule(kind) /\ kind \notin elsewhere
        /\ \A f \in functions : next[f] = n /\ phase[f] = "idle"
        /\ next' = [f \in functions |-> n + 1]
        /\ block' = [f \in functions |-> IF kind = "sccp" THEN constantsFirst(block[f]) ELSE block[f]]
        /\ records' = Append(records, record(kind, ofModule, countIntoModule(block), countIntoModule(block')))
        /\ UNCHANGED <<started, phase, todo, changed, active>>

Next ==
  \/ \E f \in functions : Begin(f) \/ Visit(f) \/ SinkToFold(f) \/ SinkAgain(f) \/ End(f)
  \/ RunOnModule

Spec == Init /\ [][Next]_vars

isFinished == \A f \in functions : isDone(f)

(* Weak fairness of Next, which is enabled until the pipeline is finished: *)
(* a pass manager that has a pass to run, runs it.                         *)
FairSpec == Spec /\ (<>[]~isFinished => []<><<Next>>_vars)

-----------------------------------------------------------------------------
(* The IR verifies: a destination has the type of the result, and an       *)
(* elementwise operation the type of what it reads.                        *)
verifies(b) ==
  \A n \in DOMAIN b :
    LET op == b[n]
        types == typesIn(b)
    IN  /\ \A v \in ToSet(op.dest) : types[v] = op.type
        /\ op.kind \in {"relu", "add", "mul", "batch_norm"} => types[op.ins[1]] = op.type
        /\ op.kind = "transpose" => op.type.shape = permuted(types[op.ins[1]].shape, op.attr)

(* Every pass says in its header why it may rewrite: the guards on types,  *)
(* uses and constants are what makes every step leave a function that      *)
(* verifies and computes what it did.                                      *)
PassesKeepTheMeaning ==
  \A f \in functions :
    /\ dominates(DOMAIN argumentTypes, block[f])
    /\ verifies(block[f])
    /\ meanings(block[f]) = expected[f]

(* The notes of the -O2 table: each fusion runs where nothing hides its    *)
(* pattern, so once -npu-fuse-ops is done none of the three has a match.   *)
NothingLeftToFuse ==
  LET ends == {n \in DOMAIN plan : plan[n].kind = "npu-fuse-ops"}
      all3 == {"npu-fuse-bias", "npu-fold-batchnorm", "npu-fuse-ops"}
                \subseteq {plan[n].kind : n \in DOMAIN plan}
  IN  all3 => \A f \in functions : \A op \in ToSet(block[f]) :
        next[f] > Max(ends) =>
          /\ op.kind = "add" => ~fusableBias(block[f], op)
          /\ op.kind = "batch_norm" => ~foldableNorm(block[f], op)
          /\ op.kind = "relu" => ~fusable(block[f], op)

(* eraseIfDeadEmpty: nothing between layout assignment and the lowering    *)
(* removes a dead destination, so the pass may not leave one.              *)
NothingDeadReachesTheLowering ==
  "canonicalize" \in {plan[n].kind : n \in DOMAIN plan} =>
    \A f \in functions :
      isDone(f) /\ level = 2 =>
        \A n \in DOMAIN block[f] : ~erasable(block[f], block[f][n].result)

(* PassStats: one row for every pass that ran, on each function and on the *)
(* module, in the order it was built; each row of a function continues     *)
(* from the count the one before it ended on, and none is running between  *)
(* two passes (still_running_at_exit).                                     *)
rowsOn(anchor) == picked(records, {n \in DOMAIN records : records[n].anchor = anchor})

StatisticsFollowThePipeline ==
  \A f \in functions :
    LET mine   == rowsOn(ofFunction(f))
        shared == rowsOn(ofModule)
        passes == plan
        ran    == picked(passes, {n \in 1 .. next[f] - 1 : ~onModule(passes[n].kind)})
        ranForAll == picked(passes, {n \in 1 .. next[f] - 1 : onModule(passes[n].kind)})
    IN  /\ [n \in DOMAIN mine |-> mine[n].name] = [n \in DOMAIN ran |-> ran[n].kind]
        /\ [n \in DOMAIN shared |-> shared[n].name] = [n \in DOMAIN ranForAll |-> ranForAll[n].kind]
        /\ Cardinality(active[f]) = IF phase[f] = "idle" THEN 0 ELSE 1
        /\ \A n \in 2..Len(mine) :
             mine[n].name # "npu-assign-layout" => mine[n].opsBefore = mine[n - 1].opsAfter
        /\ \A before \in active[f] :
             mine # << >> /\ kindAt(f) # "npu-assign-layout" => Last(mine).opsAfter = before

(* addPass: there is one scratchpad, so the passes that size, price and    *)
(* place agree on it; and a view of the tensor level is a prefix of the    *)
(* whole compilation.                                                      *)
PassesAgreeOnTheMachine ==
  LET whole == build(level, [options EXCEPT !.stopAfter = "npuisa"])
      positions(kind) == {n \in DOMAIN whole : whole[n].kind = kind}
      placing == whole[Max(positions("npu-allocate-scratchpad"))].given
  IN  /\ \A n \in positions("npu-tile-to-scratchpad") :
           /\ whole[n].given.budget = budgetRead(placing.budget)
           /\ whole[n].given.doubleBuffer = (positions("npu-double-buffer") # {})
      /\ \A n \in positions("npu-double-buffer") :
           /\ n < Max(positions("npu-allocate-scratchpad"))
           /\ \A option \in {"budget", "strategy", "alignment"} :
                whole[n].given[option] = placing[option]
      /\ IsPrefix(plan, whole)

(* AssignLayout's argument: a sink moves a transpose later and a fold      *)
(* removes one, so the rounds end, and with them the pipeline.             *)
PipelineFinishes == <>isFinished
==============================================================================
