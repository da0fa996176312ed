---------------------------- MODULE ChannelGraph ----------------------------
(***************************************************************************)
(* A function of the tensor dialect as the graph level passes see it: a    *)
(* straight line of operations on small tensors.                           *)
(*                                                                         *)
(* The passes rest on algebra (a batch norm after a convolution is another *)
(* convolution), so elements are integers modulo a prime, where addition   *)
(* and multiplication are exact, and a rectified unit keeps the lower      *)
(* half.  A type is [shape, layout]: shape is <<C>>, or <<C, H, W>> with   *)
(* the batch left out; a filter is <<F, C, 1>>.                            *)
(*                                                                         *)
(* An operation is [kind, result, ins, dest, type, attr, params, body];    *)
(* attr is the elements of a constant, the permutation of a transpose, or  *)
(* empty.  Values are numbers; the arguments come first.                   *)
(***************************************************************************)
EXTENDS Integers, Sequences, FiniteSets, SequencesExt, FiniteSetsExt, TLC

Prime == 5

indices(shape) ==
  IF Len(shape) = 1 THEN (1..shape[1]) \X {1} \X {1}
                    ELSE (1..shape[1]) \X (1..shape[2]) \X (1..shape[3])

rectified(x) == IF x <= Prime \div 2 THEN x ELSE 0

(* 1 / sqrt(variance + epsilon), which the last element does not have.     *)
hasInverseRoot(variance) == variance # Prime - 1
inverseRoot(variance) == (2 * variance + 1) % Prime

scaleOf(gamma, variance) == (gamma * inverseRoot(variance)) % Prime
shiftOf(beta, mean, scale) == (beta - mean * scale) % Prime

(* A rank 1 operand is read again at every position of its channel.        *)
read(v, i) == v.at[IF Len(v.type.shape) = 1 THEN <<i[1], 1, 1>> ELSE i]

convolved(ins, i) ==
  MapThenSumSet(LAMBDA c : ins[2].at[<<i[1], c, 1>>] * ins[1].at[<<c, i[2], i[3]>>],
                1..ins[1].type.shape[1])

normalised(ins, i) ==
  LET scale == scaleOf(read(ins[2], i), read(ins[5], i))
  IN  ins[1].at[i] * scale + shiftOf(read(ins[3], i), read(ins[4], i), scale)

(* Result axis k is input axis permutation[k].                             *)
permuted(shape, permutation) == [k \in DOMAIN permutation |-> shape[permutation[k]]]

sourceIndex(i, permutation) ==
  [axis \in DOMAIN permutation |-> i[CHOOSE k \in DOMAIN permutation : permutation[k] = axis]]

(* Row major position, which a reshape keeps.                              *)
extent(shape, k) == IF k <= Len(shape) THEN shape[k] ELSE 1
position(shape, i) == ((i[1] - 1) * extent(shape, 2) + i[2] - 1) * extent(shape, 3) + i[3] - 1

elementOf(op, ins, i) ==
  CASE op.kind \in {"conv2d", "matmul"} ->
         convolved(ins, i) + (IF Len(ins) = 3 THEN read(ins[3], i) ELSE 0)
    [] op.kind = "add"        -> ins[1].at[i] + read(ins[2], i)
    [] op.kind = "mul"        -> ins[1].at[i] * read(ins[2], i)
    [] op.kind = "relu"       -> rectified(ins[1].at[i])
    [] op.kind = "batch_norm" -> normalised(ins, i)
    [] op.kind = "transpose"  -> ins[1].at[sourceIndex(i, op.attr)]
    [] op.kind = "reshape"    ->
         ins[1].at[CHOOSE j \in indices(ins[1].type.shape) :
                     position(ins[1].type.shape, j) = position(op.type.shape, i)]

computedBy(op, ins) == [i \in indices(op.type.shape) |-> elementOf(op, ins, i) % Prime]

valueOf(op, env) ==
  [type |-> op.type,
   at   |-> CASE op.kind = "constant" -> op.attr
              [] op.kind = "empty"    -> [i \in indices(op.type.shape) |-> 0]
              [] OTHER -> computedBy(op, [n \in DOMAIN op.ins |-> env[op.ins[n]]])]

extend(f, x, v) == (x :> v) @@ f

afterFlat(env, ops) == FoldLeft(LAMBDA e, op : extend(e, op.result, valueOf(op, e)), env, ops)

(* A region sees its parameters only, and yields what it computes last.    *)
regionValue(op, env) ==
  LET inner == [p \in ToSet(op.params) |-> env[op.ins[CHOOSE n \in DOMAIN op.params : op.params[n] = p]]]
  IN  afterFlat(inner, op.body)[Last(op.body).result]

after(env, ops) ==
  FoldLeft(LAMBDA e, op : extend(e, op.result, IF op.kind = "fused_op" THEN regionValue(op, e)
                                                 ELSE valueOf(op, e)),
           env, ops)

(* What a block whose last operation is the return hands back.             *)
meaning(arguments, block) ==
  LET env == after(arguments, Front(block))
  IN  [n \in DOMAIN Last(block).ins |-> env[Last(block).ins[n]]]

-----------------------------------------------------------------------------
(* Uses.  A destination is an operand like any other.                      *)
operandsOf(op) == op.ins \o op.dest

usesIn(block, v) ==
  {use \in UNION {{n} \X DOMAIN operandsOf(block[n]) : n \in DOMAIN block} :
     operandsOf(block[use[1]])[use[2]] = v}

hasOneUse(block, v) == Cardinality(usesIn(block, v)) = 1
isUnused(block, v) == usesIn(block, v) = {}

(* Where v is defined in the block, if it is.                              *)
definitionOf(block, v) == {n \in DOMAIN block : block[n].result = v}
at(block, v) == CHOOSE n \in DOMAIN block : block[n].result = v

definedBy(block, v, kinds) == \E n \in definitionOf(block, v) : block[n].kind \in kinds

dominates(arguments, block) ==
  \A n \in DOMAIN block :
    ToSet(operandsOf(block[n])) \subseteq arguments \cup {block[m].result : m \in 1..(n - 1)}

(* replaceAllUsesWith, erase, insert and move.                             *)
renamed(op, v, w) ==
  [op EXCEPT !.ins = [n \in DOMAIN @ |-> IF @[n] = v THEN w ELSE @[n]],
             !.dest = [n \in DOMAIN @ |-> IF @[n] = v THEN w ELSE @[n]]]

replaced(block, v, w) == [n \in DOMAIN block |-> renamed(block[n], v, w)]

without(block, v) == LET keeps(op) == op.result # v IN SelectSeq(block, keeps)

insertedAt(block, n, ops) == SubSeq(block, 1, n - 1) \o ops \o SubSeq(block, n, Len(block))

movedBefore(block, v, w) ==
  LET rest == without(block, v) IN insertedAt(rest, at(rest, w), <<block[at(block, v)]>>)

freshIn(block) ==
  1 + Max({0} \cup UNION {{op.result} \cup ToSet(operandsOf(op)) \cup ToSet(op.params)
                            \cup {o.result : o \in ToSet(op.body)} : op \in ToSet(block)})

(* countInto: the function itself, its operations and the nested ones, the *)
(* yield that ends a region too.                                           *)
nestedIn(op) == IF op.body = << >> THEN 0 ELSE Len(op.body) + 1
countInto(block) == 1 + Len(block) + FoldLeft(LAMBDA total, op : total + nestedIn(op), 0, block)
==============================================================================
