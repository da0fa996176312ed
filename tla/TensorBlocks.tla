---------------------------- MODULE TensorBlocks ----------------------------
(***************************************************************************)
(* A block of the tensor dialect and what it computes.                     *)
(*                                                                         *)
(* A tensor is the sequence of its rows along the dimension that is tiled; *)
(* a row is a term that says how it was computed, so that two programs     *)
(* agree exactly when their terms do.  A rank 1 per channel operand is a   *)
(* single row.  Values are numbers, unique in the function; the arguments  *)
(* come first.                                                             *)
(*                                                                         *)
(* An operation is [kind, name, result, ins, dest, size, offset, window,   *)
(* data, params, body]: size is the number of rows of the result, and a    *)
(* field the kind has no use for is empty or zero.                         *)
(***************************************************************************)
EXTENDS Integers, Sequences, FiniteSets, SequencesExt, FiniteSetsExt, TLC

Pad == <<"pad">>
Junk == <<"junk">>

argumentRow(a, r) == <<"argument", a, r>>

extend(f, x, v) == (x :> v) @@ f

only(set) == CHOOSE x \in set : TRUE

-----------------------------------------------------------------------------
(* A window over the rows: tap k of row r reads one input row or padding.  *)
tapRow(w, r, k) == r * w.stride - w.before + k * w.dilation

windowRow(w, input, r) ==
  [k \in 1..w.kernel |->
     LET i == tapRow(w, r, k - 1) IN IF 0 <= i /\ i < Len(input) THEN input[i + 1] ELSE Pad]

(* An elementwise operand of one row is read again for every row.          *)
mapRow(input, r) == IF Len(input) = 1 THEN input[1] ELSE input[r]

(* The multiplier and the addend of a batch norm, y = x * scale + shift.   *)
scaleTerm(gamma, variance) == <<"scale", gamma, variance>>
shiftTerm(beta, mean, scale) == <<"shift", beta, mean, scale>>

normalised(ins, r) ==
  LET scale == scaleTerm(ins[2], ins[5])
      shift == shiftTerm(ins[3], ins[4], scale)
  IN  <<"add", <<(<<"mul", <<mapRow(ins[1], r), scale>>>>), shift>>>>

(* Row r of the result of an operation that computes.                      *)
resultRow(op, ins, r) ==
  CASE op.kind = "window"     -> <<op.name, windowRow(op.window, ins[1], r - 1), Tail(ins)>>
    [] op.kind = "map"        -> <<op.name, [n \in DOMAIN ins |-> mapRow(ins[n], r)]>>
    [] op.kind = "batch_norm" -> normalised(ins, r)
    [] op.kind \in {"whole", "reshape"} -> <<op.name, r, ins>>

overwritten(into, offset, rows) ==
  [r \in DOMAIN into |->
     IF offset < r /\ r <= offset + Len(rows) THEN rows[r - offset] ELSE into[r]]

valueOf(op, env) ==
  LET ins == [n \in DOMAIN op.ins |-> env[op.ins[n]]]
  IN  CASE op.kind = "constant" -> op.data
        [] op.kind = "empty"    -> [r \in 1..op.size |-> Junk]
        [] op.kind = "extract"  -> SubSeq(ins[1], op.offset + 1, op.offset + op.size)
        [] op.kind = "insert"   -> overwritten(env[only(op.dest)], op.offset, ins[1])
        [] OTHER                -> [r \in 1..op.size |-> resultRow(op, ins, r)]

-----------------------------------------------------------------------------
(* The environment after a straight line of operations; a region sees its  *)
(* parameters and hands back what its last operation yields.               *)
afterFlat(env, ops) == FoldLeft(LAMBDA e, op : extend(e, op.result, valueOf(op, e)), env, ops)

regionValue(op, env) ==
  LET inner == [p \in ToSet(op.params) |-> env[op.ins[CHOOSE n \in DOMAIN op.params : op.params[n] = p]]]
  IN  afterFlat(inner, op.body)[Last(op.body).result]

after(env, ops) ==
  FoldLeft(LAMBDA e, op : extend(e, op.result, IF op.kind = "fused" THEN regionValue(op, e)
                                                 ELSE valueOf(op, e)),
           env, ops)

argumentsOf(sizes) == [a \in DOMAIN sizes |-> [r \in 1..sizes[a] |-> argumentRow(a, r)]]

(* What a function returns.                                                *)
meaning(sizes, ops, returned) ==
  LET env == after(argumentsOf(sizes), ops) IN [n \in DOMAIN returned |-> env[returned[n]]]

-----------------------------------------------------------------------------
(* Uses, and the shape of a well formed block: one definition per value,   *)
(* above every use of it.                                                  *)
usesOf(op) == ToSet(op.ins) \cup op.dest

definedIn(ops) == {ops[n].result : n \in DOMAIN ops}

usersOf(ops, v) == {n \in DOMAIN ops : v \in usesOf(ops[n])}

dominates(args, ops) ==
  \A n \in DOMAIN ops : usesOf(ops[n]) \subseteq 1..args \cup definedIn(SubSeq(ops, 1, n - 1))

freshIn(ops) ==
  1 + Max({0} \cup UNION {{op.result} \cup ToSet(op.ins) \cup ToSet(op.params)
                            \cup {o.result : o \in ToSet(op.body)} : op \in ToSet(ops)})
==============================================================================
