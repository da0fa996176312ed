----------------------------- MODULE MCLowering -----------------------------
(***************************************************************************)
(* Functions of two operations over two arguments of four rows, with every *)
(* choice of operands and returned values: the constants hoisted above     *)
(* everything, as the canonicalizer leaves them, and the destinations      *)
(* shared or not, as common subexpression elimination leaves them.         *)
(***************************************************************************)
EXTENDS Lowering

Rows == 4

op(kind, name, result, ins, dest, size) ==
  [kind |-> kind, name |-> name, result |-> result, ins |-> ins, dest |-> dest, size |-> size,
   offset |-> 0, window |-> << >>, data |-> << >>, params |-> << >>, body |-> << >>]

constant(v, name, size) ==
  [op("constant", name, v, << >>, {}, size) EXCEPT !.data = [r \in 1..size |-> <<"constant", name, r>>]]

empty(v, size) == op("empty", "", v, << >>, {}, size)
extract(v, from, offset, size) == [op("extract", "", v, <<from>>, {}, size) EXCEPT !.offset = offset]
insert(v, tile, into, offset) == [op("insert", "", v, <<tile>>, {into}, Rows) EXCEPT !.offset = offset]

windowOf(before) == [kernel |-> 3, stride |-> 1, dilation |-> 1, before |-> before]

conv(v, x, dest, size, before) ==
  [op("window", "conv", v, <<x, 4>>, {dest}, size) EXCEPT !.window = windowOf(before)]

hoisted ==
  <<constant(8, "variance", 1), constant(4, "filter", 2), constant(3, "bias", 1), constant(5, "gamma", 1),
    constant(6, "beta", 1), constant(7, "mean", 1)>>

(* Two tiles of a convolution over its rows, each slicing the rows its     *)
(* windows reach and the whole filter, and of an elementwise operation.    *)
tiledConv(b, x) ==
  <<empty(b, Rows),
    extract(b + 1, x, 0, 3), extract(b + 2, 4, 0, 2), empty(b + 3, 2), conv(b + 4, b + 1, b + 3, 2, 1),
    insert(b + 5, b + 4, b, 0),
    extract(b + 6, x, 1, 3), extract(b + 7, 4, 0, 2), empty(b + 8, 2),
    [conv(b + 9, b + 6, b + 8, 2, 0) EXCEPT !.ins[2] = b + 7],
    insert(b + 10, b + 9, b + 5, 2)>>

tiledRelu(b, x) ==
  <<empty(b, Rows),
    extract(b + 1, x, 0, 2), empty(b + 2, 2), op("map", "relu", b + 3, <<b + 1>>, {b + 2}, 2),
    insert(b + 4, b + 3, b, 0),
    extract(b + 5, x, 2, 2), op("map", "relu", b + 7, <<b + 5>>, {b + 2}, 2), insert(b + 10, b + 7, b + 4, 2)>>

(* A fused convolution and relu; both destinations are defined above it.   *)
fusedConv(b, x, dest) ==
  <<empty(b, Rows),
    [op("fused", "", b + 10, <<x, 4, b, dest>>, {}, Rows) EXCEPT
       !.params = <<b + 1, b + 2, b + 3, b + 4>>,
       !.body = <<[conv(b + 5, b + 1, b + 3, Rows, 1) EXCEPT !.ins[2] = b + 2],
                  op("map", "relu", b + 6, <<b + 5>>, {b + 4}, Rows)>>]>>

(* Everything an operation at b may be; its result is b + 10.              *)
choices(b, x, y, dest) ==
  {<<op("map", "relu", b + 10, <<x>>, {dest}, Rows)>>,
   <<op("map", "add", b + 10, <<x, y>>, {dest}, Rows)>>,
   <<op("map", "mul", b + 10, <<x, 3>>, {dest}, Rows)>>,
   <<conv(b + 10, x, dest, Rows, 1)>>,
   <<op("whole", "transpose", b + 10, <<x>>, {dest}, Rows)>>,
   <<op("reshape", "reshape", b + 10, <<x>>, {}, Rows)>>,
   <<op("batch_norm", "", b + 10, <<x, 5, 6, 7, 8>>, {dest}, Rows)>>,
   fusedConv(b, x, dest), tiledConv(b, x), tiledRelu(b, x)}

return(values) == op("return", "", 0, values, {}, 0)

MCFunctions ==
  {[sizes |-> <<Rows, Rows>>,
    ops |-> hoisted \o <<empty(10, Rows), empty(11, Rows)>> \o first \o second \o <<return(values)>>] :
     first \in choices(20, 1, 2, 10),
     second \in UNION {choices(40, x, y, dest) : x \in {1, 30}, y \in {1, 2, 30}, dest \in {10, 11}},
     values \in {<<50>>, <<50, 30>>, <<30, 1>>}}

(* What the pass refuses: in the first stage, and where it meets it.       *)
refusedFunction(ops_) == [sizes |-> <<Rows>>, ops |-> ops_]

MCRefusals ==
  {refusedFunction(<<op(kind, "", 2, <<1>>, {}, Rows), return(<<2>>)>>) :
     kind \in {"scf", "layout transpose", "unconvertible"}}
  \cup
  {refusedFunction(<<[constant(8, "not above minus epsilon", 1) EXCEPT !.name = name],
                     constant(5, "gamma", 1), constant(6, "beta", 1), constant(7, "mean", 1), empty(10, Rows),
                     op("batch_norm", "", 20, <<1, 5, 6, mean, 8>>, {10}, Rows), return(<<20>>)>>) :
     name \in {"not above minus epsilon", "variance"}, mean \in {1, 7}}
  \cup
  {refusedFunction(<<empty(10, Rows), extract(11, 1, 0, 2), empty(12, 2),
                     op("map", "relu", 13, <<11>>, {12}, 2), insert(14, 13, 10, 0), return(<<14, 14>>)>>),
   refusedFunction(<<empty(10, Rows), op("map", "relu", 11, <<1>>, {10}, Rows), extract(12, 1, 0, 2),
                     insert(13, 12, 11, 0), return(<<13>>)>>)}

MCAll == MCFunctions \cup MCRefusals
==============================================================================
