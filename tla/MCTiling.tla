------------------------------ MODULE MCTiling ------------------------------
(***************************************************************************)
(* Convolutions of up to two batches, two groups, two channels and an      *)
(* output of a few rows, with every mix of stride, dilation and padding on *)
(* the rows, and products of up to four by four.                           *)
(***************************************************************************)
EXTENDS Tiling

window(input, kernel, stride, dilation, before, after) ==
  [input |-> input, kernel |-> kernel, stride |-> stride, dilation |-> dilation,
   padBegin |-> before, padEnd |-> after, ceil |-> FALSE]

point == window(1, 1, 1, 1, 0, 0)

heights ==
  {w \in {window(i, k, s, d, b, a) : i \in {4, 5}, k \in 1..3, s \in 1..2, d \in 1..2, b \in 0..2, a \in 0..1} :
     accepted(w) /\ computeWindowedExtent(w) > 1}

conv(batch, group, channels, inputs, h, w, bias) ==
  [conv |-> TRUE, batch |-> batch, group |-> group, channels |-> channels, inputs |-> inputs,
   height |-> h, width |-> w, bias |-> bias, returned |-> FALSE, read |-> TRUE]

matmul(rows, columns, reduction, returned, read) ==
  [conv(rows, 1, columns, reduction, point, point, read) EXCEPT !.conv = FALSE, !.returned = returned, !.read = read]

MCProblems ==
  {conv(1, 1, 2, 1, h, point, FALSE) : h \in heights}
  \cup {conv(b, g, c, 2, h, w, TRUE) :
          b \in 1..2, g \in {1, 2, 4}, c \in {1, 2, 4},
          h \in {window(4, 3, 1, 1, 1, 1), window(4, 1, 2, 1, 0, 0)},
          w \in {point, window(2, 2, 1, 2, 1, 1)}}
  \cup {matmul(r, c, 3, returned, read) : r \in 1..4, c \in 1..4, returned \in BOOLEAN, read \in BOOLEAN}

MCBudgets == {32, 64, 100, 160, 300}
==============================================================================
