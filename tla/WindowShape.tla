---------------------------- MODULE WindowShape ----------------------------
(***************************************************************************)
(* The arithmetic of a sliding window on one spatial axis: the extent the  *)
(* dialect infers and verifies (NPUShapeUtils.cpp, NPUOps.cpp), and the    *)
(* part of the input a tile of the output reads (windowSlice).             *)
(*                                                                         *)
(* A window is [input, kernel, stride, dilation, padBegin, padEnd, ceil];  *)
(* ceil is ceil_mode, which only the pools have.                           *)
(***************************************************************************)
EXTENDS Integers

Smaller(a, b) == IF a <= b THEN a ELSE b
Larger(a, b) == IF a >= b THEN a ELSE b

floorDivide(n, d) == n \div d
ceilDivide(n, d) == -((-n) \div d)

effectiveKernel(w) == w.dilation * (w.kernel - 1) + 1

(* Mutant: any pad is taken.                                               *)
padsUnbounded(w) ==
  w.stride > 0 /\ w.dilation > 0 /\ w.kernel > 0 /\ w.padBegin >= 0 /\ w.padEnd >= 0

(* The window has its arguments in range; a pad at or beyond the kernel    *)
(* extent is refused.                                                      *)
representable(w) ==
  /\ w.stride > 0 /\ w.dilation > 0 /\ w.kernel > 0
  /\ w.padBegin \in 0..(w.kernel - 1)
  /\ w.padEnd \in 0..(w.kernel - 1)

(* With ceil_mode a last window that starts past the input is dropped.     *)
computeWindowedExtent(w) ==
  LET numerator == w.input + w.padBegin + w.padEnd - effectiveKernel(w)
      extent == 1 + IF w.ceil THEN ceilDivide(numerator, w.stride) ELSE floorDivide(numerator, w.stride)
  IN  IF w.ceil /\ extent > 0 /\ (extent - 1) * w.stride >= w.input + w.padBegin THEN extent - 1 ELSE extent

accepted(w) == representable(w) /\ computeWindowedExtent(w) > 0

(* The input position tap k of the window at o reads.                      *)
tapPosition(w, o, k) == o * w.stride - w.padBegin + k * w.dilation

inInput(w, i) == 0 <= i /\ i < w.input

(***************************************************************************)
(* The rows output positions o .. o + size - 1 reach, clamped to the       *)
(* input, and the pads that make up for what was clamped away.             *)
(***************************************************************************)
firstReached(w, o) == o * w.stride - w.padBegin
lastReached(w, o, size) == (o + size - 1) * w.stride - w.padBegin + effectiveKernel(w)

sliceBegin(w, o) == Larger(0, firstReached(w, o))
sliceEnd(w, o, size) == Smaller(w.input, lastReached(w, o, size))

sliceExists(w, o, size) == size > 0 /\ w.input > 0 /\ sliceBegin(w, o) < sliceEnd(w, o, size)

(* Mutants: the tile keeps the pads of the operation, or the last one.     *)
windowSliceKeepingPads(w, o, size) == [w EXCEPT !.input = sliceEnd(w, o, size) - sliceBegin(w, o)]

windowSliceKeepingPadEnd(w, o, size) ==
  [w EXCEPT !.input = sliceEnd(w, o, size) - sliceBegin(w, o), !.padBegin = sliceBegin(w, o) - firstReached(w, o)]

(* The window of the tile over its own slice.                              *)
windowSlice(w, o, size) ==
  [w EXCEPT !.input = sliceEnd(w, o, size) - sliceBegin(w, o),
            !.padBegin = sliceBegin(w, o) - firstReached(w, o),
            !.padEnd = lastReached(w, o, size) - sliceEnd(w, o, size)]

(* Mutant: the dilation is left out of the halo.                           *)
undilatedInputExtent(w, size) == Smaller(w.input, (size - 1) * w.stride + w.kernel)

(* What the search believes a tile of the output reads on this axis.       *)
tiledInputExtent(w, size) == Smaller(w.input, (size - 1) * w.stride + effectiveKernel(w))
==============================================================================
