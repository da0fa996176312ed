------------------------- MODULE MCAllocateScratchpad -------------------------
(***************************************************************************)
(* Functions as the passes before the allocator leave them: a buffer is    *)
(* allocated right before the one instruction that writes it, a transfer   *)
(* from DRAM or a computation on earlier buffers; the last one is stored.  *)
(* In some a buffer is read through a view, written again through one, or  *)
(* loaded one computation early (-npu-double-buffer).                      *)
(* Value b is buffer b; 10 + b is a view of it, 50 + b the token of its    *)
(* transfer; the values from 20 are in DRAM.                               *)
(***************************************************************************)
EXTENDS ArenaExecution

(* The buffers each of 1..n is computed from: one or two earlier ones, or  *)
(* none when it is loaded; every buffer but the last is used.              *)
Flows(n, loaded) ==
  LET operands(b) == IF b \in loaded THEN {{}}
                     ELSE {S \in SUBSET (1..(b - 1)) : Cardinality(S) \in {1, 2}}
      upTo[b \in 0..n] ==
        IF b = 0 THEN {<< >>}
        ELSE {Append(f, S) : f \in upTo[b - 1], S \in operands(b)}
  IN  {f \in upTo[n] : UNION {f[b] : b \in 1..n} = 1..(n - 1)}

Alloc(b) == Operation("alloc", 0, b, {}, NoValue)
View(b)  == Operation("view", 10 + b, 10 + b, {b}, NoValue)

(* The instructions of buffer b in a program of the given variant; ids are *)
(* the number of the buffer, or of the view.                               *)
Emit(f, variant, b) ==
  LET through(v) == IF variant = "viewed" /\ v = 1 THEN 10 + v ELSE v
      early(c)   == variant = "prefetched" /\ c \in 2..Len(f) /\ f[c] = {} /\ f[c - 1] # {}
  IN  (IF variant = "viewed" /\ 1 \in f[b] /\ \A c \in 1..(b - 1) : 1 \notin f[c]
         THEN << View(1) >> ELSE << >>)
      \o (IF early(b + 1)
            THEN << Alloc(b + 1),
                    Operation("dma_load_async", b + 1, 51 + b, {21 + b}, b + 1) >>
            ELSE << >>)
      \o (IF early(b)
            THEN << Operation("await", 50 + b, NoValue, {50 + b}, NoValue) >>
            ELSE << Alloc(b),
                    IF f[b] = {} THEN Operation("dma_load", b, NoValue, {20 + b}, b)
                    ELSE Operation("compute", b, NoValue, {through(v) : v \in f[b]}, b) >>)
      \o (IF variant = "rewritten" /\ b = 1
            THEN << View(b), Operation("compute", 60, NoValue, {b}, 10 + b) >> ELSE << >>)

Program(f, variant, sizes) ==
  [block    |-> FlattenSeq([b \in DOMAIN f |-> Emit(f, variant, b)])
                  \o << Operation("dma_store", 30, NoValue, {Len(f)}, 40) >>,
   size     |-> sizes,
   permuted |-> IF variant = "strided" THEN {2} ELSE {}]

Uniform(n) == [b \in 1..n |-> 1]

MCPrograms ==
  {Program(f, variant, Uniform(5)) :
     f \in Flows(5, {1, 2, 3}) \cup Flows(5, {1, 2}),
     variant \in {"plain", "viewed", "rewritten", "strided"}}
  \cup
  {Program(f, "prefetched", Uniform(6)) : f \in Flows(6, {1, 3, 4})}
  \cup
  {Program(f, "plain", sizes) : f \in Flows(4, {1, 2}), sizes \in [1..4 -> {1, 2}]}

(* For liveness: one that spills and fits, one that waits, and small ones. *)
MCSmallPrograms ==
  {Program(<<{}, {}, {2}, {1, 3}>>, "plain", <<1, 2, 1, 1>>),
   Program(<<{}, {1}, {}, {2, 3}>>, "prefetched", Uniform(4))}
  \cup
  {Program(f, "plain", Uniform(3)) : f \in Flows(3, {1, 2}) \cup Flows(3, {1})}
==============================================================================
