-------------------------- MODULE MCOffsetAssignment --------------------------
(***************************************************************************)
(* Small calls of assignOffsets: four buffers in block order, as the       *)
(* allocator collects them, and three whose definitions -npu-double-buffer *)
(* has lowered, so that they may coincide or run backwards.                *)
(***************************************************************************)
EXTENDS OffsetAssignment

MCLast == 3

ranges(d) == [definition : d, lastUse : 0..MCLast, bytes : {1, 2, 3}]

blockOrdered ==
  {<<w, x, y, z>> : w \in ranges({0}), x \in ranges({1}) \cap LiveInterval,
                    y \in ranges({2}) \cap LiveInterval, z \in ranges({3}) \cap LiveInterval}

hoisted ==
  {<<x, y, z>> : x \in [definition : {0, 1}, lastUse : {1, 2}, bytes : {0, 2}],
                 y \in [definition : {0, 1}, lastUse : {1, 2}, bytes : {1, 3}],
                 z \in [definition : {0, 1}, lastUse : {1}, bytes : {1, 2}]}

MCProblems ==
  [intervals : blockOrdered \cup hoisted \cup {<<>>}, strategy : Strategy, budget : {4, 7}]
==============================================================================
