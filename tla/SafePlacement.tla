---------------------------- MODULE SafePlacement ----------------------------
(***************************************************************************)
(* What a caller of assignOffsets relies on, without how it is computed:   *)
(* buffers receive offsets one at a time, an offset never changes once     *)
(* given, it is aligned, inside the budget and clear of every buffer that  *)
(* already has one and is live at the same operation index.  The answer    *)
(* is a complete placement or a refusal, and is final.                     *)
(***************************************************************************)
EXTENDS Integers

CONSTANT Alignment

VARIABLES intervals, strategy, budget, offset, highWaterMark, outcome

vars == <<intervals, strategy, budget, offset, highWaterMark, outcome>>

(* No byte of b at o belongs to a buffer that is live when b is.           *)
Clear(b, o) ==
  \A p \in DOMAIN offset :
    \/ intervals[b].lastUse < intervals[p].definition
    \/ intervals[p].lastUse < intervals[b].definition
    \/ o + intervals[b].bytes <= offset[p]
    \/ offset[p] + intervals[p].bytes <= o

Init ==
  /\ offset = [b \in {} |-> 0]
  /\ highWaterMark = 0
  /\ outcome = "placing"

Give(b, o) ==
  /\ outcome = "placing"
  /\ b \notin DOMAIN offset
  /\ o % Alignment = 0
  /\ o + intervals[b].bytes <= budget
  /\ Clear(b, o)
  /\ offset' = [x \in DOMAIN offset \cup {b} |-> IF x = b THEN o ELSE offset[x]]
  /\ highWaterMark' \in {highWaterMark, o + intervals[b].bytes}
  /\ highWaterMark' >= highWaterMark
  /\ highWaterMark' >= o + intervals[b].bytes
  /\ UNCHANGED <<intervals, strategy, budget, outcome>>

Answer ==
  /\ outcome = "placing"
  /\ outcome' \in IF DOMAIN offset = DOMAIN intervals THEN {"placed"} ELSE {"failed"}
  /\ UNCHANGED <<intervals, strategy, budget, offset, highWaterMark>>

Next ==
  \/ \E b \in DOMAIN intervals : \E o \in 0..budget : Give(b, o)
  \/ Answer

Spec == Init /\ [][Next]_vars
==============================================================================
