----------------------------- MODULE DoubleBuffer -----------------------------
(***************************************************************************)
(* -npu-double-buffer (DoubleBuffer.cpp), then the allocator, then the     *)
(* machine.  Each dma_load of the block is moved above the computation     *)
(* before it and split into an asynchronous load and an await, when that   *)
(* is legal and when assignOffsets can place the block it would produce.   *)
(* The destination of a load is an allocation of the block, as the         *)
(* lowering emits it, so its residency can always be priced.               *)
(***************************************************************************)
EXTENDS ArenaExecution

VARIABLES
  hoisting,       (* "scanning" a load, "pricing" its hoist, then "done"   *)
  loads,          (* the ids of the loads not yet answered, in order       *)
  prefetched, notHoisted, wouldNotFit     (* the statistics of the pass    *)

answers   == <<prefetched, notHoisted, wouldNotFit>>
hoistVars == <<hoisting, loads, answers>>
allVars   == <<vars, hoistVars>>

(* What the lowering leaves: every transfer is complete where it stands,   *)
(* every load is told from the others, and every value is defined above    *)
(* its uses.                                                               *)
isLowered(function_) ==
  LET ops == function_.block
  IN  /\ \A i \in DOMAIN ops :
           /\ ops[i].kind \notin {"dma_load_async", "await"}
           /\ ops[i].kind \in {"alloc", "slot"} => ops[i].reads = {}
           /\ ops[i].kind \in {"alloc", "slot", "view"} => ops[i].write = NoValue /\ ops[i].def # NoValue
           /\ ops[i].kind = "dma_load" => ops[i].id # 0
           /\ \A d \in DOMAIN ops :
                /\ ops[d].kind = "dma_load" /\ ops[i].kind = "dma_load" /\ ops[d].id = ops[i].id => d = i
                /\ ops[d].def # NoValue /\ ops[d].def \in ops[i].reads \cup {ops[i].write} => d < i
      /\ buffersOf(ops) \subseteq DOMAIN function_.size
      /\ \A b \in DOMAIN function_.size : function_.size[b] \in Nat

ASSUME LoweredAssumption == \A p \in Programs : isLowered(p)

(* The pass walks the loads it collected before it moved anything.         *)
load == CHOOSE i \in DOMAIN block : block[i].id = Head(loads) /\ block[i].kind = "dma_load"

(***************************************************************************)
(* prologueOf: the allocations, views and constants that the operands of   *)
(* the load are built from, wherever they are in the block.                *)
(***************************************************************************)
isPure(i) == block[i].kind \in {"alloc", "slot", "view"}

prologueOf(l) ==
  LET builtFrom[v \in Nat] ==
        UNION {{i} \cup UNION {builtFrom[s] : s \in block[i].reads} :
               i \in {j \in DOMAIN block : isPure(j) /\ block[j].def = v}}
  IN  UNION {builtFrom[v] : v \in block[l].reads \cup {block[l].write}}

(* Before allocation two buffers overlap when they are views of one.       *)
mightTouch(i, v) ==
  \E w \in (block[i].reads \cup {block[i].write}) \ {NoValue} : rootOf(block)[w] = rootOf(block)[v]

(* The operations the walk back from the load does not step over.          *)
TransfersOnly(l, i) ==
  /\ i \notin prologueOf(l)
  /\ block[i].kind \in {"dma_load", "dma_store", "dma_load_async", "await"}

stopsTheWalk(l, i) ==
  /\ i \notin prologueOf(l)
  /\ \/ block[i].def \in block[l].reads \cup {block[l].write}
     \/ mightTouch(i, block[l].write)
     \/ block[i].kind \in {"dma_load", "dma_store", "dma_load_async", "await"}

earliest(l) == 1 + Max({0} \cup {i \in 1..(l - 1) : stopsTheWalk(l, i)})

hoistIsDominanceSafe(l) ==
  \A i \in prologueOf(l) : \A v \in block[i].reads : \A d \in DOMAIN block :
    block[d].def = v => d \in prologueOf(l) \/ d < earliest(l)

canHoist(l) ==
  /\ \E i \in earliest(l)..(l - 1) : block[i].kind = "compute"
  /\ hoistIsDominanceSafe(l)

(* The intervals of the block as it is, every allocation that would move   *)
(* starting at the place it would move to.                                 *)
lesser(m, n) == IF m < n THEN m ELSE n

Unextended(l) == liveIntervals(block, size)

pricedIntervals(l) ==
  [k \in DOMAIN liveIntervals(block, size) |->
     LET i == liveIntervals(block, size)[k]
     IN  IF i.definition \in prologueOf(l)
           THEN [i EXCEPT !.definition = lesser(@, earliest(l))]
           ELSE i]

(* hoist: the prologue is moved before earliest in its own order, the      *)
(* transfer is issued there and its await stays where the load was.        *)
HoistRewriteKeepingLoad(l) ==
  << [block[l] EXCEPT !.kind = "dma_load_async", !.def = freshValue] >> \o block
    \o << Operation("await", 0, NoValue, {freshValue}, NoValue) >>

HoistRewrite(l) ==
  LET at      == earliest(l)
      moved   == prologueOf(l) \ {at}
      token   == freshValue
  IN  picked(block, (1..(at - 1)) \ moved)
        \o picked(block, moved)
        \o << [block[l] EXCEPT !.kind = "dma_load_async", !.def = token] >>
        \o picked(block, (at..(l - 1)) \ moved)
        \o << Operation("await", 0, NoValue, {token}, NoValue) >>
        \o SubSeq(block, l + 1, Len(block))

-----------------------------------------------------------------------------
HoistInit ==
  /\ Init
  /\ hoisting = "scanning"
  /\ LET loading == picked(block, {i \in DOMAIN block : block[i].kind = "dma_load"})
     IN  loads = [k \in DOMAIN loading |-> loading[k].id]
  /\ prefetched = 0
  /\ notHoisted = 0
  /\ wouldNotFit = 0

Unchanged == UNCHANGED <<stage, size, permuted, reloads, spilled, options, peak, counts,
                         source, machine>>

NotHoisted ==
  /\ hoisting = "scanning"
  /\ loads # << >>
  /\ ~canHoist(load)
  /\ loads' = Tail(loads)
  /\ notHoisted' = notHoisted + 1
  /\ UNCHANGED <<hoisting, prefetched, wouldNotFit, block, placement>>
  /\ Unchanged

Price ==
  /\ hoisting = "scanning"
  /\ loads # << >>
  /\ canHoist(load)
  /\ hoisting' = "pricing"
  /\ intervals' = pricedIntervals(load)
  /\ Offsets!Call
  /\ UNCHANGED <<loads, answers, block>>
  /\ Unchanged

PricePlacement ==
  /\ hoisting = "pricing"
  /\ Offsets!Next
  /\ UNCHANGED <<hoistVars, block, heuristic>>
  /\ UNCHANGED <<stage, size, permuted, reloads, spilled, peak, counts, source, machine>>

Prefetch ==
  /\ hoisting = "pricing"
  /\ outcome = "placed"
  /\ block' = HoistRewrite(load)
  /\ prefetched' = prefetched + 1
  /\ loads' = Tail(loads)
  /\ hoisting' = "scanning"
  /\ UNCHANGED <<notHoisted, wouldNotFit, placement>>
  /\ Unchanged

WouldNotFit ==
  /\ hoisting = "pricing"
  /\ outcome = "failed"
  /\ wouldNotFit' = wouldNotFit + 1
  /\ loads' = Tail(loads)
  /\ hoisting' = "scanning"
  /\ UNCHANGED <<prefetched, notHoisted, block, placement>>
  /\ Unchanged

HoistEnds ==
  /\ hoisting = "scanning"
  /\ loads = << >>
  /\ hoisting' = "done"
  /\ UNCHANGED <<vars, loads, answers>>

HoistNext ==
  \/ NotHoisted
  \/ Price
  \/ PricePlacement
  \/ Prefetch
  \/ WouldNotFit
  \/ HoistEnds
  \/ hoisting = "done" /\ Next /\ UNCHANGED hoistVars

HoistSpec == HoistInit /\ [][HoistNext]_allVars

-----------------------------------------------------------------------------
(***************************************************************************)
(* "Moving a pure operation earlier cannot break a later use, because      *)
(* every use it had is still after it": a value defined in the block is    *)
(* defined before every operation that uses it.                            *)
(***************************************************************************)
DefinitionsPrecedeUses ==
  \A d \in DOMAIN block : \A i \in usersOf(block, block[d].def) :
    block[d].def # NoValue => d < i

(***************************************************************************)
(* "Nothing else changes: same instructions, same arithmetic, one token    *)
(* added": every load of the function is still there once, split or not,   *)
(* with one await for each one split, every other instruction keeps its    *)
(* place in the order, and each load has been given one answer.            *)
(***************************************************************************)
NothingElseChanges ==
  LET idsOf(ops)   == [k \in DOMAIN ops |-> ops[k].id]
      those(ops, kinds) == picked(ops, {i \in DOMAIN ops : ops[i].kind \in kinds /\ ops[i].id # 0})
      steps(ops)   == those(ops, {"compute", "dma_store"})
      loading(ops) == those(ops, {"dma_load", "dma_load_async"})
      split        == {i \in DOMAIN block : block[i].kind = "dma_load_async"}
  IN  /\ idsOf(steps(block)) = idsOf(steps(source))
      /\ ToSet(idsOf(loading(block))) = ToSet(idsOf(loading(source)))
      /\ Len(loading(block)) = Len(loading(source))
      /\ Cardinality(split) = prefetched
      /\ \A i \in split : i < completionOf(block, i)
      /\ prefetched + notHoisted + wouldNotFit + Len(loads) = Len(loading(source))

(***************************************************************************)
(* "A prefetch that cannot be placed is not a prefetch": whatever was      *)
(* hoisted, the pressure of the block the allocator receives stays inside  *)
(* the budget.                                                             *)
(***************************************************************************)
HoistedPressureFits ==
  (hoisting # "pricing" /\ prefetched > 0 /\ stage = "collecting" /\ spilledBuffers = 0) =>
    sweepLinePeak(liveIntervals(block, size)).bytes <= budget
==============================================================================
