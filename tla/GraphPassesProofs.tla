-------------------------- MODULE GraphPassesProofs --------------------------
(***************************************************************************)
(* What is proved of the pipeline and of the statistics beside it: for     *)
(* every function, every option and every interleaving of the functions,   *)
(* and whatever the passes make of a block.                                *)
(***************************************************************************)
EXTENDS GraphPasses, Induction

PassKinds ==
  {"npu-constant-fold", "canonicalize", "npu-fuse-bias", "npu-fold-batchnorm", "npu-fuse-ops", "cse", "sccp",
   "symbol-dce", "npu-assign-layout", "npu-tile-to-scratchpad", "npu-lower-to-npuisa", "npu-double-buffer",
   "npu-allocate-scratchpad"}

(* The passes of each level, one by one.                                   *)
LEMMA Levels ==
  /\ \A l : passesOf(l) \in Seq(PassKinds) /\ passesOf(l) \in {O0, O1, O2}
  /\ Len(O0) = 2 /\ O0[1] = "npu-lower-to-npuisa" /\ O0[2] = "npu-allocate-scratchpad"
  /\ Len(O1) = 4 /\ O1[1] = "npu-constant-fold" /\ O1[2] = "canonicalize"
     /\ O1[3] = "npu-lower-to-npuisa" /\ O1[4] = "npu-allocate-scratchpad"
  /\ Len(O2) = 14
     /\ O2[1] = "npu-constant-fold" /\ O2[2] = "canonicalize" /\ O2[3] = "npu-fuse-bias"
     /\ O2[4] = "npu-fold-batchnorm" /\ O2[5] = "npu-fuse-ops" /\ O2[6] = "canonicalize" /\ O2[7] = "cse"
     /\ O2[8] = "sccp" /\ O2[9] = "symbol-dce" /\ O2[10] = "npu-assign-layout"
     /\ O2[11] = "npu-tile-to-scratchpad" /\ O2[12] = "npu-lower-to-npuisa" /\ O2[13] = "npu-double-buffer"
     /\ O2[14] = "npu-allocate-scratchpad"
<1> DEFINE start == <<"npu-constant-fold", "canonicalize">>
           rest == <<"npu-tile-to-scratchpad", "npu-lower-to-npuisa", "npu-double-buffer", "npu-allocate-scratchpad">>
<1>1. O0 \in Seq(PassKinds) /\ Len(O0) = 2 /\ O0[1] = "npu-lower-to-npuisa" /\ O0[2] = "npu-allocate-scratchpad"
  BY DEF O0, PassKinds
<1>2. start \in Seq(PassKinds) /\ Len(start) = 2 /\ start[1] = "npu-constant-fold" /\ start[2] = "canonicalize"
  BY DEF PassKinds
<1>3. /\ rest \in Seq(PassKinds) /\ Len(rest) = 4
      /\ rest[1] = "npu-tile-to-scratchpad" /\ rest[2] = "npu-lower-to-npuisa" /\ rest[3] = "npu-double-buffer"
      /\ rest[4] = "npu-allocate-scratchpad"
  BY DEF PassKinds
<1>4. /\ graphPasses \in Seq(PassKinds) /\ Len(graphPasses) = 10
      /\ graphPasses[1] = "npu-constant-fold" /\ graphPasses[2] = "canonicalize" /\ graphPasses[3] = "npu-fuse-bias"
      /\ graphPasses[4] = "npu-fold-batchnorm" /\ graphPasses[5] = "npu-fuse-ops"
      /\ graphPasses[6] = "canonicalize" /\ graphPasses[7] = "cse" /\ graphPasses[8] = "sccp"
      /\ graphPasses[9] = "symbol-dce" /\ graphPasses[10] = "npu-assign-layout"
  BY DEF graphPasses, PassKinds
<1>5. O1 = start \o O0 /\ O2 = graphPasses \o rest
  BY DEF O1, O2
<1> HIDE DEF start, rest
<1>6. /\ O1 \in Seq(PassKinds) /\ Len(O1) = 4
      /\ O1[1] = start[1] /\ O1[2] = start[2] /\ O1[2 + 1] = O0[1] /\ O1[2 + 2] = O0[2]
  <2>1. /\ start \o O0 \in Seq(PassKinds) /\ Len(start \o O0) = Len(start) + Len(O0)
        /\ \A i \in 1..Len(start) : (start \o O0)[i] = start[i]
        /\ \A k \in 1..Len(O0) : (start \o O0)[Len(start) + k] = O0[k]
    BY <1>1, <1>2, Concat
  <2>2. 1 \in 1..2 /\ 2 \in 1..2
    OBVIOUS
  <2> QED  BY <1>1, <1>2, <1>5, <2>1, <2>2
<1>7. /\ O2 \in Seq(PassKinds) /\ Len(O2) = 14
      /\ \A i \in 1..10 : O2[i] = graphPasses[i]
      /\ \A k \in 1..4 : O2[10 + k] = rest[k]
  <2>0. graphPasses \in Seq(PassKinds) /\ rest \in Seq(PassKinds)
    BY <1>3, <1>4
  <2>5. Len(graphPasses) = 10 /\ Len(rest) = 4
    BY <1>3, <1>4
  <2>1. /\ graphPasses \o rest \in Seq(PassKinds) /\ Len(graphPasses \o rest) = Len(graphPasses) + Len(rest)
        /\ \A i \in 1..Len(graphPasses) : (graphPasses \o rest)[i] = graphPasses[i]
        /\ \A k \in 1..Len(rest) : (graphPasses \o rest)[Len(graphPasses) + k] = rest[k]
    BY <2>0, Concat
  <2>6. /\ O2 \in Seq(PassKinds) /\ Len(O2) = Len(graphPasses) + Len(rest)
        /\ \A i \in 1..Len(graphPasses) : O2[i] = graphPasses[i]
        /\ \A k \in 1..Len(rest) : O2[Len(graphPasses) + k] = rest[k]
    <3> QED  BY <1>5, <2>1, Zenon
  <2>7. 10 + 4 = 14
    OBVIOUS
  <2> QED  BY <2>5, <2>6, <2>7
<1>8. O2[11] = rest[1] /\ O2[12] = rest[2] /\ O2[13] = rest[3] /\ O2[14] = rest[4]
  <2>1. O2[10 + 1] = rest[1] /\ O2[10 + 2] = rest[2] /\ O2[10 + 3] = rest[3] /\ O2[10 + 4] = rest[4]
    BY <1>7
  <2> QED  BY <2>1
<1>9. \A l : passesOf(l) \in {O0, O1, O2}
  BY DEF passesOf
<1> QED  BY <1>1, <1>2, <1>3, <1>4, <1>6, <1>7, <1>8, <1>9

(* The passes of a level that are built: all, but for the ablated one and, *)
(* when the caller stops at the tensor level, those below it.              *)
builtOf(level_, options_) ==
  {n \in DOMAIN passesOf(level_) :
     /\ options_.stopAfter = "npu" => isTensorLevel(passesOf(level_)[n])
     /\ ~isAblated(passesOf(level_)[n], options_)}

BuiltAs(p, level_, options_, n, k) ==
  /\ n \in builtOf(level_, options_) /\ rankOf(n, builtOf(level_, options_)) = k
  /\ p[k] = addPass(passesOf(level_)[n], level_, options_)
  /\ p[k].kind = passesOf(level_)[n]

(* The pipeline has them in their order.                                   *)
LEMMA BuildIs ==
  ASSUME NEW l, NEW o
  PROVE  /\ builtOf(l, o) \in SUBSET (1..Len(passesOf(l))) /\ Len(passesOf(l)) \in Nat
         /\ Len(build(l, o)) = Cardinality(builtOf(l, o)) /\ Len(build(l, o)) \in Nat
         /\ DOMAIN build(l, o) = 1..Len(build(l, o))
         /\ build(l, o) \in Seq(Range(build(l, o)))
         /\ \A k \in 1..Len(build(l, o)) : \E n \in 1..Len(passesOf(l)) : BuiltAs(build(l, o), l, o, n, k)
         /\ \A n \in builtOf(l, o) :
              /\ rankOf(n, builtOf(l, o)) \in 1..Len(build(l, o))
              /\ BuiltAs(build(l, o), l, o, n, rankOf(n, builtOf(l, o)))
<1> DEFINE s == passesOf(l)
           S == builtOf(l, o)
           q == picked(s, S)
           p == build(l, o)
<1>1. s \in Seq(PassKinds)
  BY Levels
<1>2. Len(s) \in Nat /\ DOMAIN s = 1..Len(s) /\ S \in SUBSET (1..Len(s))
  BY <1>1 DEF builtOf
<1>3. p = [n \in DOMAIN q |-> addPass(q[n], l, o)]
  BY DEF build, builtOf
<1> HIDE DEF s, S, p
<1>4. /\ q \in Seq(PassKinds) /\ Len(q) = Cardinality(S) /\ Cardinality(S) \in Nat
      /\ \A n \in S : rankOf(n, S) \in 1..Cardinality(S) /\ q[rankOf(n, S)] = s[n]
      /\ \A k \in 1..Cardinality(S) : \E n \in S : rankOf(n, S) = k /\ q[k] = s[n]
  BY <1>1, <1>2, Picked
<1> HIDE DEF q
<1>5. DOMAIN q = 1..Cardinality(S)
  BY <1>4
<1>6. DOMAIN p = 1..Cardinality(S) /\ Len(p) = Cardinality(S) /\ p \in Seq(Range(p))
  <2>1. p = [n \in 1..Cardinality(S) |-> addPass(q[n], l, o)]
    BY <1>3, <1>5
  <2>2. DOMAIN p = 1..Cardinality(S)
    BY <2>1
  <2>3. \A n \in 1..Cardinality(S) : p[n] \in Range(p)
    BY <2>2 DEF Range
  <2>4. p \in [1..Cardinality(S) -> Range(p)]
    BY <2>1, <2>3
  <2> QED  BY <1>4, <2>2, <2>4
<1>7. \A k \in 1..Cardinality(S) : p[k] = addPass(q[k], l, o)
  BY <1>3, <1>5
<1>8. \A kind : addPass(kind, l, o).kind = kind
  BY DEF addPass
<1>9. \A n \in S : BuiltAs(p, l, o, n, rankOf(n, S))
  BY <1>4, <1>7, <1>8 DEF BuiltAs, S, s
<1>10. \A k \in 1..Cardinality(S) : \E n \in S : BuiltAs(p, l, o, n, k)
  BY <1>4, <1>9
<1> QED  BY <1>2, <1>4, <1>6, <1>9, <1>10 DEF s, S, p

(* Their order is the order of the level.                                  *)
LEMMA BuiltInOrder ==
  ASSUME NEW l, NEW o, NEW m, NEW n, NEW j \in Nat, NEW k \in Nat,
         BuiltAs(build(l, o), l, o, m, j), BuiltAs(build(l, o), l, o, n, k), j < k
  PROVE  m \in 1..Len(passesOf(l)) /\ n \in 1..Len(passesOf(l)) /\ m < n
<1>1. /\ m \in builtOf(l, o) /\ n \in builtOf(l, o)
      /\ rankOf(m, builtOf(l, o)) = j /\ rankOf(n, builtOf(l, o)) = k
  BY DEF BuiltAs
<1>2. builtOf(l, o) \in SUBSET (1..Len(passesOf(l))) /\ Len(passesOf(l)) \in Nat
  BY BuildIs
<1>3. m \in 1..Len(passesOf(l)) /\ n \in 1..Len(passesOf(l))
  BY <1>1, <1>2
<1>4. ~(n < m)
  <2> SUFFICES ASSUME n < m PROVE FALSE
    OBVIOUS
  <2>0. n \in Nat
    BY <1>2, <1>3
  <2>1. rankOf(n, builtOf(l, o)) < rankOf(m, builtOf(l, o))
    BY <1>1, <1>2, <2>0, RankGrows
  <2> QED  BY <1>1, <2>1
<1>5. m # n
  BY <1>1
<1> QED  BY <1>3, <1>4, <1>5

(* A pass on the functions after -sccp and before the tiling is the layout *)
(* assignment.                                                             *)
LEMMA SccpIsLate ==
  ASSUME NEW l, NEW o, NEW j \in 1..Len(build(l, o)), NEW k \in 1..Len(build(l, o)), j < k,
         build(l, o)[j].kind = "sccp",
         build(l, o)[k].kind \notin elsewhere, ~onModule(build(l, o)[k].kind)
  PROVE  build(l, o)[k].kind = "npu-assign-layout"
<1>1. PICK m \in 1..Len(passesOf(l)), n \in 1..Len(passesOf(l)) :
        BuiltAs(build(l, o), l, o, m, j) /\ BuiltAs(build(l, o), l, o, n, k)
  BY BuildIs
<1>2. m < n
  BY <1>1, BuiltInOrder
<1>3. passesOf(l)[m] = "sccp" /\ passesOf(l)[n] = build(l, o)[k].kind
  BY <1>1 DEF BuiltAs
<1>4. CASE passesOf(l) = O0
  BY <1>3, <1>4, Levels
<1>5. CASE passesOf(l) = O1
  BY <1>3, <1>5, Levels
<1>6. CASE passesOf(l) = O2
  <2>1. Len(O2) = 14 /\ O2[m] = "sccp" /\ m \in 1..14 /\ n \in 1..14
    BY <1>3, <1>6, Levels
  <2>2. m = 8
    BY <2>1, Levels
  <2>3. n \in 9..14
    BY <1>2, <2>1, <2>2
  <2>4. O2[n] \notin elsewhere /\ ~onModule(O2[n])
    BY <1>3, <1>6
  <2>5. n = 10
    BY <2>3, <2>4, Levels DEF elsewhere, onModule
  <2> QED  BY <1>3, <1>6, <2>5, Levels
<1> QED  BY <1>4, <1>5, <1>6, Levels

-----------------------------------------------------------------------------
(***************************************************************************)
(* The inductive invariant of the statistics.  Between two passes the last *)
(* row ends on the count of the block as it is, unless -sccp, whose row is *)
(* the module's, came after it.                                            *)
(***************************************************************************)
rowsOf(f) == rowsOn(ofFunction(f))

passesRun(f) == picked(plan, {n \in 1 .. next[f] - 1 : ~onModule(plan[n].kind)})

modulePassesRun(f) == picked(plan, {n \in 1 .. next[f] - 1 : onModule(plan[n].kind)})

RowsNamePasses(rows, passes) ==
  Len(rows) = Len(passes) /\ \A n \in 1..Len(rows) : rows[n].name = passes[n].kind

RowsContinue(rows) ==
  \A n \in 2..Len(rows) : rows[n].name # "npu-assign-layout" => rows[n].opsBefore = rows[n - 1].opsAfter

IsRunning(f) ==
  /\ next[f] \in 1..Len(plan) /\ ~onModule(kindAt(f))
  /\ \E before : active[f] = {before}
  /\ \A before \in active[f] :
       rowsOf(f) # << >> /\ kindAt(f) # "npu-assign-layout" => Last(rowsOf(f)).opsAfter = before

IsIdle(f) ==
  /\ active[f] = {}
  /\ rowsOf(f) # << >> =>
       \/ Last(rowsOf(f)).opsAfter = countInto(block[f])
       \/ \E m \in 1 .. next[f] - 1 : plan[m].kind = "sccp"

Counted(f) ==
  /\ next[f] \in 1 .. Len(plan) + 1
  /\ RowsNamePasses(rowsOf(f), passesRun(f))
  /\ RowsNamePasses(rowsOn(ofModule), modulePassesRun(f))
  /\ RowsContinue(rowsOf(f))
  /\ phase[f] = "idle" => IsIdle(f)
  /\ phase[f] # "idle" => IsRunning(f)

PerFunction ==
  /\ next = [f \in functions |-> next[f]]
  /\ phase = [f \in functions |-> phase[f]]
  /\ active = [f \in functions |-> active[f]]

StatInv ==
  /\ \E T : records \in Seq(T)
  /\ PerFunction
  /\ \A f \in functions : Counted(f)

(* Rows that name passes, as two lists of names.                           *)
LEMMA NamesAgree ==
  ASSUME NEW T, NEW U, NEW rows \in Seq(T), NEW passes \in Seq(U), RowsNamePasses(rows, passes)
  PROVE  [n \in DOMAIN rows |-> rows[n].name] = [n \in DOMAIN passes |-> passes[n].kind]
<1>1. DOMAIN rows = 1..Len(rows) /\ DOMAIN passes = 1..Len(passes)
  OBVIOUS
<1> QED  BY <1>1 DEF RowsNamePasses

LEMMA StatInvGives == StatInv => StatisticsFollowThePipeline
<1> SUFFICES ASSUME StatInv, NEW f \in functions
             PROVE  /\ [n \in DOMAIN rowsOf(f) |-> rowsOf(f)[n].name] = [n \in DOMAIN passesRun(f) |-> passesRun(f)[n].kind]
                    /\ [n \in DOMAIN rowsOn(ofModule) |-> rowsOn(ofModule)[n].name]
                         = [n \in DOMAIN modulePassesRun(f) |-> modulePassesRun(f)[n].kind]
                    /\ Cardinality(active[f]) = IF phase[f] = "idle" THEN 0 ELSE 1
                    /\ \A n \in 2..Len(rowsOf(f)) :
                         rowsOf(f)[n].name # "npu-assign-layout" => rowsOf(f)[n].opsBefore = rowsOf(f)[n - 1].opsAfter
                    /\ \A before \in active[f] :
                         rowsOf(f) # << >> /\ kindAt(f) # "npu-assign-layout" => Last(rowsOf(f)).opsAfter = before
  BY DEF StatisticsFollowThePipeline, rowsOf, passesRun, modulePassesRun
<1>1. Counted(f)
  BY DEF StatInv
<1>2. /\ rowsOf(f) \in Seq(Range(records)) /\ rowsOn(ofModule) \in Seq(Range(records))
      /\ passesRun(f) \in Seq(Range(plan)) /\ modulePassesRun(f) \in Seq(Range(plan))
  <2>1. PICK T : records \in Seq(T)
    BY DEF StatInv
  <2>2. records \in Seq(Range(records))
    BY <2>1 DEF Range
  <2>3. \A anchor : rowsOn(anchor) \in Seq(Range(records))
    <3> TAKE anchor
    <3>1. {n \in DOMAIN records : records[n].anchor = anchor} \in SUBSET (1..Len(records))
      BY <2>1
    <3> QED  BY <2>2, <3>1, Picked DEF rowsOn
  <2>4. plan \in Seq(Range(plan)) /\ DOMAIN plan = 1..Len(plan) /\ Len(plan) \in Nat
    BY BuildIs DEF plan
  <2>5. /\ {n \in 1 .. next[f] - 1 : ~onModule(plan[n].kind)} \in SUBSET (1..Len(plan))
        /\ {n \in 1 .. next[f] - 1 : onModule(plan[n].kind)} \in SUBSET (1..Len(plan))
    BY <1>1, <2>4 DEF Counted
  <2>6. passesRun(f) \in Seq(Range(plan)) /\ modulePassesRun(f) \in Seq(Range(plan))
    BY <2>4, <2>5, Picked DEF passesRun, modulePassesRun
  <2> QED  BY <2>3, <2>6 DEF rowsOf
<1>3. [n \in DOMAIN rowsOf(f) |-> rowsOf(f)[n].name] = [n \in DOMAIN passesRun(f) |-> passesRun(f)[n].kind]
  <2>1. RowsNamePasses(rowsOf(f), passesRun(f))
    BY <1>1 DEF Counted
  <2> QED  BY <1>2, <2>1, NamesAgree
<1>4. [n \in DOMAIN rowsOn(ofModule) |-> rowsOn(ofModule)[n].name]
        = [n \in DOMAIN modulePassesRun(f) |-> modulePassesRun(f)[n].kind]
  <2>1. RowsNamePasses(rowsOn(ofModule), modulePassesRun(f))
    BY <1>1 DEF Counted
  <2> QED  BY <1>2, <2>1, NamesAgree
<1>5. Cardinality(active[f]) = IF phase[f] = "idle" THEN 0 ELSE 1
  BY <1>1, FS_EmptySet, FS_Singleton DEF Counted, IsIdle, IsRunning
<1> QED  BY <1>1, <1>3, <1>4, <1>5 DEF Counted, RowsContinue, IsIdle, IsRunning

(* Picking nothing from a list.                                            *)
LEMMA NothingPicked ==
  ASSUME NEW T, NEW s \in Seq(T), NEW S, S = {}
  PROVE  picked(s, S) = << >>
<1>1. picked(s, {}) \in Seq(T) /\ Len(picked(s, {})) = Cardinality({})
  BY Picked
<1> QED  BY <1>1, FS_EmptySet

LEMMA StatInvInit == Init => StatInv
<1> SUFFICES ASSUME Init PROVE StatInv
  OBVIOUS
<1>1. /\ records = << >>
      /\ next = [f \in functions |-> 1]
      /\ phase = [f \in functions |-> "idle"]
      /\ active = [f \in functions |-> {}]
  BY DEF Init, functions
<1>2. records \in Seq({})
  BY <1>1
<1>3. PerFunction
  BY <1>1 DEF PerFunction
<1>4. ASSUME NEW f \in functions PROVE Counted(f)
  <2>1. next[f] = 1 /\ phase[f] = "idle" /\ active[f] = {}
    BY <1>1
  <2>2. rowsOf(f) = << >> /\ rowsOn(ofModule) = << >>
    <3>1. \A anchor : {n \in DOMAIN records : records[n].anchor = anchor} = {}
      BY <1>1
    <3>2. \A anchor : rowsOn(anchor) = << >>
      BY <1>2, <3>1, NothingPicked DEF rowsOn
    <3> QED  BY <3>2 DEF rowsOf
  <2>3. plan \in Seq(Range(plan)) /\ Len(plan) \in Nat
    BY BuildIs DEF plan
  <2>4. passesRun(f) = << >> /\ modulePassesRun(f) = << >>
    <3>1. /\ {n \in 1 .. next[f] - 1 : ~onModule(plan[n].kind)} = {}
          /\ {n \in 1 .. next[f] - 1 : onModule(plan[n].kind)} = {}
      BY <2>1
    <3> QED  BY <2>3, <3>1, NothingPicked DEF passesRun, modulePassesRun
  <2>5. IsIdle(f)
    BY <2>1, <2>2 DEF IsIdle
  <2> QED  BY <2>1, <2>2, <2>3, <2>4, <2>5 DEF Counted, RowsNamePasses, RowsContinue
<1> QED  BY <1>2, <1>3, <1>4 DEF StatInv

(* A step that leaves a function its rows and the module's, its place in   *)
(* the pipeline and, between two passes, its block.                        *)
LEMMA CountedStays ==
  ASSUME NEW f, Counted(f), level' = level, options' = options, rowsOf(f)' = rowsOf(f),
         rowsOn(ofModule)' = rowsOn(ofModule),
         next'[f] = next[f], active'[f] = active[f],
         (phase'[f] = "idle") <=> (phase[f] = "idle"),
         phase[f] = "idle" => block'[f] = block[f]
  PROVE  Counted(f)'
<1>1. plan' = plan
  BY DEF plan
<1>2. /\ passesRun(f)' = passesRun(f) /\ kindAt(f)' = kindAt(f)
      /\ modulePassesRun(f)' = modulePassesRun(f)
  BY <1>1 DEF passesRun, modulePassesRun, kindAt
<1>3. ASSUME phase[f] = "idle" PROVE IsIdle(f)'
  BY <1>1, <1>2, <1>3 DEF Counted, IsIdle
<1>4. ASSUME phase[f] # "idle" PROVE IsRunning(f)'
  BY <1>1, <1>2, <1>4 DEF Counted, IsRunning
<1> QED  BY <1>1, <1>2, <1>3, <1>4 DEF Counted

(* A step that writes no row and goes on to no other pass.                 *)
LEMMA StatInvStays ==
  ASSUME StatInv, level' = level, options' = options, records' = records, functions' = functions,
         next' = next, active' = active, phase' = [f \in functions |-> phase'[f]],
         \A f \in functions : (phase'[f] = "idle") <=> (phase[f] = "idle"),
         \A f \in functions : phase[f] = "idle" => block'[f] = block[f]
  PROVE  StatInv'
<1>1. rowsOn(ofModule)' = rowsOn(ofModule) /\ \A f \in functions : rowsOf(f)' = rowsOf(f)
  BY DEF rowsOf, rowsOn, ofFunction, ofModule
<1>2. \A f \in functions : Counted(f)'
  BY <1>1, CountedStays DEF StatInv
<1>3. PerFunction'
  BY DEF StatInv, PerFunction
<1> QED  BY <1>2, <1>3 DEF StatInv

LEMMA StatInvBegin ==
  ASSUME StatInv, NEW f \in functions, Begin(f)
  PROVE  StatInv'
<1>1. /\ level' = level /\ options' = options /\ records' = records /\ block' = block /\ next' = next
      /\ active' = [active EXCEPT ![f] = {countInto(block[f])}]
      /\ phase' = [phase EXCEPT ![f] = "sink"]
      /\ phase[f] = "idle" /\ ~isDone(f) /\ ~onModule(kindAt(f))
  BY DEF Begin, runBeforePass, started
<1>2. PerFunction /\ functions' = functions /\ plan' = plan
  BY <1>1 DEF StatInv, functions, plan
<1>3. rowsOn(ofModule)' = rowsOn(ofModule) /\ \A g \in functions : rowsOf(g)' = rowsOf(g)
  BY <1>1 DEF rowsOf, rowsOn, ofFunction, ofModule
<1>4. /\ \A g \in functions : g # f => active'[g] = active[g] /\ phase'[g] = phase[g]
      /\ active'[f] = {countInto(block[f])} /\ phase'[f] = "sink"
  BY <1>1, <1>2 DEF PerFunction
<1>5. PerFunction'
  BY <1>1, <1>2 DEF PerFunction
<1>6. ASSUME NEW g \in functions, g # f PROVE Counted(g)'
  BY <1>1, <1>3, <1>4, <1>6, CountedStays DEF StatInv
<1>7. Counted(f)'
  <2>1. Counted(f) /\ IsIdle(f)
    BY <1>1 DEF StatInv, Counted
  <2>2. /\ next[f] \in 1..Len(plan) /\ kindAt(f) \notin elsewhere /\ Len(plan) \in Nat
    <3>1. Len(plan) \in Nat
      BY BuildIs DEF plan
    <3> QED  BY <1>1, <2>1, <3>1 DEF isDone, Counted, kindAt
  <2>3. ASSUME rowsOf(f) # << >>, kindAt(f) # "npu-assign-layout" PROVE Last(rowsOf(f)).opsAfter = countInto(block[f])
    <3>1. \A m \in 1 .. next[f] - 1 : plan[m].kind # "sccp"
      <4> SUFFICES ASSUME NEW m \in 1 .. next[f] - 1, plan[m].kind = "sccp" PROVE FALSE
        OBVIOUS
      <4>1. m \in 1..Len(plan) /\ m < next[f]
        BY <2>2
      <4> QED  BY <1>1, <2>2, <2>3, <4>1, SccpIsLate DEF plan, kindAt
    <3> QED  BY <2>1, <2>3, <3>1 DEF IsIdle
  <2>4. /\ passesRun(f)' = passesRun(f) /\ kindAt(f)' = kindAt(f)
        /\ modulePassesRun(f)' = modulePassesRun(f)
    BY <1>1, <1>2 DEF passesRun, modulePassesRun, kindAt
  <2>5. IsRunning(f)'
    BY <1>1, <1>2, <1>3, <1>4, <2>2, <2>3, <2>4 DEF IsRunning
  <2> QED  BY <1>1, <1>2, <1>3, <1>4, <2>1, <2>4, <2>5 DEF Counted
<1> QED  BY <1>1, <1>2, <1>5, <1>6, <1>7 DEF StatInv

LEMMA StatInvVisit ==
  ASSUME StatInv, NEW f \in functions, Visit(f)
  PROVE  StatInv'
<1>1. /\ level' = level /\ options' = options /\ records' = records /\ next' = next
      /\ active' = active /\ phase' = phase /\ phase[f] # "idle"
      /\ \E after_ : block' = [block EXCEPT ![f] = after_]
  BY DEF Visit, started
<1>2. functions' = functions /\ \A g \in functions : g # f => block'[g] = block[g]
  BY <1>1 DEF functions
<1>3. PerFunction
  BY DEF StatInv
<1> QED  BY <1>1, <1>2, <1>3, StatInvStays DEF PerFunction

LEMMA StatInvRounds ==
  ASSUME StatInv, NEW f \in functions, SinkToFold(f) \/ SinkAgain(f)
  PROVE  StatInv'
<1>1. /\ level' = level /\ options' = options /\ records' = records /\ next' = next
      /\ active' = active /\ block' = block
      /\ phase[f] # "idle" /\ \E other : other # "idle" /\ phase' = [phase EXCEPT ![f] = other]
  BY DEF SinkToFold, SinkAgain, started
<1>2. functions' = functions /\ PerFunction
  BY <1>1 DEF functions, StatInv
<1> QED  BY <1>1, <1>2, StatInvStays DEF PerFunction

(* The rows of an anchor when one more is written.                         *)
LEMMA RowWritten ==
  ASSUME NEW T, records \in Seq(T), NEW r \in T, records' = Append(records, r), NEW anchor
  PROVE  /\ rowsOn(anchor) \in Seq(T)
         /\ picked(records', {n \in DOMAIN records' : records'[n].anchor = anchor})
              = IF r.anchor = anchor THEN Append(rowsOn(anchor), r) ELSE rowsOn(anchor)
<1> DEFINE mine == {n \in DOMAIN records : records[n].anchor = anchor}
           K == Len(records)
           a == Append(records, r)
           written == {n \in 1..(K + 1) : a[n].anchor = anchor}
<1>1. K \in Nat /\ DOMAIN records = 1..K /\ mine \in SUBSET (1..Len(records))
  OBVIOUS
<1>2. rowsOn(anchor) \in Seq(T)
  BY <1>1, Picked DEF rowsOn
<1>3. /\ DOMAIN a = 1..(K + 1)
      /\ a[K + 1] = r
      /\ \A n \in 1..K : a[n] = records[n]
  OBVIOUS
<1>4. /\ picked(a, mine) = rowsOn(anchor)
      /\ picked(a, mine \cup {K + 1}) = Append(rowsOn(anchor), r)
  <2>1. rowsOn(anchor) = picked(records, mine)
    BY DEF rowsOn
  <2>2. mine \in SUBSET (1..Len(records))
    BY <1>1
  <2> HIDE DEF mine
  <2> QED  BY <2>1, <2>2, PickedGrows
<1>5. picked(records', {n \in DOMAIN records' : records'[n].anchor = anchor}) = picked(a, written)
  BY <1>3
<1>6. written = IF r.anchor = anchor THEN mine \cup {K + 1} ELSE mine
  <2>2. mine = {n \in 1..K : records[n].anchor = anchor}
    BY <1>1
  <2> HIDE DEF a, mine, K
  <2>3. \A n : n \in 1..(K + 1) <=> n \in 1..K \/ n = K + 1
    BY <1>1
  <2> QED  BY <1>3, <2>2, <2>3
<1> HIDE DEF mine, K, a, written
<1> QED  BY <1>2, <1>4, <1>5, <1>6

LEMMA Anchors ==
  \A f, g : ofFunction(f) # ofModule /\ (ofFunction(f) = ofFunction(g) => f = g)
BY DEF ofFunction, ofModule

(* What a list has at some places, up to the next one.                     *)
below(K, Q) == {n \in 1 .. K - 1 : n \in Q}

LEMMA PickedBelow ==
  ASSUME NEW T, NEW s \in Seq(T), NEW Q, NEW K \in 1..Len(s)
  PROVE  /\ picked(s, below(K, Q)) \in Seq(T)
         /\ picked(s, below(K + 1, Q))
              = IF K \in Q THEN Append(picked(s, below(K, Q)), s[K]) ELSE picked(s, below(K, Q))
<1>1. /\ Len(s) \in Nat /\ below(K, Q) \in SUBSET (1..Len(s))
      /\ \A n \in below(K, Q) : n < K
  BY DEF below
<1>2. below(K + 1, Q) = IF K \in Q THEN below(K, Q) \cup {K} ELSE below(K, Q)
  <2>1. \A n : n \in 1..((K + 1) - 1) <=> n \in 1 .. K - 1 \/ n = K
    BY <1>1
  <2> QED  BY <2>1 DEF below
<1>3. picked(s, below(K, Q)) \in Seq(T)
  BY <1>1, Picked
<1>4. picked(s, below(K, Q) \cup {K}) = Append(picked(s, below(K, Q)), s[K])
  BY <1>1, PickedMore
<1> QED  BY <1>2, <1>3, <1>4

(* The passes run when a function goes on to the next one.                 *)
LEMMA NextPass ==
  ASSUME NEW f, next[f] \in 1..Len(plan), level' = level, options' = options, next'[f] = next[f] + 1
  PROVE  /\ passesRun(f) \in Seq(Range(plan)) /\ modulePassesRun(f) \in Seq(Range(plan))
         /\ passesRun(f)' = IF onModule(kindAt(f)) THEN passesRun(f) ELSE Append(passesRun(f), plan[next[f]])
         /\ modulePassesRun(f)' = IF onModule(kindAt(f)) THEN Append(modulePassesRun(f), plan[next[f]])
                                  ELSE modulePassesRun(f)
<1> DEFINE K == next[f]
           Q == {n \in 1..Len(plan) : ~onModule(plan[n].kind)}
           M == {n \in 1..Len(plan) : onModule(plan[n].kind)}
<1>1. plan \in Seq(Range(plan)) /\ Len(plan) \in Nat /\ plan' = plan
  BY BuildIs DEF plan
<1>2. K \in 1..Len(plan) /\ (K \in Q <=> ~onModule(kindAt(f))) /\ (K \in M <=> onModule(kindAt(f)))
  BY DEF kindAt
<1>3. \A k \in {K, K + 1} : /\ {n \in 1 .. k - 1 : ~onModule(plan[n].kind)} = below(k, Q)
                             /\ {n \in 1 .. k - 1 : onModule(plan[n].kind)} = below(k, M)
  <2> TAKE k \in {K, K + 1}
  <2>1. \A n \in 1 .. k - 1 : n \in 1..Len(plan)
    BY <1>1, <1>2
  <2> QED  BY <2>1 DEF below
<1>4. /\ passesRun(f) = picked(plan, below(K, Q)) /\ passesRun(f)' = picked(plan, below(K + 1, Q))
      /\ modulePassesRun(f) = picked(plan, below(K, M)) /\ modulePassesRun(f)' = picked(plan, below(K + 1, M))
  BY <1>1, <1>3 DEF passesRun, modulePassesRun
<1> HIDE DEF Q, M, K
<1>5. \A P : /\ picked(plan, below(K, P)) \in Seq(Range(plan))
             /\ picked(plan, below(K + 1, P)) = IF K \in P THEN Append(picked(plan, below(K, P)), plan[K])
                                               ELSE picked(plan, below(K, P))
  <2> TAKE P
  <2>1. plan \in Seq(Range(plan)) /\ K \in 1..Len(plan)
    BY <1>1, <1>2
  <2> QED  BY <2>1, PickedBelow
<1> QED  BY <1>2, <1>4, <1>5 DEF K

(* The list of the one member of a set.                                    *)
LEMMA OneRow ==
  ASSUME NEW x
  PROVE  SetToSeq({x}) = <<x>>
<1>1. Cardinality({x}) = 1
  BY FS_Singleton
<1>2. SetToSeq({x}) = CHOOSE f \in [1..1 -> {x}] : IsInjective(f)
  BY <1>1 DEF SetToSeq
<1>3. [n \in 1..1 |-> x] \in [1..1 -> {x}] /\ IsInjective([n \in 1..1 |-> x])
  BY DEF IsInjective
<1>4. SetToSeq({x}) \in [1..1 -> {x}]
  BY <1>2, <1>3
<1>5. \A f \in [1..1 -> {x}] : f = <<x>>
  OBVIOUS
<1> QED  BY <1>4, <1>5

(* One more row, of one more pass.                                         *)
LEMMA NamesGo ==
  ASSUME NEW T, NEW U, NEW rows \in Seq(T), NEW passes \in Seq(U), NEW r \in T, NEW p \in U,
         RowsNamePasses(rows, passes), r.name = p.kind
  PROVE  RowsNamePasses(Append(rows, r), Append(passes, p))
<1> DEFINE a == Append(rows, r)
           b == Append(passes, p)
           K == Len(rows)
<1>1. /\ K \in Nat /\ Len(a) = K + 1 /\ a[K + 1] = r /\ \A n \in 1..K : a[n] = rows[n]
      /\ Len(b) = Len(passes) + 1 /\ b[Len(passes) + 1] = p /\ \A n \in 1..Len(passes) : b[n] = passes[n]
  OBVIOUS
<1>2. Len(passes) = K /\ \A n \in 1..K : rows[n].name = passes[n].kind
  BY DEF RowsNamePasses
<1> HIDE DEF a, b, K
<1>3. RowsNamePasses(a, b)
  BY <1>1, <1>2 DEF RowsNamePasses
<1> QED  BY <1>3 DEF a, b

(* A row that continues from the last one.                                 *)
LEMMA RowsGo ==
  ASSUME NEW T, NEW rows \in Seq(T), NEW r \in T, RowsContinue(rows),
         rows # << >> /\ r.name # "npu-assign-layout" => r.opsBefore = Last(rows).opsAfter
  PROVE  RowsContinue(Append(rows, r)) /\ Last(Append(rows, r)) = r
<1> DEFINE a == Append(rows, r)
           K == Len(rows)
<1>1. K \in Nat /\ Len(a) = K + 1 /\ a[K + 1] = r /\ \A n \in 1..K : a[n] = rows[n]
  OBVIOUS
<1>2. K > 0 => rows # << >> /\ Last(rows) = rows[K]
  BY DEF Last
<1>3. \A n \in 2..K : rows[n].name # "npu-assign-layout" => rows[n].opsBefore = rows[n - 1].opsAfter
  BY DEF RowsContinue
<1> HIDE DEF a, K
<1>4. ASSUME NEW n \in 2..Len(a), a[n].name # "npu-assign-layout" PROVE a[n].opsBefore = a[n - 1].opsAfter
  <2>1. CASE n = K + 1
    <3>1. K > 0 /\ n - 1 = K /\ K \in 1..K
      BY <1>1, <2>1
    <3> QED  BY <1>1, <1>2, <1>4, <2>1, <3>1
  <2>2. CASE n # K + 1
    <3>1. n \in 2..K /\ n \in 1..K /\ n - 1 \in 1..K
      BY <1>1, <2>2
    <3> QED  BY <1>1, <1>3, <1>4, <3>1
  <2> QED  BY <2>1, <2>2
<1>5. Last(a) = r
  BY <1>1 DEF Last
<1> QED  BY <1>4, <1>5 DEF a, RowsContinue

LEMMA StatInvEnd ==
  ASSUME StatInv, NEW f \in functions, End(f)
  PROVE  StatInv'
<1>1. /\ level' = level /\ options' = options /\ block' = block
      /\ next' = [next EXCEPT ![f] = @ + 1]
      /\ active' = [active EXCEPT ![f] = {}]
      /\ phase' = [phase EXCEPT ![f] = "idle"]
      /\ phase[f] # "idle"
      /\ records' = records \o SetToSeq({record(kindAt(f), ofFunction(f), began, countInto(block[f])) : began \in active[f]})
  BY DEF End, closed, started, passIsOver
<1>2. PerFunction /\ functions' = functions /\ Counted(f) /\ IsRunning(f)
  BY <1>1 DEF StatInv, functions, Counted
<1>3. PICK before : active[f] = {before}
  BY <1>2 DEF IsRunning
<1> DEFINE r == record(kindAt(f), ofFunction(f), before, countInto(block[f]))
<1>4. r.name = kindAt(f) /\ r.anchor = ofFunction(f) /\ r.opsBefore = before /\ r.opsAfter = countInto(block[f])
  BY DEF record
<1> HIDE DEF r
<1>5. PICK S : records \in Seq(S)
  BY DEF StatInv
<1> DEFINE T == S \cup {r}
<1>6. records \in Seq(T) /\ r \in T
  BY <1>5
<1>7. records' = Append(records, r)
  <2>1. {record(kindAt(f), ofFunction(f), b, countInto(block[f])) : b \in active[f]} = {r}
    BY <1>3 DEF r
  <2>2. records' = records \o <<r>>
    BY <1>1, <2>1, OneRow
  <2> HIDE DEF T
  <2> QED  BY <1>6, <2>2
<1>8. \E U : records' \in Seq(U)
  BY <1>6, <1>7
<1> HIDE DEF T
<1>9. /\ \A g : rowsOf(g)' = IF g = f THEN Append(rowsOf(g), r) ELSE rowsOf(g)
      /\ rowsOf(f) \in Seq(T) /\ rowsOn(ofModule)' = rowsOn(ofModule)
  <2>1. \A anchor : /\ rowsOn(anchor) \in Seq(T)
                    /\ rowsOn(anchor)' = IF r.anchor = anchor THEN Append(rowsOn(anchor), r) ELSE rowsOn(anchor)
    <3> TAKE anchor
    <3>1. /\ rowsOn(anchor) \in Seq(T)
          /\ picked(records', {n \in DOMAIN records' : records'[n].anchor = anchor})
               = IF r.anchor = anchor THEN Append(rowsOn(anchor), r) ELSE rowsOn(anchor)
      BY <1>6, <1>7, RowWritten
    <3>2. rowsOn(anchor)' = picked(records', {n \in DOMAIN records' : records'[n].anchor = anchor})
      BY DEF rowsOn
    <3> QED  BY <3>1, <3>2
  <2> QED  BY <1>4, <2>1, Anchors DEF rowsOf
<1>10. /\ \A g \in functions : g # f => active'[g] = active[g] /\ phase'[g] = phase[g] /\ next'[g] = next[g]
       /\ active'[f] = {} /\ phase'[f] = "idle" /\ next'[f] = next[f] + 1
  BY <1>1, <1>2 DEF PerFunction
<1>11. PerFunction'
  BY <1>1, <1>2 DEF PerFunction
<1>12. ASSUME NEW g \in functions, g # f PROVE Counted(g)'
  BY <1>1, <1>9, <1>10, <1>12, CountedStays DEF StatInv
<1>13. Counted(f)'
  <2>1. /\ plan' = plan /\ plan \in Seq(Range(plan)) /\ Len(plan) \in Nat /\ DOMAIN plan = 1..Len(plan)
    BY <1>1, BuildIs DEF plan
  <2>2. next[f] \in 1..Len(plan) /\ ~onModule(kindAt(f)) /\ plan[next[f]] \in Range(plan)
    BY <1>2, <2>1 DEF IsRunning, Range
  <2>3. next'[f] \in 1 .. Len(plan) + 1
    BY <1>10, <2>1, <2>2
  <2>4. /\ passesRun(f) \in Seq(Range(plan)) /\ passesRun(f)' = Append(passesRun(f), plan[next[f]])
        /\ modulePassesRun(f)' = modulePassesRun(f)
    BY <1>1, <1>10, <2>2, NextPass
  <2>5. rowsOf(f) # << >> /\ r.name # "npu-assign-layout" => r.opsBefore = Last(rowsOf(f)).opsAfter
    BY <1>2, <1>3, <1>4 DEF IsRunning
  <2>6. /\ RowsNamePasses(Append(rowsOf(f), r), Append(passesRun(f), plan[next[f]]))
        /\ RowsContinue(Append(rowsOf(f), r))
        /\ Last(Append(rowsOf(f), r)) = r
    <3>1. r.name = plan[next[f]].kind /\ RowsNamePasses(rowsOf(f), passesRun(f)) /\ RowsContinue(rowsOf(f))
      BY <1>2, <1>4 DEF kindAt, Counted
    <3>2. RowsNamePasses(Append(rowsOf(f), r), Append(passesRun(f), plan[next[f]]))
      BY <1>6, <1>9, <2>2, <2>4, <3>1, NamesGo
    <3> QED  BY <1>6, <1>9, <2>5, <3>1, <3>2, RowsGo
  <2>7. IsIdle(f)'
    BY <1>1, <1>4, <1>9, <1>10, <2>6 DEF IsIdle
  <2> QED  BY <1>2, <1>9, <1>10, <2>1, <2>3, <2>4, <2>6, <2>7 DEF Counted
<1> QED  BY <1>2, <1>8, <1>11, <1>12, <1>13 DEF StatInv

LEMMA StatInvRunOnModule ==
  ASSUME StatInv, RunOnModule
  PROVE  StatInv'
<1>1. PICK n \in DOMAIN plan :
        /\ level' = level /\ options' = options /\ active' = active /\ phase' = phase
        /\ onModule(plan[n].kind)
        /\ \A f \in functions : next[f] = n /\ phase[f] = "idle"
        /\ next' = [f \in functions |-> n + 1]
        /\ block' = [f \in functions |-> IF plan[n].kind = "sccp" THEN constantsFirst(block[f]) ELSE block[f]]
        /\ records' = Append(records, record(plan[n].kind, ofModule, countIntoModule(block), countIntoModule(block')))
  BY DEF RunOnModule, started
<1> DEFINE r == record(plan[n].kind, ofModule, countIntoModule(block), countIntoModule(block'))
<1>2. r.name = plan[n].kind /\ r.anchor = ofModule /\ records' = Append(records, r)
  BY <1>1 DEF record
<1> HIDE DEF r
<1>3. PICK S : records \in Seq(S)
  BY DEF StatInv
<1> DEFINE T == S \cup {r}
<1>4. records \in Seq(T) /\ r \in T
  BY <1>3
<1> HIDE DEF T
<1>5. \E U : records' \in Seq(U)
  BY <1>2, <1>4
<1>6. /\ \A f : rowsOf(f)' = rowsOf(f)
      /\ rowsOn(ofModule) \in Seq(T) /\ rowsOn(ofModule)' = Append(rowsOn(ofModule), r)
  <2>1. \A anchor : /\ rowsOn(anchor) \in Seq(T)
                    /\ rowsOn(anchor)' = IF r.anchor = anchor THEN Append(rowsOn(anchor), r) ELSE rowsOn(anchor)
    BY <1>2, <1>4, RowWritten DEF rowsOn
  <2> QED  BY <1>2, <2>1, Anchors DEF rowsOf
<1>7. PerFunction /\ functions' = functions
  BY <1>1 DEF StatInv, functions
<1>8. PerFunction'
  BY <1>1, <1>7 DEF PerFunction
<1>9. ASSUME NEW f \in functions PROVE Counted(f)'
  <2>1. Counted(f) /\ IsIdle(f) /\ onModule(kindAt(f)) /\ next[f] = n
    BY <1>1 DEF StatInv, Counted, kindAt
  <2>2. /\ plan' = plan /\ Len(plan) \in Nat /\ DOMAIN plan = 1..Len(plan)
    BY <1>1, BuildIs DEF plan
  <2>3. /\ next[f] \in 1..Len(plan) /\ next'[f] = next[f] + 1 /\ next'[f] \in 1 .. Len(plan) + 1
        /\ plan[next[f]] \in Range(plan)
    BY <1>1, <2>1, <2>2 DEF Range
  <2>4. /\ passesRun(f)' = passesRun(f)
        /\ modulePassesRun(f) \in Seq(Range(plan))
        /\ modulePassesRun(f)' = Append(modulePassesRun(f), plan[next[f]])
    BY <1>1, <2>1, <2>3, NextPass
  <2>5. RowsNamePasses(rowsOn(ofModule), modulePassesRun(f))'
    <3>1. RowsNamePasses(rowsOn(ofModule), modulePassesRun(f)) /\ r.name = plan[next[f]].kind
      BY <1>2, <2>1 DEF Counted
    <3>2. RowsNamePasses(Append(rowsOn(ofModule), r), Append(modulePassesRun(f), plan[next[f]]))
      BY <1>4, <1>6, <2>3, <2>4, <3>1, NamesGo
    <3> QED  BY <1>6, <2>4, <3>2
  <2>6. IsIdle(f)'
    <3>1. active'[f] = {}
      BY <1>1, <2>1 DEF IsIdle
    <3>2. \A m \in 1 .. next[f] - 1 : m \in 1 .. next'[f] - 1
      BY <2>2, <2>3
    <3>3. CASE plan[n].kind = "sccp"
      <4>1. plan'[next[f]].kind = "sccp" /\ next[f] \in 1 .. next'[f] - 1
        BY <2>1, <2>2, <2>3, <3>3
      <4> QED  BY <3>1, <4>1 DEF IsIdle
    <3>4. CASE plan[n].kind # "sccp"
      <4>1. block'[f] = block[f]
        BY <1>1, <3>4
      <4> QED  BY <1>6, <2>1, <2>2, <3>1, <3>2, <4>1 DEF IsIdle
    <3> QED  BY <3>3, <3>4
  <2> QED  BY <1>1, <1>6, <2>1, <2>2, <2>3, <2>4, <2>5, <2>6 DEF Counted
<1> QED  BY <1>5, <1>7, <1>8, <1>9 DEF StatInv

LEMMA StatInvNext == StatInv /\ [Next]_vars => StatInv'
<1> SUFFICES ASSUME StatInv, [Next]_vars PROVE StatInv'
  OBVIOUS
<1>1. ASSUME NEW f \in functions, Begin(f) \/ Visit(f) \/ SinkToFold(f) \/ SinkAgain(f) \/ End(f)
      PROVE  StatInv'
  BY <1>1, StatInvBegin, StatInvVisit, StatInvRounds, StatInvEnd
<1>2. CASE RunOnModule
  BY <1>2, StatInvRunOnModule
<1>3. CASE UNCHANGED vars
  <2>1. /\ level' = level /\ options' = options /\ records' = records /\ next' = next
        /\ active' = active /\ phase' = phase /\ block' = block
    BY <1>3 DEF vars
  <2>2. functions' = functions /\ PerFunction
    BY <2>1 DEF functions, StatInv
  <2> QED  BY <2>1, <2>2, StatInvStays DEF PerFunction
<1> QED  BY <1>1, <1>2, <1>3 DEF Next

(* Whatever the passes do and however the functions interleave, the rows   *)
(* are those of the passes in the order they were built, each continues    *)
(* from the one before it, and no pass is left running between two.        *)
THEOREM SpecStatisticsFollowThePipeline == Spec => []StatisticsFollowThePipeline
BY StatInvInit, StatInvNext, StatInvGives, PTL DEF Spec

-----------------------------------------------------------------------------
(* The places at which the passes of interest are in each level.           *)
LEMMA LevelPlaces ==
  ASSUME NEW l
  PROVE  LET s == passesOf(l) IN
         /\ Len(s) \in {2, 4, 14} /\ DOMAIN s = 1..Len(s)
         /\ \A n \in 1..Len(s) : s[n] = "npu-allocate-scratchpad" <=> n = Len(s)
         /\ \A n \in 1..Len(s) : isTensorLevel(s[n]) <=> n <= Len(s) - (IF Len(s) = 14 THEN 3 ELSE 2)
<1> DEFINE s == passesOf(l)
<1>1. CASE s = O0
  <2>1. Len(s) = 2 /\ DOMAIN s = {1, 2}
    BY <1>1, Levels
  <2> QED  BY <1>1, <2>1, Levels DEF isTensorLevel
<1>2. CASE s = O1
  <2>1. Len(s) = 4 /\ 1..Len(s) = {1, 2, 3, 4} /\ DOMAIN s = 1..Len(s)
    BY <1>2, Levels
  <2> QED  BY <1>2, <2>1, Levels DEF isTensorLevel
<1>3. CASE s = O2
  <2>1. Len(s) = 14 /\ DOMAIN s = 1..Len(s)
    BY <1>3, Levels
  <2>2. \A n \in 1..14 : n \in {1, 2, 3, 4, 5, 6, 7, 8, 9, 10, 11, 12, 13, 14}
    OBVIOUS
  <2>3. \A n \in 1..14 : O2[n] = "npu-allocate-scratchpad" <=> n = 14
    BY <2>2, Levels
  <2>4. \A n \in 1..14 : isTensorLevel(O2[n]) <=> n <= 11
    BY <2>2, Levels DEF isTensorLevel
  <2> QED  BY <1>3, <2>1, <2>3, <2>4
<1> QED  BY <1>1, <1>2, <1>3, Levels

(* What a pipeline built whole and one that may stop earlier have.         *)
Whole(options_) == [options_ EXCEPT !.stopAfter = "npuisa"]

LEMMA WholeOptions ==
  ASSUME NEW o \in PipelineOptions
  PROVE  /\ Whole(o).stopAfter = "npuisa" /\ Whole(o).budget = o.budget /\ Whole(o).strategy = o.strategy
         /\ Whole(o).alignment = o.alignment /\ Whole(o).ablate = o.ablate
         /\ Whole(o).spillHeuristic = o.spillHeuristic /\ Whole(o).halo = o.halo
         /\ o.budget \in Int /\ o.budget >= -1 /\ o.stopAfter \in {"npu", "npuisa"}
BY DEF PipelineOptions, Whole

LEMMA StopsEarly ==
  ASSUME NEW l, NEW o \in PipelineOptions
  PROVE  IsPrefix(build(l, o), build(l, Whole(o)))
<1> DEFINE w == Whole(o)
           s == passesOf(l)
           S == builtOf(l, w)
           R == builtOf(l, o)
           p == build(l, w)
           q == build(l, o)
<1>1. \A kind : addPass(kind, l, o) = addPass(kind, l, w) /\ (isAblated(kind, o) <=> isAblated(kind, w))
  BY WholeOptions
  DEF addPass, isAblated, tilingOptions, prefetchOptions, allocationOptions, doubleBufferInPipeline
<1>2. PICK c \in Nat : R = {n \in S : n <= c}
  <2>0. /\ DOMAIN s = 1..Len(s) /\ Len(s) \in {2, 4, 14}
    BY LevelPlaces
  <2>1. CASE o.stopAfter = "npu"
    <3> DEFINE c == Len(s) - (IF Len(s) = 14 THEN 3 ELSE 2)
    <3>1. \A n \in 1..Len(s) : isTensorLevel(s[n]) <=> n <= c
      BY LevelPlaces
    <3>2. c \in Nat
      BY <2>0
    <3> HIDE DEF c, s
    <3>3. R = {n \in 1..Len(s) : isTensorLevel(s[n]) /\ ~isAblated(s[n], o)}
      BY <2>0, <2>1 DEF builtOf, s
    <3>4. S = {n \in 1..Len(s) : ~isAblated(s[n], w)}
      BY <2>0, WholeOptions DEF builtOf, s
    <3>5. R = {n \in S : n <= c}
      BY <1>1, <3>1, <3>3, <3>4
    <3> QED  BY <3>2, <3>5
  <2>2. CASE o.stopAfter # "npu"
    <3>1. R = S
      BY <1>1, <2>2, WholeOptions DEF builtOf
    <3>2. \A n \in S : n <= 14
      BY <2>0 DEF builtOf
    <3> QED  BY <3>1, <3>2
  <2> QED  BY <2>1, <2>2
<1>3. /\ S \in SUBSET (1..Len(s)) /\ Len(s) \in Nat
      /\ Len(p) = Cardinality(S) /\ Len(q) = Cardinality(R) /\ Len(p) \in Nat /\ Len(q) \in Nat
      /\ p \in Seq(Range(p)) /\ q \in Seq(Range(q))
      /\ \A k \in 1..Len(q) : \E n \in 1..Len(s) : BuiltAs(q, l, o, n, k)
      /\ \A n \in S : BuiltAs(p, l, w, n, rankOf(n, S))
  BY BuildIs
<1>4. Len(q) <= Len(p)
  <2>1. IsFiniteSet(S) /\ R \subseteq S
    BY <1>2, <1>3, RankFacts
  <2> QED  BY <1>3, <2>1, FS_Subset
<1>5. ASSUME NEW k \in 1..Len(q) PROVE q[k] = p[k]
  <2>1. PICK n \in 1..Len(s) : BuiltAs(q, l, o, n, k)
    BY <1>3
  <2>2. n \in R /\ rankOf(n, R) = k /\ q[k] = addPass(s[n], l, o)
    BY <2>1 DEF BuiltAs
  <2>3. n \in S /\ n <= c /\ n \in Nat
    BY <1>2, <2>2
  <2>4. rankOf(n, S) = k
    <3>0. \A m \in S : m \in Nat
      BY <1>3
    <3> HIDE DEF R, S
    <3>1. ASSUME NEW m PROVE (m \in R /\ m <= n) <=> (m \in S /\ m <= n)
      <4>1. m \in R => m \in S
        BY <1>2
      <4>2. ASSUME m \in S, m <= n PROVE m \in R
        <5>1. m <= c
          BY <2>3, <3>0, <4>2
        <5> QED  BY <1>2, <4>2, <5>1
      <4> QED  BY <4>1, <4>2
    <3> QED  BY <2>2, <3>1, RankUpTo
  <2>5. p[k] = addPass(s[n], l, w)
    BY <1>3, <2>3, <2>4 DEF BuiltAs
  <2> QED  BY <1>1, <2>2, <2>5
<1> HIDE DEF p, q
<1>6. SubSeq(q, 1, Len(q)) = SubSeq(p, 1, Len(q))
  BY <1>3, <1>4, <1>5
<1> QED  BY <1>4, <1>6 DEF IsPrefix, p, q

(* The one place of the allocator in a pipeline built whole is its last.   *)
LEMMA AllocatesLast ==
  ASSUME NEW l, NEW o \in PipelineOptions
  PROVE  LET p == build(l, Whole(o)) IN
         \E K \in DOMAIN p :
           /\ {k \in DOMAIN p : p[k].kind = "npu-allocate-scratchpad"} = {K}
           /\ p[K] = addPass("npu-allocate-scratchpad", l, Whole(o))
           /\ \A k \in DOMAIN p : k = K \/ k < K
<1> DEFINE w == Whole(o)
           s == passesOf(l)
           S == builtOf(l, w)
           p == build(l, w)
           last == Len(s)
           K == rankOf(last, S)
<1>1. /\ S \in SUBSET (1..last) /\ last \in Nat /\ DOMAIN p = 1..Len(p)
      /\ \A k \in 1..Len(p) : \E n \in 1..last : BuiltAs(p, l, w, n, k)
      /\ \A n \in S : rankOf(n, S) \in 1..Len(p) /\ BuiltAs(p, l, w, n, rankOf(n, S))
  BY BuildIs
<1>2. /\ last \in {2, 4, 14} /\ DOMAIN s = 1..last
      /\ \A n \in 1..last : s[n] = "npu-allocate-scratchpad" <=> n = last
  BY LevelPlaces
<1>3. last \in 1..last /\ s[last] = "npu-allocate-scratchpad"
  <2> HIDE DEF s, last
  <2>1. last \in 1..last
    BY <1>2
  <2> QED  BY <1>2, <2>1
<1>4. last \in S
  BY <1>2, <1>3, WholeOptions DEF builtOf, isAblated, isAblatable
<1>5. K \in 1..Len(p) /\ BuiltAs(p, l, w, last, K)
  BY <1>1, <1>4
<1>6. p[K] = addPass("npu-allocate-scratchpad", l, w) /\ p[K].kind = "npu-allocate-scratchpad"
  BY <1>3, <1>5 DEF BuiltAs
<1>7. ASSUME NEW k \in 1..Len(p)
      PROVE  (k = K \/ k < K) /\ (p[k].kind = "npu-allocate-scratchpad" => k = K)
  <2>1. PICK n \in 1..last : BuiltAs(p, l, w, n, k)
    BY <1>1
  <2>2. n \in S /\ rankOf(n, S) = k /\ p[k].kind = s[n]
    BY <2>1 DEF BuiltAs
  <2> HIDE DEF S, p, s, last
  <2>3. CASE n = last
    BY <2>2, <2>3
  <2>4. CASE n # last
    <3>1. n \in Nat /\ n < last
      BY <1>1, <2>4
    <3>2. rankOf(n, S) < rankOf(last, S)
      BY <1>1, <1>4, <3>1, RankGrows
    <3> QED  BY <1>2, <2>2, <2>4, <3>2
  <2> QED  BY <2>3, <2>4
<1> HIDE DEF K
<1> QED  BY <1>1, <1>5, <1>6, <1>7 DEF p, w

(* The prefetch is part of what the level would build, exactly if it is    *)
(* built.                                                                  *)
LEMMA PrefetchIsBuilt ==
  ASSUME NEW l, NEW o \in PipelineOptions
  PROVE  LET p == build(l, Whole(o)) IN
         doubleBufferInPipeline(l, Whole(o)) = ({k \in DOMAIN p : p[k].kind = "npu-double-buffer"} # {})
<1> DEFINE w == Whole(o)
           s == passesOf(l)
           S == builtOf(l, w)
           p == build(l, w)
<1>1. /\ DOMAIN p = 1..Len(p)
      /\ \A k \in 1..Len(p) : \E n \in 1..Len(s) : BuiltAs(p, l, w, n, k)
      /\ \A n \in S : rankOf(n, S) \in 1..Len(p) /\ BuiltAs(p, l, w, n, rankOf(n, S))
  BY BuildIs
<1>2. S = {n \in DOMAIN s : ~isAblated(s[n], w)}
  BY WholeOptions DEF builtOf
<1>3. doubleBufferInPipeline(l, w) <=> \E n \in S : s[n] = "npu-double-buffer"
  BY <1>2 DEF doubleBufferInPipeline
<1>4. ASSUME NEW n \in S, s[n] = "npu-double-buffer"
      PROVE  \E k \in DOMAIN p : p[k].kind = "npu-double-buffer"
  BY <1>1, <1>4 DEF BuiltAs
<1>5. ASSUME NEW k \in DOMAIN p, p[k].kind = "npu-double-buffer"
      PROVE  \E n \in S : s[n] = "npu-double-buffer"
  BY <1>1, <1>5 DEF BuiltAs
<1>6. doubleBufferInPipeline(l, w) \in BOOLEAN
  BY DEF doubleBufferInPipeline
<1> QED  BY <1>3, <1>4, <1>5, <1>6

(* Every pass built is given what its kind is.                             *)
LEMMA GivenByKind ==
  ASSUME NEW l, NEW o, NEW k \in DOMAIN build(l, o)
  PROVE  build(l, o)[k] = addPass(build(l, o)[k].kind, l, o)
<1>1. PICK n \in 1..Len(passesOf(l)) : BuiltAs(build(l, o), l, o, n, k)
  BY BuildIs
<1> QED  BY <1>1 DEF BuiltAs

LEMMA Agree ==
  ASSUME NEW l, NEW o \in PipelineOptions
  PROVE  LET whole == build(l, [o EXCEPT !.stopAfter = "npuisa"])
             positions(kind) == {n \in DOMAIN whole : whole[n].kind = kind}
             placing == whole[Max(positions("npu-allocate-scratchpad"))].given
         IN  /\ \A n \in positions("npu-tile-to-scratchpad") :
                  /\ whole[n].given.budget = budgetRead(placing.budget)
                  /\ whole[n].given.doubleBuffer = (positions("npu-double-buffer") # {})
             /\ \A n \in positions("npu-double-buffer") :
                  /\ n < Max(positions("npu-allocate-scratchpad"))
                  /\ \A option \in {"budget", "strategy", "alignment"} :
                       whole[n].given[option] = placing[option]
             /\ IsPrefix(build(l, o), whole)
<1> DEFINE w == Whole(o)
           p == build(l, w)
           positions(kind) == {n \in DOMAIN p : p[n].kind = kind}
           placing == p[Max(positions("npu-allocate-scratchpad"))].given
<1>1. PICK K \in DOMAIN p :
        /\ positions("npu-allocate-scratchpad") = {K}
        /\ p[K] = addPass("npu-allocate-scratchpad", l, w)
        /\ \A k \in DOMAIN p : k = K \/ k < K
  BY AllocatesLast
<1>2. Max(positions("npu-allocate-scratchpad")) = K
  <2>1. K \in Nat
    BY BuildIs
  <2> HIDE DEF positions
  <2>2. Max({K}) = K
    BY <2>1 DEF Max
  <2> QED  BY <1>1, <2>2
<1>3. placing = allocationOptions(w)
  BY <1>1, <1>2 DEF addPass
<1>4. ASSUME NEW n \in positions("npu-tile-to-scratchpad")
      PROVE  /\ p[n].given.budget = budgetRead(placing.budget)
             /\ p[n].given.doubleBuffer = (positions("npu-double-buffer") # {})
  <2>1. p[n].given = tilingOptions(l, w)
    BY <1>4, GivenByKind DEF addPass
  <2>2. placing.budget = o.budget
    BY <1>3, WholeOptions DEF allocationOptions
  <2>3. p[n].given.budget = budgetRead(placing.budget)
    BY <2>1, <2>2, WholeOptions DEF tilingOptions, budgetRead
  <2>4. p[n].given.doubleBuffer = doubleBufferInPipeline(l, w)
    BY <2>1 DEF tilingOptions
  <2> QED  BY <2>3, <2>4, PrefetchIsBuilt
<1>5. ASSUME NEW n \in positions("npu-double-buffer")
      PROVE  /\ n < K
             /\ \A option \in {"budget", "strategy", "alignment"} : p[n].given[option] = placing[option]
  <2>1. p[n].given = prefetchOptions(w) /\ p[n].kind = "npu-double-buffer"
    BY <1>5, GivenByKind DEF addPass
  <2>2. n # K
    BY <1>1, <2>1
  <2> QED  BY <1>1, <1>3, <1>5, <2>1, <2>2 DEF prefetchOptions, allocationOptions
<1>6. IsPrefix(build(l, o), p)
  BY StopsEarly
<1> HIDE DEF placing
<1> QED  BY <1>2, <1>4, <1>5, <1>6 DEF Whole, placing

(* The options and the level are those the caller gave.                    *)
LEMMA OptionsStay == Spec => [](level \in 0..2 /\ options \in PipelineOptions)
<1>1. Init => level \in 0..2 /\ options \in PipelineOptions
  BY RunsAssumption DEF Init
<1>2. level \in 0..2 /\ options \in PipelineOptions /\ [Next]_vars
        => (level \in 0..2 /\ options \in PipelineOptions)'
  <2>1. [Next]_vars => level' = level /\ options' = options
    BY DEF Next, vars, Begin, Visit, SinkToFold, SinkAgain, End, RunOnModule, started
  <2> QED  BY <2>1
<1> QED  BY <1>1, <1>2, PTL DEF Spec

(* One scratchpad, and one description of it: whatever the level, the      *)
(* options and what is ablated, the pass that tiles is given the budget    *)
(* the allocator reads and is told of the prefetch exactly if it is built, *)
(* the prefetch comes before the allocator and prices what the allocator   *)
(* will place, and a pipeline stopped at the tensor level is the beginning *)
(* of the whole one.                                                       *)
THEOREM SpecPassesAgreeOnTheMachine == Spec => []PassesAgreeOnTheMachine
<1>1. options \in PipelineOptions => PassesAgreeOnTheMachine
  BY Agree DEF PassesAgreeOnTheMachine, plan
<1> QED  BY <1>1, OptionsStay, PTL
==============================================================================
