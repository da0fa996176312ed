---------------------------- MODULE ToolchainProofs ----------------------------
(***************************************************************************)
(* Proofs about Toolchain: the DRAM map the encoder lays out keeps its     *)
(* regions apart for every function and every alignment, the simulator     *)
(* gives no answer after a trap, whatever the program and the order of the *)
(* threads, and every instruction the encoder emits addresses what its     *)
(* operation does and bears its name.  The overlap analysis is exact.      *)
(***************************************************************************)
EXTENDS Toolchain, Induction

-----------------------------------------------------------------------------
(* What alignUp (InstructionEncoder.cpp) returns: a multiple of the        *)
(* alignment that is not below its argument.                               *)
LEMMA AlignUp ==
  ASSUME NEW value \in Nat
  PROVE  /\ alignUp(value) \in Nat
         /\ alignUp(value) >= value
         /\ alignUp(value) % DramAlignment = 0
<1> DEFINE d == DramAlignment
<1>1. d \in Nat /\ d > 0
  BY DramAlignmentAssumption
<1>2. value % d \in 0 .. d - 1
  BY <1>1
<1>3. CASE value % d = 0
  BY <1>3 DEF alignUp
<1>4. CASE value % d # 0
  <2>1. alignUp(value) = value + (d - (value % d))
    BY <1>4 DEF alignUp
  <2>2. value = d * (value \div d) + (value % d)
    BY <1>1
  <2>3. PICK k \in Nat : k = value \div d
    BY <1>1
  <2> HIDE DEF d
  <2>4. alignUp(value) = d * (k + 1)
    BY <1>1, <1>2, <2>1, <2>2, <2>3
  <2>5. (d * (k + 1)) % d = 0
    BY <1>1, <2>3
  <2>6. alignUp(value) % d = 0
    BY <2>4, <2>5
  <2>7. alignUp(value) \in Nat /\ alignUp(value) >= value
    BY <1>1, <1>2, <2>1
  <2> QED
    BY <2>6, <2>7 DEF d
<1> QED
  BY <1>3, <1>4

(* A region the header can declare has at least one byte, and a number of  *)
(* them (Program.cpp, byteSize).                                           *)
LEMMA RegionSizes ==
  ASSUME NEW type
  PROVE  regionSizes(type) \subseteq Nat \ {0}
<1>1. \A counts : withinLimit(counts) \subseteq Nat \ {0}
  BY ShapeLimitAssumption DEF withinLimit
<1>2. \A element, shape : byteSize(element, shape) \subseteq Nat \ {0}
  BY <1>1 DEF byteSize
<1> QED
  BY <1>2 DEF regionSizes

-----------------------------------------------------------------------------
(* The DRAM map.                                                           *)

(* A region is aligned and ends where the cursor stands, or before.        *)
placed(p, c) ==
  /\ p.offset \in Nat /\ p.bytes \in Nat \ {0}
  /\ p.offset % DramAlignment = 0
  /\ p.offset + p.bytes <= c

apart(p, q) == p.offset + p.bytes <= q.offset \/ q.offset + q.bytes <= p.offset

(* The inductive invariant: RegionsAreApart says nothing of the cursor, on *)
(* which the next region depends.                                          *)
LayoutInv ==
  /\ cursor \in Nat
  /\ \A p \in dramAddresses : placed(p, cursor)
  /\ \A p, q \in dramAddresses : p # q => apart(p, q)

LEMMA LayoutIsApart == LayoutInv => RegionsAreApart
<1> SUFFICES ASSUME LayoutInv PROVE RegionsAreApart
  OBVIOUS
<1>1. dramBytes \in Nat /\ dramBytes >= cursor
  BY AlignUp DEF LayoutInv, dramBytes
<1>2. \A p \in dramAddresses : p.offset % DramAlignment = 0 /\ p.offset + p.bytes <= dramBytes
  BY <1>1 DEF LayoutInv, placed
<1>3. \A p, q \in dramAddresses : p # q => apart(p, q)
  BY DEF LayoutInv
<1> QED
  BY <1>2, <1>3 DEF RegionsAreApart, apart

(* The one step that adds a region puts it at or above the cursor.         *)
LEMMA PlaceRegionKeepsLayout == LayoutInv /\ PlaceRegion => LayoutInv'
<1> SUFFICES ASSUME LayoutInv, PlaceRegion PROVE LayoutInv'
  OBVIOUS
<1> DEFINE root == Head(queue)
<1>1. CASE regionSizes(typeOf(root)) = {}
  BY <1>1 DEF PlaceRegion, refuse, LayoutInv, placed, apart
<1>2. CASE regionSizes(typeOf(root)) # {}
  <2>1. PICK size \in regionSizes(typeOf(root)) :
          /\ dramAddresses' = dramAddresses \cup {[root |-> root, offset |-> alignUp(cursor), bytes |-> size]}
          /\ cursor' = alignUp(cursor) + size
    BY <1>2 DEF PlaceRegion
  <2> DEFINE new == [root |-> root, offset |-> alignUp(cursor), bytes |-> size]
  <2>2. size \in Nat \ {0}
    BY RegionSizes
  <2>3. cursor \in Nat
    BY DEF LayoutInv
  <2>4. alignUp(cursor) \in Nat /\ alignUp(cursor) >= cursor /\ alignUp(cursor) % DramAlignment = 0
    BY <2>3, AlignUp
  <2>5. new.offset = alignUp(cursor) /\ new.bytes = size
    OBVIOUS
  <2>6. dramAddresses' = dramAddresses \cup {new} /\ cursor' = alignUp(cursor) + size
    BY <2>1
  <2> HIDE DEF new
  <2>7. cursor' \in Nat /\ cursor' >= cursor
    BY <2>2, <2>3, <2>4, <2>6
  <2>8. placed(new, cursor')
    BY <2>2, <2>4, <2>5, <2>6 DEF placed
  <2>9. \A p \in dramAddresses : placed(p, cursor') /\ apart(p, new) /\ apart(new, p)
    BY <2>3, <2>4, <2>5, <2>7 DEF LayoutInv, placed, apart
  <2>10. \A p \in dramAddresses' : placed(p, cursor')
    BY <2>6, <2>8, <2>9
  <2>11. \A p, q \in dramAddresses' : p # q => apart(p, q)
    BY <2>6, <2>9 DEF LayoutInv
  <2> QED
    BY <2>7, <2>10, <2>11 DEF LayoutInv, placed, apart
<1> QED
  BY <1>1, <1>2

LEMMA LayoutIsKept == UNCHANGED <<cursor, dramAddresses>> /\ LayoutInv => LayoutInv'
  BY DEF LayoutInv, placed, apart

LEMMA NextKeepsLayout == LayoutInv /\ [Next]_vars => LayoutInv'
<1> SUFFICES ASSUME LayoutInv, [Next]_vars PROVE LayoutInv'
  OBVIOUS
<1>1. CASE Encode
  <2>1. CASE ReadAttributes
    BY <2>1, LayoutIsKept DEF ReadAttributes, refuse
  <2>2. CASE PlaceRegion
    BY <2>2, PlaceRegionKeepsLayout
  <2>3. CASE EndLayout
    BY <2>3, LayoutIsKept DEF EndLayout
  <2>4. CASE EncodeOperation
    BY <2>4, LayoutIsKept DEF EncodeOperation, refuse
  <2>5. CASE EncodeHalt
    BY <2>5, LayoutIsKept DEF EncodeHalt
  <2> QED
    BY <1>1, <2>1, <2>2, <2>3, <2>4, <2>5 DEF Encode, EncoderNext
<1>2. CASE UNCHANGED encoderVars
  BY <1>2, LayoutIsKept DEF encoderVars
<1>3. CASE WriteFile
  BY <1>3, LayoutIsKept DEF WriteFile, refuse, encoderVars
<1> QED
  BY <1>1, <1>2, <1>3 DEF Next, Damage, Open, Read, EndDecode, StartSimulator, Simulate, vars

(* For every function, every alignment and every limit on shapes, the      *)
(* regions of the DRAM map share no byte, are aligned and lie inside the   *)
(* DRAM the program declares (layOutDram).                                 *)
THEOREM SpecKeepsRegionsApart == Spec => []RegionsAreApart
<1>1. Init => LayoutInv
  BY DEF Init, EncoderInit, LayoutInv
<1> QED
  BY <1>1, NextKeepsLayout, LayoutIsApart, PTL DEF Spec

-----------------------------------------------------------------------------
(* The trap.                                                               *)

(* A trap is there only while the kernel that recorded it runs on, and     *)
(* after the run it stopped.                                               *)
TrapInv == trap # {} => machine \in {"kernel", "trapped"}

LEMMA TrapIsKept == UNCHANGED <<machine, trap>> /\ TrapInv => TrapInv'
  BY DEF TrapInv

LEMMA FetchKeepsTrap == TrapInv /\ Fetch => TrapInv'
<1> SUFFICES ASSUME TrapInv, Fetch PROVE TrapInv'
  OBVIOUS
<1>1. trap = {}
  BY DEF TrapInv, Fetch
<1>2. CASE ~hasKernel(current.opcode)
  BY <1>1, <1>2 DEF Fetch, TrapInv
<1>3. CASE hasKernel(current.opcode) /\ (~hasOperands(current) \/ ~accepts(current))
  BY <1>3 DEF Fetch, afterInstruction, TrapInv
<1>4. CASE hasKernel(current.opcode) /\ hasOperands(current) /\ accepts(current)
  BY <1>4 DEF Fetch, TrapInv
<1> QED
  BY <1>2, <1>3, <1>4

LEMMA EndKernelKeepsTrap == TrapInv /\ EndKernel => TrapInv'
<1> SUFFICES ASSUME EndKernel PROVE TrapInv'
  OBVIOUS
<1>1. trap' = trap
  BY DEF EndKernel
<1>2. trap # {} => machine' = "trapped"
  BY DEF EndKernel, afterInstruction
<1> QED
  BY <1>1, <1>2 DEF TrapInv

LEMMA MachineKeepsTrap == TrapInv /\ MachineNext => TrapInv'
<1> SUFFICES ASSUME TrapInv, MachineNext PROVE TrapInv'
  OBVIOUS
<1>1. CASE Fetch
  BY <1>1, FetchKeepsTrap
<1>2. CASE OffTheEnd
  BY <1>2 DEF OffTheEnd, TrapInv
<1>3. ASSUME NEW t \in DOMAIN team, Step(t) PROVE TrapInv'
  <2>1. machine' = "kernel"
    BY <1>3 DEF Step
  <2> QED
    BY <2>1 DEF TrapInv
<1>4. CASE EndKernel
  BY <1>4, EndKernelKeepsTrap
<1> QED
  BY <1>1, <1>2, <1>3, <1>4 DEF MachineNext

(* Before the run starts there is no trap, so a refusal has none either.   *)
LEMMA StartKeepsTrap ==
  ASSUME TrapInv, machine \in {"idle", "constructed", "loaded"}, UNCHANGED trap
  PROVE  TrapInv'
  BY DEF TrapInv

LEMMA NextKeepsTrap == TrapInv /\ [Next]_vars => TrapInv'
<1> SUFFICES ASSUME TrapInv, [Next]_vars PROVE TrapInv'
  OBVIOUS
<1>1. CASE StartSimulator
  <2>1. PICK p : Construct(p)
    BY <1>1 DEF StartSimulator
  <2>2. machine = "idle" /\ trap' = trap
    BY <2>1 DEF Construct
  <2> QED
    BY <2>2, StartKeepsTrap
<1>2. CASE Simulate
  <2>1. ASSUME NEW data, LoadInputs(data) PROVE TrapInv'
    <3>1. machine = "constructed" /\ trap' = trap
      BY <2>1 DEF LoadInputs
    <3> QED
      BY <3>1, StartKeepsTrap
  <2>2. ASSUME NEW mayRun, Run(mayRun) PROVE TrapInv'
    <3>1. machine = "loaded" /\ trap' = trap
      BY <2>2 DEF Run
    <3> QED
      BY <3>1, StartKeepsTrap
  <2>3. CASE MachineNext
    BY <2>3, MachineKeepsTrap
  <2> QED
    BY <1>2, <2>1, <2>2, <2>3 DEF Simulate
<1>3. CASE UNCHANGED machineVars
  BY <1>3, TrapIsKept DEF machineVars
<1> QED
  BY <1>1, <1>2, <1>3 DEF Next, Encode, WriteFile, Damage, Open, Read, EndDecode, vars

(* For every program, every memory size and every order of the threads of  *)
(* a convolution, a run that halts or runs off its end has recorded no     *)
(* trap: the loop of Simulator::execute looks at the trap after every      *)
(* instruction, so a skipped access never reaches a later one.             *)
THEOREM SpecGivesNoAnswerAfterATrap == Spec => []NoAnswerAfterATrap
<1>1. Init => TrapInv
  BY DEF Init, MachineInit, TrapInv
<1>2. TrapInv => NoAnswerAfterATrap
  BY DEF TrapInv, NoAnswerAfterATrap
<1> QED
  BY <1>1, <1>2, NextKeepsTrap, PTL DEF Spec

(* A total is the last of the running sums of its terms.                   *)
LEMMA TotalIsASum ==
  ASSUME NEW K \in Nat, NEW w \in [1..K -> Nat]
  PROVE  SumIs(K, w, total(w))
<1> DEFINE Sums(f) == f = [n \in 0..K |-> IF n = 0 THEN 0 ELSE f[n - 1] + w[n]]
           sum == CHOOSE f : Sums(f)
<1>1. w \in Seq(Nat) /\ Len(w) = K
  OBVIOUS
<1>2. total(w) = sum[K]
  BY <1>1 DEF total
<1>3. Sums(sum)
  <2>1. PICK f \in [0..K -> Nat] : RunningSum(f, K, w)
    BY SumExists
  <2>2. \A n \in 1..K : f[n] = f[n - 1] + w[n]
    BY <2>1 DEF RunningSum
  <2>3. f[0] = 0
    BY <2>1 DEF RunningSum
  <2>4. Sums(f)
    BY <2>1, <2>2, <2>3
  <2> HIDE DEF Sums
  <2> QED  BY <2>4
<1>4. RunningSum(sum, K, w)
  <2> HIDE DEF sum
  <2> QED  BY <1>3 DEF RunningSum
<1> HIDE DEF sum
<1> QED  BY <1>2, <1>4 DEF SumIs

(* What stepsOf computes, axis by axis from the last.                      *)
Steps(step, shape) ==
  /\ step \in [0..Len(shape) -> Nat \ {0}]
  /\ step[Len(shape)] = 1
  /\ \A n \in 0..Len(shape) - 1 : step[n] = shape[n + 1] * step[n + 1]

(* The steps are those of the recurrence, and positive.                    *)
LEMMA StepsMultiply ==
  ASSUME NEW shape \in Seq(Nat \ {0})
  PROVE  Steps(stepsOf(shape), shape)
<1> DEFINE K == Len(shape)
           S == Nat \ {0}
           Counts(f) == f = [n \in 0..K |-> IF n = K THEN 1 ELSE shape[n + 1] * f[n + 1]]
           step == CHOOSE f : Counts(f)
<1>1. K \in Nat /\ \A n \in 1..K : shape[n] \in S
  OBVIOUS
<1>2. stepsOf(shape) = step
  BY DEF stepsOf
<1>3. \E f \in [0..K -> S] : Counts(f)
  <2> DEFINE turn == [m \in 1..K |-> [s \in S |-> shape[K - m + 1] * s]]
  <2>1. turn \in StepsOn(K, S) /\ 1 \in S
    <3>1. \A m \in 1..K : K - m + 1 \in 1..K
      BY <1>1
    <3>2. \A m \in 1..K : \A s \in S : shape[K - m + 1] * s \in S
      <4>1. \A a, b \in S : a * b \in S
        OBVIOUS
      <4> QED  BY <1>1, <3>1, <4>1
    <3> QED  BY <3>2 DEF StepsOn
  <2>2. \A m \in 1..K : \A s \in S : turn[m][s] = shape[K - m + 1] * s
    OBVIOUS
  <2> HIDE DEF turn, S
  <2>3. PICK g : Unrolls(g, K, S, 1, turn)
    BY <1>1, <2>1, Recursion
  <2> DEFINE f == [n \in 0..K |-> g[K - n]]
  <2>4. f \in [0..K -> S]
    BY <1>1, <2>3 DEF Unrolls
  <2>5. f[K] = 1
    BY <1>1, <2>3 DEF Unrolls
  <2>6. ASSUME NEW n \in 0..K, n # K PROVE f[n] = shape[n + 1] * f[n + 1]
    <3>1. K - n \in 1..K /\ (K - n) - 1 = K - (n + 1) /\ K - (K - n) + 1 = n + 1 /\ n + 1 \in 0..K
      BY <1>1, <2>6
    <3>2. g[K - (n + 1)] \in S
      BY <3>1, <2>3 DEF Unrolls
    <3>3. g[K - n] = shape[n + 1] * g[K - (n + 1)]
      BY <2>2, <2>3, <3>1, <3>2 DEF Unrolls
    <3> QED  BY <3>1, <3>3
  <2>7. Counts(f)
    <3> HIDE DEF f, K
    <3>1. DOMAIN f = 0..K /\ f = [n \in 0..K |-> f[n]]
      BY <2>4
    <3> QED  BY <2>5, <2>6, <3>1
  <2> HIDE DEF f, Counts
  <2> QED  BY <2>4, <2>7
<1>4. Counts(step)
  <2> HIDE DEF Counts, S
  <2> QED  BY <1>3
<1> HIDE DEF step
<1>5. step[K] = 1 /\ \A n \in 0..K - 1 : step[n] = shape[n + 1] * step[n + 1]
  BY <1>1, <1>4
<1>6. \A n \in 0..K : step[n] \in S
  <2> DEFINE T == {m \in Nat : m <= K => step[K - m] \in S}
  <2>1. 0 \in T
    BY <1>1, <1>5
  <2>2. ASSUME NEW m \in T PROVE m + 1 \in T
    <3> SUFFICES ASSUME m + 1 <= K PROVE step[K - (m + 1)] \in S
      OBVIOUS
    <3>1. K - (m + 1) \in 0..K - 1 /\ (K - (m + 1)) + 1 = K - m /\ K - m \in 1..K
      BY <1>1
    <3>2. step[K - m] \in S /\ shape[K - m] \in S
      BY <1>1, <3>1
    <3>3. step[K - (m + 1)] = shape[K - m] * step[K - m]
      BY <1>5, <3>1
    <3> QED  BY <3>2, <3>3
  <2>3. T \subseteq Nat
    OBVIOUS
  <2> HIDE DEF T
  <2>4. \A m \in Nat : m \in T
    BY <2>1, <2>2, <2>3, Induct
  <2>5. ASSUME NEW n \in 0..K PROVE step[n] \in S
    <3>1. K - n \in Nat /\ K - n <= K /\ K - (K - n) = n
      BY <1>1
    <3>2. K - n \in T
      BY <2>4, <3>1
    <3> QED  BY <3>1, <3>2 DEF T
  <2> QED  BY <2>5
<1>7. step = [n \in 0..K |-> step[n]]
  BY <1>4
<1> QED  BY <1>1, <1>2, <1>5, <1>6, <1>7 DEF Steps

(* The index an odometer shows is inside the shape.                        *)
LEMMA IndexIsInside ==
  ASSUME NEW shape \in Seq(Nat \ {0}), NEW p \in Nat
  PROVE  \A n \in 1..Len(shape) : odometer(shape, p)[n] \in 0..shape[n] - 1
<1>1. Steps(stepsOf(shape), shape)
  BY StepsMultiply
<1> SUFFICES ASSUME NEW n \in 1..Len(shape) PROVE odometer(shape, p)[n] \in 0..shape[n] - 1
  OBVIOUS
<1>2. DOMAIN shape = 1..Len(shape)
  OBVIOUS
<1>3. odometer(shape, p)[n] = (p \div stepsOf(shape)[n]) % shape[n]
  BY <1>2 DEF odometer, rowMajor
<1>4. stepsOf(shape)[n] \in Nat \ {0} /\ shape[n] \in Nat \ {0}
  BY <1>1 DEF Steps
<1> DEFINE a == stepsOf(shape)[n]
           b == shape[n]
<1>5. a \in Nat \ {0} /\ b \in Nat \ {0}
  BY <1>4
<1> HIDE DEF a, b
<1>6. (p \div a) % b \in 0..b - 1
  <2>1. p \div a \in Nat
    BY <1>5
  <2> QED  BY <1>5, <2>1
<1> QED  BY <1>3, <1>6 DEF a, b

(* An address is a sum of the index over the strides.                      *)
LEMMA DotIsASum ==
  ASSUME NEW strides \in Seq(Nat), NEW index, \A n \in 1..Len(strides) : index[n] \in Nat
  PROVE  /\ [n \in 1..Len(strides) |-> index[n] * strides[n]] \in [1..Len(strides) -> Nat]
         /\ SumIs(Len(strides), [n \in 1..Len(strides) |-> index[n] * strides[n]], dot(index, strides))
         /\ dot(index, strides) \in Nat
<1> DEFINE K == Len(strides)
           w == [n \in 1..K |-> index[n] * strides[n]]
<1>1. K \in Nat /\ DOMAIN strides = 1..K
  OBVIOUS
<1>2. w \in [1..K -> Nat]
  <2>1. \A a, b \in Nat : a * b \in Nat
    OBVIOUS
  <2>2. \A n \in 1..K : index[n] \in Nat /\ strides[n] \in Nat
    OBVIOUS
  <2> QED  BY <2>1, <2>2
<1>3. dot(index, strides) = total(w)
  BY <1>1 DEF dot
<1> HIDE DEF w, K
<1>4. SumIs(K, w, total(w))
  BY <1>1, <1>2, TotalIsASum
<1>5. total(w) \in Nat
  BY <1>1, <1>2, <1>4, SumType
<1> QED  BY <1>2, <1>3, <1>4, <1>5 DEF K, w

(* A sum whose terms but the last are zero.                                *)
LEMMA SumOfLast ==
  ASSUME NEW K \in Nat \ {0}, NEW x \in Nat
  PROVE  SumIs(K, [n \in 1..K |-> IF n = K THEN x ELSE 0], x)
<1> DEFINE f == [n \in 0..K |-> IF n = K THEN x ELSE 0]
           w == [n \in 1..K |-> IF n = K THEN x ELSE 0]
<1>1. f[0] = 0 /\ f[K] = x
  OBVIOUS
<1>2. ASSUME NEW n \in 1..K PROVE f[n] = f[n - 1] + w[n]
  <2>1. n - 1 \in 0..K /\ n - 1 # K /\ n \in 0..K
    OBVIOUS
  <2> QED  BY <2>1
<1> QED  BY <1>1, <1>2 DEF SumIs, RunningSum

(* The walk of the views adds up what moves the pointer and what the       *)
(* layout adds, once.                                                      *)
shiftsOf(v) == [n \in DOMAIN v.chain |-> shiftOf(v.chain[n])]

(* For a value the passes build, the shifts of its chain are where its     *)
(* pointer is plus its offset, which no earlier step has added.            *)
LEMMA ShiftsAddUp ==
  ASSUME NEW v, isBuilt(v), analysable(v), v.type.offset >= 0
  PROVE  /\ pointerOf(v) \in Nat
         /\ v.type.offset * byteWidth(v.type.element) \in Nat
         /\ total(shiftsOf(v)) = pointerOf(v) + v.type.offset * byteWidth(v.type.element)
<1> DEFINE K == Len(v.chain)
           width == byteWidth(v.type.element)
           extra == v.type.offset * width
           pointers == [n \in 1..K |-> IF v.chain[n].op = "view" THEN v.chain[n].bytes ELSE 0]
           layout == [n \in 1..K |-> IF n = K THEN extra ELSE 0]
           shifts == [n \in 1..K |-> shiftOf(v.chain[n])]
<1>1. K \in Nat /\ DOMAIN v.chain = 1..K
  BY DEF isBuilt, isList
<1>2. v.type.offset \in Nat /\ width \in Nat
  BY FloatBytesAssumption DEF isBuilt, isLayout, byteWidth
<1>3. extra \in Nat
  <2> HIDE DEF width
  <2> QED  BY <1>2
<1>4. \A n \in 1..K : v.chain[n].op = "view" => v.chain[n].bytes \in Nat
  BY <1>1 DEF isBuilt
<1>5. pointers \in [1..K -> Nat] /\ layout \in [1..K -> Nat]
  <2> HIDE DEF extra, K
  <2> QED  BY <1>3, <1>4
<1>6. ASSUME NEW n \in 1..K, n # K PROVE shiftOf(v.chain[n]) = pointers[n] + layout[n]
  <2>1. v.chain[n].op = "view"
    BY <1>1, <1>6 DEF isBuilt, analysable
  <2>2. shiftOf(v.chain[n]) = v.chain[n].bytes
    BY <2>1 DEF shiftOf
  <2>3. pointers[n] = v.chain[n].bytes /\ layout[n] = 0
    BY <1>6, <2>1
  <2> QED  BY <1>4, <2>1, <2>2, <2>3
<1>7. ASSUME K # 0 PROVE shiftOf(v.chain[K]) = pointers[K] + layout[K]
  <2> DEFINE step == v.chain[K]
  <2>1. K \in 1..K /\ step.op # "dynamic_view" /\ v.chain # << >>
    BY <1>1, <1>7 DEF analysable
  <2>2. laysOut(step, v.type)
    BY <2>1 DEF isBuilt
  <2>3. layout[K] = extra /\ pointers[K] = IF step.op = "view" THEN step.bytes ELSE 0
    BY <2>1
  <2>4. CASE step.op = "view"
    <3>1. v.type.offset = 0
      BY <2>2, <2>4 DEF laysOut, isContiguous
    <3>2. extra = 0
      <4> HIDE DEF width
      <4> QED  BY <1>2, <3>1
    <3>3. shiftOf(step) = step.bytes /\ step.bytes \in Nat
      BY <1>4, <2>1, <2>4 DEF shiftOf
    <3> HIDE DEF step, extra, layout, pointers
    <3> QED  BY <2>3, <2>4, <3>2, <3>3 DEF step
  <2>5. CASE step.op = "reinterpret_cast"
    <3>1. shiftOf(step) = extra
      BY <2>2, <2>5 DEF shiftOf, laysOut
    <3> HIDE DEF step, extra, layout, pointers
    <3> QED  BY <1>3, <2>3, <2>5, <3>1 DEF step
  <2>6. CASE step.op = "subview"
    <3>1. /\ step.source.strides = rowMajor(step.source.shape)
          /\ step.source.element = v.type.element
          /\ v.type.offset = dot(step.offsets, step.source.strides)
      BY <2>2, <2>6 DEF laysOut, isContiguous
    <3>2. shiftOf(step) = extra
      BY <2>6, <3>1 DEF shiftOf
    <3> HIDE DEF step, extra, layout, pointers
    <3> QED  BY <1>3, <2>3, <2>6, <3>2 DEF step
  <2> QED  BY <2>1, <2>2, <2>4, <2>5, <2>6 DEF laysOut
<1>8. \A n \in 1..K : shifts[n] = pointers[n] + layout[n]
  <2>1. \A n \in 1..K : shifts[n] = shiftOf(v.chain[n])
    OBVIOUS
  <2> HIDE DEF shifts, pointers, layout
  <2> QED  BY <1>1, <1>6, <1>7, <2>1
<1>9. pointerOf(v) = total(pointers) /\ total(shiftsOf(v)) = total(shifts)
  BY <1>1 DEF pointerOf, shiftsOf
<1>10. shifts \in [1..K -> Nat]
  <2>1. \A n \in 1..K : shifts[n] \in Nat
    <3> HIDE DEF shifts, pointers, layout, K
    <3>1. \A n \in 1..K : pointers[n] \in Nat /\ layout[n] \in Nat
      BY <1>5
    <3> QED  BY <1>8, <3>1
  <2>2. shifts = [n \in 1..K |-> shifts[n]]
    OBVIOUS
  <2> HIDE DEF shifts
  <2> QED  BY <2>1, <2>2
<1>11. SumIs(K, layout, extra)
  <2>1. CASE K = 0
    <3>1. extra = 0
      <4>1. v.chain = << >>
        BY <1>1, <2>1 DEF isBuilt, isList
      <4>2. v.type.offset = 0
        BY <4>1 DEF isBuilt, isContiguous
      <4> HIDE DEF width
      <4> QED  BY <1>2, <4>2
    <3>2. RunningSum([n \in 0..0 |-> 0], K, layout)
      BY <2>1 DEF RunningSum
    <3> HIDE DEF layout, extra
    <3>3. [n \in 0..0 |-> 0][K] = extra
      BY <2>1, <3>1
    <3> QED  BY <3>2, <3>3 DEF SumIs
  <2>2. CASE K # 0
    <3>1. K \in Nat \ {0}
      BY <1>1, <2>2
    <3> HIDE DEF K, extra
    <3> QED  BY <1>3, <3>1, SumOfLast
  <2> QED  BY <2>1, <2>2
<1> HIDE DEF shifts, pointers, layout, extra, K
<1>12. SumIs(K, pointers, total(pointers)) /\ SumIs(K, shifts, total(shifts))
  BY <1>1, <1>5, <1>10, TotalIsASum
<1>13. total(pointers) \in Nat
  BY <1>1, <1>5, <1>12, SumType
<1>14. Adds(K, pointers, layout, shifts)
  BY <1>8 DEF Adds
<1>15. total(shifts) = total(pointers) + extra
  BY <1>1, <1>5, <1>10, <1>11, <1>12, <1>14, SumsAdd
<1> QED  BY <1>3, <1>9, <1>13, <1>15 DEF extra

-----------------------------------------------------------------------------
(* Every region has its root, and a root at most one region.               *)
RootsOnce ==
  /\ \A p \in dramAddresses : p.root.kind # "arena"
  /\ \A p, q \in dramAddresses : p.root = q.root => p = q

(* A region that is placed begins at one address, and the arena has none.  *)
LEMMA PlacedOnce ==
  ASSUME LayoutInv, RootsOnce, NEW root, NEW a \in placedAt(root)
  PROVE  a \in Nat /\ root # Arena /\ a = CHOOSE b \in placedAt(root) : TRUE
<1>1. PICK p \in dramAddresses : p.root = root /\ p.offset = a
  BY DEF placedAt
<1>2. \A b \in placedAt(root) : b = a
  BY <1>1 DEF placedAt, RootsOnce
<1>3. a \in Nat
  BY <1>1 DEF LayoutInv, placed
<1>4. root # Arena
  BY <1>1 DEF RootsOnce, Arena
<1> QED  BY <1>2, <1>3, <1>4

(* The address of an encoded operand is where its first element would be.  *)
LEMMA OperandPlace ==
  ASSUME LayoutInv, RootsOnce, NEW v, isBuilt(v), NEW o \in makeOperand(v)
  PROVE  /\ o.strides = v.type.strides
         /\ v.type.strides \in Seq(Nat) /\ Len(v.type.strides) = Len(v.type.shape)
         /\ baseOf(v) \in Nat /\ pointerOf(v) \in Nat /\ v.type.offset \in Nat
         /\ o.address = baseOf(v) + (pointerOf(v) + v.type.offset * byteWidth(v.type.element))
<1>1. layoutEncodes(v) /\ o.strides = v.type.strides /\ o.address \in addressOf(v)
  BY DEF makeOperand
<1>2. v.type.offset \in Nat
  BY <1>1 DEF layoutEncodes, isBuilt, isLayout
<1>3. v.type.strides \in Seq(Nat) /\ Len(v.type.strides) = Len(v.type.shape)
  <2> DEFINE s == v.type.strides
  <2>1. s \in Seq(Int) /\ \A n \in DOMAIN s : s[n] >= 0
    BY <1>1 DEF layoutEncodes, isBuilt, isLayout
  <2> HIDE DEF s
  <2>2. s \in Seq(Nat)
    BY <2>1
  <2> QED  BY <2>2 DEF s, isBuilt, isLayout
<1>4. CASE analysable(v)
  <2> DEFINE range == [base |-> v.root, offset |-> total(shiftsOf(v)), size |-> byteSpan(v.type)]
  <2>0. spanIsKnown(v.type)
    BY <1>1 DEF layoutEncodes, spanIsKnown
  <2>1. computeBufferRange(v) = {range}
    BY <1>4, <2>0 DEF computeBufferRange, shiftsOf
  <2>2. /\ pointerOf(v) \in Nat
        /\ v.type.offset * byteWidth(v.type.element) \in Nat
        /\ total(shiftsOf(v)) = pointerOf(v) + v.type.offset * byteWidth(v.type.element)
    BY <1>2, <1>4, ShiftsAddUp
  <2>3. range.base = v.root /\ range.offset = total(shiftsOf(v))
    OBVIOUS
  <2> HIDE DEF range
  <2>4. \E base \in Nat : base = baseOf(v) /\ o.address = base + total(shiftsOf(v))
    <3>1. CASE v.type.space = "dram"
      <4>1. PICK a \in placedAt(v.root) : o.address = a + total(shiftsOf(v))
        BY <1>1, <2>1, <2>3, <3>1 DEF addressOf, dramAddressOf
      <4>2. a \in Nat /\ a = baseOf(v)
        BY PlacedOnce DEF baseOf
      <4> QED  BY <4>1, <4>2
    <3>2. CASE v.type.space # "dram"
      <4>1. v.root = Arena /\ o.address = total(shiftsOf(v))
        BY <1>1, <2>1, <2>3, <3>2 DEF addressOf, scratchpadAddressOf
      <4>2. baseOf(v) = 0
        BY <4>1 DEF baseOf
      <4>3. o.address = 0 + total(shiftsOf(v))
        BY <2>2, <4>1
      <4> QED  BY <4>2, <4>3
    <3> QED  BY <3>1, <3>2
  <2> QED  BY <1>1, <1>2, <1>3, <2>2, <2>4
<1>5. CASE ~analysable(v)
  <2>1. computeBufferRange(v) = {}
    BY <1>5 DEF computeBufferRange
  <2>2. v.chain = << >> /\ o.address \in placedAt(v.root)
    BY <1>1, <2>1 DEF addressOf, dramAddressOf, scratchpadAddressOf
  <2>3. o.address \in Nat /\ o.address = baseOf(v)
    BY <2>2, PlacedOnce DEF baseOf
  <2>4. v.type.offset = 0
    BY <2>2 DEF isBuilt, isContiguous
  <2>5. pointerOf(v) = 0
    <3> DEFINE w == [n \in 1..0 |-> IF v.chain[n].op = "view" THEN v.chain[n].bytes ELSE 0]
    <3>1. DOMAIN v.chain = 1..0
      BY <2>2
    <3>2. pointerOf(v) = total(w)
      BY <3>1 DEF pointerOf
    <3>3. w \in [1..0 -> Nat]
      OBVIOUS
    <3> HIDE DEF w
    <3>4. SumIs(0, w, total(w))
      BY <3>3, TotalIsASum
    <3> QED  BY <3>2, <3>4 DEF SumIs, RunningSum
  <2>6. v.type.offset * byteWidth(v.type.element) = 0
    <3>1. byteWidth(v.type.element) \in Nat
      BY FloatBytesAssumption DEF byteWidth
    <3> QED  BY <2>4, <3>1
  <2> QED  BY <1>1, <1>2, <1>3, <2>3, <2>5, <2>6
<1> QED  BY <1>4, <1>5

(* So every element is addressed where the value has it.                   *)
LEMMA PlaceAddressesElements ==
  ASSUME NEW v, isBuilt(v), v.type.strides \in Seq(Nat), Len(v.type.strides) = Len(v.type.shape),
         baseOf(v) \in Nat, pointerOf(v) \in Nat, v.type.offset \in Nat,
         NEW o, o.strides = v.type.strides,
         o.address = baseOf(v) + (pointerOf(v) + v.type.offset * byteWidth(v.type.element))
  PROVE  addresses(o, v)
<1> SUFFICES ASSUME NEW p \in turns(v.type.shape)
             PROVE  LET index == odometer(v.type.shape, p)
                    IN  o.address + dot(index, o.strides) * byteWidth(v.type.element) = baseOf(v) + elementOf(v, index)
  BY DEF addresses
<1> DEFINE index == odometer(v.type.shape, p)
           d == dot(index, v.type.strides)
           width == byteWidth(v.type.element)
<1>1. v.type.shape \in Seq(Nat \ {0})
  BY DEF isBuilt, isLayout
<1>2. p \in Nat
  BY DEF turns
<1>3. \A n \in 1..Len(v.type.shape) : index[n] \in Nat
  <2>1. \A n \in 1..Len(v.type.shape) : index[n] \in 0..v.type.shape[n] - 1
    BY <1>1, <1>2, IndexIsInside
  <2>2. \A n \in 1..Len(v.type.shape) : v.type.shape[n] \in Nat
    BY <1>1
  <2> HIDE DEF index
  <2> QED  BY <2>1, <2>2
<1>4. d \in Nat
  <2> HIDE DEF index
  <2> QED  BY <1>3, DotIsASum
<1>5. width \in Nat
  BY FloatBytesAssumption DEF byteWidth
<1>6. elementOf(v, index) = pointerOf(v) + (v.type.offset + d) * width
  BY DEF elementOf
<1>7. \A b, q, t, x, w \in Nat : (b + (q + t * w)) + x * w = b + (q + (t + x) * w)
  OBVIOUS
<1> HIDE DEF index, d, width
<1>8. (baseOf(v) + (pointerOf(v) + v.type.offset * width)) + d * width = baseOf(v) + (pointerOf(v) + (v.type.offset + d) * width)
  BY <1>4, <1>5, <1>7
<1> QED  BY <1>6, <1>8 DEF d, width, index

-----------------------------------------------------------------------------
(* A list, of anything.                                                    *)
aList(s) == \E T : s \in Seq(T)

LEMMA Listed == ASSUME NEW s, isList(s) PROVE aList(s)
BY DEF isList, aList

LEMMA ListFacts ==
  ASSUME NEW s, aList(s)
  PROVE  Len(s) \in Nat /\ DOMAIN s = 1..Len(s)
BY DEF aList

LEMMA Appended ==
  ASSUME NEW s, aList(s), NEW e
  PROVE  /\ aList(Append(s, e)) /\ Len(Append(s, e)) = Len(s) + 1
         /\ \A n \in 1..Len(s) : Append(s, e)[n] = s[n]
         /\ Append(s, e)[Len(s) + 1] = e
<1>1. PICK T : s \in Seq(T)
  BY DEF aList
<1>2. s \in Seq(T \cup {e}) /\ e \in T \cup {e}
  BY <1>1
<1>3. Append(s, e) \in Seq(T \cup {e})
  BY <1>2
<1> QED  BY <1>1, <1>2, <1>3 DEF aList

LEMMA TailFacts ==
  ASSUME NEW s, aList(s), s # << >>
  PROVE  /\ aList(Tail(s)) /\ Len(Tail(s)) = Len(s) - 1 /\ Len(s) > 0
         /\ \A n \in 1..Len(s) - 1 : Tail(s)[n] = s[n + 1]
         /\ Head(s) = s[1]
BY DEF aList

(* Two lists without repetitions and with nothing in common.               *)
Distinct(s) == \A m, n \in 1..Len(s) : s[m] = s[n] => m = n

(* One list after another.                                                 *)
LEMMA Joined ==
  ASSUME NEW s, NEW t, aList(s), aList(t)
  PROVE  /\ aList(s \o t)
         /\ \A n \in 1..Len(s \o t) :
              \/ n \in 1..Len(s) /\ (s \o t)[n] = s[n]
              \/ n - Len(s) \in 1..Len(t) /\ (s \o t)[n] = t[n - Len(s)]
<1>1. PICK S, T : s \in Seq(S) /\ t \in Seq(T)
  BY DEF aList
<1>2. s \in Seq(S \cup T) /\ t \in Seq(S \cup T)
  BY <1>1
<1>3. s \o t \in Seq(S \cup T)
  BY <1>2
<1> QED  BY <1>2, <1>3 DEF aList

(* Two lists with nothing in common repeat nothing when they are joined.   *)
LEMMA JoinedDistinct ==
  ASSUME NEW s, NEW t, aList(s), aList(t), Distinct(s), Distinct(t),
         \A m \in 1..Len(s), n \in 1..Len(t) : s[m] # t[n]
  PROVE  Distinct(s \o t)
<1> DEFINE u == s \o t
<1>1. \A n \in 1..Len(u) :
              \/ n \in 1..Len(s) /\ u[n] = s[n]
              \/ n - Len(s) \in 1..Len(t) /\ u[n] = t[n - Len(s)]
  BY Joined
<1>2. Len(s) \in Nat /\ Len(t) \in Nat
  BY ListFacts
<1>3. aList(u)
  BY Joined
<1> HIDE DEF u
<1>4. Len(u) \in Nat
  BY <1>3, ListFacts
<1> SUFFICES ASSUME NEW m \in 1..Len(u), NEW n \in 1..Len(u), u[m] = u[n] PROVE m = n
  BY DEF Distinct, u
<1>5. m \in Nat /\ n \in Nat
  BY <1>4
<1>6. CASE m \in 1..Len(s) /\ u[m] = s[m] /\ n \in 1..Len(s) /\ u[n] = s[n]
  BY <1>6 DEF Distinct
<1>7. CASE m - Len(s) \in 1..Len(t) /\ u[m] = t[m - Len(s)] /\ n - Len(s) \in 1..Len(t) /\ u[n] = t[n - Len(s)]
  <2>1. m - Len(s) = n - Len(s)
    BY <1>7 DEF Distinct
  <2> QED  BY <1>2, <1>5, <2>1
<1> QED  BY <1>1, <1>6, <1>7

(* The regions in the order they are placed: none twice.                   *)
Roots(s, kinds) == aList(s) /\ Distinct(s) /\ \A n \in 1..Len(s) : s[n].kind \in kinds

(* The kinds of the regions of two lists that are joined.                  *)
LEMMA RootsJoin ==
  ASSUME NEW s, NEW t, NEW X, NEW Y, Roots(s, X), Roots(t, Y),
         \A m \in 1..Len(s), n \in 1..Len(t) : s[m] # t[n]
  PROVE  Roots(s \o t, X \cup Y)
<1>1. aList(s \o t) /\ Distinct(s \o t)
  BY Joined, JoinedDistinct DEF Roots
<1>2. \A n \in 1..Len(s \o t) : (s \o t)[n].kind \in X \cup Y
  <2> DEFINE u == s \o t
  <2>1. \A n \in 1..Len(u) :
              \/ n \in 1..Len(s) /\ u[n] = s[n]
              \/ n - Len(s) \in 1..Len(t) /\ u[n] = t[n - Len(s)]
    BY Joined DEF Roots
  <2> HIDE DEF u
  <2>2. \A n \in 1..Len(u) : u[n].kind \in X \cup Y
    BY <2>1 DEF Roots
  <2> QED  BY <2>2 DEF u
<1> QED  BY <1>1, <1>2 DEF Roots

LEMMA Tabulated ==
  ASSUME NEW K \in Nat, NEW s, DOMAIN s = 1..K, s = [n \in 1..K |-> s[n]]
  PROVE  aList(s) /\ Len(s) = K
<1>1. s \in Seq({s[n] : n \in 1..K}) /\ Len(s) = K
  OBVIOUS
<1> QED  BY <1>1 DEF aList

(* The arguments of one kind (collectRegions), and the constants and the   *)
(* slots, are each listed once.                                            *)
LEMMA KindIsAList ==
  ASSUME isFunction(function), NEW kind
  PROVE  LET s == [n \in 1..Cardinality(ofKind(kind)) |-> argumentRoot(inOrder(ofKind(kind))[n])]
         IN  /\ Roots(s, {"argument"})
             /\ \A n \in 1..Len(s) : \E m \in ofKind(kind) : s[n] = argumentRoot(m)
<1> DEFINE S == ofKind(kind)
           A == Len(function.arguments)
           C == Cardinality(S)
           s == [n \in 1..C |-> argumentRoot(inOrder(S)[n])]
<1>1. A \in Nat /\ DOMAIN function.arguments = 1..A
  BY DEF isFunction, isList
<1>2. S \in SUBSET (1..A)
  BY <1>1 DEF ofKind
<1> HIDE DEF S, A
<1>3. /\ \A k \in 1..C : inOrder(S)[k] \in S /\ rankOf(inOrder(S)[k], S) = k
      /\ C \in Nat
  BY <1>1, <1>2, InOrder
<1> HIDE DEF C
<1>4. aList(s) /\ Len(s) = C /\ \A n \in 1..C : s[n] = argumentRoot(inOrder(S)[n])
  BY <1>3, Tabulated
<1> HIDE DEF s
<1>5. Distinct(s)
  <2> SUFFICES ASSUME NEW m \in 1..C, NEW n \in 1..C, s[m] = s[n] PROVE m = n
    BY <1>4 DEF Distinct
  <2>1. argumentRoot(inOrder(S)[m]).number = argumentRoot(inOrder(S)[n]).number
    BY <1>4
  <2>2. inOrder(S)[m] = inOrder(S)[n]
    BY <2>1 DEF argumentRoot
  <2> QED  BY <1>3, <2>2
<1>6. \A n \in 1..C : s[n].kind = "argument"
  BY <1>4 DEF argumentRoot
<1>7. \A n \in 1..Len(s) : \E m \in S : s[n] = argumentRoot(m)
  BY <1>3, <1>4
<1>8. Roots(s, {"argument"})
  BY <1>4, <1>5, <1>6 DEF Roots
<1> QED  BY <1>7, <1>8 DEF s, C, S

LEMMA NumberedRoots ==
  ASSUME NEW list, isList(list)
  PROVE  /\ Roots([n \in DOMAIN list |-> constantRoot(n)], {"const"})
         /\ Roots([n \in DOMAIN list |-> slotRoot(n)], {"slot"})
<1> DEFINE K == Len(list)
           c == [n \in 1..K |-> constantRoot(n)]
           t == [n \in 1..K |-> slotRoot(n)]
<1>1. K \in Nat /\ DOMAIN list = 1..K
  BY DEF isList
<1> HIDE DEF K
<1>2. aList(c) /\ Len(c) = K /\ aList(t) /\ Len(t) = K
  BY <1>1, Tabulated
<1>3. \A n \in 1..K : c[n].kind = "const" /\ c[n].number = n /\ t[n].kind = "slot" /\ t[n].number = n
  BY DEF constantRoot, slotRoot
<1> HIDE DEF c, t
<1>4. Distinct(c) /\ Distinct(t)
  <2>1. \A m, n \in 1..K : c[m] = c[n] => m = n
    BY <1>3
  <2>2. \A m, n \in 1..K : t[m] = t[n] => m = n
    BY <1>3
  <2> QED  BY <1>2, <2>1, <2>2 DEF Distinct
<1>5. Roots(c, {"const"}) /\ Roots(t, {"slot"})
  BY <1>2, <1>3, <1>4 DEF Roots
<1> QED  BY <1>1, <1>5 DEF c, t

(* No region is laid out twice.                                            *)
LEMMA RegionsAreDistinct ==
  ASSUME isFunction(function)
  PROVE  Roots(regionsInOrder, {"argument", "const", "slot"})
<1> DEFINE list(kind) == [n \in 1..Cardinality(ofKind(kind)) |-> argumentRoot(inOrder(ofKind(kind))[n])]
           a == list("in")
           b == list("out")
           c == [n \in DOMAIN function.constants |-> constantRoot(n)]
           t == [n \in DOMAIN function.slots |-> slotRoot(n)]
<1>1. regionsInOrder = ((a \o b) \o c) \o t
  BY DEF regionsInOrder
<1>2. /\ Roots(a, {"argument"}) /\ \A n \in 1..Len(a) : \E m \in ofKind("in") : a[n] = argumentRoot(m)
      /\ Roots(b, {"argument"}) /\ \A n \in 1..Len(b) : \E m \in ofKind("out") : b[n] = argumentRoot(m)
  BY KindIsAList
<1>3. Roots(c, {"const"}) /\ Roots(t, {"slot"})
  BY NumberedRoots DEF isFunction
<1> HIDE DEF a, b, c, t, list
<1>4. \A m \in 1..Len(a), n \in 1..Len(b) : a[m] # b[n]
  <2> SUFFICES ASSUME NEW m \in 1..Len(a), NEW n \in 1..Len(b), a[m] = b[n] PROVE FALSE
    OBVIOUS
  <2>1. PICK i \in ofKind("in"), o \in ofKind("out") : argumentRoot(i) = argumentRoot(o)
    BY <1>2
  <2>2. argumentRoot(i).number = argumentRoot(o).number
    BY <2>1
  <2>3. i = o
    BY <2>2 DEF argumentRoot
  <2> QED  BY <2>1, <2>3 DEF ofKind
<1>5. Roots(a \o b, {"argument"} \cup {"argument"})
  BY <1>2, <1>4, RootsJoin
<1>6. Roots((a \o b) \o c, ({"argument"} \cup {"argument"}) \cup {"const"})
  <2> DEFINE ab == a \o b
  <2>1. Roots(ab, {"argument"} \cup {"argument"})
    BY <1>5
  <2> HIDE DEF ab
  <2>2. \A m \in 1..Len(ab), n \in 1..Len(c) : ab[m] # c[n]
    BY <1>3, <2>1 DEF Roots
  <2>3. Roots(ab \o c, ({"argument"} \cup {"argument"}) \cup {"const"})
    BY <1>3, <2>1, <2>2, RootsJoin
  <2> QED  BY <2>3 DEF ab
<1>7. Roots(((a \o b) \o c) \o t, (({"argument"} \cup {"argument"}) \cup {"const"}) \cup {"slot"})
  <2> DEFINE abc == (a \o b) \o c
  <2>1. Roots(abc, ({"argument"} \cup {"argument"}) \cup {"const"})
    BY <1>6
  <2> HIDE DEF abc
  <2>2. \A m \in 1..Len(abc), n \in 1..Len(t) : abc[m] # t[n]
    BY <1>3, <2>1 DEF Roots
  <2>3. Roots(abc \o t, (({"argument"} \cup {"argument"}) \cup {"const"}) \cup {"slot"})
    BY <1>3, <2>1, <2>2, RootsJoin
  <2> QED  BY <2>3 DEF abc
<1>8. (({"argument"} \cup {"argument"}) \cup {"const"}) \cup {"slot"} = {"argument", "const", "slot"}
  OBVIOUS
<1> QED  BY <1>1, <1>7, <1>8

-----------------------------------------------------------------------------
(* The job never changes, and only what the passes leave is encoded.       *)
JobInv ==
  /\ job \in Jobs /\ function = job.function
  /\ stage \notin {"encode", "refused"} => job.programs = {}

(* What is still to be placed has not been placed.                         *)
RootsInv ==
  /\ RootsOnce
  /\ stage = "encode" => dramAddresses = {}
  /\ stage = "layout" => /\ Roots(queue, {"argument", "const", "slot"})
                         /\ \A n \in 1..Len(queue) : \A p \in dramAddresses : p.root # queue[n]

(* Every action outside the encoder leaves its variables alone or refuses. *)
LEMMA OutsideTheEncoder ==
  ASSUME [Next]_vars, ~Encode
  PROVE  /\ UNCHANGED <<function, queue, cursor, dramAddresses, instructions, debug, job>>
         /\ stage' = stage \/ stage' = "refused"
BY DEF Next, vars, WriteFile, refuse, Damage, Open, Read, EndDecode, StartSimulator, Simulate, encoderVars

LEMMA JobIsKept == JobInv /\ [Next]_vars => JobInv'
<1> SUFFICES ASSUME JobInv, [Next]_vars PROVE JobInv'
  OBVIOUS
<1>1. CASE Encode
  <2>1. UNCHANGED <<job, function>> /\ job.programs = {}
    BY <1>1 DEF Encode, EncoderNext, ReadAttributes, PlaceRegion, EndLayout, EncodeOperation, EncodeHalt, refuse
  <2> QED  BY <2>1 DEF JobInv
<1>2. CASE ~Encode
  BY <1>2, OutsideTheEncoder DEF JobInv
<1> QED  BY <1>1, <1>2

LEMMA EncodesWhatIsLeft ==
  ASSUME AsThePassesLeaveIt, JobInv, job.programs = {}
  PROVE  isFunction(function)
BY DEF AsThePassesLeaveIt, JobInv

(* No region is placed twice.                                              *)
LEMMA RootsAreKept ==
  ASSUME AsThePassesLeaveIt, JobInv, RootsInv, [Next]_vars
  PROVE  RootsInv'
<1>1. CASE Encode
  <2>1. isFunction(function)
    BY <1>1, EncodesWhatIsLeft DEF Encode
  <2>2. CASE ReadAttributes
    <3>1. CASE stage' = "refused"
      BY <2>2, <3>1 DEF ReadAttributes, refuse, RootsInv, RootsOnce
    <3>2. CASE stage' # "refused"
      <4>1. stage' = "layout" /\ queue' = regionsInOrder /\ dramAddresses' = dramAddresses /\ dramAddresses = {}
        BY <2>2, <3>2 DEF ReadAttributes, refuse, RootsInv
      <4>2. Roots(queue', {"argument", "const", "slot"})
        BY <2>1, <4>1, RegionsAreDistinct
      <4> QED  BY <4>1, <4>2 DEF RootsInv, RootsOnce, Roots, aList, Distinct
    <3> QED  BY <3>1, <3>2
  <2>3. CASE PlaceRegion
    <3>1. CASE stage' = "refused"
      <4>1. dramAddresses' = dramAddresses
        BY <2>3, <3>1 DEF PlaceRegion, refuse
      <4> QED  BY <3>1, <4>1 DEF RootsInv, RootsOnce
    <3>2. CASE stage' # "refused"
      <4>1. PICK size : /\ dramAddresses' = dramAddresses \cup
                             {[root |-> Head(queue), offset |-> alignUp(cursor), bytes |-> size]}
                        /\ queue' = Tail(queue) /\ stage' = stage
        BY <2>3, <3>2 DEF PlaceRegion, refuse
      <4>2. stage = "layout" /\ queue # << >>
        BY <2>3 DEF PlaceRegion
      <4>3. Roots(queue, {"argument", "const", "slot"}) /\ \A n \in 1..Len(queue) : \A p \in dramAddresses : p.root # queue[n]
        BY <4>2 DEF RootsInv
      <4>4. /\ aList(Tail(queue)) /\ Len(Tail(queue)) = Len(queue) - 1 /\ Len(queue) > 0 /\ Len(queue) \in Nat
            /\ \A n \in 1..Len(queue) - 1 : Tail(queue)[n] = queue[n + 1]
            /\ Head(queue) = queue[1]
        BY <4>2, <4>3, TailFacts, ListFacts DEF Roots
      <4> DEFINE new == [root |-> Head(queue), offset |-> alignUp(cursor), bytes |-> size]
                 rest == Tail(queue)
      <4>5. new.root = queue[1] /\ dramAddresses' = dramAddresses \cup {new} /\ queue' = rest
        BY <4>1, <4>4
      <4> HIDE DEF new, rest
      <4>6. \A n \in 1..Len(rest) : n + 1 \in 1..Len(queue) /\ rest[n] = queue[n + 1] /\ n + 1 # 1 /\ n \in Nat
        BY <4>4 DEF rest
      <4>7. 1 \in 1..Len(queue)
        BY <4>4
      <4>8. Roots(rest, {"argument", "const", "slot"})
        <5>1. Distinct(rest)
          <6> SUFFICES ASSUME NEW m \in 1..Len(rest), NEW n \in 1..Len(rest), rest[m] = rest[n] PROVE m = n
            BY DEF Distinct
          <6>1. m + 1 = n + 1
            BY <4>3, <4>6 DEF Roots, Distinct
          <6> QED  BY <4>6, <6>1
        <5>2. aList(rest)
          BY <4>4 DEF rest
        <5> QED  BY <4>3, <4>6, <5>1, <5>2 DEF Roots
      <4>9. \A n \in 1..Len(rest) : \A p \in dramAddresses \cup {new} : p.root # rest[n]
        <5>1. \A n \in 1..Len(rest) : new.root # rest[n]
          BY <4>3, <4>5, <4>6, <4>7 DEF Roots, Distinct
        <5> QED  BY <4>3, <4>6, <5>1
      <4>10. \A p \in dramAddresses : p.root # new.root
        BY <4>3, <4>5, <4>7
      <4>11. new.root.kind # "arena"
        BY <4>3, <4>5, <4>7 DEF Roots
      <4>12. RootsOnce'
        BY <4>5, <4>10, <4>11 DEF RootsInv, RootsOnce
      <4>13. Roots(queue', {"argument", "const", "slot"}) /\ \A n \in 1..Len(queue') : \A p \in dramAddresses' : p.root # queue'[n]
        BY <4>5, <4>8, <4>9
      <4>14. stage' = "layout"
        BY <4>1, <4>2
      <4> QED  BY <4>12, <4>13, <4>14 DEF RootsInv, Roots, aList, Distinct
    <3> QED  BY <3>1, <3>2
  <2>4. CASE EndLayout \/ EncodeOperation \/ EncodeHalt
    <3>1. dramAddresses' = dramAddresses /\ stage' \in {"body", "encoded", "refused"}
      BY <2>4 DEF EndLayout, EncodeOperation, EncodeHalt, refuse
    <3> QED  BY <3>1 DEF RootsInv, RootsOnce
  <2> QED  BY <1>1, <2>2, <2>3, <2>4 DEF Encode, EncoderNext
<1>2. CASE ~Encode
  <2>1. UNCHANGED <<queue, dramAddresses>> /\ (stage' = stage \/ stage' = "refused")
    BY <1>2, OutsideTheEncoder
  <2> QED  BY <2>1 DEF RootsInv, RootsOnce, Roots, aList, Distinct
<1> QED  BY <1>1, <1>2

-----------------------------------------------------------------------------
(* The body.                                                               *)
namedPositions ==
  {n \in encodedPositions : ~function.stripDebug /\ function.body[n].location # << >>}

(* What stands for the operations up to a position.                        *)
Emitted(p) ==
  \A n \in encodedPositions : n <= p =>
    /\ rankOf(n, encodedPositions) \in 1..Len(instructions)
    /\ instructions[rankOf(n, encodedPositions)] \in encodingsOf(function.body[n])

Named(p) ==
  /\ Len(debug) = rankOf(p, namedPositions)
  /\ \A n \in namedPositions : n <= p =>
       \E d \in 1..Len(debug) :
         debug[d] = [pc |-> rankOf(n, encodedPositions) - 1, name |-> function.body[n].location]

(* The queue is the body without the operations encoded so far.            *)
done == Len(function.body) - Len(queue)

BodyInv ==
  /\ aList(instructions) /\ aList(debug)
  /\ stage \in {"encode", "layout"} => instructions = << >> /\ debug = << >>
  /\ stage = "body" => /\ aList(queue) /\ Len(queue) <= Len(function.body)
                       /\ \A i \in 1..Len(queue) : queue[i] = function.body[done + i]
                       /\ Len(instructions) = rankOf(done, encodedPositions)
                       /\ Emitted(done) /\ Named(done)
  /\ stage = "encoded" => Emitted(Len(function.body)) /\ Named(Len(function.body))

(* What is emitted stands when one more instruction follows it.            *)
LEMMA EncodingsKept ==
  ASSUME UNCHANGED <<function, dramAddresses>>
  PROVE  \A operation : encodingsOf(operation)' = encodingsOf(operation)
<1>1. \A root : placedAt(root)' = placedAt(root)
  BY DEF placedAt
<1>2. ASSUME NEW v PROVE addressOf(v)' = addressOf(v)
  <2>1. dramAddressOf(v)' = dramAddressOf(v)
    BY <1>1 DEF dramAddressOf
  <2>2. scratchpadAddressOf(v)' = scratchpadAddressOf(v)
    BY DEF scratchpadAddressOf
  <2> QED  BY <2>1, <2>2 DEF addressOf
<1>3. ASSUME NEW v PROVE makeOperand(v)' = makeOperand(v)
  BY <1>2 DEF makeOperand
<1>4. ASSUME NEW operation PROVE encodingsOf(operation)' = encodingsOf(operation)
  <2>1. operandLists(operation)' = operandLists(operation)
    BY <1>3 DEF operandLists
  <2> QED  BY <1>3, <2>1 DEF encodingsOf
<1> QED  BY <1>4

(* The positions of the operations that are encoded, and of those that are *)
(* named.                                                                  *)
LEMMA Positions ==
  ASSUME isFunction(function)
  PROVE  /\ Len(function.body) \in Nat /\ DOMAIN function.body = 1..Len(function.body)
         /\ encodedPositions \in SUBSET (1..Len(function.body))
         /\ namedPositions \in SUBSET (1..Len(function.body))
         /\ namedPositions \subseteq encodedPositions
BY DEF isFunction, isList, encodedPositions, namedPositions

(* Nothing the invariant speaks of changes.                                *)
LEMMA BodyIsKept ==
  ASSUME BodyInv, UNCHANGED <<function, queue, dramAddresses, instructions, debug>>,
         stage' = stage \/ stage' = "refused"
  PROVE  BodyInv'
<1>1. \A operation : encodingsOf(operation)' = encodingsOf(operation)
  BY EncodingsKept
<1>2. encodedPositions' = encodedPositions /\ namedPositions' = namedPositions
  BY DEF encodedPositions, namedPositions
<1>3. \A p : Emitted(p)' = Emitted(p)
  BY <1>1, <1>2 DEF Emitted
<1>4. \A p : Named(p)' = Named(p)
  BY <1>2 DEF Named
<1>5. done' = done
  BY DEF done
<1> QED  BY <1>2, <1>3, <1>4, <1>5 DEF BodyInv, aList

(* One more operation of the body: what the queue becomes.                 *)
LEMMA NextOperation ==
  ASSUME isFunction(function), BodyInv, stage = "body", queue # << >>, queue' = Tail(queue), UNCHANGED function
  PROVE  /\ done \in Nat /\ done + 1 <= Len(function.body) /\ done' = done + 1
         /\ Head(queue) = function.body[done + 1]
         /\ aList(queue') /\ Len(queue') <= Len(function.body)
         /\ \A i \in 1..Len(queue') : queue'[i] = function.body[done' + i]
<1> DEFINE L == Len(function.body)
           q == Len(queue)
           rest == Tail(queue)
<1>1. L \in Nat
  BY Positions
<1>2. aList(queue) /\ q <= L /\ \A i \in 1..q : queue[i] = function.body[(L - q) + i]
  BY DEF BodyInv, done
<1>3. /\ aList(rest) /\ Len(rest) = q - 1 /\ q > 0 /\ q \in Nat
      /\ \A n \in 1..q - 1 : rest[n] = queue[n + 1]
      /\ Head(queue) = queue[1]
  BY <1>2, TailFacts, ListFacts
<1>4. done = L - q /\ done' = L - Len(rest) /\ queue' = rest
  BY DEF done
<1> HIDE DEF rest, q, L
<1>5. done' = done + 1 /\ done \in Nat /\ done + 1 <= L
  BY <1>1, <1>2, <1>3, <1>4
<1>6. Head(queue) = function.body[done + 1]
  BY <1>2, <1>3, <1>4
<1>7. ASSUME NEW i \in 1..Len(rest) PROVE rest[i] = function.body[done' + i]
  <2>1. i + 1 \in 1..q /\ i \in 1..q - 1 /\ (L - q) + (i + 1) = done' + i
    BY <1>1, <1>2, <1>3, <1>4, <1>5
  <2> QED  BY <1>2, <1>3, <2>1
<1>8. Len(rest) <= L
  BY <1>1, <1>2, <1>3
<1> QED  BY <1>3, <1>4, <1>5, <1>6, <1>7, <1>8 DEF L

(* The encoder enters the body with nothing encoded.                       *)
LEMMA EndLayoutKeepsBody ==
  ASSUME isFunction(function), BodyInv, EndLayout
  PROVE  BodyInv'
<1>1. /\ stage' = "body" /\ queue' = function.body /\ function' = function
      /\ instructions' = instructions /\ debug' = debug
      /\ instructions = << >> /\ debug = << >>
  BY DEF EndLayout, BodyInv
<1>2. encodedPositions' = encodedPositions /\ namedPositions' = namedPositions
  BY <1>1 DEF encodedPositions, namedPositions
<1>3. done' = 0
  BY <1>1, Positions DEF done
<1>4. /\ rankOf(0, encodedPositions) = 0 /\ rankOf(0, namedPositions) = 0
      /\ \A n \in encodedPositions : ~(n <= 0)
      /\ namedPositions \subseteq encodedPositions
  <2> DEFINE L == Len(function.body)
             P == encodedPositions
             N == namedPositions
  <2>1. L \in Nat /\ P \in SUBSET (1..L) /\ N \in SUBSET (1..L) /\ N \subseteq P
    BY Positions
  <2> HIDE DEF L, P, N
  <2>2. rankOf(0, P) = 0 /\ rankOf(0, N) = 0
    BY <2>1, RankFacts
  <2>3. \A n \in P : ~(n <= 0)
    BY <2>1
  <2> QED  BY <2>1, <2>2, <2>3 DEF P, N
<1>5. Emitted(0)' /\ Named(0)'
  BY <1>1, <1>2, <1>4 DEF Emitted, Named
<1>6. aList(queue') /\ Len(queue') <= Len(function'.body)
  <2>1. aList(function.body)
    BY Listed DEF isFunction
  <2>2. Len(function.body) \in Nat
    BY Positions
  <2> QED  BY <1>1, <2>1, <2>2
<1>7. \A i \in 1..Len(queue') : queue'[i] = function'.body[0 + i]
  BY <1>1, <1>6, ListFacts
<1>8. aList(instructions') /\ aList(debug') /\ Len(instructions') = 0
  BY <1>1 DEF BodyInv
<1> QED  BY <1>1, <1>2, <1>3, <1>4, <1>5, <1>6, <1>7, <1>8 DEF BodyInv

(* A step that encodes one operation, or skips one.                        *)
LEMMA SkipKeepsBody ==
  ASSUME isFunction(function), BodyInv, stage = "body", queue # << >>,
         Head(queue).name \in Skipped, queue' = Tail(queue),
         UNCHANGED <<function, stage, dramAddresses, instructions, debug>>
  PROVE  BodyInv'
<1> DEFINE P == encodedPositions
           N == namedPositions
           L == Len(function.body)
<1>0. PICK p \in Nat, m \in Nat : p = done /\ m = done + 1
  BY NextOperation
<1>1. /\ p \in Nat /\ m \in Nat /\ m <= L /\ done' = m /\ m = p + 1
      /\ Head(queue) = function.body[m]
      /\ aList(queue') /\ Len(queue') <= L
      /\ \A i \in 1..Len(queue') : queue'[i] = function.body[done' + i]
  BY <1>0, NextOperation
<1>2. L \in Nat /\ P \in SUBSET (1..L) /\ N \in SUBSET (1..L) /\ N \subseteq P
  BY Positions
<1>3. m \notin P /\ m \notin N
  BY <1>0, <1>1 DEF encodedPositions, namedPositions
<1>4. P' = P /\ N' = N
  BY DEF encodedPositions, namedPositions
<1>5. Len(instructions) = rankOf(p, P) /\ Emitted(p) /\ Named(p)
  BY <1>0 DEF BodyInv
<1>6. rankOf(m, P) = rankOf(p, P) /\ rankOf(m, N) = rankOf(p, N)
  <2> HIDE DEF P, N, L
  <2>1. rankOf(p + 1, P) = IF p + 1 \in P THEN rankOf(p, P) + 1 ELSE rankOf(p, P)
    BY <1>1, <1>2, RankFacts
  <2>2. rankOf(p + 1, N) = IF p + 1 \in N THEN rankOf(p, N) + 1 ELSE rankOf(p, N)
    BY <1>1, <1>2, RankFacts
  <2> QED  BY <1>1, <1>3, <2>1, <2>2
<1>7. \A n \in P : n <= m => n <= p
  <2> HIDE DEF P, N, L
  <2> QED  BY <1>1, <1>2, <1>3
<1> HIDE DEF L
<1>8. Emitted(m)'
  <2>1. ASSUME NEW operation PROVE encodingsOf(operation)' = encodingsOf(operation)
    BY EncodingsKept
  <2> QED  BY <1>4, <1>5, <1>7, <2>1 DEF Emitted
<1>9. Named(m)'
  BY <1>2, <1>4, <1>5, <1>6, <1>7 DEF Named
<1>10. Len(instructions') = rankOf(m, P)'
  BY <1>4, <1>5, <1>6
<1>11. aList(instructions') /\ aList(debug')
  BY DEF BodyInv
<1> QED  BY <1>1, <1>8, <1>9, <1>10, <1>11 DEF BodyInv, L

(* An operation that is encoded becomes the next instruction, with its     *)
(* name.                                                                   *)
LEMMA EmitKeepsBody ==
  ASSUME isFunction(function), BodyInv, stage = "body", queue # << >>,
         Head(queue).name \notin Skipped, queue' = Tail(queue),
         NEW instruction \in encodingsOf(Head(queue)), instructions' = Append(instructions, instruction),
         debug' = record(Head(queue)),
         UNCHANGED <<function, stage, dramAddresses>>
  PROVE  BodyInv'
<1> DEFINE P == encodedPositions
           N == namedPositions
           L == Len(function.body)
<1>0. PICK p \in Nat, m \in Nat, r \in Nat : p = done /\ m = done + 1 /\ r = Len(instructions)
  BY NextOperation, ListFacts DEF BodyInv
<1>1. /\ p \in Nat /\ m \in Nat /\ m <= L /\ done' = m /\ m = p + 1
      /\ Head(queue) = function.body[m]
      /\ aList(queue') /\ Len(queue') <= L
      /\ \A i \in 1..Len(queue') : queue'[i] = function.body[done' + i]
  BY <1>0, NextOperation
<1>2. L \in Nat /\ P \in SUBSET (1..L) /\ N \in SUBSET (1..L) /\ N \subseteq P /\ DOMAIN function.body = 1..L
  BY Positions
<1>3. m \in P
  <2>1. m \in 1..L
    <3> HIDE DEF L
    <3> QED  BY <1>1, <1>2
  <2> QED  BY <1>1, <1>2, <2>1 DEF encodedPositions
<1>4. m \in N <=> ~(function.stripDebug \/ function.body[m].location = << >>)
  BY <1>3 DEF namedPositions
<1>5. P' = P /\ N' = N
  BY DEF encodedPositions, namedPositions
<1>6. r = rankOf(p, P) /\ Emitted(p) /\ Named(p) /\ aList(instructions) /\ aList(debug)
  BY <1>0 DEF BodyInv
<1>7. /\ rankOf(m, P) = r + 1 
      /\ rankOf(m, N) = IF m \in N THEN rankOf(p, N) + 1 ELSE rankOf(p, N)
  <2> HIDE DEF P, N, L
  <2>1. rankOf(p + 1, P) = IF p + 1 \in P THEN rankOf(p, P) + 1 ELSE rankOf(p, P)
    BY <1>1, <1>2, RankFacts
  <2>2. rankOf(p + 1, N) = IF p + 1 \in N THEN rankOf(p, N) + 1 ELSE rankOf(p, N)
    BY <1>1, <1>2, RankFacts
  <2> QED  BY <1>1, <1>3, <1>6, <2>1, <2>2
<1>8. \A n \in P : n <= m => n <= p \/ n = m
  <2> HIDE DEF P, N, L
  <2> QED  BY <1>1, <1>2
<1>9. /\ aList(instructions') /\ Len(instructions') = r + 1
      /\ \A n \in 1..r : instructions'[n] = instructions[n]
      /\ instructions'[r + 1] = instruction
  <2> DEFINE longer == Append(instructions, instruction)
  <2>1. /\ aList(longer) /\ Len(longer) = Len(instructions) + 1
        /\ \A n \in 1..Len(instructions) : longer[n] = instructions[n]
        /\ longer[Len(instructions) + 1] = instruction
    BY ONLY <1>6, Appended
  <2>2. instructions' = longer
    OBVIOUS
  <2> HIDE DEF longer
  <2> QED  BY <1>0, <2>1, <2>2
<1>10. function.body[m] = Head(queue) /\ instruction \in encodingsOf(function.body[m])
  BY <1>1
<1> HIDE DEF L
<1>11. ASSUME NEW operation PROVE encodingsOf(operation)' = encodingsOf(operation)
  BY EncodingsKept
<1>12. ASSUME NEW n \in P, n <= m
       PROVE  /\ rankOf(n, P) \in 1..r + 1
              /\ instructions'[rankOf(n, P)] \in encodingsOf(function.body[n])
  <2>1. CASE n <= p
    <3>1. rankOf(n, P) \in 1..r /\ instructions[rankOf(n, P)] \in encodingsOf(function.body[n])
      BY <1>0, <1>6, <2>1 DEF Emitted
    <3> QED  BY <1>7, <1>9, <3>1
  <2>2. CASE n = m
    BY <1>7, <1>9, <1>10, <2>2
  <2> QED  BY <1>8, <1>12, <2>1, <2>2
<1>13. Emitted(m)'
  BY <1>5, <1>9, <1>11, <1>12 DEF Emitted
<1>14. Named(m)' /\ aList(debug')
  <2>1. Len(debug) = rankOf(p, N) /\ Len(debug) \in Nat
    BY <1>6, ListFacts DEF Named
  <2>2. \A n \in N : n <= p => \E d \in 1..Len(debug) :
           debug[d] = [pc |-> rankOf(n, P) - 1, name |-> function.body[n].location]
    BY <1>6 DEF Named
  <2>3. CASE m \notin N
    <3>1. debug' = debug
      BY <1>4, <1>10, <2>3 DEF record
    <3>2. rankOf(m, N) = rankOf(p, N)
      BY <1>7, <2>3
    <3>3. \A n \in N : n <= m => n <= p
      BY <1>2, <1>8, <2>3
    <3> QED  BY <1>5, <1>6, <2>1, <2>2, <3>1, <3>2, <3>3 DEF Named
  <2>4. CASE m \in N
    <3> DEFINE new == [pc |-> r, name |-> function.body[m].location]
    <3>1. debug' = Append(debug, new)
      BY <1>0, <1>4, <1>10, <2>4 DEF record
    <3>2. new = [pc |-> rankOf(m, P) - 1, name |-> function.body[m].location]
      BY <1>7
    <3> HIDE DEF new
    <3>3. /\ aList(debug') /\ Len(debug') = Len(debug) + 1
          /\ \A n \in 1..Len(debug) : debug'[n] = debug[n]
          /\ debug'[Len(debug) + 1] = new
      <4> DEFINE longer == Append(debug, new)
      <4>1. /\ aList(longer) /\ Len(longer) = Len(debug) + 1
            /\ \A n \in 1..Len(debug) : longer[n] = debug[n]
            /\ longer[Len(debug) + 1] = new
        BY ONLY <1>6, Appended
      <4>2. debug' = longer
        BY <3>1
      <4> HIDE DEF longer
      <4> QED  BY <4>1, <4>2
    <3>4. Len(debug') = rankOf(m, N)
      BY <1>7, <2>1, <2>4, <3>3
    <3>5. ASSUME NEW n \in N, n <= m
          PROVE  \E d \in 1..Len(debug') :
                   debug'[d] = [pc |-> rankOf(n, P) - 1, name |-> function.body[n].location]
      <4>1. CASE n <= p
        <5>1. PICK d \in 1..Len(debug) :
                debug[d] = [pc |-> rankOf(n, P) - 1, name |-> function.body[n].location]
          BY <2>2, <4>1
        <5>2. d \in 1..Len(debug') /\ debug'[d] = debug[d]
          BY <2>1, <3>3
        <5> QED  BY <5>1, <5>2
      <4>2. CASE n = m
        <5>1. Len(debug) + 1 \in 1..Len(debug')
          BY <2>1, <3>3
        <5> QED  BY <3>2, <3>3, <4>2, <5>1
      <4> QED  BY <1>2, <1>8, <3>5, <4>1, <4>2
    <3> QED  BY <1>5, <3>3, <3>4, <3>5 DEF Named
  <2> QED  BY <2>3, <2>4
<1>15. Len(instructions') = rankOf(m, P)'
  BY <1>5, <1>7, <1>9
<1> QED  BY <1>1, <1>9, <1>13, <1>14, <1>15 DEF BodyInv, L

(* The body ends with everything encoded.                                  *)
LEMMA EncodeHaltKeepsBody ==
  ASSUME isFunction(function), BodyInv, EncodeHalt
  PROVE  BodyInv'
<1> DEFINE P == encodedPositions
           N == namedPositions
           halt == [NoInstruction EXCEPT !.opcode = HALT]
<1>0. PICK L \in Nat, r \in Nat : L = Len(function.body) /\ r = Len(instructions)
  BY Positions, ListFacts DEF BodyInv
<1>1. /\ stage = "body" /\ queue = << >> /\ stage' = "encoded"
      /\ instructions' = Append(instructions, halt)
      /\ UNCHANGED <<function, queue, dramAddresses, debug>>
  BY DEF EncodeHalt
<1>2. done = L
  BY <1>0, <1>1 DEF done
<1>3. Emitted(L) /\ Named(L) /\ aList(instructions) /\ aList(debug)
  BY <1>1, <1>2 DEF BodyInv
<1> HIDE DEF halt
<1>4. /\ aList(instructions') /\ Len(instructions') = r + 1 /\ r \in Nat
      /\ \A n \in 1..r : instructions'[n] = instructions[n]
  BY <1>0, <1>1, <1>3, Appended
<1>5. P' = P /\ N' = N
  BY <1>1 DEF encodedPositions, namedPositions
<1>6. ASSUME NEW operation PROVE encodingsOf(operation)' = encodingsOf(operation)
  BY <1>1, EncodingsKept
<1>7. Emitted(L)'
  <2>1. ASSUME NEW n \in P, n <= L
        PROVE  /\ rankOf(n, P) \in 1..r + 1
               /\ instructions'[rankOf(n, P)] \in encodingsOf(function.body[n])
    <3>1. rankOf(n, P) \in 1..r /\ instructions[rankOf(n, P)] \in encodingsOf(function.body[n])
      BY <1>0, <1>3, <2>1 DEF Emitted
    <3> QED  BY <1>4, <3>1
  <2> QED  BY <1>1, <1>4, <1>5, <1>6, <2>1 DEF Emitted
<1>8. Named(L)'
  BY <1>1, <1>3, <1>5 DEF Named
<1>9. aList(debug')
  BY <1>1, <1>3
<1> QED  BY <1>0, <1>1, <1>4, <1>7, <1>8, <1>9 DEF BodyInv

LEMMA NextKeepsBody ==
  ASSUME AsThePassesLeaveIt, JobInv, BodyInv, [Next]_vars
  PROVE  BodyInv'
<1>1. CASE Encode
  <2>1. isFunction(function)
    BY <1>1, EncodesWhatIsLeft DEF Encode
  <2>2. CASE refuse
    BY <2>2 DEF refuse, BodyInv
  <2>3. CASE ReadAttributes /\ ~refuse
    BY <2>3 DEF ReadAttributes, BodyInv
  <2>4. CASE PlaceRegion /\ ~refuse
    BY <2>4 DEF PlaceRegion, BodyInv
  <2>5. CASE EndLayout
    BY <2>1, <2>5, EndLayoutKeepsBody
  <2>6. CASE EncodeOperation /\ ~refuse
    <3>1. stage = "body" /\ queue # << >>
      BY <2>6 DEF EncodeOperation
    <3>2. CASE Head(queue).name \in Skipped
      BY <2>1, <2>6, <3>1, <3>2, SkipKeepsBody DEF EncodeOperation
    <3>3. CASE Head(queue).name \notin Skipped
      <4>1. PICK instruction \in encodingsOf(Head(queue)) : instructions' = Append(instructions, instruction)
        BY <2>6, <3>3 DEF EncodeOperation
      <4>2. /\ queue' = Tail(queue) /\ debug' = record(Head(queue))
            /\ UNCHANGED <<function, stage, dramAddresses>>
        BY <2>6, <3>3 DEF EncodeOperation
      <4> QED  BY <2>1, <3>1, <3>3, <4>1, <4>2, EmitKeepsBody
    <3> QED  BY <3>2, <3>3
  <2>7. CASE EncodeHalt
    BY <2>1, <2>7, EncodeHaltKeepsBody
  <2> QED  BY <1>1, <2>2, <2>3, <2>4, <2>5, <2>6, <2>7 DEF Encode, EncoderNext
<1>2. CASE ~Encode
  BY <1>2, OutsideTheEncoder, BodyIsKept
<1> QED  BY <1>1, <1>2

(* What an encoding says of its operation.                                 *)
LEMMA EncodingFields ==
  ASSUME NEW operation, NEW i \in encodingsOf(operation)
  PROVE  /\ \A k \in DOMAIN operation.ins : i.operands[k] \in makeOperand(operation.ins[k])
         /\ \E v \in operation.dest : \E o \in makeOperand(v) :
              i.resultAddress = o.address /\ i.resultStrides = o.strides
<1>1. PICK opcode \in opcodesOf(operation.name), operands \in operandLists(operation),
           written \in UNION {makeOperand(v) : v \in operation.dest} :
        i = instructionOf(opcode, operation, operands, written)
  BY DEF encodingsOf
<1>2. \A k \in DOMAIN operation.ins : operands[k] \in makeOperand(operation.ins[k])
  BY DEF operandLists
<1>3. i.operands = operands /\ i.resultAddress = written.address /\ i.resultStrides = written.strides
  BY <1>1 DEF instructionOf, NoInstruction
<1>4. PICK v \in operation.dest : written \in makeOperand(v)
  OBVIOUS
<1> QED  BY <1>2, <1>3, <1>4

(* The instruction at a position is one for the operation at that rank.    *)
LEMMA EncodedInstruction ==
  ASSUME isFunction(function), BodyInv, stage = "encoded", NEW n \in DOMAIN encodedOperations
  PROVE  /\ inOrder(encodedPositions)[n] \in encodedPositions
         /\ inOrder(encodedPositions)[n] <= Len(function.body)
         /\ rankOf(inOrder(encodedPositions)[n], encodedPositions) = n
         /\ encodedOperations[n] = function.body[inOrder(encodedPositions)[n]]
         /\ isOperation(encodedOperations[n])
         /\ instructions[n] \in encodingsOf(encodedOperations[n])
<1> DEFINE P == encodedPositions
           m == inOrder(P)[n]
<1>1. DOMAIN encodedOperations = 1..Cardinality(P) /\ encodedOperations[n] = function.body[m]
  BY DEF encodedOperations
<1>2. /\ Len(function.body) \in Nat /\ P \in SUBSET (1..Len(function.body))
      /\ DOMAIN function.body = 1..Len(function.body)
  BY Positions
<1> HIDE DEF P
<1>3. m \in P /\ rankOf(m, P) = n
  BY <1>1, <1>2, InOrder
<1>4. m \in 1..Len(function.body) /\ m <= Len(function.body)
  <2>1. m \in 1..Len(function.body)
    BY ONLY <1>2, <1>3
  <2> HIDE DEF m
  <2> QED  BY ONLY <1>2, <2>1
<1>5. isOperation(encodedOperations[n])
  BY <1>1, <1>2, <1>4 DEF isFunction
<1>6. Emitted(Len(function.body))
  BY DEF BodyInv
<1>7. instructions[n] \in encodingsOf(encodedOperations[n])
  BY <1>1, <1>3, <1>4, <1>6 DEF Emitted, P
<1> QED  BY <1>1, <1>3, <1>4, <1>5, <1>7 DEF P

(* Operands and results are where the views and the layout put them.       *)
LEMMA OperandsAddress ==
  ASSUME isFunction(function), BodyInv, LayoutInv, RootsInv
  PROVE  OperandsAddressTheirElements
<1> SUFFICES ASSUME stage = "encoded", NEW n \in DOMAIN encodedOperations
             PROVE  /\ \A k \in DOMAIN encodedOperations[n].ins :
                         addresses(instructions[n].operands[k], encodedOperations[n].ins[k])
                    /\ \A v \in encodedOperations[n].dest : addresses(resultOperand(instructions[n]), v)
  BY DEF OperandsAddressTheirElements
<1> DEFINE operation == encodedOperations[n]
           i == instructions[n]
<1>1. isOperation(operation) /\ i \in encodingsOf(operation)
  BY EncodedInstruction
<1> HIDE DEF operation, i
<1>2. RootsOnce
  BY DEF RootsInv
<1>3. ASSUME NEW k \in DOMAIN operation.ins PROVE addresses(i.operands[k], operation.ins[k])
  <2>1. i.operands[k] \in makeOperand(operation.ins[k])
    BY <1>1, EncodingFields
  <2>2. isBuilt(operation.ins[k])
    BY <1>1 DEF isOperation, valuesOf
  <2> QED  BY <1>2, <2>1, <2>2, OperandPlace, PlaceAddressesElements
<1>4. ASSUME NEW v \in operation.dest PROVE addresses(resultOperand(i), v)
  <2>0. PICK w \in operation.dest : \E o \in makeOperand(w) : i.resultAddress = o.address /\ i.resultStrides = o.strides
    BY <1>1, EncodingFields
  <2>1. PICK o \in makeOperand(w) : i.resultAddress = o.address /\ i.resultStrides = o.strides
    BY <2>0
  <2>2. w = v /\ isBuilt(v)
    BY <1>1 DEF isOperation, valuesOf
  <2>3. resultOperand(i).address = o.address /\ resultOperand(i).strides = o.strides
    BY <2>1 DEF resultOperand
  <2> DEFINE r == resultOperand(i)
  <2>4. o \in makeOperand(v)
    BY <2>2
  <2> HIDE DEF r
  <2>5. /\ o.strides = v.type.strides
        /\ v.type.strides \in Seq(Nat) /\ Len(v.type.strides) = Len(v.type.shape)
        /\ baseOf(v) \in Nat /\ pointerOf(v) \in Nat /\ v.type.offset \in Nat
        /\ o.address = baseOf(v) + (pointerOf(v) + v.type.offset * byteWidth(v.type.element))
    BY <1>2, <2>2, <2>4, OperandPlace
  <2>6. r.strides = v.type.strides /\ r.address = baseOf(v) + (pointerOf(v) + v.type.offset * byteWidth(v.type.element))
    BY <2>3, <2>5 DEF r
  <2>7. addresses(r, v)
    BY <2>2, <2>5, <2>6, PlaceAddressesElements
  <2> QED  BY <2>7 DEF r
<1> QED  BY <1>3, <1>4 DEF operation, i

(* The names are the locations, one each.                                  *)
LEMMA NamesAreTheirs ==
  ASSUME isFunction(function), BodyInv
  PROVE  DebugNamesItsInstruction
<1> SUFFICES ASSUME stage = "encoded" PROVE DebugNamesItsInstruction
  BY DEF DebugNamesItsInstruction
<1> DEFINE P == encodedPositions
           N == namedPositions
           L == Len(function.body)
           M == {n \in DOMAIN encodedOperations : ~function.stripDebug /\ encodedOperations[n].location # << >>}
<1>1. L \in Nat /\ P \in SUBSET (1..L) /\ N \in SUBSET (1..L) /\ N \subseteq P /\ DOMAIN function.body = 1..L
  BY Positions
<1>2. /\ DOMAIN encodedOperations = 1..Cardinality(P)
      /\ \A n \in DOMAIN encodedOperations : encodedOperations[n] = function.body[inOrder(P)[n]]
  BY DEF encodedOperations
<1>3. Named(L)
  BY DEF BodyInv
<1>4. /\ \A k \in 1..Cardinality(P) : inOrder(P)[k] \in P /\ rankOf(inOrder(P)[k], P) = k
      /\ \A n \in P : inOrder(P)[rankOf(n, P)] = n /\ rankOf(n, P) \in 1..Cardinality(P)
      /\ IsFiniteSet(N) /\ rankOf(L, N) = Cardinality(N)
  <2> HIDE DEF P, N, L
  <2> QED  BY <1>1, InOrder, RanksOfMembers, RankFacts
<1>5. \A n \in P : n \in N <=> ~function.stripDebug /\ function.body[n].location # << >>
  BY DEF namedPositions
<1>6. \A n \in M : n \in 1..Cardinality(P) /\ inOrder(P)[n] \in N
  BY <1>2, <1>4, <1>5
<1>7. ASSUME NEW m \in N PROVE rankOf(m, P) \in M
  <2>1. m \in P /\ rankOf(m, P) \in 1..Cardinality(P) /\ inOrder(P)[rankOf(m, P)] = m
    BY <1>1, <1>4
  <2>2. encodedOperations[rankOf(m, P)] = function.body[m] /\ rankOf(m, P) \in DOMAIN encodedOperations
    BY <1>2, <2>1
  <2> QED  BY <1>5, <2>1, <2>2
<1> HIDE DEF P, N, L, M
<1>8. Cardinality(M) = Cardinality(N)
  <2> DEFINE f == [m \in N |-> rankOf(m, P)]
  <2>1. f \in [N -> M]
    BY <1>7
  <2>2. ASSUME NEW a \in N, NEW b \in N, f[a] = f[b] PROVE a = b
    <3>1. rankOf(a, P) = rankOf(b, P) /\ a \in P /\ b \in P
      BY <1>1, <2>2
    <3> QED  BY <1>4, <3>1
  <2>3. ASSUME NEW n \in M PROVE \E m \in N : f[m] = n
    <3>1. inOrder(P)[n] \in N /\ rankOf(inOrder(P)[n], P) = n
      BY <1>4, <1>6
    <3> QED  BY <3>1
  <2>4. f \in Injection(N, M) /\ f \in Surjection(N, M)
    <3> HIDE DEF f
    <3> QED  BY <2>1, <2>2, <2>3 DEF Injection, IsInjective, Surjection
  <2> HIDE DEF f
  <2> QED  BY <1>4, <2>4, FS_Surjection
<1>9. Len(debug) = Cardinality(M)
  BY <1>3, <1>4, <1>8 DEF Named, N
<1>10. ASSUME NEW n \in M
       PROVE  \E d \in DOMAIN debug : debug[d] = [pc |-> n - 1, name |-> encodedOperations[n].location]
  <2>1. PICK m \in N : m = inOrder(P)[n] /\ rankOf(m, P) = n
    BY <1>4, <1>6
  <2>2. m <= L /\ encodedOperations[n] = function.body[m]
    BY <1>1, <1>2, <2>1 DEF M
  <2>3. PICK d \in 1..Len(debug) :
          debug[d] = [pc |-> rankOf(m, P) - 1, name |-> function.body[m].location]
    BY <1>3, <2>2 DEF Named, N, P
  <2>4. DOMAIN debug = 1..Len(debug)
    BY ListFacts DEF BodyInv
  <2> QED  BY <2>1, <2>2, <2>3, <2>4
<1> QED  BY <1>9, <1>10 DEF DebugNamesItsInstruction, M

-----------------------------------------------------------------------------
(* What the theorem needs at every step of the tool chain.                 *)
EncodedInv == AsThePassesLeaveIt /\ JobInv /\ LayoutInv /\ RootsInv /\ BodyInv

LEMMA EncodedInvHolds == AsThePassesLeaveIt /\ Spec => []EncodedInv
<1>1. AsThePassesLeaveIt /\ Init => EncodedInv
  <2> SUFFICES ASSUME AsThePassesLeaveIt, Init PROVE EncodedInv
    OBVIOUS
  <2>1. JobInv
    BY DEF Init, EncoderInit, JobInv
  <2>2. LayoutInv /\ RootsInv
    BY DEF Init, EncoderInit, LayoutInv, RootsInv, RootsOnce
  <2>3. BodyInv
    <3>1. << >> \in Seq({})
      OBVIOUS
    <3> QED  BY <3>1 DEF Init, EncoderInit, BodyInv, aList
  <2> QED  BY <2>1, <2>2, <2>3 DEF EncodedInv
<1>2. EncodedInv /\ [Next]_vars => EncodedInv'
  <2> SUFFICES ASSUME EncodedInv, [Next]_vars PROVE EncodedInv'
    OBVIOUS
  <2>1. AsThePassesLeaveIt'
    BY DEF EncodedInv, AsThePassesLeaveIt
  <2>2. JobInv' /\ LayoutInv'
    BY JobIsKept, NextKeepsLayout DEF EncodedInv
  <2>3. RootsInv' /\ BodyInv'
    BY RootsAreKept, NextKeepsBody DEF EncodedInv
  <2> QED  BY <2>1, <2>2, <2>3 DEF EncodedInv
<1> QED  BY <1>1, <1>2, PTL DEF Spec

LEMMA EncodedIsFaithful == EncodedInv => EncodingIsFaithful
<1> SUFFICES ASSUME EncodedInv PROVE EncodingIsFaithful
  OBVIOUS
<1>1. CASE stage # "encoded"
  BY <1>1 DEF EncodingIsFaithful, OperandsAddressTheirElements, DebugNamesItsInstruction
<1>2. CASE stage = "encoded"
  <2>1. isFunction(function)
    BY <1>2, EncodesWhatIsLeft DEF EncodedInv, JobInv
  <2> QED  BY <2>1, OperandsAddress, NamesAreTheirs DEF EncodedInv, EncodingIsFaithful
<1> QED  BY <1>1, <1>2

(* For every function the passes leave, every alignment and every file     *)
(* width, each operand and each result of an encoded instruction addresses *)
(* the elements of its value, and each location of the function is named   *)
(* once, at its instruction (makeOperand, setResult and record in          *)
(* InstructionEncoder.cpp).                                                *)
THEOREM SpecEncodesFaithfully == AsThePassesLeaveIt /\ Spec => []EncodingIsFaithful
BY EncodedInvHolds, EncodedIsFaithful, PTL

-----------------------------------------------------------------------------
(* What the overlap analysis finds.  Quotient and remainder are unique.    *)
LEMMA Quotient ==
  ASSUME NEW a \in Nat \ {0}, NEW k \in Nat, NEW r \in 0..a - 1, NEW x \in Nat, x = a * k + r
  PROVE  x \div a = k /\ x % a = r
<1> DEFINE q == x \div a
           s == x % a
<1>1. x = a * q + s /\ q \in Nat /\ s \in 0..a - 1
  OBVIOUS
<1> HIDE DEF q, s
<1>2. \A m, n \in Nat : m < n => a * m + a <= a * n
  <2> SUFFICES ASSUME NEW m \in Nat, NEW n \in Nat, m < n PROVE a * m + a <= a * n
    OBVIOUS
  <2>1. PICK d \in Nat : n = m + 1 + d
    <3>1. n - m - 1 \in Nat /\ n = m + 1 + (n - m - 1)
      OBVIOUS
    <3> QED  BY <3>1
  <2>2. a * n = a * m + a + a * d /\ a * d \in Nat
    BY <2>1
  <2>3. a * m \in Nat /\ a * n \in Nat
    OBVIOUS
  <2> QED  BY <2>2, <2>3
<1>3. a * k \in Nat /\ a * q \in Nat
  BY <1>1
<1>4. ~(q < k)
  <2> SUFFICES ASSUME q < k PROVE FALSE
    OBVIOUS
  <2>1. a * q + a <= a * k
    BY <1>1, <1>2
  <2> QED  BY <1>1, <1>3, <2>1
<1>5. ~(k < q)
  <2> SUFFICES ASSUME k < q PROVE FALSE
    OBVIOUS
  <2>1. a * k + a <= a * q
    BY <1>1, <1>2
  <2> QED  BY <1>1, <1>3, <2>1
<1>6. q = k
  BY <1>1, <1>4, <1>5
<1>7. s = r
  BY <1>1, <1>3, <1>6
<1> QED  BY <1>6, <1>7 DEF q, s

(* The last of q blocks of s runs of a.                                    *)
LEMMA LastRun ==
  ASSUME NEW a \in Nat \ {0}, NEW s \in Nat \ {0}, NEW q \in Nat \ {0}
  PROVE  ((q * (s * a) - 1) \div a) % s = s - 1
<1> DEFINE t == q * s
<1>1. t \in Nat \ {0} /\ q * (s * a) = t * a
  OBVIOUS
<1>2. t = s * (q - 1) + s
  OBVIOUS
<1> HIDE DEF t
<1>3. t * a = a * (t - 1) + a /\ a * (t - 1) \in Nat
  BY <1>1
<1>4. t * a - 1 \in Nat /\ t * a - 1 = a * (t - 1) + (a - 1)
  BY <1>1, <1>3
<1>5. (t * a - 1) \div a = t - 1
  <2>1. t - 1 \in Nat /\ a - 1 \in 0..a - 1
    BY <1>1
  <2> QED  BY <1>4, <2>1, Quotient
<1>6. t - 1 = s * (q - 1) + (s - 1) /\ t - 1 \in Nat /\ q - 1 \in Nat /\ s - 1 \in 0..s - 1
  <2>1. s * (q - 1) \in Nat
    OBVIOUS
  <2> QED  BY <1>1, <1>2, <2>1
<1>7. (t - 1) % s = s - 1
  <2> DEFINE u == t - 1
             k == q - 1
             r == s - 1
  <2>1. u = s * k + r /\ u \in Nat /\ k \in Nat /\ r \in 0..s - 1
    BY <1>6
  <2> HIDE DEF u, k, r
  <2>2. u % s = r
    BY ONLY <2>1, Quotient, s \in Nat \ {0}
  <2> QED  BY <2>2 DEF u, r
<1> QED  BY <1>1, <1>5, <1>7

(* A step divides the product.                                             *)
LEMMA StepsDivide ==
  ASSUME NEW shape \in Seq(Nat \ {0}), NEW step, Steps(step, shape), NEW k \in 0..Len(shape)
  PROVE  \E q \in Nat \ {0} : step[0] = q * step[k]
<1> DEFINE K == Len(shape)
           T == {n \in Nat : n <= K => \E q \in Nat \ {0} : step[0] = q * step[n]}
<1>1. K \in Nat /\ \A n \in 1..K : shape[n] \in Nat \ {0}
  OBVIOUS
<1>2. \A n \in 0..K : step[n] \in Nat \ {0}
  BY DEF Steps
<1>3. 0 \in T
  <2>1. step[0] = 1 * step[0]
    BY <1>1, <1>2
  <2> QED  BY <2>1
<1>4. ASSUME NEW n \in T PROVE n + 1 \in T
  <2> SUFFICES ASSUME n + 1 <= K PROVE \E q \in Nat \ {0} : step[0] = q * step[n + 1]
    OBVIOUS
  <2>1. n \in 0..K - 1 /\ n + 1 \in 1..K /\ n + 1 \in 0..K
    BY <1>1
  <2>2. PICK q \in Nat \ {0} : step[0] = q * step[n]
    BY <1>1, <2>1
  <2>3. step[n] = shape[n + 1] * step[n + 1]
    BY <2>1 DEF Steps
  <2>4. shape[n + 1] \in Nat \ {0} /\ step[n + 1] \in Nat \ {0}
    BY <1>1, <1>2, <2>1
  <2> DEFINE a == shape[n + 1]
             b == step[n + 1]
  <2>5. a \in Nat \ {0} /\ b \in Nat \ {0}
    BY <2>4
  <2> HIDE DEF a, b
  <2>6. q * (a * b) = (q * a) * b /\ q * a \in Nat \ {0}
    BY <2>5
  <2>7. step[0] = (q * a) * b
    BY <2>2, <2>3, <2>6 DEF a, b
  <2> QED  BY <2>6, <2>7 DEF b
<1>5. T \subseteq Nat
  OBVIOUS
<1>6. k \in Nat /\ k <= K
  BY <1>1
<1> HIDE DEF T
<1>7. k \in T
  BY <1>3, <1>4, <1>5, <1>6, Induct
<1> QED  BY <1>6, <1>7 DEF T

(* The first turn shows the first element, and the last turn the last.     *)
LEMMA FirstAndLastTurn ==
  ASSUME NEW shape \in Seq(Nat \ {0})
  PROVE  /\ product(shape) \in Nat \ {0}
         /\ \A n \in 1..Len(shape) : odometer(shape, 0)[n] = 0
         /\ \A n \in 1..Len(shape) : odometer(shape, product(shape) - 1)[n] = shape[n] - 1
<1> DEFINE step == stepsOf(shape)
<1>1. Steps(step, shape)
  BY StepsMultiply
<1>2. product(shape) = step[0]
  BY DEF product
<1>3. DOMAIN shape = 1..Len(shape) /\ Len(shape) \in Nat
  OBVIOUS
<1>4. \A p : \A n \in 1..Len(shape) : odometer(shape, p)[n] = (p \div step[n]) % shape[n]
  BY <1>3 DEF odometer, rowMajor
<1> HIDE DEF step
<1>5. \A n \in 0..Len(shape) : step[n] \in Nat \ {0}
  BY <1>1 DEF Steps
<1>6. \A n \in 1..Len(shape) : shape[n] \in Nat \ {0}
  OBVIOUS
<1>7. product(shape) \in Nat \ {0}
  BY <1>2, <1>3, <1>5
<1>8. ASSUME NEW n \in 1..Len(shape) PROVE odometer(shape, 0)[n] = 0
  <2> DEFINE a == step[n]
             s == shape[n]
  <2>1. a \in Nat \ {0} /\ s \in Nat \ {0} /\ odometer(shape, 0)[n] = (0 \div a) % s
    BY <1>4, <1>5, <1>6
  <2> HIDE DEF a, s
  <2>2. 0 = a * 0 + 0 /\ 0 = s * 0 + 0 /\ 0 \in 0..a - 1 /\ 0 \in 0..s - 1
    BY <2>1
  <2>3. 0 \div a = 0
    BY <2>1, <2>2, Quotient
  <2>4. 0 % s = 0
    BY <2>1, <2>2, Quotient
  <2> QED  BY <2>1, <2>3, <2>4
<1>9. ASSUME NEW n \in 1..Len(shape) PROVE odometer(shape, product(shape) - 1)[n] = shape[n] - 1
  <2> DEFINE a == step[n]
             s == shape[n]
  <2>1. a \in Nat \ {0} /\ s \in Nat \ {0}
    BY <1>5, <1>6
  <2>2. odometer(shape, product(shape) - 1)[n] = ((step[0] - 1) \div a) % s
    BY <1>2, <1>4
  <2>3. n - 1 \in 0..Len(shape) - 1 /\ n - 1 \in 0..Len(shape) /\ (n - 1) + 1 = n
    BY <1>3
  <2>4. step[n - 1] = s * a
    BY <1>1, <2>3 DEF Steps
  <2>5. PICK q \in Nat \ {0} : step[0] = q * step[n - 1]
    BY <1>1, <2>3, StepsDivide
  <2> HIDE DEF a, s
  <2>6. step[0] = q * (s * a)
    BY <2>4, <2>5
  <2>7. ((q * (s * a) - 1) \div a) % s = s - 1
    BY <2>1, LastRun
  <2> QED  BY <2>2, <2>6, <2>7 DEF s
<1> QED  BY <1>7, <1>8, <1>9

(* A contiguous layout has no gaps: its last element is its product less   *)
(* one.                                                                    *)
LEMMA ContiguousReach ==
  ASSUME NEW shape \in Seq(Nat \ {0})
  PROVE  SumIs(Len(shape), [n \in 1..Len(shape) |-> (shape[n] - 1) * stepsOf(shape)[n]], product(shape) - 1)
<1> DEFINE K == Len(shape)
           step == stepsOf(shape)
           w == [n \in 1..K |-> (shape[n] - 1) * step[n]]
           f == [n \in 0..K |-> step[0] - step[n]]
<1>1. Steps(step, shape) /\ product(shape) = step[0] /\ K \in Nat
  BY StepsMultiply DEF product
<1> HIDE DEF step
<1>2. \A n \in 0..K : step[n] \in Nat \ {0}
  BY <1>1 DEF Steps
<1>3. f[0] = 0 /\ f[K] = step[0] - 1
  <2>1. step[K] = 1
    BY <1>1 DEF Steps
  <2> QED  BY <1>1, <1>2, <2>1
<1>4. ASSUME NEW n \in 1..K PROVE f[n] = f[n - 1] + w[n]
  <2>1. n - 1 \in 0..K - 1 /\ n - 1 \in 0..K /\ n \in 0..K /\ (n - 1) + 1 = n
    BY <1>1
  <2>2. step[n - 1] = shape[n] * step[n]
    BY <1>1, <2>1 DEF Steps
  <2>3. f[n] = step[0] - step[n] /\ f[n - 1] = step[0] - step[n - 1] /\ w[n] = (shape[n] - 1) * step[n]
    BY <2>1
  <2>4. step[0] \in Nat /\ step[n] \in Nat /\ shape[n] \in Nat
    BY <1>1, <1>2, <2>1
  <2>5. \A x, y, z \in Nat : z - y = (z - x * y) + (x - 1) * y
    OBVIOUS
  <2> HIDE DEF f, w
  <2>6. step[0] - step[n] = (step[0] - shape[n] * step[n]) + (shape[n] - 1) * step[n]
    BY ONLY <2>4, <2>5
  <2> QED  BY ONLY <2>2, <2>3, <2>6
<1>5. RunningSum(f, K, w)
  <2> HIDE DEF f, w
  <2> QED  BY <1>3, <1>4 DEF RunningSum
<1> HIDE DEF f
<1> QED  BY <1>1, <1>3, <1>5 DEF SumIs, step

(* Strides a layout encodes with are natural, and so is its offset.        *)
LEMMA EncodedLayout ==
  ASSUME NEW v, isBuilt(v), layoutEncodes(v)
  PROVE  /\ v.type.offset \in Nat
         /\ v.type.strides \in Seq(Nat) /\ Len(v.type.strides) = Len(v.type.shape)
         /\ v.type.shape \in Seq(Nat \ {0})
<1>1. v.type.offset \in Nat
  BY DEF layoutEncodes, isBuilt, isLayout
<1> DEFINE s == v.type.strides
<1>2. s \in Seq(Int) /\ \A n \in DOMAIN s : s[n] >= 0
  BY DEF layoutEncodes, isBuilt, isLayout
<1> HIDE DEF s
<1>3. s \in Seq(Nat)
  BY <1>2
<1> QED  BY <1>1, <1>3 DEF s, isBuilt, isLayout

(* The furthest element of a layout, counted from its first.               *)
reachOf(type) == dot([n \in DOMAIN type.shape |-> type.shape[n] - 1], type.strides)

(* byteSpan reaches to the end of the furthest element, also where it      *)
(* counts the elements of a contiguous layout instead.                     *)
LEMMA SpanReaches ==
  ASSUME NEW v, isBuilt(v), layoutEncodes(v)
  PROVE  /\ reachOf(v.type) \in Nat
         /\ byteSpan(v.type) = (1 + reachOf(v.type)) * byteWidth(v.type.element)
<1> DEFINE shape == v.type.shape
           strides == v.type.strides
           K == Len(shape)
           last == [n \in 1..K |-> shape[n] - 1]
           w == [n \in 1..K |-> last[n] * strides[n]]
<1>1. strides \in Seq(Nat) /\ Len(strides) = K /\ shape \in Seq(Nat \ {0})
  BY EncodedLayout
<1>2. v.type.identity => strides = rowMajor(shape)
  BY DEF isBuilt, isLayout, isContiguous
<1>3. DOMAIN shape = 1..K /\ K \in Nat /\ \A n \in 1..K : shape[n] \in Nat \ {0}
  BY <1>1
<1>4. reachOf(v.type) = dot(last, strides)
  BY <1>3 DEF reachOf
<1>5. \A n \in 1..K : last[n] \in Nat
  BY <1>3
<1> HIDE DEF last
<1>6. dot(last, strides) \in Nat /\ SumIs(K, w, dot(last, strides)) /\ w \in [1..K -> Nat]
  <2> HIDE DEF K
  <2>1. \A n \in 1..Len(strides) : last[n] \in Nat
    BY <1>1, <1>5
  <2> QED  BY <1>1, <2>1, DotIsASum
<1>7. product(shape) \in Nat \ {0}
  BY <1>1, FirstAndLastTurn
<1>8. CASE ~v.type.identity
  <2>1. product(shape) # 0
    BY <1>7
  <2>2. byteSpan(v.type) = (1 + reachOf(v.type)) * byteWidth(v.type.element)
    BY <1>8, <2>1 DEF byteSpan, reachOf
  <2> QED  BY <1>4, <1>6, <2>2
<1>9. CASE v.type.identity
  <2>1. byteSpan(v.type) = product(shape) * byteWidth(v.type.element)
    BY <1>7, <1>9 DEF byteSpan
  <2>2. \A n \in 1..K : strides[n] = stepsOf(shape)[n]
    BY <1>2, <1>3, <1>9 DEF rowMajor
  <2>3. w = [n \in 1..K |-> (shape[n] - 1) * stepsOf(shape)[n]]
    BY <2>2 DEF last
  <2>4. SumIs(K, w, product(shape) - 1)
    BY <1>1, <2>3, ContiguousReach
  <2>5. dot(last, strides) = product(shape) - 1
    <3> HIDE DEF w, K, shape, strides
    <3>1. Below(K, w, w)
      <4>1. \A n \in 1..K : w[n] \in Nat
        BY <1>6
      <4> QED  BY <4>1 DEF Below
    <3>2. dot(last, strides) <= product(shape) - 1 /\ product(shape) - 1 <= dot(last, strides)
      BY <1>3, <1>6, <2>4, <3>1, SumsCompare
    <3> QED  BY <1>6, <1>7, <3>2
  <2>6. product(shape) = 1 + dot(last, strides)
    <3> HIDE DEF shape, strides
    <3> QED  BY <1>6, <1>7, <2>5
  <2> QED  BY <1>4, <1>6, <2>1, <2>6
<1> QED  BY <1>8, <1>9

(* Where the elements of a value are, counted from its first.              *)
LEMMA ElementsReach ==
  ASSUME NEW v, isBuilt(v), layoutEncodes(v)
  PROVE  LET d(p) == dot(odometer(v.type.shape, p), v.type.strides)
         IN  /\ \A p \in turns(v.type.shape) : d(p) \in 0..reachOf(v.type)
             /\ 0 \in turns(v.type.shape) /\ d(0) = 0
             /\ product(v.type.shape) - 1 \in turns(v.type.shape)
             /\ d(product(v.type.shape) - 1) = reachOf(v.type)
<1> DEFINE shape == v.type.shape
           strides == v.type.strides
           K == Len(shape)
           last == [n \in 1..K |-> shape[n] - 1]
           terms(index) == [n \in 1..K |-> index[n] * strides[n]]
           d(p) == dot(odometer(shape, p), strides)
<1>1. strides \in Seq(Nat) /\ Len(strides) = K /\ shape \in Seq(Nat \ {0})
  BY EncodedLayout
<1>2. /\ DOMAIN shape = 1..K /\ DOMAIN strides = 1..K /\ K \in Nat
      /\ \A n \in 1..K : shape[n] \in Nat \ {0} /\ strides[n] \in Nat
  <2> HIDE DEF shape, strides
  <2>1. DOMAIN shape = 1..K /\ K \in Nat /\ \A n \in 1..K : shape[n] \in Nat \ {0}
    BY <1>1
  <2>2. DOMAIN strides = 1..Len(strides) /\ \A n \in 1..Len(strides) : strides[n] \in Nat
    BY <1>1
  <2> QED  BY <1>1, <2>1, <2>2
<1>3. reachOf(v.type) = dot(last, strides) /\ \A n \in 1..K : last[n] = shape[n] - 1
  BY <1>2 DEF reachOf
<1>4. product(shape) \in Nat \ {0}
  BY <1>1, FirstAndLastTurn
<1>5. 0 \in turns(shape) /\ product(shape) - 1 \in turns(shape) /\ \A p \in turns(shape) : p \in Nat
  BY <1>4 DEF turns
<1> HIDE DEF last
<1>6. ASSUME NEW index, \A n \in 1..K : index[n] \in Nat
      PROVE  SumIs(K, terms(index), dot(index, strides)) /\ terms(index) \in [1..K -> Nat] /\ dot(index, strides) \in Nat
  <2>1. \A n \in 1..Len(strides) : index[n] \in Nat
    BY <1>1, <1>6
  <2> HIDE DEF K, strides
  <2> QED  BY <1>1, <2>1, DotIsASum
<1>7. \A n \in 1..K : last[n] \in Nat
  BY <1>2, <1>3
<1>8. ASSUME NEW p \in turns(shape) PROVE d(p) \in 0..reachOf(v.type)
  <2> DEFINE index == odometer(shape, p)
  <2>1. \A n \in 1..K : index[n] \in 0..shape[n] - 1
    BY <1>1, <1>5, IndexIsInside
  <2> HIDE DEF index
  <2>2. \A n \in 1..K : index[n] \in Nat /\ index[n] <= last[n]
    BY <1>2, <1>3, <2>1
  <2>3. /\ SumIs(K, terms(index), dot(index, strides)) /\ terms(index) \in [1..K -> Nat] /\ dot(index, strides) \in Nat
        /\ SumIs(K, terms(last), dot(last, strides)) /\ terms(last) \in [1..K -> Nat] /\ dot(last, strides) \in Nat
    BY <1>6, <1>7, <2>2
  <2>4. Below(K, terms(index), terms(last))
    <3> SUFFICES ASSUME NEW n \in 1..K PROVE terms(index)[n] <= terms(last)[n]
      BY DEF Below
    <3> DEFINE a == index[n]
               b == last[n]
               c == strides[n]
    <3>1. a \in Nat /\ b \in Nat /\ c \in Nat /\ a <= b
      BY <1>2, <1>7, <2>2
    <3>2. terms(index)[n] = a * c /\ terms(last)[n] = b * c
      OBVIOUS
    <3> HIDE DEF a, b, c, terms
    <3>3. PICK e \in Nat : b = a + e
      <4>1. b - a \in Nat /\ b = a + (b - a)
        BY <3>1
      <4> QED  BY <4>1
    <3>4. b * c = a * c + e * c /\ a * c \in Nat /\ e * c \in Nat
      BY <3>1, <3>3
    <3> QED  BY <3>2, <3>4
  <2> HIDE DEF terms, K, strides
  <2>5. dot(index, strides) <= dot(last, strides)
    BY <1>2, <2>3, <2>4, SumsCompare
  <2> QED  BY <1>3, <2>3, <2>5 DEF index, strides
<1>9. d(0) = 0
  <2> DEFINE index == odometer(shape, 0)
             zero == [n \in 1..K |-> 0]
             f == [n \in 0..K |-> 0]
  <2>1. \A n \in 1..K : index[n] = 0
    BY <1>1, FirstAndLastTurn
  <2> HIDE DEF index
  <2>2. terms(index) = zero
    <3>1. \A n \in 1..K : index[n] * strides[n] = 0
      BY <1>2, <2>1
    <3> QED  BY <3>1
  <2>3. SumIs(K, terms(index), dot(index, strides)) /\ dot(index, strides) \in Nat
    <3>1. \A n \in 1..K : index[n] \in Nat
      BY <2>1
    <3> HIDE DEF terms, K
    <3> QED  BY <1>6, <3>1
  <2>4. SumIs(K, zero, dot(index, strides))
    BY <2>2, <2>3
  <2>5. zero \in [1..K -> Nat]
    OBVIOUS
  <2>6. SumIs(K, zero, 0)
    <3>1. RunningSum(f, K, zero) /\ f[K] = 0
      BY <1>2 DEF RunningSum
    <3> HIDE DEF f, zero
    <3> QED  BY <3>1 DEF SumIs
  <2>7. Below(K, zero, zero)
    BY DEF Below
  <2> HIDE DEF zero, K, strides
  <2>8. dot(index, strides) <= 0
    BY <1>2, <2>4, <2>5, <2>6, <2>7, SumsCompare
  <2> QED  BY <2>3, <2>8 DEF index, strides
<1>10. d(product(shape) - 1) = reachOf(v.type)
  <2> DEFINE index == odometer(shape, product(shape) - 1)
  <2>1. \A n \in 1..K : index[n] = last[n]
    BY <1>1, <1>3, FirstAndLastTurn
  <2> HIDE DEF index
  <2>2. [n \in DOMAIN strides |-> index[n] * strides[n]] = [n \in DOMAIN strides |-> last[n] * strides[n]]
    BY <1>2, <2>1
  <2>3. dot(index, strides) = dot(last, strides)
    BY <2>2 DEF dot
  <2> QED  BY <1>3, <2>3 DEF index
<1> QED  BY <1>5, <1>8, <1>9, <1>10

(* The hull of a set of numbers with a least and a greatest one.           *)
LEMMA HullOfBytes ==
  ASSUME NEW B, NEW lo \in Nat, NEW hi \in Nat, lo \in B, hi \in B, \A b \in B : b \in lo..hi
  PROVE  Min(B) = lo /\ Max(B) = hi
<1>1. B \subseteq Nat /\ B # {} /\ \A b \in B : b <= hi
  OBVIOUS
<1>2. Min(B) \in B /\ Min(B) <= lo
  BY <1>1, MinNat
<1>3. Max(B) \in B /\ hi <= Max(B)
  BY <1>1, MaxNat
<1>4. Min(B) \in lo..hi /\ Max(B) \in lo..hi
  BY <1>2, <1>3
<1> QED  BY <1>2, <1>3, <1>4

(* The range computeBufferRange gives a value is the hull of what it       *)
(* addresses.                                                              *)
LEMMA RangeIsTheHull ==
  ASSUME NEW v, isBuilt(v), layoutEncodes(v), analysable(v)
  PROVE  /\ total(shiftsOf(v)) \in Nat /\ byteSpan(v.type) \in Nat \ {0}
         /\ hullOf(v) = total(shiftsOf(v)) .. (total(shiftsOf(v)) + byteSpan(v.type) - 1)
<1> DEFINE T == turns(v.type.shape)
           d(p) == dot(odometer(v.type.shape, p), v.type.strides)
           D == reachOf(v.type)
           width == byteWidth(v.type.element)
           lo == total(shiftsOf(v))
           size == byteSpan(v.type)
           end == product(v.type.shape) - 1
           begin(p) == elementOf(v, odometer(v.type.shape, p))
           B == bytesOfValue(v)
<1>1. width \in Nat \ {0}
  BY FloatBytesAssumption DEF byteWidth
<1>2. D \in Nat /\ size = (1 + D) * width
  BY SpanReaches
<1>3. /\ \A p \in T : d(p) \in 0..D
      /\ 0 \in T /\ d(0) = 0 /\ end \in T /\ d(end) = D
  BY ElementsReach
<1>4. /\ v.type.offset \in Nat /\ pointerOf(v) \in Nat
      /\ v.type.offset * width \in Nat /\ lo = pointerOf(v) + v.type.offset * width
  BY EncodedLayout, ShiftsAddUp
<1>5. \A p : begin(p) = pointerOf(v) + (v.type.offset + d(p)) * width
  BY DEF elementOf
<1>6. \A b : b \in B <=> \E p \in T : b \in begin(p) .. begin(p) + width - 1
  BY DEF bytesOfValue
<1> HIDE DEF T, d, D, width, lo, size, end, begin, B
<1>7. \A p \in T : begin(p) = lo + d(p) * width /\ d(p) * width \in Nat
  <2> SUFFICES ASSUME NEW p \in T PROVE begin(p) = lo + d(p) * width /\ d(p) * width \in Nat
    OBVIOUS
  <2>1. d(p) \in Nat
    BY <1>2, <1>3
  <2>2. \A a, b, x, w \in Nat : a + (b + x) * w = (a + b * w) + x * w /\ x * w \in Nat
    OBVIOUS
  <2>3. width \in Nat
    BY <1>1
  <2> QED  BY <1>4, <1>5, <2>1, <2>2, <2>3
<1>8. size = D * width + width /\ D * width \in Nat /\ size \in Nat \ {0}
  <2>1. (1 + D) * width = D * width + width /\ D * width \in Nat
    BY <1>1, <1>2
  <2> QED  BY <1>1, <1>2, <2>1
<1>9. lo \in Nat
  BY <1>4
<1> DEFINE hi == lo + size - 1
<1>10. hi \in Nat
  BY <1>8, <1>9
<1>11. lo \in B
  <2>1. begin(0) = lo
    <3>1. begin(0) = lo + 0 * width
      BY <1>3, <1>7
    <3> QED  BY <1>1, <1>9, <3>1
  <2>2. lo \in begin(0) .. begin(0) + width - 1
    BY <1>1, <1>9, <2>1
  <2> QED  BY <1>3, <1>6, <2>2
<1>12. hi \in B
  <2>1. begin(end) = lo + D * width
    BY <1>3, <1>7
  <2>2. hi \in begin(end) .. begin(end) + width - 1
    BY <1>1, <1>8, <1>9, <2>1
  <2> HIDE DEF hi
  <2> QED  BY <1>3, <1>6, <2>2
<1>13. ASSUME NEW b \in B PROVE b \in lo..hi
  <2>1. PICK p \in T : b \in begin(p) .. begin(p) + width - 1
    BY <1>6
  <2>2. begin(p) = lo + d(p) * width /\ d(p) * width \in Nat /\ d(p) \in 0..D
    BY <1>3, <1>7
  <2>3. d(p) * width <= D * width
    <3>1. D - d(p) \in Nat /\ d(p) \in Nat /\ D = d(p) + (D - d(p))
      BY <1>2, <2>2
    <3> DEFINE e == D - d(p)
               x == d(p)
    <3>2. e \in Nat /\ x \in Nat /\ D = x + e
      BY <3>1
    <3> HIDE DEF e, x
    <3>3. D * width = x * width + e * width /\ e * width \in Nat /\ x * width \in Nat
      BY <1>1, <3>2
    <3>4. x * width <= D * width
      BY <3>3
    <3> QED  BY <3>4 DEF x
  <2> QED  BY <1>1, <1>8, <1>9, <2>1, <2>2, <2>3
<1> HIDE DEF hi
<1>14. Min(B) = lo /\ Max(B) = hi
  BY <1>9, <1>10, <1>11, <1>12, <1>13, HullOfBytes
<1> QED  BY <1>8, <1>9, <1>14 DEF hullOf, B, lo, hi, size

(* Every value of an encoded function has a layout that encodes.           *)
LEMMA EncodedValues ==
  ASSUME isFunction(function), BodyInv, stage = "encoded", NEW v \in valuesOfBody
  PROVE  isBuilt(v) /\ layoutEncodes(v)
<1>1. PICK n \in DOMAIN function.body : v \in valuesOf(function.body[n])
  BY DEF valuesOfBody
<1> DEFINE operation == function.body[n]
<1>2. isOperation(operation)
  BY DEF isFunction
<1>3. operation.name \notin Skipped
  BY <1>1, <1>2 DEF isOperation
<1>4. encodingsOf(operation) # {}
  <2>1. n \in encodedPositions
    BY <1>3 DEF encodedPositions
  <2>2. n \in 1..Len(function.body) /\ n <= Len(function.body)
    <3>1. Len(function.body) \in Nat /\ DOMAIN function.body = 1..Len(function.body)
      BY Positions
    <3> QED  BY <3>1
  <2>3. Emitted(Len(function.body))
    BY DEF BodyInv
  <2> QED  BY <2>1, <2>2, <2>3 DEF Emitted
<1> HIDE DEF operation
<1>5. v \in valuesOf(operation)
  BY <1>1 DEF operation
<1>6. makeOperand(v) # {}
  <2>1. PICK opcode \in opcodesOf(operation.name), operands \in operandLists(operation),
             written \in UNION {makeOperand(w) : w \in operation.dest} : TRUE
    BY <1>4 DEF encodingsOf
  <2>2. CASE v \in operation.dest
    <3>1. PICK w \in operation.dest : written \in makeOperand(w)
      OBVIOUS
    <3>2. w = v
      BY <1>2, <2>2 DEF isOperation
    <3> QED  BY <3>1, <3>2
  <2>3. CASE \E k \in DOMAIN operation.ins : v = operation.ins[k]
    BY <2>3 DEF operandLists
  <2> QED  BY <1>5, <2>2, <2>3 DEF valuesOf
<1>7. layoutEncodes(v)
  BY <1>6 DEF makeOperand
<1> QED  BY <1>2, <1>5, <1>7 DEF isOperation

(* So two answers agree.                                                   *)
LEMMA OverlapsMatch ==
  ASSUME isFunction(function), BodyInv
  PROVE  OverlapAnalysisMatchesAddresses
<1> SUFFICES ASSUME stage = "encoded", NEW v \in valuesOfBody, NEW w \in valuesOfBody
             PROVE  IF ~analysable(v) \/ ~analysable(w) THEN overlaps(v, w) = "Unknown"
                    ELSE (overlaps(v, w) = "Overlaps") = (v.root = w.root /\ hullOf(v) \cap hullOf(w) # {})
  BY DEF OverlapAnalysisMatchesAddresses
<1>1. CASE ~analysable(v) \/ ~analysable(w)
  BY <1>1 DEF overlaps, computeBufferRange
<1>2. CASE analysable(v) /\ analysable(w)
  <2> DEFINE r == [base |-> v.root, offset |-> total(shiftsOf(v)), size |-> byteSpan(v.type)]
             s == [base |-> w.root, offset |-> total(shiftsOf(w)), size |-> byteSpan(w.type)]
  <2>0. spanIsKnown(v.type) /\ spanIsKnown(w.type)
    BY EncodedValues DEF layoutEncodes, spanIsKnown
  <2>1. computeBufferRange(v) = {r} /\ computeBufferRange(w) = {s}
    BY <1>2, <2>0 DEF computeBufferRange, shiftsOf
  <2>2. /\ r.offset \in Nat /\ r.size \in Nat \ {0} /\ hullOf(v) = r.offset .. (r.offset + r.size - 1)
        /\ s.offset \in Nat /\ s.size \in Nat \ {0} /\ hullOf(w) = s.offset .. (s.offset + s.size - 1)
    BY <1>2, EncodedValues, RangeIsTheHull
  <2>3. r.base = v.root /\ s.base = w.root
    OBVIOUS
  <2> HIDE DEF r, s
  <2>4. (overlaps(v, w) = "Overlaps")
          <=> r.base = s.base /\ r.offset < s.offset + s.size /\ s.offset < r.offset + r.size
    BY <2>1 DEF overlaps
  <2>5. hullOf(v) \cap hullOf(w) # {} <=> r.offset < s.offset + s.size /\ s.offset < r.offset + r.size
    <3> DEFINE a == r.offset
               b == r.offset + r.size - 1
               x == s.offset
               y == s.offset + s.size - 1
    <3>1. a \in Nat /\ b \in Nat /\ x \in Nat /\ y \in Nat /\ a <= b /\ x <= y
      BY <2>2
    <3>2. r.offset < s.offset + s.size <=> a <= y
      BY <2>2
    <3>3. s.offset < r.offset + r.size <=> x <= b
      BY <2>2
    <3> HIDE DEF a, b, x, y
    <3>4. (a..b) \cap (x..y) # {} <=> a <= y /\ x <= b
      <4>1. ASSUME a <= y, x <= b PROVE (a..b) \cap (x..y) # {}
        <5>1. CASE a <= x
          BY <3>1, <4>1, <5>1
        <5>2. CASE x <= a
          BY <3>1, <4>1, <5>2
        <5> QED  BY <3>1, <5>1, <5>2
      <4>2. ASSUME (a..b) \cap (x..y) # {} PROVE a <= y /\ x <= b
        BY <3>1, <4>2
      <4> QED  BY <4>1, <4>2
    <3> QED  BY <2>2, <3>2, <3>3, <3>4 DEF a, b, x, y
  <2> QED  BY <1>2, <2>3, <2>4, <2>5
<1> QED  BY <1>1, <1>2

(* The functions that are encoded are those the passes leave.              *)
LEMMA EncodedOverlapsMatch == EncodedInv => OverlapAnalysisMatchesAddresses
<1> SUFFICES ASSUME EncodedInv, stage = "encoded" PROVE OverlapAnalysisMatchesAddresses
  BY DEF OverlapAnalysisMatchesAddresses
<1>1. isFunction(function)
  BY EncodesWhatIsLeft DEF EncodedInv, JobInv
<1> QED  BY <1>1, OverlapsMatch DEF EncodedInv

(* For every function the passes leave, the overlap analysis               *)
(* (NPUISAMemoryOverlap.cpp) says that two buffers overlap exactly when    *)
(* they share a root and the spans of the bytes they address meet.         *)
THEOREM SpecAnalysesOverlapExactly == AsThePassesLeaveIt /\ Spec => []OverlapAnalysisMatchesAddresses
BY EncodedInvHolds, EncodedOverlapsMatch, PTL
==============================================================================
