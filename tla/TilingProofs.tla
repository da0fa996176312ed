---------------------------- MODULE TilingProofs ----------------------------
(***************************************************************************)
(* Why a tile of an accepted operation can always be generated, is itself  *)
(* accepted, reads what the operation read and fits what it was priced at, *)
(* and why the tiles of a grid assemble the result, each of its elements   *)
(* once, for every extent, kernel, stride, dilation and padding.           *)
(***************************************************************************)
EXTENDS Tiling, Induction

LEMMA ProductMonotone ==
  ASSUME NEW a \in Int, NEW b \in Int, NEW s \in Nat, a <= b
  PROVE  a * s <= b * s
  <1>1. (b - a) * s >= 0
    OBVIOUS
  <1>2. (b - a) * s = b * s - a * s
    OBVIOUS
  <1> QED BY <1>1, <1>2

(* The fields of a window, and the last window that fits.                  *)
LEMMA WindowFacts ==
  ASSUME NEW w, isWindow(w)
  PROVE  /\ w.input \in Nat \ {0} /\ w.kernel \in Nat \ {0} /\ w.stride \in Nat \ {0} /\ w.dilation \in Nat \ {0}
         /\ w.padBegin \in Nat /\ w.padBegin < w.kernel /\ w.padEnd \in Nat /\ w.padEnd < w.kernel
         /\ w.ceil = FALSE
         /\ effectiveKernel(w) \in Nat /\ w.kernel <= effectiveKernel(w)
         /\ computeWindowedExtent(w) \in Nat \ {0}
         /\ (computeWindowedExtent(w) - 1) * w.stride + effectiveKernel(w) <= w.input + w.padBegin + w.padEnd
  <1> DEFINE room == w.input + w.padBegin + w.padEnd - effectiveKernel(w)
             q == room \div w.stride
  <1>1. /\ w.input \in Nat \ {0} /\ w.kernel \in Nat \ {0} /\ w.stride \in Nat \ {0} /\ w.dilation \in Nat \ {0}
        /\ w.padBegin \in Nat /\ w.padBegin < w.kernel /\ w.padEnd \in Nat /\ w.padEnd < w.kernel
        /\ w.ceil = FALSE
    <2>1. /\ w.input \in Nat \ {0} /\ w.kernel \in Int /\ w.stride \in Int /\ w.dilation \in Int
          /\ w.padBegin \in Int /\ w.padEnd \in Int /\ w.ceil = FALSE
      BY DEF isWindow
    <2>2. /\ w.stride > 0 /\ w.dilation > 0 /\ w.kernel > 0
          /\ w.padBegin \in 0..(w.kernel - 1) /\ w.padEnd \in 0..(w.kernel - 1)
      BY DEF isWindow, accepted, representable
    <2> QED BY <2>1, <2>2
  <1>2. (w.dilation - 1) * (w.kernel - 1) >= 0
    BY <1>1
  <1>3. w.dilation * (w.kernel - 1) = (w.dilation - 1) * (w.kernel - 1) + (w.kernel - 1)
    BY <1>1
  <1>4. effectiveKernel(w) \in Nat /\ w.kernel <= effectiveKernel(w)
    BY <1>1, <1>2, <1>3 DEF effectiveKernel
  <1>5. room \in Int
    BY <1>1, <1>4
  <1>6. computeWindowedExtent(w) = 1 + q
    BY <1>1 DEF computeWindowedExtent, floorDivide
  <1>7. computeWindowedExtent(w) > 0
    BY DEF isWindow, accepted
  <1> HIDE DEF room
  <1>8. q \in Int /\ q * w.stride <= room
    BY <1>1, <1>5
  <1> HIDE DEF q
  <1>9. computeWindowedExtent(w) - 1 = q
    BY <1>6, <1>8
  <1>10. q * w.stride + effectiveKernel(w) <= w.input + w.padBegin + w.padEnd
    <2>1. q * w.stride \in Int
      BY <1>1, <1>8
    <2> QED BY <2>1, <1>1, <1>4, <1>8 DEF room
  <1>11. computeWindowedExtent(w) \in Nat \ {0}
    BY <1>6, <1>7, <1>8
  <1> QED BY <1>1, <1>4, <1>9, <1>10, <1>11

(* The rows a tile reaches, before clamping.                               *)
LEMMA Reach ==
  ASSUME NEW w, isWindow(w), NEW o \in Nat, NEW size \in Nat \ {0}, o + size <= computeWindowedExtent(w)
  PROVE  /\ firstReached(w, o) \in Int /\ lastReached(w, o, size) \in Int
         /\ -w.padBegin <= firstReached(w, o)
         /\ lastReached(w, o, size) <= w.input + w.padEnd
         /\ lastReached(w, o, size) - firstReached(w, o) = (size - 1) * w.stride + effectiveKernel(w)
         /\ (size - 1) * w.stride \in Nat
         /\ firstReached(w, o) < w.input /\ 0 < lastReached(w, o, size)
  <1> DEFINE e == effectiveKernel(w)
             n == computeWindowedExtent(w)
             x == o * w.stride
             y == (size - 1) * w.stride
             z == (n - 1) * w.stride
  <1>1. /\ w.input \in Nat \ {0} /\ w.kernel \in Nat \ {0} /\ w.stride \in Nat \ {0}
        /\ w.padBegin \in Nat /\ w.padBegin < w.kernel /\ w.padEnd \in Nat /\ w.padEnd < w.kernel
        /\ e \in Nat /\ w.kernel <= e /\ n \in Nat \ {0}
        /\ z + e <= w.input + w.padBegin + w.padEnd
    BY WindowFacts
  <1>2. (o + size - 1) * w.stride = x + y
    BY <1>1
  <1>3. (o + size - 1) * w.stride <= z
    <2>1. o + size - 1 <= n - 1
      BY <1>1
    <2>2. o + size - 1 \in Int /\ n - 1 \in Int /\ w.stride \in Nat
      BY <1>1
    <2> QED BY <2>1, <2>2, ProductMonotone
  <1>4. x \in Nat /\ y \in Nat
    <2>1. x \in Nat
      BY <1>1
    <2>2. y \in Nat
      BY <1>1
    <2> QED BY <2>1, <2>2
  <1>5. z \in Int
    BY <1>1
  <1>6. firstReached(w, o) = x - w.padBegin
    BY DEF firstReached
  <1>7. lastReached(w, o, size) = x + y - w.padBegin + e
    <2> DEFINE p == (o + size - 1) * w.stride
    <2>1. lastReached(w, o, size) = p - w.padBegin + e
      BY DEF lastReached
    <2>2. p = x + y
      BY <1>2
    <2>3. x \in Nat /\ y \in Nat /\ e \in Nat /\ w.padBegin \in Nat
      BY <1>1, <1>4
    <2> HIDE DEF p, e, x, y
    <2> QED BY <2>1, <2>2, <2>3
  <1> HIDE DEF e, n, x, y, z
  <1>8. /\ firstReached(w, o) \in Int /\ lastReached(w, o, size) \in Int
        /\ -w.padBegin <= firstReached(w, o)
        /\ lastReached(w, o, size) <= w.input + w.padEnd
        /\ lastReached(w, o, size) - firstReached(w, o) = y + e
        /\ firstReached(w, o) < w.input /\ 0 < lastReached(w, o, size)
    BY <1>1, <1>2, <1>3, <1>4, <1>5, <1>6, <1>7
  <1> QED BY <1>4, <1>8 DEF e, y

(***************************************************************************)
(* windowSlice of an accepted window never comes back empty: the nullopt   *)
(* of NPUTilingInterfaceImpl.cpp is not reached on a verified operation.   *)
(***************************************************************************)
LEMMA SliceNeverEmpty ==
  ASSUME NEW w, isWindow(w), NEW o \in Nat, NEW size \in Nat \ {0}, o + size <= computeWindowedExtent(w)
  PROVE  sliceExists(w, o, size)
  <1> DEFINE first == firstReached(w, o)
             last == lastReached(w, o, size)
             y == (size - 1) * w.stride
  <1>1. /\ first \in Int /\ last \in Int /\ last - first = y + effectiveKernel(w) /\ y \in Nat
        /\ first < w.input /\ 0 < last
    BY Reach
  <1>2. w.input \in Nat \ {0} /\ effectiveKernel(w) \in Nat /\ effectiveKernel(w) >= 1
    <2>1. w.input \in Nat \ {0} /\ effectiveKernel(w) \in Nat /\ w.kernel \in Nat \ {0} /\ w.kernel <= effectiveKernel(w)
      BY WindowFacts
    <2> QED BY <2>1
  <1>3. sliceBegin(w, o) = Larger(0, first) /\ sliceEnd(w, o, size) = Smaller(w.input, last)
    BY DEF sliceBegin, sliceEnd
  <1> HIDE DEF first, last, y
  <1>4. sliceBegin(w, o) < sliceEnd(w, o, size)
    BY <1>1, <1>2, <1>3 DEF Larger, Smaller
  <1> QED BY <1>2, <1>4 DEF sliceExists

(***************************************************************************)
(* The window of the tile passes the verifier with the extent asked for.   *)
(***************************************************************************)
THEOREM TileIsAccepted ==
  ASSUME NEW w, isWindow(w), NEW o \in Nat, NEW size \in Nat \ {0}, o + size <= computeWindowedExtent(w)
  PROVE  /\ accepted(windowSlice(w, o, size))
         /\ computeWindowedExtent(windowSlice(w, o, size)) = size
  <1> DEFINE t == windowSlice(w, o, size)
             first == firstReached(w, o)
             last == lastReached(w, o, size)
             y == (size - 1) * w.stride
  <1>1. w \in [input : Nat \ {0}, kernel : Int, stride : Int, dilation : Int, padBegin : Int, padEnd : Int, ceil : {FALSE}]
    BY DEF isWindow
  <1>2. /\ t.kernel = w.kernel /\ t.stride = w.stride /\ t.dilation = w.dilation /\ t.ceil = FALSE
        /\ t.input = sliceEnd(w, o, size) - sliceBegin(w, o)
        /\ t.padBegin = sliceBegin(w, o) - first /\ t.padEnd = last - sliceEnd(w, o, size)
    BY <1>1 DEF windowSlice
  <1>3. effectiveKernel(t) = effectiveKernel(w)
    BY <1>2 DEF effectiveKernel
  <1> HIDE DEF t
  <1>4. /\ first \in Int /\ last \in Int /\ -w.padBegin <= first /\ last <= w.input + w.padEnd
        /\ last - first = y + effectiveKernel(w) /\ y \in Nat /\ first < w.input /\ 0 < last
    BY Reach
  <1>5. /\ w.input \in Nat \ {0} /\ w.kernel \in Nat \ {0} /\ w.stride \in Nat \ {0} /\ w.dilation \in Nat \ {0}
        /\ w.padBegin \in Nat /\ w.padBegin < w.kernel /\ w.padEnd \in Nat /\ w.padEnd < w.kernel
        /\ effectiveKernel(w) \in Nat
    BY WindowFacts
  <1>6. sliceBegin(w, o) = Larger(0, first) /\ sliceEnd(w, o, size) = Smaller(w.input, last)
    BY DEF sliceBegin, sliceEnd
  <1> HIDE DEF first, last, y
  <1>7. t.padBegin \in 0..(w.kernel - 1) /\ t.padEnd \in 0..(w.kernel - 1)
    BY <1>2, <1>4, <1>5, <1>6 DEF Larger, Smaller
  <1>8. t.input + t.padBegin + t.padEnd - effectiveKernel(t) = y
    BY <1>2, <1>3, <1>4, <1>5, <1>6 DEF Larger, Smaller
  <1>9. computeWindowedExtent(t) = 1 + (y \div w.stride)
    BY <1>2, <1>8 DEF computeWindowedExtent, floorDivide
  <1>10. y \div w.stride = size - 1
    BY <1>5 DEF y
  <1>11. computeWindowedExtent(t) = size
    BY <1>9, <1>10
  <1>12. representable(t)
    BY <1>2, <1>5, <1>7 DEF representable
  <1> QED BY <1>11, <1>12 DEF accepted, t

(***************************************************************************)
(* Every tap of the tile reads the element the operation's own tap read,   *)
(* and reads padding exactly when that one did.                            *)
(***************************************************************************)
THEOREM TapsAgree ==
  ASSUME NEW w, isWindow(w), NEW o \in Nat, NEW size \in Nat \ {0}, o + size <= computeWindowedExtent(w),
         NEW j \in 0..(size - 1), NEW k \in 0..(w.kernel - 1)
  PROVE  LET t == windowSlice(w, o, size)
         IN  /\ sliceBegin(w, o) + tapPosition(t, j, k) = tapPosition(w, o + j, k)
             /\ inInput(t, tapPosition(t, j, k)) <=> inInput(w, tapPosition(w, o + j, k))
  <1> DEFINE t == windowSlice(w, o, size)
             first == firstReached(w, o)
             last == lastReached(w, o, size)
             y == (size - 1) * w.stride
             u == j * w.stride
             v == k * w.dilation
  <1>1. w \in [input : Nat \ {0}, kernel : Int, stride : Int, dilation : Int, padBegin : Int, padEnd : Int, ceil : {FALSE}]
    BY DEF isWindow
  <1>2. /\ t.stride = w.stride /\ t.dilation = w.dilation
        /\ t.input = sliceEnd(w, o, size) - sliceBegin(w, o)
        /\ t.padBegin = sliceBegin(w, o) - first
    BY <1>1 DEF windowSlice
  <1> HIDE DEF t
  <1>3. /\ first \in Int /\ last \in Int
        /\ last - first = y + effectiveKernel(w) /\ y \in Nat
    BY Reach
  <1>4. /\ w.input \in Nat \ {0} /\ w.kernel \in Nat \ {0} /\ w.stride \in Nat \ {0} /\ w.dilation \in Nat \ {0}
        /\ w.padBegin \in Nat
    BY WindowFacts
  <1>5. sliceBegin(w, o) = Larger(0, first) /\ sliceEnd(w, o, size) = Smaller(w.input, last)
    BY DEF sliceBegin, sliceEnd
  <1>6. u \in Nat /\ v \in Nat
    <2>1. u \in Nat
      BY <1>4
    <2>2. v \in Nat
      BY <1>4
    <2> QED BY <2>1, <2>2
  <1>7. tapPosition(t, j, k) = u - t.padBegin + v
    BY <1>2 DEF tapPosition
  <1>8. tapPosition(w, o + j, k) = first + u + v
    <2> DEFINE p == (o + j) * w.stride
               x == o * w.stride
    <2>1. p = x + u
      BY <1>4
    <2>2. x \in Int
      BY <1>4
    <2>3. tapPosition(w, o + j, k) = p - w.padBegin + v /\ first = x - w.padBegin
      BY DEF tapPosition, firstReached
    <2> HIDE DEF u, v, p, x, first
    <2> QED BY <2>1, <2>2, <2>3, <1>4, <1>6
  <1>9. u <= y
    <2>1. j \in Int /\ size - 1 \in Int /\ j <= size - 1 /\ w.stride \in Nat
      BY <1>4
    <2> QED BY <2>1, ProductMonotone
  <1>10. v < effectiveKernel(w)
    <2>1. k \in Int /\ w.kernel - 1 \in Int /\ k <= w.kernel - 1 /\ w.dilation \in Nat
      BY <1>4
    <2>2. k * w.dilation <= (w.kernel - 1) * w.dilation
      BY <2>1, ProductMonotone
    <2>3. (w.kernel - 1) * w.dilation = w.dilation * (w.kernel - 1) /\ (w.kernel - 1) * w.dilation \in Int
      BY <1>4
    <2> QED BY <2>2, <2>3, <1>6 DEF effectiveKernel
  <1>11. effectiveKernel(w) \in Nat
    BY WindowFacts
  <1> HIDE DEF first, last, y, u, v
  <1>12. sliceBegin(w, o) + tapPosition(t, j, k) = tapPosition(w, o + j, k)
    BY <1>2, <1>3, <1>4, <1>5, <1>6, <1>7, <1>8 DEF Larger
  <1>13. inInput(t, tapPosition(t, j, k)) <=> inInput(w, tapPosition(w, o + j, k))
    BY <1>2, <1>3, <1>4, <1>5, <1>6, <1>7, <1>8, <1>9, <1>10, <1>11 DEF Larger, Smaller, inInput
  <1> QED BY <1>12, <1>13 DEF t

(***************************************************************************)
(* A tile reads no more rows than the search priced it at.                 *)
(***************************************************************************)
THEOREM HaloIsPriced ==
  ASSUME NEW w, isWindow(w), NEW o \in Nat, NEW size \in Nat \ {0}, o + size <= computeWindowedExtent(w)
  PROVE  windowSlice(w, o, size).input <= tiledInputExtent(w, size)
  <1>1. w \in [input : Nat \ {0}, kernel : Int, stride : Int, dilation : Int, padBegin : Int, padEnd : Int, ceil : {FALSE}]
    BY DEF isWindow
  <1>2. windowSlice(w, o, size).input = sliceEnd(w, o, size) - sliceBegin(w, o)
    BY <1>1 DEF windowSlice
  <1>3. w.input \in Nat /\ effectiveKernel(w) \in Nat
    BY WindowFacts
  <1> DEFINE y == (size - 1) * w.stride
  <1>4. /\ firstReached(w, o) \in Int /\ lastReached(w, o, size) \in Int
        /\ lastReached(w, o, size) - firstReached(w, o) = y + effectiveKernel(w) /\ y \in Nat
    BY Reach
  <1>5. tiledInputExtent(w, size) = Smaller(w.input, y + effectiveKernel(w))
    BY DEF tiledInputExtent
  <1> HIDE DEF y
  <1> QED BY <1>2, <1>3, <1>4, <1>5 DEF sliceBegin, sliceEnd, Larger, Smaller

(***************************************************************************)
(* NPUShapeUtils.cpp: a pad below the kernel extent rules out a window     *)
(* that reads nothing but padding.  It does where the dilation is one.     *)
(***************************************************************************)
THEOREM NoWindowIsAllPadding ==
  ASSUME NEW w, isWindow(w), w.dilation = 1, NEW o \in 0..(computeWindowedExtent(w) - 1)
  PROVE  \E k \in 0..(w.kernel - 1) : inInput(w, tapPosition(w, o, k))
  <1> DEFINE first == firstReached(w, o)
  <1>1. /\ w.input \in Nat \ {0} /\ w.kernel \in Nat \ {0} /\ w.padBegin \in Nat /\ w.padBegin < w.kernel
        /\ computeWindowedExtent(w) \in Nat \ {0} /\ w.stride \in Nat \ {0}
    BY WindowFacts
  <1>2. o \in Nat /\ 1 \in Nat \ {0} /\ o + 1 <= computeWindowedExtent(w)
    BY <1>1
  <1>3. first \in Int /\ -w.padBegin <= first /\ first < w.input
    BY <1>2, Reach
  <1>4. \A k \in Int : tapPosition(w, o, k) = first + k
    BY <1>1, <1>2 DEF tapPosition, firstReached
  <1> HIDE DEF first
  <1>5. CASE first >= 0
    <2>1. 0 \in 0..(w.kernel - 1) /\ tapPosition(w, o, 0) = first
      BY <1>1, <1>3, <1>4
    <2> QED BY <2>1, <1>3, <1>5 DEF inInput
  <1>6. CASE first < 0
    <2>1. -first \in 0..(w.kernel - 1) /\ tapPosition(w, o, -first) = 0
      BY <1>1, <1>3, <1>4, <1>6
    <2> QED BY <2>1, <1>1 DEF inInput
  <1> QED BY <1>3, <1>5, <1>6

-----------------------------------------------------------------------------
(* The grid: every tile lies inside the domain.                            *)
LEMMA QuotientOfAMultiple ==
  ASSUME NEW e \in Nat, NEW t \in Nat \ {0}, t <= e, e % t = 0
  PROVE  e \div t \in Nat \ {0} /\ (e \div t) * t = e
  <1>1. e \div t \in Nat /\ e = t * (e \div t) + (e % t)
    OBVIOUS
  <1>2. t * (e \div t) = (e \div t) * t
    BY <1>1
  <1>3. (e \div t) * t = e
    BY <1>1, <1>2
  <1>4. e \div t # 0
    BY <1>1, <1>3
  <1> QED BY <1>1, <1>3, <1>4

LEMMA ProductPositive ==
  ASSUME NEW a \in Nat \ {0}, NEW b \in Nat \ {0}
  PROVE  a * b \in Nat \ {0}
  OBVIOUS

LEMMA ExtentsAreNatural ==
  ASSUME NEW p, isProblem(p), NEW n \in Slots
  PROVE  extentsOf(p)[n] \in Nat
  <1>1. CASE p.conv
    <2>1. computeWindowedExtent(p.height) \in Nat /\ computeWindowedExtent(p.width) \in Nat
      BY WindowFacts DEF isProblem
    <2>2. p.batch \in Nat /\ p.group \in Nat /\ p.channels \in Nat
      BY DEF isProblem
    <2> QED BY <1>1, <2>1, <2>2 DEF extentsOf, Slots
  <1>2. CASE ~p.conv
    <2>1. p.batch \in Nat /\ p.channels \in Nat
      BY DEF isProblem
    <2> QED BY <1>2, <2>1 DEF extentsOf, Slots
  <1> QED BY <1>1, <1>2

(* Division undoes a product and a smaller remainder.                      *)
LEMMA Quotient ==
  ASSUME NEW a \in Nat \ {0}, NEW q \in Nat, NEW r \in 0..(a - 1)
  PROVE  (a * q + r) \div a = q /\ (a * q + r) % a = r
  <1> DEFINE x == a * q + r
             y == x \div a
             z == x % a
  <1>1. x \in Nat /\ a * q \in Nat
    OBVIOUS
  <1> HIDE DEF x
  <1>2. y \in Nat /\ z \in 0..(a - 1) /\ x = a * y + z
    BY <1>1
  <1> HIDE DEF y, z
  <1>3. a * (q - y) = z - r
    <2>1. a * q + r = a * y + z
      BY <1>2 DEF x
    <2>2. a * (q - y) = a * q - a * y
      BY <1>2
    <2> DEFINE m == a * q
               n == a * y
    <2>3. m \in Nat /\ n \in Nat /\ m + r = n + z
      BY <1>1, <1>2, <2>1
    <2> HIDE DEF m, n
    <2>4. m - n = z - r
      BY <1>2, <2>3
    <2> QED BY <2>2, <2>4 DEF m, n
  <1>4. q - y \in Int /\ z - r \in Int /\ z - r < a /\ z - r > -a
    BY <1>2
  <1>5. CASE q - y >= 1
    <2>1. a * (q - y) >= a
      BY <1>4, <1>5
    <2> QED BY <2>1, <1>3, <1>4
  <1>6. CASE q - y <= -1
    <2>1. a * (q - y) <= -a
      BY <1>4, <1>6
    <2> QED BY <2>1, <1>3, <1>4
  <1>7. CASE q - y = 0
    <2>1. q = y /\ z = r
      <3>1. a * (q - y) = 0
        BY <1>7
      <3> QED BY <3>1, <1>2, <1>3, <1>7
    <2> QED BY <2>1 DEF x, y, z
  <1> QED BY <1>4, <1>5, <1>6, <1>7

LEMMA Division ==
  ASSUME NEW k \in Nat, NEW a \in Nat \ {0}
  PROVE  k \div a \in Nat /\ k % a \in 0..(a - 1) /\ k = a * (k \div a) + (k % a)
  OBVIOUS

(***************************************************************************)
(* The grid position of a tile, counted in tiles.                          *)
(***************************************************************************)
gridAt(p, t, k) ==
  LET c == countsOf(p, t)
      inner == <<c[2] * c[3] * c[4] * c[5], c[3] * c[4] * c[5], c[4] * c[5], c[5], 1>>
  IN  [n \in Slots |-> (k \div inner[n]) % c[n]]

LEMMA GridPosition ==
  ASSUME NEW p, isProblem(p), NEW t, wholeTiles(p, t), NEW k \in Nat, NEW n \in Slots
  PROVE  /\ countsOf(p, t)[n] \in Nat \ {0} /\ t[n] \in Nat \ {0} /\ t[n] <= extentsOf(p)[n]
         /\ extentsOf(p)[n] \in Nat /\ countsOf(p, t)[n] * t[n] = extentsOf(p)[n]
         /\ gridAt(p, t, k)[n] \in 0..(countsOf(p, t)[n] - 1)
         /\ tilePosition(p, t, k)[n] = gridAt(p, t, k)[n] * t[n]
         /\ tilePosition(p, t, k)[n] = t[n] * gridAt(p, t, k)[n]
  <1> DEFINE c == countsOf(p, t)
             inner == <<c[2] * c[3] * c[4] * c[5], c[3] * c[4] * c[5], c[4] * c[5], c[5], 1>>
  <1>1. ASSUME NEW m \in Slots
        PROVE  /\ t[m] \in Nat \ {0} /\ t[m] <= extentsOf(p)[m] /\ extentsOf(p)[m] \in Nat
               /\ c[m] \in Nat \ {0} /\ c[m] * t[m] = extentsOf(p)[m]
    <2>1. extentsOf(p)[m] \in Nat
      BY ExtentsAreNatural
    <2>2. t[m] \in 1..extentsOf(p)[m] /\ extentsOf(p)[m] % t[m] = 0
      BY DEF wholeTiles, divisorsOf
    <2>3. t[m] \in Nat \ {0} /\ t[m] <= extentsOf(p)[m]
      BY <2>1, <2>2
    <2>4. c[m] = extentsOf(p)[m] \div t[m]
      BY DEF countsOf
    <2> QED BY <2>1, <2>2, <2>3, <2>4, QuotientOfAMultiple
  <1>2. tilePosition(p, t, k)[n] = ((k \div inner[n]) % c[n]) * t[n] /\ gridAt(p, t, k)[n] = (k \div inner[n]) % c[n]
    BY DEF tilePosition, gridAt
  <1>3. /\ 1 \in Slots /\ 2 \in Slots /\ 3 \in Slots /\ 4 \in Slots /\ 5 \in Slots
        /\ n = 1 \/ n = 2 \/ n = 3 \/ n = 4 \/ n = 5
    BY DEF Slots
  <1>4. c[2] \in Nat \ {0} /\ c[3] \in Nat \ {0} /\ c[4] \in Nat \ {0} /\ c[5] \in Nat \ {0}
    BY <1>1, <1>3
  <1>5. inner[n] \in Nat \ {0}
    <2> HIDE DEF c
    <2>1. c[4] * c[5] \in Nat \ {0}
      BY <1>4, ProductPositive
    <2>2. c[3] * c[4] \in Nat \ {0} /\ c[2] * c[3] \in Nat \ {0}
      BY <1>4, ProductPositive
    <2>3. c[3] * c[4] * c[5] \in Nat \ {0} /\ c[2] * c[3] * c[4] \in Nat \ {0}
      BY <1>4, <2>2, ProductPositive
    <2>4. c[2] * c[3] * c[4] * c[5] \in Nat \ {0}
      BY <1>4, <2>3, ProductPositive
    <2> QED BY <1>3, <1>4, <2>1, <2>3, <2>4
  <1> DEFINE i == inner[n]
             d == c[n]
             s == t[n]
             r == (k \div i) % d
  <1>6. i \in Nat \ {0} /\ d \in Nat \ {0} /\ s \in Nat \ {0}
    BY <1>1, <1>5
  <1>7. tilePosition(p, t, k)[n] = r * s /\ gridAt(p, t, k)[n] = r
    BY <1>2
  <1> HIDE DEF i, c, inner
  <1>8. k \div i \in Nat
    BY <1>6
  <1>9. r \in 0..(d - 1)
    BY <1>6, <1>8, Division
  <1>10. r * s = s * r
    BY <1>6, <1>9
  <1> QED BY <1>1, <1>7, <1>9, <1>10 DEF c

LEMMA TileInsideTheDomain ==
  ASSUME NEW p, isProblem(p), NEW t, wholeTiles(p, t), NEW k \in Nat, NEW n \in Slots
  PROVE  /\ t[n] \in Nat \ {0} /\ t[n] <= extentsOf(p)[n]
         /\ tilePosition(p, t, k)[n] \in Nat
         /\ tilePosition(p, t, k)[n] + t[n] <= extentsOf(p)[n]
  <1> DEFINE d == countsOf(p, t)[n]
             s == t[n]
             r == gridAt(p, t, k)[n]
  <1>1. d \in Nat \ {0} /\ s \in Nat \ {0} /\ s <= extentsOf(p)[n] /\ d * s = extentsOf(p)[n]
    BY GridPosition
  <1>2. r \in 0..(d - 1) /\ tilePosition(p, t, k)[n] = r * s
    BY GridPosition
  <1> HIDE DEF d, s, r
  <1>3. r \in Nat /\ r <= d - 1
    BY <1>1, <1>2
  <1>4. r * s <= (d - 1) * s
    BY <1>1, <1>3, ProductMonotone
  <1>5. (d - 1) * s = d * s - s /\ r * s \in Nat /\ d * s \in Nat
    BY <1>1, <1>3
  <1>6. r * s + s <= extentsOf(p)[n]
    <2> DEFINE x == r * s
               y == d * s
    <2>1. x <= y - s /\ x \in Nat /\ y \in Nat /\ y = extentsOf(p)[n]
      BY <1>1, <1>4, <1>5
    <2> HIDE DEF x, y
    <2>2. x + s <= extentsOf(p)[n]
      BY <2>1, <1>1
    <2> QED BY <2>2 DEF x
  <1> QED BY <1>1, <1>2, <1>5, <1>6 DEF s

(* getTiledImplementation never fails on a whole, foldable tile.           *)
LEMMA TileIsGenerated ==
  ASSUME NEW p, isProblem(p), NEW t, wholeTiles(p, t), foldable(p, t), NEW k \in Nat
  PROVE  generated(p, tilePosition(p, t, k), t)
  <1> DEFINE at == tilePosition(p, t, k)
  <1>1. CASE p.conv
    <2>1. extentsOf(p)[4] = computeWindowedExtent(p.height) /\ extentsOf(p)[5] = computeWindowedExtent(p.width)
      BY <1>1 DEF extentsOf
    <2>2. 4 \in Slots /\ 5 \in Slots
      BY DEF Slots
    <2>3. /\ t[4] \in Nat \ {0} /\ at[4] \in Nat /\ at[4] + t[4] <= computeWindowedExtent(p.height)
          /\ t[5] \in Nat \ {0} /\ at[5] \in Nat /\ at[5] + t[5] <= computeWindowedExtent(p.width)
      BY <2>1, <2>2, TileInsideTheDomain
    <2>4. isWindow(p.height) /\ isWindow(p.width)
      BY DEF isProblem
    <2>5. sliceExists(p.height, at[4], t[4]) /\ sliceExists(p.width, at[5], t[5])
      BY <2>3, <2>4, SliceNeverEmpty
    <2> QED BY <2>5 DEF generated
  <1>2. CASE ~p.conv
    BY <1>2 DEF generated
  <1> QED BY <1>1, <1>2

(* The windows of a tile, and what it reads of the input.                  *)
LEMMA TileWindows ==
  ASSUME NEW p, isProblem(p), p.conv, NEW t, wholeTiles(p, t), NEW k \in Nat
  PROVE  LET op == tileOp(p, tilePosition(p, t, k), t)
         IN  /\ accepted(op.height) /\ computeWindowedExtent(op.height) = t[4]
             /\ accepted(op.width) /\ computeWindowedExtent(op.width) = t[5]
             /\ op.height.input \in Nat /\ op.width.input \in Nat
             /\ op.height.input <= tiledInputExtent(p.height, t[4])
             /\ op.width.input <= tiledInputExtent(p.width, t[5])
             /\ tiledInputExtent(p.height, t[4]) \in Nat /\ tiledInputExtent(p.width, t[5]) \in Nat
  <1> DEFINE at == tilePosition(p, t, k)
             op == tileOp(p, at, t)
  <1>1. extentsOf(p)[4] = computeWindowedExtent(p.height) /\ extentsOf(p)[5] = computeWindowedExtent(p.width)
    BY DEF extentsOf
  <1>2. 4 \in Slots /\ 5 \in Slots
    BY DEF Slots
  <1>3. /\ t[4] \in Nat \ {0} /\ at[4] \in Nat /\ at[4] + t[4] <= computeWindowedExtent(p.height)
        /\ t[5] \in Nat \ {0} /\ at[5] \in Nat /\ at[5] + t[5] <= computeWindowedExtent(p.width)
    BY <1>1, <1>2, TileInsideTheDomain
  <1>4. isWindow(p.height) /\ isWindow(p.width)
    BY DEF isProblem
  <1>5. op.height = windowSlice(p.height, at[4], t[4]) /\ op.width = windowSlice(p.width, at[5], t[5])
    BY DEF tileOp
  <1>6. ASSUME NEW w, isWindow(w), NEW o \in Nat, NEW size \in Nat \ {0}, o + size <= computeWindowedExtent(w)
        PROVE  windowSlice(w, o, size).input \in Nat /\ tiledInputExtent(w, size) \in Nat
    <2>1. w \in [input : Nat \ {0}, kernel : Int, stride : Int, dilation : Int, padBegin : Int, padEnd : Int, ceil : {FALSE}]
      BY <1>6 DEF isWindow
    <2>2. windowSlice(w, o, size).input = sliceEnd(w, o, size) - sliceBegin(w, o)
      BY <2>1 DEF windowSlice
    <2>3. sliceBegin(w, o) < sliceEnd(w, o, size)
      BY <1>6, SliceNeverEmpty DEF sliceExists
    <2>4. w.input \in Nat /\ effectiveKernel(w) \in Nat
      BY <1>6, WindowFacts
    <2>5. firstReached(w, o) \in Int /\ lastReached(w, o, size) \in Int /\ (size - 1) * w.stride \in Nat
      BY <1>6, Reach
    <2>6. sliceBegin(w, o) \in Int /\ sliceEnd(w, o, size) \in Int
      BY <2>4, <2>5 DEF sliceBegin, sliceEnd, Larger, Smaller
    <2>7. tiledInputExtent(w, size) \in Nat
      BY <2>4, <2>5 DEF tiledInputExtent, Smaller
    <2> QED BY <2>2, <2>3, <2>6, <2>7
  <1> HIDE DEF at
  <1>7. /\ accepted(op.height) /\ computeWindowedExtent(op.height) = t[4]
        /\ accepted(op.width) /\ computeWindowedExtent(op.width) = t[5]
    BY <1>3, <1>4, <1>5, TileIsAccepted
  <1>8. /\ op.height.input <= tiledInputExtent(p.height, t[4])
        /\ op.width.input <= tiledInputExtent(p.width, t[5])
    BY <1>3, <1>4, <1>5, HaloIsPriced
  <1>9. /\ op.height.input \in Nat /\ op.width.input \in Nat
        /\ tiledInputExtent(p.height, t[4]) \in Nat /\ tiledInputExtent(p.width, t[5]) \in Nat
    BY <1>3, <1>4, <1>5, <1>6
  <1> QED BY <1>7, <1>8, <1>9 DEF at

LEMMA MultipleLeavesNothing ==
  ASSUME NEW a \in Nat \ {0}, NEW b \in Nat
  PROVE  (a * b) % a = 0
  <1>1. (a * b) % a \in 0..(a - 1) /\ a * b = (a * ((a * b) \div a)) + ((a * b) % a) /\ (a * b) \div a \in Nat
    <2> DEFINE m == a * b
    <2>1. m \in Nat
      OBVIOUS
    <2> HIDE DEF m
    <2>2. m % a \in 0..(a - 1) /\ m = (a * (m \div a)) + (m % a) /\ m \div a \in Nat
      BY <2>1
    <2> QED BY <2>2 DEF m
  <1> DEFINE q == (a * b) \div a
             r == (a * b) % a
  <1>2. q \in Nat /\ r \in Nat /\ r < a
    BY <1>1
  <1>3. a * (b - q) = r
    BY <1>1, <1>2
  <1>4. b - q \in Int
    BY <1>2
  <1> HIDE DEF q, r
  <1>5. CASE b - q >= 1
    <2>1. a * (b - q) >= a
      BY <1>4, <1>5
    <2> QED BY <2>1, <1>2, <1>3
  <1>6. CASE b - q <= -1
    <2>1. a * (b - q) <= -a
      BY <1>4, <1>6
    <2> QED BY <2>1, <1>2, <1>3
  <1>7. CASE b - q = 0
    <2>1. a * (b - q) = 0
      BY <1>7
    <2> QED BY <2>1, <1>3 DEF r
  <1> QED BY <1>4, <1>5, <1>6, <1>7

LEMMA ProductOfBounded ==
  ASSUME NEW a \in Nat, NEW b \in Nat, NEW c \in Nat, NEW d \in Nat, a <= c, b <= d
  PROVE  a * b <= c * d /\ a * b \in Nat /\ c * d \in Nat
  <1>1. a * b <= c * b
    BY ProductMonotone
  <1>2. b * c <= d * c
    BY ProductMonotone
  <1>3. b * c = c * b /\ d * c = c * d /\ a * b \in Nat /\ c * b \in Nat /\ c * d \in Nat
    OBVIOUS
  <1> DEFINE x == a * b
             y == c * b
             z == c * d
  <1>4. x <= y /\ y <= z /\ x \in Nat /\ y \in Nat /\ z \in Nat
    BY <1>1, <1>2, <1>3
  <1> HIDE DEF x, y, z
  <1>5. x <= z
    BY <1>4
  <1> QED BY <1>4, <1>5 DEF x, z

(* The input part is the only one the halo can make a tile differ in.      *)
LEMMA TileHoldsWhatItWasPricedAt ==
  ASSUME NEW p, isProblem(p), NEW t, wholeTiles(p, t), \A n \in Slots : t[n] \in Nat, NEW k \in Nat,
         NEW op, op = tileOp(p, tilePosition(p, t, k), t), op.batch = t[1], op.groups = t[2]
  PROVE  operandBytes(op, p, t) <= tileBytes(p, t, doubleBuffer)
  <1> DEFINE held == IF p.conv THEN op.height.input * op.width.input ELSE 1
             priced == IF p.conv THEN tiledInputExtent(p.height, t[4]) * tiledInputExtent(p.width, t[5]) ELSE 1
             base == t[1] * t[2] * p.inputs
             input == base * held
             rest == filterElements(p, t) + biasElements(p, t) + product(t)
  <1>1. held \in Nat /\ priced \in Nat /\ held <= priced
    <2>1. CASE p.conv
      <3>1. /\ op.height.input \in Nat /\ op.width.input \in Nat
            /\ op.height.input <= tiledInputExtent(p.height, t[4])
            /\ op.width.input <= tiledInputExtent(p.width, t[5])
            /\ tiledInputExtent(p.height, t[4]) \in Nat /\ tiledInputExtent(p.width, t[5]) \in Nat
        BY <2>1, TileWindows
      <3> QED BY <2>1, <3>1, ProductOfBounded
    <2> QED BY <2>1
  <1>2. /\ t[1] \in Nat /\ t[2] \in Nat /\ t[3] \in Nat /\ t[4] \in Nat /\ t[5] \in Nat /\ p.inputs \in Nat
    BY DEF Slots, isProblem
  <1>3. base \in Nat
    BY <1>2
  <1>4. filterElements(p, t) \in Nat
    <2>1. CASE p.conv
      <3>1. p.height.kernel \in Nat /\ p.width.kernel \in Nat
        BY WindowFacts DEF isProblem
      <3>2. kernelArea(p) \in Nat
        BY <3>1 DEF kernelArea
      <3>3. t[2] * t[3] * p.inputs \in Nat
        BY <1>2
      <3> QED BY <2>1, <3>2, <3>3 DEF filterElements
    <2>2. CASE ~p.conv
      BY <1>2, <2>2 DEF filterElements
    <2> QED BY <2>1, <2>2
  <1>5. biasElements(p, t) \in Nat
    BY <1>2 DEF biasElements
  <1>6. product(t) \in Nat
    BY <1>2 DEF product
  <1>7. inputElements(p, t) = base * priced
    BY DEF inputElements
  <1> HIDE DEF held, priced, base
  <1>8. input \in Nat /\ base * priced \in Nat /\ input <= base * priced
    <2>1. base <= base
      BY <1>3
    <2> QED BY <2>1, <1>1, <1>3, ProductOfBounded
  <1> DEFINE x == base * priced
             l == filterElements(p, t)
             m == biasElements(p, t)
             n == product(t)
  <1>9. operandBytes(op, p, t) = Width * (input + l + m + n + IF doubleBuffer THEN input ELSE 0)
    BY DEF operandBytes, held, base
  <1>10. tileBytes(p, t, doubleBuffer) = Width * (x + l + m + n + IF doubleBuffer THEN x ELSE 0)
    BY <1>7 DEF tileBytes
  <1>11. input \in Nat /\ x \in Nat /\ input <= x /\ l \in Nat /\ m \in Nat /\ n \in Nat
    BY <1>4, <1>5, <1>6, <1>8
  <1> HIDE DEF input, x, l, m, n
  <1> DEFINE y == input + l + m + n + IF doubleBuffer THEN input ELSE 0
             z == x + l + m + n + IF doubleBuffer THEN x ELSE 0
  <1>12. y \in Nat /\ z \in Nat /\ y <= z
    BY <1>11
  <1> HIDE DEF y, z
  <1>13. Width * y <= Width * z
    <2>1. Width \in Nat /\ Width <= Width
      BY WidthAssumption
    <2> QED BY <2>1, <1>12, ProductOfBounded
  <1> QED BY <1>9, <1>10, <1>13 DEF y, z

-----------------------------------------------------------------------------
(* The tiles of the grid, and the elements each one inserts.               *)
(* Dividing by a product is dividing twice.                                *)
LEMMA DivideTwice ==
  ASSUME NEW k \in Nat, NEW a \in Nat \ {0}, NEW b \in Nat \ {0}
  PROVE  k \div (a * b) = (k \div b) \div a
  <1> DEFINE d == k \div b
             r == k % b
             q == d \div a
             s == d % a
  <1>1. d \in Nat /\ r \in 0..(b - 1) /\ k = b * d + r
    BY Division
  <1> HIDE DEF d, r
  <1>2. q \in Nat /\ s \in 0..(a - 1) /\ d = a * q + s
    BY <1>1, Division
  <1> HIDE DEF q, s
  <1>3. b * s + r \in 0..(a * b - 1)
    <2>1. s * b <= (a - 1) * b
      BY <1>2, ProductMonotone
    <2>2. (a - 1) * b = a * b - b /\ s * b = b * s /\ b * s \in Nat /\ a * b \in Nat
      BY <1>2
    <2> DEFINE m == b * s
               n == a * b
    <2>3. m \in Nat /\ n \in Nat /\ m <= n - b
      BY <2>1, <2>2
    <2> HIDE DEF m, n
    <2>4. m + r \in 0..(n - 1)
      BY <2>3, <1>1
    <2> QED BY <2>4 DEF m, n
  <1>4. k = (a * b) * q + (b * s + r)
    <2>1. b * d = b * (a * q + s)
      BY <1>2
    <2>2. b * (a * q + s) = (a * b) * q + b * s
      BY <1>2
    <2> DEFINE m == (a * b) * q
               n == b * s
    <2>3. m \in Nat /\ n \in Nat /\ b * d = m + n
      BY <1>2, <2>1, <2>2
    <2> HIDE DEF m, n
    <2>4. k = m + (n + r)
      BY <1>1, <2>3
    <2> QED BY <2>4 DEF m, n
  <1>5. a * b \in Nat \ {0}
    BY ProductPositive
  <1> DEFINE m == a * b
             n == b * s + r
  <1> HIDE DEF m, n
  <1>6. (m * q + n) \div m = q
    BY <1>2, <1>3, <1>5, Quotient DEF m, n
  <1> QED BY <1>4, <1>6 DEF m, n, q, d

(***************************************************************************)
(* A number below a product of radices is determined by its digits.        *)
(***************************************************************************)
DigitByDigit(k, c1, c2, c3, c4, c5) ==
  LET d4 == k \div c5
      d3 == d4 \div c4
      d2 == d3 \div c3
      d1 == d2 \div c2
  IN  /\ k \div 1 = k /\ k \div (c4 * c5) = d3
      /\ k \div (c3 * c4 * c5) = d2 /\ k \div (c2 * c3 * c4 * c5) = d1
      /\ k = c5 * d4 + (k % c5) /\ d4 = c4 * d3 + (d4 % c4)
      /\ d3 = c3 * d2 + (d3 % c3) /\ d2 = c2 * d1 + (d2 % c2)
      /\ d1 % c1 = d1

LEMMA Digits ==
  ASSUME NEW c1 \in Nat \ {0}, NEW c2 \in Nat \ {0}, NEW c3 \in Nat \ {0}, NEW c4 \in Nat \ {0},
         NEW c5 \in Nat \ {0}, NEW k \in Nat, k < c1 * c2 * c3 * c4 * c5
  PROVE  DigitByDigit(k, c1, c2, c3, c4, c5)
  <1> DEFINE d4 == k \div c5
             d3 == d4 \div c4
             d2 == d3 \div c3
             d1 == d2 \div c2
  <1>1. d4 \in Nat /\ k = c5 * d4 + (k % c5)
    BY Division
  <1>2. d3 \in Nat /\ d4 = c4 * d3 + (d4 % c4)
    <2> HIDE DEF d4
    <2> QED BY <1>1, Division
  <1>3. d2 \in Nat /\ d3 = c3 * d2 + (d3 % c3)
    <2> HIDE DEF d3
    <2> QED BY <1>2, Division
  <1>4. d1 \in Nat /\ d2 = c2 * d1 + (d2 % c2)
    <2> HIDE DEF d2
    <2> QED BY <1>3, Division
  <1>5. /\ c4 * c5 \in Nat \ {0}
        /\ c3 * c4 \in Nat \ {0} /\ c3 * c4 * c5 \in Nat \ {0}
        /\ c2 * c3 \in Nat \ {0} /\ c2 * c3 * c4 \in Nat \ {0} /\ c2 * c3 * c4 * c5 \in Nat \ {0}
    <2>1. c3 * c4 \in Nat \ {0} /\ c2 * c3 \in Nat \ {0} /\ c4 * c5 \in Nat \ {0}
      BY ProductPositive
    <2>2. c3 * c4 * c5 \in Nat \ {0} /\ c2 * c3 * c4 \in Nat \ {0}
      BY <2>1, ProductPositive
    <2>3. c2 * c3 * c4 * c5 \in Nat \ {0}
      BY <2>2, ProductPositive
    <2> QED BY <2>1, <2>2, <2>3
  <1>6. k \div (c4 * c5) = d3
    BY DivideTwice
  <1>7. k \div (c3 * c4 * c5) = d2
    <2>1. c3 * c4 * c5 = c3 * (c4 * c5)
      OBVIOUS
    <2> DEFINE m == c4 * c5
    <2>2. m \in Nat \ {0} /\ k \div m = d3
      BY <1>5, <1>6
    <2> HIDE DEF m, d3
    <2>3. k \div (c3 * m) = (k \div m) \div c3
      BY <2>2, DivideTwice
    <2> QED BY <2>1, <2>2, <2>3 DEF m
  <1>8. k \div (c2 * c3 * c4 * c5) = d1
    <2> DEFINE m == c3 * c4 * c5
    <2>1. c2 * c3 * c4 * c5 = c2 * m
      OBVIOUS
    <2>2. m \in Nat \ {0} /\ k \div m = d2
      BY <1>5, <1>7
    <2> HIDE DEF m, d2
    <2>3. k \div (c2 * m) = (k \div m) \div c2
      BY <2>2, DivideTwice
    <2> QED BY <2>1, <2>2, <2>3
  <1>9. d1 % c1 = d1
    <2> DEFINE m == c2 * c3 * c4 * c5
               r == k % m
    <2>1. m \in Nat \ {0} /\ k \div m = d1
      BY <1>5, <1>8
    <2>2. c1 * c2 * c3 * c4 * c5 = c1 * m
      OBVIOUS
    <2> HIDE DEF m, d1
    <2>3. k = m * d1 + r /\ r \in 0..(m - 1)
      BY <2>1, Division
    <2> HIDE DEF r
    <2>4. d1 < c1
      <3> SUFFICES ASSUME c1 <= d1 PROVE FALSE
        BY <1>4
      <3>1. c1 * m <= d1 * m
        BY <1>4, <2>1, ProductMonotone
      <3>2. d1 * m = m * d1 /\ m * d1 \in Nat /\ c1 * m \in Nat
        BY <1>4, <2>1
      <3> DEFINE x == m * d1
                 y == c1 * m
      <3>3. y <= x /\ x \in Nat /\ y \in Nat /\ k = x + r /\ k < y
        BY <2>2, <2>3, <3>1, <3>2
      <3> HIDE DEF x, y
      <3> QED BY <2>3, <3>3
    <2> QED BY <1>4, <2>4
  <1>10. k \div 1 = k
    OBVIOUS
  <1> QED BY <1>1, <1>2, <1>3, <1>4, <1>6, <1>7, <1>8, <1>9, <1>10 DEF DigitByDigit

DigitsAgree(k, l, c1, c2, c3, c4, c5) ==
  /\ (k \div (c2 * c3 * c4 * c5)) % c1 = (l \div (c2 * c3 * c4 * c5)) % c1
  /\ (k \div (c3 * c4 * c5)) % c2 = (l \div (c3 * c4 * c5)) % c2
  /\ (k \div (c4 * c5)) % c3 = (l \div (c4 * c5)) % c3
  /\ (k \div c5) % c4 = (l \div c5) % c4
  /\ (k \div 1) % c5 = (l \div 1) % c5

LEMMA SameDigits ==
  ASSUME NEW c1 \in Nat \ {0}, NEW c2 \in Nat \ {0}, NEW c3 \in Nat \ {0}, NEW c4 \in Nat \ {0},
         NEW c5 \in Nat \ {0}, NEW k \in Nat, k < c1 * c2 * c3 * c4 * c5,
         NEW l \in Nat, l < c1 * c2 * c3 * c4 * c5, DigitsAgree(k, l, c1, c2, c3, c4, c5)
  PROVE  k = l
  <1> DEFINE d4(m) == m \div c5
             d3(m) == d4(m) \div c4
             d2(m) == d3(m) \div c3
             d1(m) == d2(m) \div c2
  <1>1. /\ k \div 1 = k /\ k \div (c4 * c5) = d3(k)
        /\ k \div (c3 * c4 * c5) = d2(k) /\ k \div (c2 * c3 * c4 * c5) = d1(k)
        /\ k = c5 * d4(k) + (k % c5) /\ d4(k) = c4 * d3(k) + (d4(k) % c4)
        /\ d3(k) = c3 * d2(k) + (d3(k) % c3) /\ d2(k) = c2 * d1(k) + (d2(k) % c2)
        /\ d1(k) % c1 = d1(k)
    <2>1. DigitByDigit(k, c1, c2, c3, c4, c5)
      BY Digits
    <2> QED BY <2>1 DEF DigitByDigit
  <1>2. /\ l \div 1 = l /\ l \div (c4 * c5) = d3(l)
        /\ l \div (c3 * c4 * c5) = d2(l) /\ l \div (c2 * c3 * c4 * c5) = d1(l)
        /\ l = c5 * d4(l) + (l % c5) /\ d4(l) = c4 * d3(l) + (d4(l) % c4)
        /\ d3(l) = c3 * d2(l) + (d3(l) % c3) /\ d2(l) = c2 * d1(l) + (d2(l) % c2)
        /\ d1(l) % c1 = d1(l)
    <2>1. DigitByDigit(l, c1, c2, c3, c4, c5)
      BY Digits
    <2> QED BY <2>1 DEF DigitByDigit
  <1>3. d4(k) = k \div c5 /\ d4(l) = l \div c5
    OBVIOUS
  <1> HIDE DEF d4, d3, d2, d1
  <1>4. /\ d1(k) = d1(l) /\ d2(k) % c2 = d2(l) % c2 /\ d3(k) % c3 = d3(l) % c3
        /\ d4(k) % c4 = d4(l) % c4 /\ k % c5 = l % c5
    BY <1>1, <1>2, <1>3, Zenon DEF DigitsAgree
  <1>5. d2(k) = d2(l)
    BY <1>1, <1>2, <1>4
  <1>6. d3(k) = d3(l)
    BY <1>1, <1>2, <1>4, <1>5
  <1>7. d4(k) = d4(l)
    BY <1>1, <1>2, <1>4, <1>6
  <1> QED BY <1>1, <1>2, <1>4, <1>7

(* No two tiles of the grid have the same position.                        *)
LEMMA GridIsDistinct ==
  ASSUME NEW p, isProblem(p), NEW t, wholeTiles(p, t), NEW k \in Nat, NEW l \in Nat,
         k < tileCount(p, t), l < tileCount(p, t),
         \A n \in Slots : gridAt(p, t, k)[n] = gridAt(p, t, l)[n]
  PROVE  k = l
  <1> DEFINE c1 == countsOf(p, t)[1]
             c2 == countsOf(p, t)[2]
             c3 == countsOf(p, t)[3]
             c4 == countsOf(p, t)[4]
             c5 == countsOf(p, t)[5]
  <1>1. 1 \in Slots /\ 2 \in Slots /\ 3 \in Slots /\ 4 \in Slots /\ 5 \in Slots
    BY DEF Slots
  <1>2. /\ c1 \in Nat \ {0} /\ c2 \in Nat \ {0} /\ c3 \in Nat \ {0} /\ c4 \in Nat \ {0} /\ c5 \in Nat \ {0}
    BY <1>1, GridPosition
  <1>3. k < c1 * c2 * c3 * c4 * c5 /\ l < c1 * c2 * c3 * c4 * c5
    BY DEF tileCount, product
  <1>4. ASSUME NEW m \in Nat
        PROVE  /\ gridAt(p, t, m)[5] = (m \div 1) % c5 /\ gridAt(p, t, m)[4] = (m \div c5) % c4
               /\ gridAt(p, t, m)[3] = (m \div (c4 * c5)) % c3
               /\ gridAt(p, t, m)[2] = (m \div (c3 * c4 * c5)) % c2
               /\ gridAt(p, t, m)[1] = (m \div (c2 * c3 * c4 * c5)) % c1
    BY <1>1 DEF gridAt
  <1> HIDE DEF c1, c2, c3, c4, c5
  <1>5. DigitsAgree(k, l, c1, c2, c3, c4, c5)
    BY <1>1, <1>4, Zenon DEF DigitsAgree
  <1> QED BY <1>2, <1>3, <1>5, SameDigits

Folded(g, ch, a2, a3, t2, t3, i) ==
  /\ i \div t3 \in 0..(t2 - 1)
  /\ a2 * ch + a3 + i \in 0..(g * ch - 1)
  /\ (a2 * ch + a3 + i) \div ch = a2 + (i \div t3)
  /\ t2 = 1 => (a2 * ch + a3 + i) % ch = a3 + i /\ i < t3
  /\ t3 = ch => a3 = 0

(***************************************************************************)
(* A foldable tile covers whole groups, or lies within one: what the fold  *)
(* of group and channel makes of the offset of its element i.              *)
(***************************************************************************)
LEMMA Fold ==
  ASSUME NEW g \in Nat, NEW ch \in Nat \ {0}, NEW a2 \in Nat, NEW a3 \in Nat, NEW t2 \in Nat \ {0}, NEW t3 \in Nat \ {0},
         a2 + t2 <= g, a3 + t3 <= ch, t2 = 1 \/ t3 = ch, NEW i \in 0..(t2 * t3 - 1)
  PROVE  Folded(g, ch, a2, a3, t2, t3, i)
  <1> DEFINE q == i \div t3
             r == i % t3
  <1>1. t2 * t3 \in Nat /\ i \in Nat /\ i < t2 * t3
    <2>1. t2 * t3 \in Nat
      OBVIOUS
    <2> DEFINE m == t2 * t3
    <2> HIDE DEF m
    <2>2. m \in Nat /\ i \in 0..(m - 1)
      BY <2>1 DEF m
    <2>3. i \in Nat /\ i < m
      BY <2>2
    <2> QED BY <2>1, <2>3 DEF m
  <1>2. q \in Nat /\ r \in 0..(t3 - 1) /\ i = (t3 * q) + r
    BY <1>1, Division
  <1> HIDE DEF q, r
  <1>3. q <= t2 - 1
    <2> SUFFICES ASSUME t2 <= q PROVE FALSE
      BY <1>2
    <2>1. t2 * t3 <= q * t3 /\ q * t3 = t3 * q /\ t3 * q \in Nat
      BY <1>2, ProductMonotone
    <2> DEFINE m == t2 * t3
               n == t3 * q
    <2>2. m \in Nat /\ n \in Nat /\ m <= n /\ i < m
      BY <1>1, <2>1
    <2>3. i = n + r
      BY <1>2
    <2> HIDE DEF m, n
    <2> QED BY <2>2, <2>3, <1>2
  <1>4. \E s \in 0..(ch - 1) : a2 * ch + a3 + i = (ch * (a2 + q)) + s /\ (t2 = 1 => s = a3 + i /\ i < t3)
    <2>1. a2 * ch = ch * a2 /\ ch * a2 \in Nat /\ ch * (a2 + q) = ch * a2 + ch * q
      BY <1>2
    <2>2. CASE t2 = 1
      <3>1. q = 0
        BY <1>2, <1>3, <2>2
      <3>2. i = r
        BY <1>2, <3>1
      <3>3. a3 + i \in 0..(ch - 1) /\ i < t3
        BY <1>2, <3>2
      <3>4. ch * (a2 + q) = ch * a2
        BY <3>1
      <3> DEFINE m == ch * a2
      <3> HIDE DEF m
      <3>5. m \in Nat /\ a2 * ch = m /\ ch * (a2 + q) = m
        BY <2>1, <3>4 DEF m
      <3>6. a2 * ch + a3 + i = (ch * (a2 + q)) + (a3 + i)
        BY <3>3, <3>5
      <3> QED BY <3>3, <3>6
    <2>3. CASE t3 = ch /\ t2 # 1
      <3>1. a3 = 0
        BY <2>3
      <3> DEFINE m == ch * a2
                 n == ch * q
      <3>2. n \in Nat /\ i = n + r
        BY <1>2, <2>3
      <3> HIDE DEF m, n
      <3>3. m \in Nat /\ a2 * ch = m /\ ch * (a2 + q) = m + n
        BY <2>1 DEF m, n
      <3>4. a2 * ch + a3 + i = (ch * (a2 + q)) + r
        BY <3>1, <3>2, <3>3, <1>2
      <3> QED BY <3>4, <1>2, <2>3
    <2> QED BY <2>2, <2>3
  <1>5. PICK s \in 0..(ch - 1) : a2 * ch + a3 + i = (ch * (a2 + q)) + s /\ (t2 = 1 => s = a3 + i /\ i < t3)
    BY <1>4
  <1>6. a2 + q \in Nat /\ a2 + q <= g - 1
    BY <1>2, <1>3
  <1> DEFINE u == a2 + q
             x == a2 * ch + a3 + i
  <1> HIDE DEF u, x
  <1>7. u \in Nat /\ u <= g - 1 /\ x = (ch * u) + s
    BY <1>5, <1>6 DEF u, x
  <1>8. x \div ch = u /\ x % ch = s
    BY <1>7, Quotient
  <1>9. x \in 0..(g * ch - 1)
    <2>1. u * ch <= (g - 1) * ch
      BY <1>7, ProductMonotone
    <2>2. u * ch = ch * u /\ (g - 1) * ch = g * ch - ch /\ ch * u \in Nat /\ g * ch \in Nat
      BY <1>7
    <2> DEFINE m == ch * u
               n == g * ch
    <2>3. m \in Nat /\ n \in Nat /\ m <= n - ch /\ x = m + s
      BY <1>7, <2>1, <2>2
    <2> HIDE DEF m, n
    <2>4. x \in 0..(n - 1)
      BY <2>3
    <2> QED BY <2>4 DEF n
  <1>10. t3 = ch => a3 = 0
    OBVIOUS
  <1> QED BY <1>2, <1>3, <1>5, <1>8, <1>9, <1>10 DEF q, u, x, Folded

(* The facts of a tile of an accepted operation.                           *)
LEMMA TilePlacement ==
  ASSUME NEW p, isProblem(p), NEW t, wholeTiles(p, t), foldable(p, t), NEW k \in Nat,
         NEW index \in resultIndices(t)
  PROVE  LET at == tilePosition(p, t, k)
             ch == p.channels
             e == placedAt(p, at, index)
         IN  /\ ch \in Nat \ {0}
             /\ index[1] \in 0..(t[1] - 1) /\ index[2] \in 0..(t[2] * t[3] - 1)
             /\ index[3] \in 0..(t[4] - 1) /\ index[4] \in 0..(t[5] - 1)
             /\ e = <<at[1] + index[1], at[2] * ch + at[3] + index[2], at[4] + index[3], at[5] + index[4]>>
             /\ e \in resultIndices(extentsOf(p))
             /\ index[2] \div t[3] \in 0..(t[2] - 1)
             /\ e[2] \div ch = at[2] + (index[2] \div t[3])
             /\ t[2] = 1 => e[2] % ch = at[3] + index[2] /\ index[2] < t[3]
             /\ t[3] = ch => at[3] = 0
             /\ t[2] = 1 \/ t[3] = ch
  <1> DEFINE at == tilePosition(p, t, k)
             x == extentsOf(p)
             ch == p.channels
             e == placedAt(p, at, index)
  <1>1. 1 \in Slots /\ 2 \in Slots /\ 3 \in Slots /\ 4 \in Slots /\ 5 \in Slots
    BY DEF Slots
  <1>2. /\ t[1] \in Nat \ {0} /\ at[1] \in Nat /\ at[1] + t[1] <= x[1] /\ x[1] \in Nat
        /\ t[2] \in Nat \ {0} /\ at[2] \in Nat /\ at[2] + t[2] <= x[2] /\ x[2] \in Nat
        /\ t[3] \in Nat \ {0} /\ at[3] \in Nat /\ at[3] + t[3] <= x[3] /\ x[3] \in Nat
        /\ t[4] \in Nat \ {0} /\ at[4] \in Nat /\ at[4] + t[4] <= x[4] /\ x[4] \in Nat
        /\ t[5] \in Nat \ {0} /\ at[5] \in Nat /\ at[5] + t[5] <= x[5] /\ x[5] \in Nat
    BY <1>1, TileInsideTheDomain, ExtentsAreNatural
  <1>3. x[3] = ch
    BY DEF extentsOf
  <1>4. ch \in Nat \ {0}
    BY <1>2, <1>3
  <1>5. /\ index[1] \in 0..(t[1] - 1) /\ index[2] \in 0..(t[2] * t[3] - 1)
        /\ index[3] \in 0..(t[4] - 1) /\ index[4] \in 0..(t[5] - 1)
    BY DEF resultIndices
  <1>6. e = <<at[1] + index[1], at[2] * ch + at[3] + index[2], at[4] + index[3], at[5] + index[4]>>
    BY DEF placedAt, foldedOffset
  <1>7. t[2] = 1 \/ t[3] = ch
    BY DEF foldable
  <1> DEFINE a2 == at[2]
             a3 == at[3]
             t2 == t[2]
             t3 == t[3]
             i == index[2]
             g == x[2]
             f == a2 * ch + a3 + i
  <1> HIDE DEF at, x, ch
  <1>8. /\ g \in Nat /\ a2 \in Nat /\ a3 \in Nat /\ t2 \in Nat \ {0} /\ t3 \in Nat \ {0} /\ i \in 0..(t2 * t3 - 1)
        /\ a2 + t2 <= g /\ a3 + t3 <= ch /\ (t2 = 1 \/ t3 = ch)
    BY <1>2, <1>3, <1>5, <1>7
  <1> HIDE DEF a2, a3, t2, t3, i, g
  <1>9. /\ i \div t3 \in 0..(t2 - 1) /\ f \in 0..(g * ch - 1) /\ f \div ch = a2 + (i \div t3)
        /\ t2 = 1 => f % ch = a3 + i /\ i < t3
        /\ t3 = ch => a3 = 0
    <2>1. Folded(g, ch, a2, a3, t2, t3, i)
      BY <1>4, <1>8, Fold
    <2> QED BY <2>1 DEF Folded
  <1>10. e[2] = f
    BY <1>6 DEF a2, a3, i
  <1>11. e \in resultIndices(x)
    <2>1. /\ at[1] + index[1] \in 0..(x[1] - 1) /\ at[4] + index[3] \in 0..(x[4] - 1)
          /\ at[5] + index[4] \in 0..(x[5] - 1)
      BY <1>2, <1>5
    <2>2. f \in 0..(x[2] * x[3] - 1)
      BY <1>3, <1>9 DEF g
    <2>3. f = at[2] * ch + at[3] + index[2]
      BY DEF a2, a3, i
    <2> HIDE DEF f, e
    <2> QED BY <1>6, <2>1, <2>2, <2>3 DEF resultIndices
  <1> HIDE DEF f, e
  <1>12. /\ index[2] \div t[3] \in 0..(t[2] - 1)
         /\ e[2] \div ch = at[2] + (index[2] \div t[3])
         /\ t[2] = 1 => e[2] % ch = at[3] + index[2] /\ index[2] < t[3]
         /\ t[3] = ch => at[3] = 0
    BY <1>9, <1>10 DEF a2, a3, t2, t3, i
  <1> QED BY <1>4, <1>5, <1>6, <1>7, <1>11, <1>12 DEF at, x, ch, e

LEMMA ProductDividesBack ==
  ASSUME NEW a \in Nat \ {0}, NEW b \in Nat
  PROVE  (a * b) \div a = b
  <1>1. 0 \in 0..(a - 1) /\ (a * b + 0) \div a = b
    BY Quotient
  <1>2. a * b \in Nat
    OBVIOUS
  <1> DEFINE m == a * b
  <1> HIDE DEF m
  <1>3. m + 0 = m
    BY <1>2 DEF m
  <1> QED BY <1>1, <1>3 DEF m

(* On one axis, the tap of a tile and the tap of the operation it came from. *)
LEMMA AxisAgrees ==
  ASSUME NEW p, isProblem(p), p.conv, NEW w \in {p.height, p.width}, NEW o \in Nat, NEW size \in Nat \ {0},
         o + size <= computeWindowedExtent(w), NEW j \in 0..(size - 1), NEW k \in 0..(w.kernel - 1)
  PROVE  /\ sliceBegin(w, o) + tapPosition(windowSlice(w, o, size), j, k) = tapPosition(w, o + j, k)
         /\ inInput(windowSlice(w, o, size), tapPosition(windowSlice(w, o, size), j, k))
              <=> inInput(w, tapPosition(w, o + j, k))
  <1>1. isWindow(w)
    BY DEF isProblem
  <1> QED BY <1>1, TapsAgree

(* The tile computes, at every one of its elements, the term that element has. *)
LEMMA ElementAgrees ==
  ASSUME NEW p, isProblem(p), NEW t, wholeTiles(p, t), foldable(p, t), NEW k \in Nat,
         NEW index \in resultIndices(t)
  PROVE  LET at == tilePosition(p, t, k)
         IN  element(tileOp(p, at, t), p, index) = element(wholeOp(p), p, placedAt(p, at, index))
  <1> DEFINE at == tilePosition(p, t, k)
             x == extentsOf(p)
             ch == p.channels
             e == placedAt(p, at, index)
             tile == tileOp(p, at, t)
             whole == wholeOp(p)
  <1>1. /\ ch \in Nat \ {0}
        /\ index[1] \in 0..(t[1] - 1) /\ index[2] \in 0..(t[2] * t[3] - 1)
        /\ index[3] \in 0..(t[4] - 1) /\ index[4] \in 0..(t[5] - 1)
        /\ e = <<at[1] + index[1], at[2] * ch + at[3] + index[2], at[4] + index[3], at[5] + index[4]>>
        /\ index[2] \div t[3] \in 0..(t[2] - 1)
        /\ e[2] \div ch = at[2] + (index[2] \div t[3])
    BY TilePlacement
  <1>2. 1 \in Slots /\ 2 \in Slots /\ 3 \in Slots /\ 4 \in Slots /\ 5 \in Slots
    BY DEF Slots
  <1>3. /\ t[1] \in Nat \ {0} /\ at[1] \in Nat
        /\ t[2] \in Nat \ {0} /\ at[2] \in Nat /\ at[2] + t[2] <= x[2]
        /\ t[3] \in Nat \ {0} /\ at[3] \in Nat
        /\ t[4] \in Nat \ {0} /\ at[4] \in Nat /\ at[4] + t[4] <= x[4]
        /\ t[5] \in Nat \ {0} /\ at[5] \in Nat /\ at[5] + t[5] <= x[5]
    BY <1>2, TileInsideTheDomain
  <1>4. p.group \in Nat \ {0}
    <2>1. p.group \in Nat
      BY DEF isProblem
    <2>2. CASE p.conv
      <3>1. x[2] = p.group
        BY <2>2 DEF extentsOf
      <3> QED BY <2>1, <3>1, <1>3
    <2>3. CASE ~p.conv
      BY <2>1, <2>3 DEF isProblem
    <2> QED BY <2>2, <2>3
  <1>5. tile.outputs \div tile.groups = t[3] /\ whole.outputs \div whole.groups = ch
    <2>1. tile.outputs = t[2] * t[3] /\ tile.groups = t[2]
      BY DEF tileOp
    <2>2. whole.outputs = p.group * ch /\ whole.groups = p.group
      BY DEF wholeOp
    <2>3. (t[2] * t[3]) \div t[2] = t[3] /\ (p.group * ch) \div p.group = ch
      BY <1>1, <1>3, <1>4, ProductDividesBack
    <2> QED BY <2>1, <2>2, <2>3
  <1>6. tile.filterAt + index[2] = whole.filterAt + e[2]
    <2>1. tile.filterAt = at[2] * ch + at[3] /\ whole.filterAt = 0
      BY DEF tileOp, wholeOp, foldedOffset
    <2>2. e[2] = at[2] * ch + at[3] + index[2]
      BY <1>1
    <2>3. at[2] * ch \in Nat /\ index[2] \in Int
      BY <1>1, <1>3
    <2> HIDE DEF tile, whole, at, e, ch
    <2>4. e[2] \in Int
      BY <1>3, <2>2, <2>3
    <2> QED BY <2>1, <2>2, <2>4
  <1>7. /\ tile.batchAt + index[1] = whole.batchAt + e[1]
    <2>1. tile.batchAt = at[1] /\ whole.batchAt = 0 /\ e[1] = at[1] + index[1]
      BY <1>1 DEF tileOp, wholeOp
    <2> QED BY <2>1, <1>1, <1>3
  <1> DEFINE taps == (0..p.inputs - 1) \X (0..p.height.kernel - 1) \X (0..p.width.kernel - 1)
             q == index[2] \div t[3]
  <1>8. ASSUME NEW tap \in taps PROVE tapInput(tile, p, index, tap) = tapInput(whole, p, e, tap)
    <2>1. tap[1] \in 0..p.inputs - 1 /\ tap[2] \in 0..p.height.kernel - 1 /\ tap[3] \in 0..p.width.kernel - 1
      OBVIOUS
    <2> DEFINE row == tapPosition(tile.height, index[3], tap[2])
               column == tapPosition(tile.width, index[4], tap[3])
               wholeRow == tapPosition(p.height, e[3], tap[2])
               wholeColumn == tapPosition(p.width, e[4], tap[3])
    <2>2. /\ tile.rowAt + row = 0 + wholeRow /\ tile.columnAt + column = 0 + wholeColumn
          /\ inInput(tile.height, row) <=> inInput(p.height, wholeRow)
          /\ inInput(tile.width, column) <=> inInput(p.width, wholeColumn)
      <3>1. e[3] = at[4] + index[3] /\ e[4] = at[5] + index[4]
        BY <1>1
      <3>2. CASE p.conv
        <4>1. x[4] = computeWindowedExtent(p.height) /\ x[5] = computeWindowedExtent(p.width)
          BY <3>2 DEF extentsOf
        <4>2. /\ tile.height = windowSlice(p.height, at[4], t[4]) /\ tile.width = windowSlice(p.width, at[5], t[5])
              /\ tile.rowAt = sliceBegin(p.height, at[4]) /\ tile.columnAt = sliceBegin(p.width, at[5])
          BY <3>2 DEF tileOp
        <4>3. /\ sliceBegin(p.height, at[4]) + row = wholeRow
              /\ inInput(tile.height, row) <=> inInput(p.height, wholeRow)
          <5>1. at[4] + t[4] <= computeWindowedExtent(p.height) /\ index[3] \in 0..(t[4] - 1)
            BY <1>1, <1>3, <4>1
          <5> HIDE DEF at
          <5> QED BY <1>3, <2>1, <3>1, <3>2, <4>2, <5>1, AxisAgrees
        <4>4. /\ sliceBegin(p.width, at[5]) + column = wholeColumn
              /\ inInput(tile.width, column) <=> inInput(p.width, wholeColumn)
          <5>1. at[5] + t[5] <= computeWindowedExtent(p.width) /\ index[4] \in 0..(t[5] - 1)
            BY <1>1, <1>3, <4>1
          <5> HIDE DEF at
          <5> QED BY <1>3, <2>1, <3>1, <3>2, <4>2, <5>1, AxisAgrees
        <4>5. wholeRow \in Int /\ wholeColumn \in Int
          <5>1. isWindow(p.height) /\ isWindow(p.width)
            BY DEF isProblem
          <5>2. /\ p.height.stride \in Nat /\ p.height.dilation \in Nat /\ p.height.padBegin \in Nat
                /\ p.width.stride \in Nat /\ p.width.dilation \in Nat /\ p.width.padBegin \in Nat
            BY <5>1, WindowFacts
          <5>3. tap[2] \in Int /\ tap[3] \in Int /\ e[3] \in Int /\ e[4] \in Int
            BY <1>1, <1>3, <2>1, <3>1
          <5> HIDE DEF e
          <5> QED BY <5>2, <5>3 DEF tapPosition
        <4> HIDE DEF row, column, wholeRow, wholeColumn
        <4> QED BY <4>2, <4>3, <4>4, <4>5
      <3>3. CASE ~p.conv
        <4>1. x[4] = 1 /\ x[5] = 1
          BY <3>3 DEF extentsOf
        <4>2. at[4] = 0 /\ at[5] = 0
          BY <1>3, <4>1
        <4>3. e[3] = index[3] /\ e[4] = index[4]
          BY <1>1, <3>1, <4>2
        <4>4. tile.height = p.height /\ tile.width = p.width /\ tile.rowAt = 0 /\ tile.columnAt = 0
          BY <3>3 DEF tileOp
        <4> QED BY <4>3, <4>4
      <3> QED BY <3>2, <3>3
    <2>3. tile.inputAt + q * p.inputs + tap[1] = 0 + (at[2] + q) * p.inputs + tap[1]
      <3>1. tile.inputAt = at[2] * p.inputs
        BY DEF tileOp
      <3>2. q \in Nat /\ p.inputs \in Nat /\ tap[1] \in Int /\ at[2] \in Nat
        BY <1>1, <1>3, <2>1 DEF isProblem
      <3> HIDE DEF q, at, tile
      <3>3. (at[2] + q) * p.inputs = at[2] * p.inputs + q * p.inputs /\ at[2] * p.inputs \in Nat /\ q * p.inputs \in Nat
        BY <3>2
      <3> DEFINE m == at[2] * p.inputs
                 n == q * p.inputs
      <3>4. m \in Nat /\ n \in Nat /\ tile.inputAt = m /\ (at[2] + q) * p.inputs = m + n
        BY <3>1, <3>3
      <3> HIDE DEF m
      <3> QED BY <3>2, <3>4
    <2>4. whole.height = p.height /\ whole.width = p.width /\ whole.inputAt = 0 /\ whole.rowAt = 0 /\ whole.columnAt = 0
      BY DEF wholeOp
    <2>5. /\ tapInput(tile, p, index, tap) =
               IF inInput(tile.height, row) /\ inInput(tile.width, column)
                 THEN <<tile.batchAt + index[1], tile.inputAt + q * p.inputs + tap[1], tile.rowAt + row, tile.columnAt + column>>
                 ELSE <<"pad">>
          /\ tapInput(whole, p, e, tap) =
               IF inInput(p.height, wholeRow) /\ inInput(p.width, wholeColumn)
                 THEN <<whole.batchAt + e[1], 0 + (at[2] + q) * p.inputs + tap[1], 0 + wholeRow, 0 + wholeColumn>>
                 ELSE <<"pad">>
      <3>1. e[2] \div ch = at[2] + q
        BY <1>1
      <3> HIDE DEF tile, whole, at, e, ch, q
      <3> QED BY <1>5, <2>4, <3>1 DEF tapInput, q
    <2> HIDE DEF tile, whole, row, column, wholeRow, wholeColumn, q, at, e
    <2> QED BY <1>7, <2>2, <2>3, <2>5
  <1> HIDE DEF at, tile, whole, e
  <1>9. [tap \in taps |-> tapInput(tile, p, index, tap)] = [tap \in taps |-> tapInput(whole, p, e, tap)]
    BY <1>8
  <1>10. element(tile, p, index) = element(whole, p, e)
    BY <1>6, <1>9 DEF element
  <1> QED BY <1>10 DEF at, tile, whole, e

LEMMA SameSize ==
  ASSUME NEW S, IsFiniteSet(S), NEW T, NEW f \in [S -> T],
         \A a, b \in S : f[a] = f[b] => a = b, \A b \in T : \E a \in S : f[a] = b
  PROVE  IsFiniteSet(T) /\ Cardinality(T) = Cardinality(S)
  <1>1. f \in Bijection(S, T)
    BY DEF Bijection, Injection, Surjection, IsInjective
  <1>2. ExistsBijection(S, T)
    BY <1>1 DEF ExistsBijection
  <1> QED BY <1>2, FS_Bijection

LEMMA FourFold ==
  ASSUME NEW A, IsFiniteSet(A), NEW B, IsFiniteSet(B), NEW C, IsFiniteSet(C), NEW D, IsFiniteSet(D)
  PROVE  /\ IsFiniteSet(A \X B \X C \X D)
         /\ Cardinality(A \X B \X C \X D) = Cardinality(A) * Cardinality(B) * Cardinality(C) * Cardinality(D)
  <1> DEFINE S == ((A \X B) \X C) \X D
             T == A \X B \X C \X D
             f == [q \in S |-> <<q[1][1][1], q[1][1][2], q[1][2], q[2]>>]
  <1>1. IsFiniteSet(A \X B) /\ Cardinality(A \X B) = Cardinality(A) * Cardinality(B)
    BY FS_Product
  <1>2. IsFiniteSet((A \X B) \X C) /\ Cardinality((A \X B) \X C) = Cardinality(A) * Cardinality(B) * Cardinality(C)
    BY <1>1, FS_Product
  <1>3. IsFiniteSet(S) /\ Cardinality(S) = Cardinality(A) * Cardinality(B) * Cardinality(C) * Cardinality(D)
    BY <1>2, FS_Product
  <1>4. f \in [S -> T]
    OBVIOUS
  <1>5. ASSUME NEW a \in S, NEW b \in S, f[a] = f[b] PROVE a = b
    <2>1. PICK a1 \in A, a2 \in B, a3 \in C, a4 \in D : a = <<<<<<a1, a2>>, a3>>, a4>>
      OBVIOUS
    <2>2. PICK b1 \in A, b2 \in B, b3 \in C, b4 \in D : b = <<<<<<b1, b2>>, b3>>, b4>>
      OBVIOUS
    <2>3. f[a] = <<a1, a2, a3, a4>> /\ f[b] = <<b1, b2, b3, b4>>
      BY <2>1, <2>2
    <2> QED BY <1>5, <2>1, <2>2, <2>3
  <1>6. ASSUME NEW b \in T PROVE \E a \in S : f[a] = b
    <2>1. PICK b1 \in A, b2 \in B, b3 \in C, b4 \in D : b = <<b1, b2, b3, b4>>
      OBVIOUS
    <2> DEFINE a == <<<<<<b1, b2>>, b3>>, b4>>
    <2>2. a \in S /\ f[a] = b
      BY <2>1
    <2> QED BY <2>2
  <1> HIDE DEF f, S, T
  <1>7. IsFiniteSet(T) /\ Cardinality(T) = Cardinality(S)
    BY <1>3, <1>4, <1>5, <1>6, SameSize
  <1> QED BY <1>3, <1>7 DEF T

LEMMA UpTo ==
  ASSUME NEW n \in Nat
  PROVE  IsFiniteSet(0..n - 1) /\ Cardinality(0..n - 1) = n
  <1>1. 0 \in Int /\ n - 1 \in Int
    OBVIOUS
  <1>2. IsFiniteSet(0..n - 1) /\ Cardinality(0..n - 1) = IF 0 > n - 1 THEN 0 ELSE n - 1 - 0 + 1
    BY <1>1, FS_Interval
  <1> QED BY <1>2

(* A block of the result has as many elements as its extents multiply to.  *)
LEMMA BlockSize ==
  ASSUME NEW s, \A n \in Slots : s[n] \in Nat
  PROVE  IsFiniteSet(resultIndices(s)) /\ Cardinality(resultIndices(s)) = product(s)
  <1>1. s[1] \in Nat /\ s[2] \in Nat /\ s[3] \in Nat /\ s[4] \in Nat /\ s[5] \in Nat
    BY DEF Slots
  <1>2. s[2] * s[3] \in Nat
    BY <1>1
  <1> DEFINE A == 0..s[1] - 1
             B == 0..s[2] * s[3] - 1
             C == 0..s[4] - 1
             D == 0..s[5] - 1
  <1>3. /\ IsFiniteSet(A) /\ Cardinality(A) = s[1] /\ IsFiniteSet(B) /\ Cardinality(B) = s[2] * s[3]
        /\ IsFiniteSet(C) /\ Cardinality(C) = s[4] /\ IsFiniteSet(D) /\ Cardinality(D) = s[5]
    BY <1>1, <1>2, UpTo
  <1>4. resultIndices(s) = A \X B \X C \X D
    BY DEF resultIndices
  <1> HIDE DEF A, B, C, D
  <1>5. IsFiniteSet(A \X B \X C \X D) /\ Cardinality(A \X B \X C \X D) = s[1] * (s[2] * s[3]) * s[4] * s[5]
    BY <1>3, FourFold
  <1>6. s[1] * (s[2] * s[3]) * s[4] * s[5] = product(s)
    BY <1>1 DEF product
  <1> QED BY <1>4, <1>5, <1>6

(* Where a tile is inserted, and what.                                     *)
cells(p, t, k) == {placedAt(p, tilePosition(p, t, k), index) : index \in resultIndices(t)}

LEMMA CellsOfATile ==
  ASSUME NEW p, isProblem(p), NEW t, wholeTiles(p, t), foldable(p, t), NEW k \in Nat
  PROVE  /\ cells(p, t, k) \subseteq resultIndices(extentsOf(p))
         /\ IsFiniteSet(cells(p, t, k)) /\ Cardinality(cells(p, t, k)) = product(t)
  <1> DEFINE at == tilePosition(p, t, k)
             S == resultIndices(t)
             T == cells(p, t, k)
             f == [index \in S |-> placedAt(p, at, index)]
  <1>1. \A n \in Slots : t[n] \in Nat
    BY TileInsideTheDomain
  <1>2. IsFiniteSet(S) /\ Cardinality(S) = product(t)
    BY <1>1, BlockSize
  <1>3. T \subseteq resultIndices(extentsOf(p))
    BY TilePlacement DEF cells
  <1>4. f \in [S -> T] /\ \A b \in T : \E a \in S : f[a] = b
    BY DEF cells
  <1>5. ASSUME NEW a \in S, NEW b \in S, f[a] = f[b] PROVE a = b
    <2> DEFINE o2 == at[2] * p.channels + at[3]
    <2>1. /\ f[a] = <<at[1] + a[1], o2 + a[2], at[4] + a[3], at[5] + a[4]>>
          /\ f[b] = <<at[1] + b[1], o2 + b[2], at[4] + b[3], at[5] + b[4]>>
      BY DEF placedAt, foldedOffset
    <2>2. /\ at[1] \in Nat /\ o2 \in Nat /\ at[4] \in Nat /\ at[5] \in Nat
      <3>1. 1 \in Slots /\ 2 \in Slots /\ 3 \in Slots /\ 4 \in Slots /\ 5 \in Slots
        BY DEF Slots
      <3>2. at[1] \in Nat /\ at[2] \in Nat /\ at[3] \in Nat /\ at[4] \in Nat /\ at[5] \in Nat
        BY <3>1, TileInsideTheDomain
      <3>3. p.channels \in Nat
        BY DEF isProblem
      <3>4. at[2] * p.channels \in Nat
        BY <3>2, <3>3
      <3> HIDE DEF at
      <3> QED BY <3>2, <3>4
    <2>3. PICK a1 \in Int, a2 \in Int, a3 \in Int, a4 \in Int : a = <<a1, a2, a3, a4>>
      BY DEF resultIndices
    <2>4. PICK b1 \in Int, b2 \in Int, b3 \in Int, b4 \in Int : b = <<b1, b2, b3, b4>>
      BY DEF resultIndices
    <2>5. /\ at[1] + a1 = at[1] + b1 /\ o2 + a2 = o2 + b2 /\ at[4] + a3 = at[4] + b3 /\ at[5] + a4 = at[5] + b4
      BY <1>5, <2>1, <2>3, <2>4
    <2> HIDE DEF at, o2
    <2>6. a1 = b1 /\ a2 = b2 /\ a3 = b3 /\ a4 = b4
      BY <2>2, <2>5
    <2> QED BY <2>3, <2>4, <2>6
  <1> HIDE DEF f, S, T
  <1>6. IsFiniteSet(T) /\ Cardinality(T) = Cardinality(S)
    BY <1>2, <1>4, <1>5, SameSize
  <1> QED BY <1>2, <1>3, <1>6 DEF T

LEMMA InsertedTile ==
  ASSUME NEW p, isProblem(p), NEW t, wholeTiles(p, t), foldable(p, t), NEW k \in Nat
  PROVE  LET slice == inserted(p, tilePosition(p, t, k), t)
         IN  /\ DOMAIN slice = cells(p, t, k)
             /\ \A e \in cells(p, t, k) : slice[e] = resultOf(p)[e]
  <1> DEFINE at == tilePosition(p, t, k)
             slice == inserted(p, at, t)
             local(e) == CHOOSE index \in resultIndices(t) : placedAt(p, at, index) = e
  <1>1. slice = [e \in cells(p, t, k) |-> element(tileOp(p, at, t), p, local(e))]
    BY DEF inserted, cells
  <1>2. ASSUME NEW e \in cells(p, t, k) PROVE slice[e] = resultOf(p)[e]
    <2>1. local(e) \in resultIndices(t) /\ placedAt(p, at, local(e)) = e
      BY DEF cells
    <2>2. e \in resultIndices(extentsOf(p))
      BY CellsOfATile
    <2>3. slice[e] = element(tileOp(p, at, t), p, local(e))
      BY <1>1
    <2> HIDE DEF local, slice
    <2>4. element(tileOp(p, at, t), p, local(e)) = element(wholeOp(p), p, placedAt(p, at, local(e)))
      BY <2>1, ElementAgrees
    <2>5. resultOf(p)[e] = element(wholeOp(p), p, e)
      BY <2>2 DEF resultOf
    <2> QED BY <2>1, <2>3, <2>4, <2>5
  <1> HIDE DEF local
  <1>3. DOMAIN slice = cells(p, t, k)
    BY <1>1
  <1> QED BY <1>2, <1>3

(* Two tiles of one size that share an element are at one grid position.   *)
LEMMA AxisApart ==
  ASSUME NEW s \in Nat \ {0}, NEW g \in Nat, NEW h \in Nat, NEW i \in 0..(s - 1), NEW j \in 0..(s - 1),
         s * g + i = s * h + j
  PROVE  g = h
  <1>1. (s * g + i) \div s = g /\ (s * h + j) \div s = h
    BY Quotient
  <1> QED BY <1>1

(***************************************************************************)
(* No element of the result is inserted by two tiles.                      *)
(***************************************************************************)
LEMMA TilesApart ==
  ASSUME NEW p, isProblem(p), NEW t, wholeTiles(p, t), foldable(p, t), NEW k \in Nat, NEW l \in Nat,
         k < tileCount(p, t), l < tileCount(p, t), NEW e \in cells(p, t, k), e \in cells(p, t, l)
  PROVE  k = l
  <1> DEFINE a == tilePosition(p, t, k)
             b == tilePosition(p, t, l)
             g == gridAt(p, t, k)
             h == gridAt(p, t, l)
             ch == p.channels
  <1>1. PICK i \in resultIndices(t) : e = placedAt(p, a, i)
    BY DEF cells
  <1>2. PICK j \in resultIndices(t) : e = placedAt(p, b, j)
    BY DEF cells
  <1>3. /\ ch \in Nat \ {0}
        /\ i[1] \in 0..(t[1] - 1) /\ i[2] \in 0..(t[2] * t[3] - 1)
        /\ i[3] \in 0..(t[4] - 1) /\ i[4] \in 0..(t[5] - 1)
        /\ e = <<a[1] + i[1], a[2] * ch + a[3] + i[2], a[4] + i[3], a[5] + i[4]>>
        /\ i[2] \div t[3] \in 0..(t[2] - 1)
        /\ e[2] \div ch = a[2] + (i[2] \div t[3])
        /\ t[2] = 1 => e[2] % ch = a[3] + i[2] /\ i[2] < t[3]
        /\ t[3] = ch => a[3] = 0
        /\ t[2] = 1 \/ t[3] = ch
    BY <1>1, TilePlacement
  <1>4. /\ j[1] \in 0..(t[1] - 1) /\ j[2] \in 0..(t[2] * t[3] - 1)
        /\ j[3] \in 0..(t[4] - 1) /\ j[4] \in 0..(t[5] - 1)
        /\ e = <<b[1] + j[1], b[2] * ch + b[3] + j[2], b[4] + j[3], b[5] + j[4]>>
        /\ j[2] \div t[3] \in 0..(t[2] - 1)
        /\ e[2] \div ch = b[2] + (j[2] \div t[3])
        /\ t[2] = 1 => e[2] % ch = b[3] + j[2] /\ j[2] < t[3]
        /\ t[3] = ch => b[3] = 0
    BY <1>2, TilePlacement
  <1>5. 1 \in Slots /\ 2 \in Slots /\ 3 \in Slots /\ 4 \in Slots /\ 5 \in Slots
    BY DEF Slots
  <1>6. \A n \in Slots : t[n] \in Nat \ {0} /\ g[n] \in Nat /\ h[n] \in Nat /\ a[n] = t[n] * g[n] /\ b[n] = t[n] * h[n]
    <2> SUFFICES ASSUME NEW n \in Slots
                 PROVE  t[n] \in Nat \ {0} /\ g[n] \in Nat /\ h[n] \in Nat /\ a[n] = t[n] * g[n] /\ b[n] = t[n] * h[n]
      OBVIOUS
    <2>1. countsOf(p, t)[n] \in Nat \ {0} /\ g[n] \in 0..(countsOf(p, t)[n] - 1) /\ h[n] \in 0..(countsOf(p, t)[n] - 1)
      BY GridPosition
    <2>2. t[n] \in Nat \ {0} /\ a[n] = t[n] * g[n] /\ b[n] = t[n] * h[n]
      BY GridPosition
    <2> HIDE DEF g, h, a, b
    <2> QED BY <2>1, <2>2
  <1> HIDE DEF a, b, g, h, ch
  <1>7. g[1] = h[1]
    <2>1. t[1] * g[1] + i[1] = t[1] * h[1] + j[1]
      BY <1>3, <1>4, <1>5, <1>6
    <2>2. /\ t[1] \in Nat \ {0} /\ g[1] \in Nat /\ h[1] \in Nat
          /\ i[1] \in 0..(t[1] - 1) /\ j[1] \in 0..(t[1] - 1)
      BY <1>3, <1>4, <1>5, <1>6
    <2> QED BY <2>1, <2>2, AxisApart
  <1>8. g[4] = h[4]
    <2>1. t[4] * g[4] + i[3] = t[4] * h[4] + j[3]
      BY <1>3, <1>4, <1>5, <1>6
    <2>2. /\ t[4] \in Nat \ {0} /\ g[4] \in Nat /\ h[4] \in Nat
          /\ i[3] \in 0..(t[4] - 1) /\ j[3] \in 0..(t[4] - 1)
      BY <1>3, <1>4, <1>5, <1>6
    <2> QED BY <2>1, <2>2, AxisApart
  <1>9. g[5] = h[5]
    <2>1. t[5] * g[5] + i[4] = t[5] * h[5] + j[4]
      BY <1>3, <1>4, <1>5, <1>6
    <2>2. /\ t[5] \in Nat \ {0} /\ g[5] \in Nat /\ h[5] \in Nat
          /\ i[4] \in 0..(t[5] - 1) /\ j[4] \in 0..(t[5] - 1)
      BY <1>3, <1>4, <1>5, <1>6
    <2> QED BY <2>1, <2>2, AxisApart
  <1>10. g[2] = h[2]
    <2>1. t[2] * g[2] + (i[2] \div t[3]) = t[2] * h[2] + (j[2] \div t[3])
      BY <1>3, <1>4, <1>5, <1>6
    <2>2. /\ t[2] \in Nat \ {0} /\ g[2] \in Nat /\ h[2] \in Nat
          /\ i[2] \div t[3] \in 0..(t[2] - 1) /\ j[2] \div t[3] \in 0..(t[2] - 1)
      BY <1>3, <1>4, <1>5, <1>6
    <2> QED BY <2>1, <2>2, AxisApart
  <1>11. g[3] = h[3]
    <2>1. CASE t[2] = 1
      <3>1. i[2] \in 0..(t[3] - 1) /\ j[2] \in 0..(t[3] - 1)
        <4>1. t[2] * t[3] = t[3]
          BY <2>1, <1>5, <1>6
        <4> QED BY <4>1, <1>3, <1>4
      <3>2. t[3] * g[3] + i[2] = t[3] * h[3] + j[2]
        BY <1>3, <1>4, <1>5, <1>6, <2>1
      <3> QED BY <3>1, <3>2, <1>5, <1>6, AxisApart
    <2>2. CASE t[3] = ch
      <3>1. t[3] * g[3] = 0 /\ t[3] * h[3] = 0
        BY <1>3, <1>4, <1>5, <1>6, <2>2
      <3>2. 0 \in 0..(t[3] - 1) /\ t[3] * g[3] + 0 = t[3] * h[3] + 0
        BY <3>1, <1>5, <1>6
      <3> QED BY <3>2, <1>5, <1>6, AxisApart
    <2> QED BY <2>1, <2>2, <1>3
  <1>12. \A n \in Slots : g[n] = h[n]
    BY <1>7, <1>8, <1>9, <1>10, <1>11 DEF Slots
  <1> QED BY <1>12, GridIsDistinct DEF g, h

(* The tiles of the grid hold as many elements as the result has.          *)
LEMMA GridCoversTheResult ==
  ASSUME NEW p, isProblem(p), NEW t, wholeTiles(p, t)
  PROVE  /\ tileCount(p, t) \in Nat \ {0} /\ product(t) \in Nat
         /\ tileCount(p, t) * product(t) = product(extentsOf(p))
  <1> DEFINE c == countsOf(p, t)
             x == extentsOf(p)
  <1>1. 1 \in Slots /\ 2 \in Slots /\ 3 \in Slots /\ 4 \in Slots /\ 5 \in Slots
    BY DEF Slots
  <1>2. 0 \in Nat
    OBVIOUS
  <1>3. /\ c[1] \in Nat \ {0} /\ t[1] \in Nat \ {0} /\ c[1] * t[1] = x[1]
        /\ c[2] \in Nat \ {0} /\ t[2] \in Nat \ {0} /\ c[2] * t[2] = x[2]
        /\ c[3] \in Nat \ {0} /\ t[3] \in Nat \ {0} /\ c[3] * t[3] = x[3]
        /\ c[4] \in Nat \ {0} /\ t[4] \in Nat \ {0} /\ c[4] * t[4] = x[4]
        /\ c[5] \in Nat \ {0} /\ t[5] \in Nat \ {0} /\ c[5] * t[5] = x[5]
    BY <1>1, <1>2, GridPosition
  <1> HIDE DEF c, x
  <1>4. ASSUME NEW q \in Nat \ {0}, NEW r \in Nat \ {0}, NEW u \in Nat \ {0}, NEW v \in Nat \ {0}
        PROVE  q * u \in Nat \ {0} /\ (q * u) * (r * v) = (q * r) * (u * v)
    <2>1. q * u \in Nat \ {0}
      BY ProductPositive
    <2> QED BY <2>1
  <1>5. c[1] * c[2] \in Nat \ {0} /\ t[1] * t[2] \in Nat \ {0} /\ (c[1] * c[2]) * (t[1] * t[2]) = x[1] * x[2]
    BY <1>3, <1>4
  <1>6. /\ c[1] * c[2] * c[3] \in Nat \ {0} /\ t[1] * t[2] * t[3] \in Nat \ {0}
        /\ (c[1] * c[2] * c[3]) * (t[1] * t[2] * t[3]) = x[1] * x[2] * x[3]
    BY <1>3, <1>4, <1>5
  <1>7. /\ c[1] * c[2] * c[3] * c[4] \in Nat \ {0} /\ t[1] * t[2] * t[3] * t[4] \in Nat \ {0}
        /\ (c[1] * c[2] * c[3] * c[4]) * (t[1] * t[2] * t[3] * t[4]) = x[1] * x[2] * x[3] * x[4]
    BY <1>3, <1>4, <1>6
  <1>8. /\ c[1] * c[2] * c[3] * c[4] * c[5] \in Nat \ {0} /\ t[1] * t[2] * t[3] * t[4] * t[5] \in Nat \ {0}
        /\ (c[1] * c[2] * c[3] * c[4] * c[5]) * (t[1] * t[2] * t[3] * t[4] * t[5]) = x[1] * x[2] * x[3] * x[4] * x[5]
    BY <1>3, <1>4, <1>7
  <1> QED BY <1>8 DEF tileCount, product, c, x

-----------------------------------------------------------------------------
(* The searches: what they come back with, and that one of them is best.   *)
(* Whatever the strategy, what a search returns fits the room it was given. *)
LEMMA FoundFits ==
  ASSUME NEW p, NEW how, NEW room, NEW prefetch, NEW spatial, NEW t \in search(p, how, room, prefetch, spatial)
  PROVE  tileBytes(p, t, prefetch) <= room
  <1>1. ASSUME NEW u \in searchExhaustive(p, room, prefetch, spatial) PROVE tileBytes(p, u, prefetch) <= room
    BY <1>1 DEF searchExhaustive, fitting
  <1>2. ASSUME NEW u \in searchFirstRectangle(p, room, prefetch) PROVE tileBytes(p, u, prefetch) <= room
    BY <1>2 DEF searchFirstRectangle, fitting
  <1>3. ASSUME NEW u \in searchFixed(p, room, prefetch, spatial) PROVE tileBytes(p, u, prefetch) <= room
    BY <1>3 DEF searchFixed, ifItFits
  <1>4. ASSUME NEW u \in searchLargestFit(p, room, prefetch, spatial) PROVE tileBytes(p, u, prefetch) <= room
    BY <1>4 DEF searchLargestFit, ifItFits
  <1> QED BY <1>1, <1>2, <1>3, <1>4 DEF search

(***************************************************************************)
(* The mappings a baseline goes through: whole numbers, foldable, and not  *)
(* split on a spatial axis where that is off.                              *)
(***************************************************************************)
narrowing(p, spatial) ==
  {t \in [Slots -> Nat] : foldable(p, t) /\ (spatial \/ (t[4] = extentsOf(p)[4] /\ t[5] = extentsOf(p)[5]))}

LEMMA ExtentsAreANarrowing ==
  ASSUME NEW p, isProblem(p), NEW spatial \in BOOLEAN
  PROVE  extentsOf(p) \in narrowing(p, spatial) /\ DOMAIN extentsOf(p) = Slots
  <1> DEFINE x == extentsOf(p)
  <1>1. x = <<x[1], x[2], x[3], x[4], x[5]>>
    BY DEF extentsOf
  <1>2. 1 \in Slots /\ 2 \in Slots /\ 3 \in Slots /\ 4 \in Slots /\ 5 \in Slots
    BY DEF Slots
  <1>3. x[1] \in Nat /\ x[2] \in Nat /\ x[3] \in Nat /\ x[4] \in Nat /\ x[5] \in Nat
    BY <1>2, ExtentsAreNatural
  <1>4. x[3] = p.channels
    BY DEF extentsOf
  <1> HIDE DEF x
  <1>5. DOMAIN x = Slots
    BY <1>1 DEF Slots
  <1>6. x \in [Slots -> Nat]
    BY <1>1, <1>3 DEF Slots
  <1>7. foldable(p, x)
    BY <1>4 DEF foldable
  <1> QED BY <1>5, <1>6, <1>7 DEF narrowing, x

LEMMA HalvingNarrows ==
  ASSUME NEW p, isProblem(p), NEW spatial \in BOOLEAN, NEW t \in narrowing(p, spatial)
  PROVE  halved(p, t, spatial) \in narrowing(p, spatial)
  <1> DEFINE eligible == halvable(p, t, spatial)
             largest == {n \in eligible : \A m \in eligible : t[m] <= t[n]}
             n == Min(largest)
  <1>1. t \in [Slots -> Nat] /\ foldable(p, t) /\ (spatial \/ (t[4] = extentsOf(p)[4] /\ t[5] = extentsOf(p)[5]))
    BY DEF narrowing
  <1>2. CASE eligible = {}
    BY <1>2 DEF halved
  <1>3. CASE eligible # {}
    <2>1. eligible \subseteq Slots /\ Slots \subseteq Nat
      BY DEF halvable, Slots
    <2>2. largest # {}
      <3> DEFINE sizes == {t[m] : m \in eligible}
      <3>1. sizes \subseteq Nat /\ sizes # {}
        BY <1>1, <1>3, <2>1
      <3>2. \E u \in Nat : \A v \in sizes : v <= u
        <4> DEFINE u == t[1] + t[2] + t[3] + t[4] + t[5]
        <4>1. t[1] \in Nat /\ t[2] \in Nat /\ t[3] \in Nat /\ t[4] \in Nat /\ t[5] \in Nat
          BY <1>1 DEF Slots
        <4>2. u \in Nat /\ t[1] <= u /\ t[2] <= u /\ t[3] <= u /\ t[4] <= u /\ t[5] <= u
          BY <4>1
        <4> HIDE DEF u
        <4>3. \A m \in Slots : t[m] <= u
          BY <4>2 DEF Slots
        <4> QED BY <2>1, <4>2, <4>3
      <3>3. PICK v \in sizes : \A w \in sizes : w <= v
        <4> HIDE DEF sizes
        <4>1. PICK u \in Nat : \A v \in sizes : v <= u
          BY <3>2
        <4> QED BY <3>1, <4>1, GreatestNat
      <3>4. PICK m \in eligible : v = t[m]
        BY <3>3
      <3>5. m \in largest
        BY <3>3, <3>4
      <3> QED BY <3>5
    <2>3. largest \subseteq Nat
      BY <2>1
    <2>4. n \in eligible
      <3> HIDE DEF eligible
      <3>1. Min(largest) \in largest
        <4> HIDE DEF largest
        <4> QED BY <2>2, <2>3, MinNat
      <3> QED BY <3>1
    <2> HIDE DEF n
    <2>5. /\ n \in Slots /\ t[n] > 1 /\ t[n] \in Nat
          /\ (n \in {4, 5} => spatial) /\ (n = 2 => p.channels = t[3]) /\ (n = 3 => t[2] = 1)
      BY <1>1, <2>4 DEF halvable
    <2>6. t[n] \div 2 \in Nat
      BY <2>5
    <2> DEFINE h == [t EXCEPT ![n] = @ \div 2]
    <2>7. halved(p, t, spatial) = h
      BY <1>3 DEF halved, n
    <2>8. h \in [Slots -> Nat] /\ \A m \in Slots : m # n => h[m] = t[m]
      BY <1>1, <2>5, <2>6
    <2> HIDE DEF h
    <2>9. foldable(p, h)
      <3>1. 2 \in Slots /\ 3 \in Slots
        BY DEF Slots
      <3>2. CASE n = 2
        BY <2>5, <2>8, <3>1, <3>2 DEF foldable
      <3>3. CASE n = 3
        BY <2>5, <2>8, <3>1, <3>3 DEF foldable
      <3>4. CASE n # 2 /\ n # 3
        BY <1>1, <2>8, <3>1, <3>4 DEF foldable
      <3> QED BY <3>2, <3>3, <3>4
    <2>10. spatial \/ (h[4] = extentsOf(p)[4] /\ h[5] = extentsOf(p)[5])
      <3>1. 4 \in Slots /\ 5 \in Slots
        BY DEF Slots
      <3> QED BY <1>1, <2>5, <2>8, <3>1
    <2> QED BY <2>7, <2>8, <2>9, <2>10 DEF narrowing
  <1> QED BY <1>2, <1>3

LEMMA HalvedIsANarrowing ==
  ASSUME NEW p, isProblem(p), NEW room, NEW prefetch, NEW spatial \in BOOLEAN
  PROVE  halvedUntilItFits(p, room, prefetch, spatial) \in narrowing(p, spatial)
  <1> DEFINE S == narrowing(p, spatial)
             one(t) == IF tileBytes(p, t, prefetch) <= room THEN t ELSE halved(p, t, spatial)
             step == [k \in 1..HalvingSteps |-> [t \in S |-> one(t)]]
             after[k \in 0..HalvingSteps] ==
               IF k = 0 THEN extentsOf(p)
               ELSE IF tileBytes(p, after[k - 1], prefetch) <= room THEN after[k - 1]
               ELSE halved(p, after[k - 1], spatial)
  <1>1. halvedUntilItFits(p, room, prefetch, spatial) = after[HalvingSteps]
    BY DEF halvedUntilItFits
  <1>2. extentsOf(p) \in S
    BY ExtentsAreANarrowing
  <1>3. \A t \in S : one(t) \in S
    BY HalvingNarrows
  <1>4. HalvingSteps \in Nat
    BY WidthAssumption
  <1> HIDE DEF S, one
  <1>5. step \in StepsOn(HalvingSteps, S)
    BY <1>3 DEF StepsOn
  <1> HIDE DEF step
  <1>6. PICK f : Unrolls(f, HalvingSteps, S, extentsOf(p), step)
    BY <1>2, <1>4, <1>5, Recursion
  <1>7. /\ f \in [0..HalvingSteps -> S] /\ f[0] = extentsOf(p)
        /\ \A k \in 1..HalvingSteps : f[k] = one(f[k - 1])
    <2>1. f \in [0..HalvingSteps -> S] /\ f[0] = extentsOf(p)
      BY <1>6 DEF Unrolls
    <2>2. ASSUME NEW k \in 1..HalvingSteps PROVE f[k] = one(f[k - 1])
      <3>1. f[k] = step[k][f[k - 1]]
        BY <1>6 DEF Unrolls
      <3>2. k - 1 \in 0..HalvingSteps
        BY <1>4
      <3> QED BY <2>1, <3>1, <3>2 DEF step
    <2> QED BY <2>1, <2>2
  <1>8. \E g : g = [k \in 0..HalvingSteps |->
               IF k = 0 THEN extentsOf(p)
               ELSE IF tileBytes(p, g[k - 1], prefetch) <= room THEN g[k - 1]
               ELSE halved(p, g[k - 1], spatial)]
    <2>1. \A k \in 0..HalvingSteps : f[k] = IF k = 0 THEN extentsOf(p) ELSE one(f[k - 1])
      BY <1>4, <1>7
    <2>2. f = [k \in 0..HalvingSteps |-> IF k = 0 THEN extentsOf(p) ELSE one(f[k - 1])]
      BY <1>7, <2>1
    <2> QED BY <2>2 DEF one
  <1>9. after = [k \in 0..HalvingSteps |-> IF k = 0 THEN extentsOf(p) ELSE one(after[k - 1])]
    BY <1>8 DEF one
  <1> HIDE DEF after
  <1> DEFINE T == {k \in Nat : k <= HalvingSteps => after[k] \in S}
  <1>10. 0 \in T
    BY <1>2, <1>4, <1>9
  <1>11. ASSUME NEW k \in T PROVE k + 1 \in T
    <2> SUFFICES ASSUME k + 1 <= HalvingSteps PROVE after[k + 1] \in S
      OBVIOUS
    <2>1. k \in Nat /\ after[k] \in S
      BY <1>4
    <2> DEFINE m == k + 1
    <2>2. m \in 0..HalvingSteps /\ m # 0 /\ m - 1 = k
      BY <1>4, <2>1
    <2> HIDE DEF m
    <2>3. after[m] = one(after[m - 1])
      BY <1>9, <2>2
    <2>4. after[m] \in S
      BY <1>3, <2>1, <2>2, <2>3
    <2> QED BY <2>4 DEF m
  <1>12. T \subseteq Nat
    OBVIOUS
  <1> HIDE DEF T
  <1>13. HalvingSteps \in T
    BY <1>4, <1>10, <1>11, <1>12, Induct
  <1> QED BY <1>1, <1>4, <1>13 DEF T, S

LEMMA NarrowedNarrows ==
  ASSUME NEW p, isProblem(p), \A n \in Slots : extentsOf(p)[n] > 0, NEW room, NEW prefetch, NEW spatial \in BOOLEAN,
         NEW t \in narrowing(p, spatial), NEW slot \in {1, 3, 4, 5}
  PROVE  narrowed(p, room, prefetch, spatial, t, slot) \in narrowing(p, spatial)
  <1> DEFINE sizes == IF slot = 3 /\ t[2] # 1 THEN {p.channels} ELSE divisorsOf(extentsOf(p)[slot])
             fits == {d \in sizes : tileBytes(p, [t EXCEPT ![slot] = d], prefetch) <= room}
             size == IF fits # {} THEN Max(fits) ELSE Min(sizes)
             s == [t EXCEPT ![slot] = size]
  <1>1. t \in [Slots -> Nat] /\ foldable(p, t) /\ (spatial \/ (t[4] = extentsOf(p)[4] /\ t[5] = extentsOf(p)[5]))
    BY DEF narrowing
  <1>2. CASE slot \in {4, 5} /\ ~spatial
    BY <1>2 DEF narrowed
  <1>3. CASE ~(slot \in {4, 5} /\ ~spatial)
    <2>1. narrowed(p, room, prefetch, spatial, t, slot) = s
      BY <1>3 DEF narrowed
    <2>2. slot \in Slots /\ 2 \in Slots /\ 3 \in Slots /\ 4 \in Slots /\ 5 \in Slots
      BY DEF Slots
    <2>3. extentsOf(p)[slot] \in Nat /\ extentsOf(p)[slot] > 0 /\ p.channels \in Nat
      BY <2>2, ExtentsAreNatural DEF isProblem
    <2>4. sizes \subseteq Nat /\ sizes # {} /\ \E u \in Nat : \A d \in sizes : d <= u
      <3>1. CASE slot = 3 /\ t[2] # 1
        BY <2>3, <3>1
      <3>2. CASE ~(slot = 3 /\ t[2] # 1)
        <4> DEFINE x == extentsOf(p)[slot]
        <4> HIDE DEF x
        <4>1. x \in Nat /\ x > 0 /\ sizes = {d \in 1..x : x % d = 0}
          BY <2>3, <3>2 DEF x, divisorsOf
        <4> HIDE DEF sizes
        <4>2. x % 1 = 0 /\ 1 \in 1..x
          BY <4>1
        <4>3. 1 \in sizes
          BY <4>1, <4>2
        <4>4. \A d \in sizes : d <= x /\ d \in Nat
          BY <4>1
        <4> QED BY <4>1, <4>3, <4>4
      <3> QED BY <3>1, <3>2
    <2>5. fits \subseteq sizes
      OBVIOUS
    <2> HIDE DEF sizes, fits
    <2>6. size \in sizes
      <3>1. CASE fits # {}
        <4>1. PICK u \in Nat : \A d \in sizes : d <= u
          BY <2>4
        <4>2. Max(fits) \in fits
          BY <2>4, <2>5, <3>1, <4>1, MaxNat
        <4> QED BY <2>5, <3>1, <4>2
      <3>2. CASE fits = {}
        BY <2>4, <3>2, MinNat
      <3> QED BY <3>1, <3>2
    <2> HIDE DEF size
    <2>7. s \in [Slots -> Nat] /\ s[slot] = size /\ \A m \in Slots : m # slot => s[m] = t[m]
      BY <1>1, <2>2, <2>4, <2>6
    <2> HIDE DEF s
    <2>8. foldable(p, s)
      <3>1. CASE slot = 3 /\ t[2] # 1
        <4>1. size = p.channels
          BY <2>6, <3>1 DEF sizes
        <4> QED BY <2>7, <3>1, <4>1 DEF foldable
      <3>2. CASE slot = 3 /\ t[2] = 1
        BY <2>2, <2>7, <3>2 DEF foldable
      <3>3. CASE slot # 3
        BY <1>1, <2>2, <2>7, <3>3 DEF foldable
      <3> QED BY <3>1, <3>2, <3>3
    <2>9. spatial \/ (s[4] = extentsOf(p)[4] /\ s[5] = extentsOf(p)[5])
      BY <1>1, <1>3, <2>2, <2>7
    <2> QED BY <2>1, <2>7, <2>8, <2>9 DEF narrowing
  <1> QED BY <1>2, <1>3

LEMMA NarrowedIsANarrowing ==
  ASSUME NEW p, isProblem(p), \A n \in Slots : extentsOf(p)[n] > 0, NEW room, NEW prefetch, NEW spatial \in BOOLEAN
  PROVE  narrowedAxisByAxis(p, room, prefetch, spatial) \in narrowing(p, spatial)
  <1> DEFINE next(s, slot) == narrowed(p, room, prefetch, spatial, s, slot)
  <1>1. ASSUME NEW s \in narrowing(p, spatial), NEW slot \in {1, 3, 4, 5}
        PROVE  next(s, slot) \in narrowing(p, spatial)
    BY NarrowedNarrows
  <1>2. extentsOf(p) \in narrowing(p, spatial)
    BY ExtentsAreANarrowing
  <1>3. narrowedAxisByAxis(p, room, prefetch, spatial) = next(next(next(next(extentsOf(p), 3), 4), 5), 1)
    BY DEF narrowedAxisByAxis
  <1> HIDE DEF next
  <1>4. next(extentsOf(p), 3) \in narrowing(p, spatial)
    BY <1>1, <1>2
  <1>5. next(next(extentsOf(p), 3), 4) \in narrowing(p, spatial)
    BY <1>1, <1>4
  <1>6. next(next(next(extentsOf(p), 3), 4), 5) \in narrowing(p, spatial)
    BY <1>1, <1>5
  <1> QED BY <1>1, <1>3, <1>6

(***************************************************************************)
(* Whatever the strategy, a whole mapping a search comes back with is one  *)
(* the exhaustive search had among its candidates.                         *)
(***************************************************************************)
LEMMA WholeNarrowingFits ==
  ASSUME NEW p, isProblem(p), NEW room, NEW prefetch, NEW spatial \in BOOLEAN,
         NEW t \in narrowing(p, spatial), wholeTiles(p, t), tileBytes(p, t, prefetch) <= room
  PROVE  t \in fitting(p, room, prefetch, spatial)
  <1>1. t \in [Slots -> Nat] /\ foldable(p, t) /\ (spatial \/ (t[4] = extentsOf(p)[4] /\ t[5] = extentsOf(p)[5]))
    BY DEF narrowing
  <1>2. ASSUME NEW n \in Slots PROVE t[n] \in sizesAllowed(p, n, spatial)
    <2>1. t[n] \in divisorsOf(extentsOf(p)[n])
      BY DEF wholeTiles
    <2>2. CASE n \in {4, 5} /\ ~spatial
      BY <1>1, <2>2 DEF sizesAllowed
    <2>3. CASE ~(n \in {4, 5} /\ ~spatial)
      BY <2>1, <2>3 DEF sizesAllowed
    <2> QED BY <2>2, <2>3
  <1>3. t \in [Slots -> Nat \cap UNION {sizesAllowed(p, n, spatial) : n \in Slots}]
    BY <1>1, <1>2
  <1> QED BY <1>1, <1>2, <1>3 DEF fitting

LEMMA FoundIsACandidate ==
  ASSUME NEW p, isProblem(p), NEW how, NEW room, NEW prefetch, NEW spatial \in BOOLEAN,
         NEW t \in search(p, how, room, prefetch, spatial), wholeTiles(p, t)
  PROVE  t \in fitting(p, room, prefetch, spatial)
  <1>1. tileBytes(p, t, prefetch) <= room
    BY FoundFits
  <1>2. \A n \in Slots : extentsOf(p)[n] > 0
    <2> SUFFICES ASSUME NEW n \in Slots PROVE extentsOf(p)[n] > 0
      OBVIOUS
    <2>1. extentsOf(p)[n] \in Nat
      BY ExtentsAreNatural
    <2>2. t[n] \in 1..extentsOf(p)[n]
      BY DEF wholeTiles, divisorsOf
    <2> QED BY <2>1, <2>2
  <1>3. ASSUME t \in searchExhaustive(p, room, prefetch, spatial) PROVE t \in fitting(p, room, prefetch, spatial)
    BY <1>3 DEF searchExhaustive
  <1>4. ASSUME t \in searchFixed(p, room, prefetch, spatial) PROVE t \in fitting(p, room, prefetch, spatial)
    <2>1. t = halvedUntilItFits(p, room, prefetch, spatial)
      BY <1>4 DEF searchFixed, ifItFits
    <2>2. t \in narrowing(p, spatial)
      BY <2>1, HalvedIsANarrowing
    <2> QED BY <1>1, <2>2, WholeNarrowingFits
  <1>5. ASSUME t \in searchLargestFit(p, room, prefetch, spatial) PROVE t \in fitting(p, room, prefetch, spatial)
    <2>1. t = narrowedAxisByAxis(p, room, prefetch, spatial)
      BY <1>5 DEF searchLargestFit, ifItFits
    <2>2. t \in narrowing(p, spatial)
      BY <2>1, <1>2, NarrowedIsANarrowing
    <2> QED BY <1>1, <2>2, WholeNarrowingFits
  <1>6. ASSUME ~p.conv, t \in searchFirstRectangle(p, room, prefetch) PROVE t \in fitting(p, room, prefetch, spatial)
    <2>1. t \in fitting(p, room, prefetch, TRUE)
      BY <1>6 DEF searchFirstRectangle
    <2>2. t \in [Slots -> Nat] /\ foldable(p, t)
      BY <2>1 DEF fitting
    <2>3. extentsOf(p)[4] = 1 /\ extentsOf(p)[5] = 1 /\ 4 \in Slots /\ 5 \in Slots
      BY <1>6 DEF extentsOf, Slots
    <2>4. t[4] = 1 /\ t[5] = 1
      <3>1. t[4] \in 1..1 /\ t[5] \in 1..1
        BY <2>3 DEF wholeTiles, divisorsOf
      <3> QED BY <3>1
    <2>5. t \in narrowing(p, spatial)
      BY <2>2, <2>3, <2>4 DEF narrowing
    <2> QED BY <1>1, <2>5, WholeNarrowingFits
  <1> QED BY <1>3, <1>4, <1>5, <1>6 DEF search

(* The members of S with the least f.                                      *)
Least(S, f) == {s \in S : \A r \in S : f[s] <= f[r]}

LEMMA LeastExists ==
  ASSUME NEW S, S # {}, NEW f, \A s \in S : f[s] \in Nat
  PROVE  Least(S, f) # {} /\ Least(S, f) \subseteq S
  <1> DEFINE T == {f[s] : s \in S}
  <1>1. T \subseteq Nat /\ T # {}
    OBVIOUS
  <1>2. PICK n \in T : \A m \in T : n <= m
    <2> HIDE DEF T
    <2> QED BY <1>1, LeastNat
  <1>3. PICK s \in S : n = f[s]
    BY <1>2
  <1>4. s \in Least(S, f)
    BY <1>2, <1>3 DEF Least
  <1> QED BY <1>4 DEF Least

LEMMA CeilingIsNatural ==
  ASSUME NEW n \in Nat
  PROVE  ceilDivide(n, 16) \in Nat
  <1> DEFINE m == -n
             q == m \div 16
             r == m % 16
  <1>1. m \in Int /\ m <= 0
    OBVIOUS
  <1> HIDE DEF m
  <1>2. q \in Int /\ r \in 0..15 /\ m = (16 * q) + r
    BY <1>1
  <1> HIDE DEF q, r
  <1>3. q <= 0
    BY <1>1, <1>2
  <1>4. ceilDivide(n, 16) = -q
    BY DEF ceilDivide, q, m
  <1> QED BY <1>2, <1>3, <1>4

(* The price of a mapping, the key of the search.                          *)
LEMMA MakespanIsNatural ==
  ASSUME NEW p, isProblem(p), NEW t, wholeTiles(p, t)
  PROVE  makespanOf(p, t) \in Nat
  <1>1. 1 \in Slots /\ 2 \in Slots /\ 3 \in Slots /\ 4 \in Slots /\ 5 \in Slots /\ 0 \in Nat
    BY DEF Slots
  <1>2. t[1] \in Nat /\ t[2] \in Nat /\ t[3] \in Nat /\ t[4] \in Nat /\ t[5] \in Nat /\ t[4] # 0 /\ t[5] # 0
    BY <1>1, TileInsideTheDomain
  <1>3. tileCount(p, t) \in Nat /\ product(t) \in Nat
    BY GridCoversTheResult
  <1>4. p.inputs \in Nat /\ isWindow(p.height) /\ isWindow(p.width)
    BY DEF isProblem
  <1>5. kernelArea(p) \in Nat
    <2>1. p.height.kernel \in Nat /\ p.width.kernel \in Nat
      BY <1>4, WindowFacts
    <2> QED BY <2>1 DEF kernelArea
  <1>6. inputElements(p, t) \in Nat
    <2>1. ASSUME NEW w, isWindow(w), NEW s \in Nat \ {0} PROVE tiledInputExtent(w, s) \in Nat
      <3>1. w.input \in Nat /\ w.stride \in Nat /\ effectiveKernel(w) \in Nat
        BY <2>1, WindowFacts
      <3>2. (s - 1) * w.stride \in Nat
        BY <3>1
      <3> QED BY <3>1, <3>2 DEF tiledInputExtent, Smaller
    <2>2. tiledInputExtent(p.height, t[4]) \in Nat /\ tiledInputExtent(p.width, t[5]) \in Nat
      BY <1>2, <1>4, <2>1
    <2>3. tiledInputExtent(p.height, t[4]) * tiledInputExtent(p.width, t[5]) \in Nat
      BY <2>2
    <2>4. t[1] * t[2] * p.inputs \in Nat
      BY <1>2, <1>4
    <2> QED BY <2>3, <2>4 DEF inputElements
  <1>7. filterElements(p, t) \in Nat /\ biasElements(p, t) \in Nat
    <2>1. t[2] * t[3] * p.inputs \in Nat /\ t[2] * t[3] \in Nat
      BY <1>2, <1>4
    <2> QED BY <1>5, <2>1 DEF filterElements, biasElements
  <1>8. \A n \in Nat : dmaCycles(n) \in Nat
    BY WidthAssumption DEF dmaCycles
  <1>9. ASSUME NEW a \in Nat, NEW b \in Nat, NEW c \in Nat PROVE gemmCharge(a, b, c) \in Nat
    <2>1. ceilDivide(b, 16) \in Nat /\ ceilDivide(c, 16) \in Nat
      BY CeilingIsNatural
    <2>2. 16 * ceilDivide(b, 16) * ceilDivide(c, 16) \in Nat
      BY <2>1
    <2> QED BY <2>2 DEF gemmCharge
  <1>10. computeCycles(p, t) \in Nat
    <2>1. t[1] * t[4] * t[5] \in Nat /\ p.inputs * kernelArea(p) \in Nat
      BY <1>2, <1>4, <1>5
    <2>2. gemmCharge(t[1] * t[4] * t[5], p.inputs * kernelArea(p), t[3]) \in Nat /\ gemmCharge(t[1], p.inputs, t[3]) \in Nat
      BY <1>2, <1>4, <1>9, <2>1
    <2>3. t[2] * gemmCharge(t[1] * t[4] * t[5], p.inputs * kernelArea(p), t[3]) \in Nat
      BY <1>2, <2>2
    <2> QED BY <2>2, <2>3 DEF computeCycles
  <1>11. tileCosts(p, t).dma \in Nat /\ tileCosts(p, t).compute \in Nat
    <2>1. /\ dmaCycles(inputElements(p, t)) \in Nat /\ dmaCycles(filterElements(p, t)) \in Nat
          /\ dmaCycles(product(t)) \in Nat /\ dmaCycles(biasElements(p, t)) \in Nat
      BY <1>3, <1>6, <1>7, <1>8
    <2> QED BY <1>10, <2>1 DEF tileCosts, issueOverhead
  <1> DEFINE c == tileCosts(p, t)
  <1>12. Larger(c.dma, c.compute) \in Nat /\ Smaller(c.dma, c.compute) \in Nat
    BY <1>11 DEF Larger, Smaller
  <1>13. makespanOf(p, t) = tileCount(p, t) * Larger(c.dma, c.compute) + Smaller(c.dma, c.compute)
    BY DEF makespanOf
  <1> HIDE DEF c
  <1>14. tileCount(p, t) * Larger(c.dma, c.compute) \in Nat
    BY <1>3, <1>12
  <1> QED BY <1>12, <1>13, <1>14

(***************************************************************************)
(* Where anything fits, the exhaustive search finds something, and what it *)
(* finds is as cheap as every other mapping it considered.                 *)
(***************************************************************************)
LEMMA TheSearchFindsTheCheapest ==
  ASSUME NEW p, isProblem(p), NEW room, NEW prefetch, NEW spatial, fitting(p, room, prefetch, spatial) # {}
  PROVE  \E best \in searchExhaustive(p, room, prefetch, spatial) :
           \A t \in fitting(p, room, prefetch, spatial) : makespanOf(p, best) <= makespanOf(p, t)
  <1> DEFINE all == fitting(p, room, prefetch, spatial)
             key == [t \in all |-> preference(p, t)]
  <1>1. ASSUME NEW t \in all PROVE \A n \in 1..6 : preference(p, t)[n] \in Nat
    <2>1. wholeTiles(p, t)
      <3> SUFFICES ASSUME NEW n \in Slots PROVE t[n] \in divisorsOf(extentsOf(p)[n])
        BY DEF wholeTiles
      <3>1. t[n] \in sizesAllowed(p, n, spatial) /\ t[n] \in Nat
        BY DEF fitting
      <3> DEFINE x == extentsOf(p)[n]
      <3>2. x \in Nat
        BY ExtentsAreNatural
      <3>3. CASE n \in {4, 5} /\ ~spatial
        <4>1. t[n] = x
          BY <3>1, <3>3 DEF sizesAllowed
        <4>2. x > 0
          <5>1. CASE p.conv
            <6>1. x = computeWindowedExtent(p.height) \/ x = computeWindowedExtent(p.width)
              BY <3>3, <5>1 DEF extentsOf
            <6>2. computeWindowedExtent(p.height) \in Nat \ {0} /\ computeWindowedExtent(p.width) \in Nat \ {0}
              BY WindowFacts DEF isProblem
            <6> QED BY <6>1, <6>2
          <5>2. CASE ~p.conv
            <6>1. x = 1
              BY <3>3, <5>2 DEF extentsOf
            <6> QED BY <6>1
          <5> QED BY <5>1, <5>2
        <4> HIDE DEF x
        <4>3. x \in 1..x /\ x % x = 0
          <5>1. x = x * 1 /\ (x * 1) % x = 0
            BY <3>2, <4>2, MultipleLeavesNothing
          <5> QED BY <3>2, <4>2, <5>1
        <4> QED BY <4>1, <4>3 DEF divisorsOf, x
      <3>4. CASE ~(n \in {4, 5} /\ ~spatial)
        BY <3>1, <3>4 DEF sizesAllowed
      <3> QED BY <3>3, <3>4
    <2>2. makespanOf(p, t) \in Nat
      BY <2>1, MakespanIsNatural
    <2>3. t[1] \in Nat /\ t[2] \in Nat /\ t[3] \in Nat /\ t[4] \in Nat /\ t[5] \in Nat
      BY DEF fitting, Slots
    <2> QED BY <2>2, <2>3 DEF preference
  <1>2. ASSUME NEW t \in all PROVE DOMAIN preference(p, t) = 1..6 /\ preference(p, t)[1] = makespanOf(p, t)
    BY DEF preference
  <1> DEFINE by == [n \in 1..6 |-> [t \in all |-> preference(p, t)[n]]]
             S1 == Least(all, by[1])
             S2 == Least(S1, by[2])
             S3 == Least(S2, by[3])
             S4 == Least(S3, by[4])
             S5 == Least(S4, by[5])
             S6 == Least(S5, by[6])
  <1>3. \A n \in 1..6 : by[n] \in [all -> Nat] /\ \A t \in all : by[n][t] = key[t][n]
    BY <1>1
  <1>4. ASSUME NEW t \in all PROVE DOMAIN key[t] = 1..6 /\ key[t][1] = makespanOf(p, t)
    BY <1>2
  <1>5. searchExhaustive(p, room, prefetch, spatial) = {t \in all : \A other \in all : ~precedes(key[other], key[t])}
    BY DEF searchExhaustive
  <1> HIDE DEF by, all, key
  <1>6. ASSUME NEW A, A # {}, A \subseteq all, NEW n \in 1..6
        PROVE  Least(A, by[n]) # {} /\ Least(A, by[n]) \subseteq A
    <2> DEFINE f == by[n]
    <2>1. \A s \in A : f[s] \in Nat
      BY <1>3, <1>6
    <2> HIDE DEF f
    <2>2. Least(A, f) # {} /\ Least(A, f) \subseteq A
      BY <1>6, <2>1, LeastExists
    <2> QED BY <2>2 DEF f
  <1>7. S1 # {} /\ S1 \subseteq all
    BY <1>6 DEF all
  <1>8. S2 # {} /\ S2 \subseteq S1 /\ S2 \subseteq all
    <2> HIDE DEF S1
    <2> QED BY <1>6, <1>7
  <1>9. S3 # {} /\ S3 \subseteq S2 /\ S3 \subseteq all
    <2> HIDE DEF S2
    <2> QED BY <1>6, <1>8
  <1>10. S4 # {} /\ S4 \subseteq S3 /\ S4 \subseteq all
    <2> HIDE DEF S3
    <2> QED BY <1>6, <1>9
  <1>11. S5 # {} /\ S5 \subseteq S4 /\ S5 \subseteq all
    <2> HIDE DEF S4
    <2> QED BY <1>6, <1>10
  <1>12. S6 # {} /\ S6 \subseteq S5 /\ S6 \subseteq all
    <2> HIDE DEF S5
    <2> QED BY <1>6, <1>11
  <1> HIDE DEF S1, S2, S3, S4, S5, S6
  <1>13. PICK best \in S6 : TRUE
    BY <1>12
  <1>14. best \in S5 /\ best \in S4 /\ best \in S3 /\ best \in S2 /\ best \in S1 /\ best \in all
    BY <1>7, <1>8, <1>9, <1>10, <1>11, <1>12, <1>13
  <1>15. /\ \A t \in all : by[1][best] <= by[1][t]
         /\ \A t \in all : (\A r \in all : by[1][t] <= by[1][r]) => t \in S1
    BY <1>14 DEF S1, Least
  <1>16. /\ \A t \in S1 : by[2][best] <= by[2][t]
         /\ \A t \in S1 : (\A r \in S1 : by[2][t] <= by[2][r]) => t \in S2
    BY <1>14 DEF S2, Least
  <1>17. /\ \A t \in S2 : by[3][best] <= by[3][t]
         /\ \A t \in S2 : (\A r \in S2 : by[3][t] <= by[3][r]) => t \in S3
    BY <1>14 DEF S3, Least
  <1>18. /\ \A t \in S3 : by[4][best] <= by[4][t]
         /\ \A t \in S3 : (\A r \in S3 : by[4][t] <= by[4][r]) => t \in S4
    BY <1>14 DEF S4, Least
  <1>19. /\ \A t \in S4 : by[5][best] <= by[5][t]
         /\ \A t \in S4 : (\A r \in S4 : by[5][t] <= by[5][r]) => t \in S5
    BY <1>14 DEF S5, Least
  <1>20. \A t \in S5 : by[6][best] <= by[6][t]
    BY <1>13 DEF S6, Least
  <1>21. ASSUME NEW other \in all, precedes(key[other], key[best]) PROVE FALSE
    <2>1. PICK n \in 1..6 : key[other][n] < key[best][n] /\ \A m \in 1..(n - 1) : key[other][m] = key[best][m]
      BY <1>4, <1>21 DEF precedes
    <2>2. \A m \in 1..6 : by[m][other] \in Nat /\ by[m][best] \in Nat /\ by[m][other] = key[other][m] /\ by[m][best] = key[best][m]
      BY <1>3, <1>14
    <2>3. by[n][other] < by[n][best] /\ \A m \in 1..6 : m < n => by[m][other] = by[m][best]
      <3>1. \A m \in 1..6 : m < n => m \in 1..(n - 1)
        OBVIOUS
      <3> QED BY <2>1, <2>2, <3>1
    <2>4. n > 1 => other \in S1
      BY <1>15, <2>3
    <2>5. n > 2 => other \in S2
      BY <1>16, <2>3, <2>4
    <2>6. n > 3 => other \in S3
      BY <1>17, <2>3, <2>5
    <2>7. n > 4 => other \in S4
      BY <1>18, <2>3, <2>6
    <2>8. n > 5 => other \in S5
      BY <1>19, <2>3, <2>7
    <2>9. by[n][best] <= by[n][other]
      <3>1. n = 1 \/ n = 2 \/ n = 3 \/ n = 4 \/ n = 5 \/ n = 6
        OBVIOUS
      <3>2. CASE n = 1
        BY <1>15, <3>2
      <3>3. CASE n = 2
        BY <1>16, <2>4, <3>3
      <3>4. CASE n = 3
        BY <1>17, <2>5, <3>4
      <3>5. CASE n = 4
        BY <1>18, <2>6, <3>5
      <3>6. CASE n = 5
        BY <1>19, <2>7, <3>6
      <3>7. CASE n = 6
        BY <1>20, <2>8, <3>7
      <3> QED BY <3>1, <3>2, <3>3, <3>4, <3>5, <3>6, <3>7
    <2> QED BY <2>2, <2>3, <2>9
  <1>22. best \in searchExhaustive(p, room, prefetch, spatial)
    BY <1>5, <1>14, <1>21
  <1>23. \A t \in all : makespanOf(p, best) <= makespanOf(p, t)
    BY <1>3, <1>4, <1>14, <1>15
  <1> QED BY <1>22, <1>23 DEF all

-----------------------------------------------------------------------------
(***************************************************************************)
(* The invariant: the factors chosen are whole and among the candidates of *)
(* the exhaustive search, every tile emitted is the one of some grid       *)
(* position, and past the first the channels fold.                         *)
(***************************************************************************)
Chosen ==
  stage \in {"tile", "tiled"} =>
    /\ wholeTiles(problem, chosen)
    /\ tileBytes(problem, chosen, doubleBuffer) <= budget
    /\ chosen \in fitting(problem, budget, doubleBuffer, allowSpatial)

Emitted ==
  \A op \in tiles : \E k \in Nat : op = tileOp(problem, tilePosition(problem, chosen, k), chosen)

IInv ==
  /\ problem \in Problems /\ budget \in Nat /\ allowSpatial \in BOOLEAN
  /\ stage \in {"consider", "tile", "tiled", "declined", "fits"}
  /\ linear \in Nat
  /\ Chosen
  /\ Emitted
  /\ stage \notin {"tile", "tiled"} => tiles = {}
  /\ tiles # {} => foldable(problem, chosen)

LEMMA IInvInit == Init => IInv
  BY WidthAssumption DEF Init, IInv, Chosen, Emitted

LEMMA IInvNext == IInv /\ [Next]_vars => IInv'
  <1> SUFFICES ASSUME IInv, [Next]_vars PROVE IInv'
    OBVIOUS
  <1> USE DEF IInv
  <1>1. CASE Consider
    <2> DEFINE found == search(problem, strategy, budget, doubleBuffer, allowSpatial)
    <2>1. UNCHANGED <<problem, budget, strategy, doubleBuffer, allowSpatial, linear, tiles>> /\ stage = "consider"
      BY <1>1 DEF Consider, options
    <2>2. tiles = {} /\ Emitted'
      BY <2>1 DEF Emitted
    <2>3. CASE stage' = "tile" /\ mapping' = {pick(found)} /\ found # {} /\ wholeTiles(problem, pick(found))
      <3>1. pick(found) \in found
        BY <2>3 DEF pick
      <3>2. pick({pick(found)}) = pick(found)
        BY DEF pick
      <3>3. chosen' = pick(found)
        BY <2>3, <3>2 DEF chosen, pick
      <3> HIDE DEF found
      <3>4. tileBytes(problem, pick(found), doubleBuffer) <= budget
        BY <3>1, FoundFits DEF found
      <3>5. pick(found) \in fitting(problem, budget, doubleBuffer, allowSpatial)
        BY <2>3, <3>1, ProblemsAssumption, FoundIsACandidate DEF found
      <3>6. Chosen'
        BY <2>1, <2>3, <3>3, <3>4, <3>5 DEF Chosen
      <3> QED BY <2>1, <2>2, <2>3, <3>6
    <2>4. CASE stage' \in {"fits", "declined"}
      BY <2>1, <2>2, <2>4 DEF Chosen
    <2> QED BY <1>1, <2>3, <2>4 DEF Consider
  <1>2. CASE EmitTile
    <2> DEFINE at == tilePosition(problem, chosen, linear)
               op == tileOp(problem, at, chosen)
    <2>1. UNCHANGED <<problem, budget, strategy, doubleBuffer, allowSpatial, mapping>> /\ stage = "tile"
      BY <1>2 DEF EmitTile, options
    <2>2. chosen' = chosen
      BY <2>1 DEF chosen
    <2>3. isProblem(problem) /\ wholeTiles(problem, chosen)
      BY <2>1, ProblemsAssumption DEF Chosen
    <2>4. CASE generated(problem, at, chosen)
      <3>1. tiles' = tiles \cup {op} /\ linear' = linear + 1 /\ stage' = stage
        BY <1>2, <2>4 DEF EmitTile
      <3>2. foldable(problem, chosen)
        BY <2>4 DEF generated
      <3>3. Emitted'
        BY <2>1, <2>2, <3>1 DEF Emitted
      <3>4. Chosen'
        BY <2>1, <2>2, <3>1 DEF Chosen
      <3>5. foldable(problem, chosen)'
        BY <2>1, <2>2, <3>2
      <3> QED BY <2>1, <3>1, <3>3, <3>4, <3>5
    <2>5. CASE ~generated(problem, at, chosen)
      <3>1. ~foldable(problem, chosen)
        BY <2>3, <2>5, TileIsGenerated
      <3>2. tiles = {} /\ UNCHANGED <<tiles, linear>> /\ stage' = "declined"
        BY <1>2, <2>5, <3>1 DEF EmitTile
      <3> QED BY <2>1, <3>2 DEF Chosen, Emitted
    <2> QED BY <2>4, <2>5
  <1>3. CASE Replace
    BY <1>3 DEF Replace, options, Chosen, Emitted, chosen
  <1>4. CASE UNCHANGED vars
    BY <1>4 DEF vars, Chosen, Emitted, chosen
  <1> QED BY <1>1, <1>2, <1>3, <1>4 DEF Next

THEOREM Invariance == Spec => []IInv
  <1>1. Init => IInv
    BY IInvInit
  <1>2. IInv /\ [Next]_vars => IInv'
    BY IInvNext
  <1> QED BY <1>1, <1>2, PTL DEF Spec

(***************************************************************************)
(* An operation the pass declines has had no tile emitted for it, for any  *)
(* operation the verifier accepted and any strategy and budget.            *)
(***************************************************************************)
THEOREM DeclinesWhole == Spec => []DeclinedLeavesNothingBehind
  <1>1. IInv => DeclinedLeavesNothingBehind
    BY DEF IInv, DeclinedLeavesNothingBehind
  <1> QED BY <1>1, Invariance, PTL

(***************************************************************************)
(* Every tile of a convolution passes the verifier with the extents the    *)
(* mapping asked for, and its channels divide into its groups.             *)
(***************************************************************************)
THEOREM TilesPassTheVerifier == Spec => []TilesAreVerified
  <1>1. IInv => TilesAreVerified
    <2> SUFFICES ASSUME IInv, NEW op \in tiles, problem.conv
                 PROVE  /\ accepted(op.height) /\ computeWindowedExtent(op.height) = chosen[4]
                        /\ accepted(op.width) /\ computeWindowedExtent(op.width) = chosen[5]
                        /\ op.outputs % op.groups = 0
      BY DEF TilesAreVerified
    <2>1. PICK k \in Nat : op = tileOp(problem, tilePosition(problem, chosen, k), chosen)
      BY DEF IInv, Emitted
    <2>2. isProblem(problem) /\ wholeTiles(problem, chosen)
      BY ProblemsAssumption DEF IInv, Chosen
    <2>3. /\ accepted(op.height) /\ computeWindowedExtent(op.height) = chosen[4]
          /\ accepted(op.width) /\ computeWindowedExtent(op.width) = chosen[5]
      BY <2>1, <2>2, TileWindows
    <2>4. op.outputs = chosen[2] * chosen[3] /\ op.groups = chosen[2]
      BY <2>1 DEF tileOp
    <2>5. chosen[2] \in Nat \ {0} /\ chosen[3] \in Nat \ {0}
      <3>1. 2 \in Slots /\ 3 \in Slots
        BY DEF Slots
      <3> QED BY <2>2, <3>1, TileInsideTheDomain
    <2>6. (chosen[2] * chosen[3]) % chosen[2] = 0
      BY <2>5, MultipleLeavesNothing
    <2> QED BY <2>3, <2>4, <2>6
  <1> QED BY <1>1, Invariance, PTL

(***************************************************************************)
(* What a tile holds on chip is no more than it was priced at, which is    *)
(* within the budget, for every operation, strategy and grid position.     *)
(***************************************************************************)
THEOREM TilesFitTheBudget == Spec => []EveryTileFits
  <1>1. IInv => EveryTileFits
    <2> SUFFICES ASSUME IInv, NEW op \in tiles
                 PROVE  /\ operandBytes(op, problem, chosen) <= tileBytes(problem, chosen, doubleBuffer)
                        /\ tileBytes(problem, chosen, doubleBuffer) <= budget
      BY DEF EveryTileFits
    <2>1. PICK k \in Nat : op = tileOp(problem, tilePosition(problem, chosen, k), chosen)
      BY DEF IInv, Emitted
    <2>2. /\ isProblem(problem) /\ wholeTiles(problem, chosen)
          /\ tileBytes(problem, chosen, doubleBuffer) <= budget
      BY ProblemsAssumption DEF IInv, Chosen
    <2>3. op.batch = chosen[1] /\ op.groups = chosen[2]
      BY <2>1 DEF tileOp
    <2>4. \A n \in Slots : chosen[n] \in Nat
      BY <2>2, TileInsideTheDomain
    <2> QED BY <2>1, <2>2, <2>3, <2>4, TileHoldsWhatItWasPricedAt
  <1> QED BY <1>1, Invariance, PTL

-----------------------------------------------------------------------------
placedBy(p, t, n) == UNION {cells(p, t, k) : k \in 0..(n - 1)}

(***************************************************************************)
(* What is stitched so far: the elements of the tiles emitted, each one    *)
(* with the term the operation's result has there, and none of them twice. *)
(***************************************************************************)
Assembled ==
  /\ stage = "consider" => linear = 0 /\ DOMAIN stitched = {}
  /\ stage \in {"tile", "tiled"} =>
       /\ linear <= tileCount(problem, chosen)
       /\ linear > 0 => foldable(problem, chosen) /\ stitched = [e \in DOMAIN stitched |-> stitched[e]]
       /\ DOMAIN stitched = placedBy(problem, chosen, linear)
       /\ \A e \in DOMAIN stitched : stitched[e] = resultOf(problem)[e]
       /\ IsFiniteSet(DOMAIN stitched)
       /\ Cardinality(DOMAIN stitched) = linear * product(chosen)
  /\ stage = "tiled" => linear = tileCount(problem, chosen)

LEMMA NothingPlaced == ASSUME NEW p, NEW t PROVE placedBy(p, t, 0) = {}
  BY DEF placedBy

LEMMA OneMorePlaced ==
  ASSUME NEW p, NEW t, NEW n \in Nat
  PROVE  placedBy(p, t, n + 1) = cells(p, t, n) \cup placedBy(p, t, n)
  <1>1. 0..(n + 1 - 1) = (0..(n - 1)) \cup {n}
    OBVIOUS
  <1> QED BY <1>1 DEF placedBy

LEMMA NextTileIsApart ==
  ASSUME NEW p, isProblem(p), NEW t, wholeTiles(p, t), foldable(p, t), NEW n \in Nat, n < tileCount(p, t)
  PROVE  cells(p, t, n) \cap placedBy(p, t, n) = {}
  <1> SUFFICES ASSUME NEW e \in cells(p, t, n), NEW k \in 0..(n - 1), e \in cells(p, t, k) PROVE FALSE
    BY DEF placedBy
  <1>1. tileCount(p, t) \in Nat
    BY GridCoversTheResult
  <1>2. k \in Nat /\ k < n /\ k < tileCount(p, t)
    BY <1>1
  <1>3. k = n
    BY <1>2, TilesApart
  <1> QED BY <1>2, <1>3

LEMMA AssembledInit == Init => Assembled
  BY DEF Init, Assembled

LEMMA AssembledNext == IInv /\ IInv' /\ Assembled /\ [Next]_vars => Assembled'
  <1> SUFFICES ASSUME IInv, IInv', Assembled, [Next]_vars PROVE Assembled'
    OBVIOUS
  <1> USE DEF Assembled
  <1>1. CASE Consider
    <2>1. stage = "consider" /\ linear' = linear /\ stitched' = stitched /\ problem' = problem
      BY <1>1 DEF Consider, options
    <2>2. stage' \in {"fits", "declined", "tile"}
      BY <1>1 DEF Consider
    <2>3. linear' = 0 /\ DOMAIN stitched' = {}
      BY <2>1
    <2>4. CASE stage' = "tile"
      <3>1. isProblem(problem') /\ wholeTiles(problem', chosen')
        BY <2>4, ProblemsAssumption DEF IInv, Chosen
      <3>2. tileCount(problem', chosen') \in Nat /\ product(chosen') \in Nat
        BY <3>1, GridCoversTheResult
      <3>3. linear' <= tileCount(problem', chosen') /\ ~(linear' > 0)
        BY <2>3, <3>2
      <3>4. DOMAIN stitched' = placedBy(problem', chosen', linear')
        BY <2>3, NothingPlaced
      <3>5. IsFiniteSet(DOMAIN stitched') /\ Cardinality(DOMAIN stitched') = linear' * product(chosen')
        <4>1. 0 * product(chosen') = 0
          BY <3>2
        <4> QED BY <2>3, <4>1, FS_EmptySet
      <3> QED BY <2>3, <2>4, <3>3, <3>4, <3>5
    <2> QED BY <2>1, <2>2, <2>4
  <1>2. CASE EmitTile
    <2> DEFINE at == tilePosition(problem, chosen, linear)
               slice == inserted(problem, at, chosen)
    <2>1. stage = "tile" /\ problem' = problem /\ chosen' = chosen /\ linear < tileCount(problem, chosen)
      BY <1>2 DEF EmitTile, options, chosen
    <2>2. isProblem(problem) /\ wholeTiles(problem, chosen) /\ linear \in Nat
      BY <2>1, ProblemsAssumption DEF IInv, Chosen
    <2>3. CASE ~generated(problem, at, chosen)
      <3>1. stage' = "declined"
        BY <1>2, <2>3 DEF EmitTile
      <3> QED BY <3>1
    <2>4. CASE generated(problem, at, chosen)
      <3>1. stitched' = insertSlice(slice, stitched) /\ linear' = linear + 1 /\ stage' = "tile"
        BY <1>2, <2>4 DEF EmitTile
      <3>2. foldable(problem, chosen)
        BY <2>4 DEF generated
      <3> DEFINE new == cells(problem, chosen, linear)
                 old == DOMAIN stitched
      <3>3. DOMAIN slice = new /\ \A e \in new : slice[e] = resultOf(problem)[e]
        BY <2>2, <3>2, InsertedTile
      <3>4. new \subseteq resultIndices(extentsOf(problem)) /\ IsFiniteSet(new) /\ Cardinality(new) = product(chosen)
        BY <2>2, <3>2, CellsOfATile
      <3>5. /\ old = placedBy(problem, chosen, linear) /\ \A e \in old : stitched[e] = resultOf(problem)[e]
            /\ IsFiniteSet(old) /\ Cardinality(old) = linear * product(chosen)
        BY <2>1
      <3>6. new \cap old = {}
        BY <2>1, <2>2, <3>2, <3>5, NextTileIsApart
      <3> HIDE DEF slice, new
      <3>7. stitched' = [e \in new \cup old |-> IF e \in new THEN slice[e] ELSE stitched[e]]
        BY <3>1, <3>3 DEF insertSlice
      <3>8. DOMAIN stitched' = new \cup old /\ \A e \in new \cup old : stitched'[e] = resultOf(problem)[e]
        BY <3>3, <3>5, <3>7
      <3>9. stitched' = [e \in DOMAIN stitched' |-> stitched'[e]]
        BY <3>7
      <3>10. new \cup old = placedBy(problem, chosen, linear + 1)
        BY <2>2, <3>5, OneMorePlaced DEF new
      <3>11. IsFiniteSet(new \cup old) /\ Cardinality(new \cup old) = Cardinality(new) + Cardinality(old)
        <4>1. /\ IsFiniteSet(new \cup old)
              /\ Cardinality(new \cup old) = Cardinality(new) + Cardinality(old) - Cardinality(new \cap old)
          BY <3>4, <3>5, FS_Union
        <4>2. Cardinality(new \cap old) = 0
          BY <3>6, FS_EmptySet
        <4>3. Cardinality(new) \in Nat /\ Cardinality(old) \in Nat
          BY <3>4, <3>5, FS_CardinalityType
        <4> QED BY <4>1, <4>2, <4>3
      <3>12. Cardinality(new \cup old) = (linear + 1) * product(chosen)
        <4>1. product(chosen) \in Nat
          BY <2>2, GridCoversTheResult
        <4>2. (linear + 1) * product(chosen) = linear * product(chosen) + product(chosen)
          BY <2>2, <4>1
        <4>3. linear * product(chosen) \in Nat
          BY <2>2, <4>1
        <4> QED BY <3>4, <3>5, <3>11, <4>1, <4>2, <4>3
      <3>13. linear + 1 <= tileCount(problem, chosen) /\ linear + 1 > 0
        <4>1. tileCount(problem, chosen) \in Nat
          BY <2>2, GridCoversTheResult
        <4> QED BY <2>1, <2>2, <4>1
      <3> HIDE DEF old
      <3> QED BY <2>1, <3>1, <3>2, <3>8, <3>9, <3>10, <3>11, <3>12, <3>13
    <2> QED BY <2>3, <2>4
  <1>3. CASE Replace
    <2>1. /\ stage = "tile" /\ stage' = "tiled" /\ linear = tileCount(problem, chosen)
          /\ UNCHANGED <<problem, mapping, linear, stitched>>
      BY <1>3 DEF Replace, options
    <2>2. chosen' = chosen
      BY <2>1 DEF chosen
    <2> QED BY <2>1, <2>2
  <1>4. CASE UNCHANGED vars
    <2>1. UNCHANGED <<problem, mapping, linear, stitched, stage>>
      BY <1>4 DEF vars
    <2>2. chosen' = chosen
      BY <2>1 DEF chosen
    <2> QED BY <2>1, <2>2
  <1> QED BY <1>1, <1>2, <1>3, <1>4 DEF Next

LEMMA AssembledHolds == Spec => []Assembled
  <1>1. Init => Assembled
    BY AssembledInit
  <1>2. IInv /\ IInv' /\ Assembled /\ [Next]_vars => Assembled'
    BY AssembledNext
  <1> QED BY <1>1, <1>2, Invariance, PTL DEF Spec

(***************************************************************************)
(* A tiled operation computes what the operation did: when the last tile   *)
(* is in place every element of the result has been inserted, once, with   *)
(* the taps and the filter it had before, for every accepted convolution   *)
(* and matrix product, every strategy and every budget.                    *)
(***************************************************************************)
THEOREM TilingKeepsTheResult == Spec => []StitchedIsTheResult
  <1>1. IInv /\ Assembled => StitchedIsTheResult
    <2> SUFFICES ASSUME IInv, Assembled PROVE StitchedIsTheResult
      OBVIOUS
    <2>1. stage = "tile" => Cardinality(DOMAIN stitched) = linear * product(chosen)
      BY DEF Assembled
    <2>2. ASSUME stage = "tiled" PROVE stitched = resultOf(problem)
      <3> DEFINE all == resultIndices(extentsOf(problem))
                 done == DOMAIN stitched
      <3>1. isProblem(problem) /\ wholeTiles(problem, chosen)
        BY <2>2, ProblemsAssumption DEF IInv, Chosen
      <3>2. /\ tileCount(problem, chosen) \in Nat \ {0}
            /\ tileCount(problem, chosen) * product(chosen) = product(extentsOf(problem))
        BY <3>1, GridCoversTheResult
      <3>3. linear = tileCount(problem, chosen) /\ foldable(problem, chosen)
        BY <2>2, <3>2 DEF Assembled
      <3>4. /\ stitched = [e \in done |-> stitched[e]] /\ \A e \in done : stitched[e] = resultOf(problem)[e]
            /\ done = placedBy(problem, chosen, linear)
            /\ Cardinality(done) = product(extentsOf(problem))
        BY <2>2, <3>2, <3>3 DEF Assembled
      <3>5. done \subseteq all
        <4>1. \A k \in 0..(linear - 1) : cells(problem, chosen, k) \subseteq all
          BY <3>1, <3>2, <3>3, CellsOfATile
        <4> QED BY <3>4, <4>1 DEF placedBy
      <3>6. IsFiniteSet(all) /\ Cardinality(all) = product(extentsOf(problem))
        BY <3>1, ExtentsAreNatural, BlockSize
      <3> HIDE DEF all, done
      <3>7. done = all
        BY <3>4, <3>5, <3>6, FS_Subset
      <3>8. stitched = [e \in all |-> resultOf(problem)[e]]
        BY <3>4, <3>7
      <3>9. resultOf(problem) = [e \in all |-> resultOf(problem)[e]]
        BY DEF resultOf, all
      <3> QED BY <3>8, <3>9
    <2> QED BY <2>1, <2>2 DEF StitchedIsTheResult
  <1> QED BY <1>1, Invariance, AssembledHolds, PTL

(***************************************************************************)
(* No baseline chooses a cheaper mapping than the exhaustive search would: *)
(* what either baseline commits to is among the candidates of the search,  *)
(* which has a cheapest one, so the regret reported is not negative.       *)
(***************************************************************************)
THEOREM BaselinesAreNoBetter == Spec => []NoBaselineBeatsTheSearch
  <1>1. IInv => NoBaselineBeatsTheSearch
    <2> SUFFICES ASSUME IInv, stage = "tile"
                 PROVE  \E best \in searchExhaustive(problem, budget, doubleBuffer, allowSpatial) :
                          makespanOf(problem, best) <= makespanOf(problem, chosen)
      BY DEF NoBaselineBeatsTheSearch
    <2>1. isProblem(problem) /\ chosen \in fitting(problem, budget, doubleBuffer, allowSpatial)
      BY ProblemsAssumption DEF IInv, Chosen
    <2> QED BY <2>1, TheSearchFindsTheCheapest
  <1> QED BY <1>1, Invariance, PTL
==============================================================================
