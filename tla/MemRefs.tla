------------------------------- MODULE MemRefs -------------------------------
(***************************************************************************)
(* Buffers below the tensor level: their types, the views that derive one  *)
(* from another, and the analysis that says where a view lies and whether  *)
(* two of them overlap (NPUISAMemoryOverlap.cpp).                          *)
(*                                                                         *)
(* A value is [root, chain, type]: root names the allocation, the argument *)
(* or the constant it is derived from, chain the view operations in order. *)
(* Extents, strides and layout offsets count elements.                     *)
(***************************************************************************)
EXTENDS InstructionSet

byteWidth(element) == IF element = "i8" THEN 1 ELSE FloatBytes

-----------------------------------------------------------------------------
(* MLIR's types and view operations.                                       *)
contiguousType(space, element, shape) ==
  [space |-> space, element |-> element, shape |-> shape, strides |-> rowMajor(shape),
   offset |-> 0, identity |-> TRUE]

rootValue(root, type) == [root |-> root, chain |-> << >>, type |-> type]

viewOf(v, bytes, element, shape) ==
  [v EXCEPT !.chain = Append(@, [op |-> "view", bytes |-> bytes]),
            !.type = contiguousType(v.type.space, element, shape)]

reinterpretCast(v, offset, sizes, strides) ==
  [v EXCEPT !.chain = Append(@, [op |-> "reinterpret_cast", offset |-> offset, element |-> v.type.element]),
            !.type = [v.type EXCEPT !.shape = sizes, !.strides = strides, !.offset = offset,
                                    !.identity = FALSE]]

subview(v, offsets, sizes) ==
  [v EXCEPT !.chain = Append(@, [op |-> "subview", offsets |-> offsets, source |-> v.type]),
            !.type = [v.type EXCEPT !.shape = sizes, !.identity = FALSE,
                                    !.offset = @ + dot(offsets, v.type.strides)]]

(* A view whose offset is not a constant.                                  *)
dynamicView(v) == [v EXCEPT !.chain = Append(@, [op |-> "dynamic_view"])]

(* What a value addresses, in bytes from the start of its root: only view  *)
(* moves the pointer, the layout counts from there.                        *)
pointerOf(v) ==
  total([n \in DOMAIN v.chain |-> IF v.chain[n].op = "view" THEN v.chain[n].bytes ELSE 0])

elementOf(v, index) ==
  pointerOf(v) + (v.type.offset + dot(index, v.type.strides)) * byteWidth(v.type.element)

bytesOfValue(v) ==
  UNION {elementOf(v, odometer(v.type.shape, p)) .. elementOf(v, odometer(v.type.shape, p))
                                                     + byteWidth(v.type.element) - 1 : p \in turns(v.type.shape)}

-----------------------------------------------------------------------------
(* Mutant: the extents and not the strides say how far a view reaches.     *)
byteSpanOfExtents(type) == product(type.shape) * byteWidth(type.element)

(* byteSpan: the closed hull of a strided layout.                          *)
byteSpan(type) ==
  IF product(type.shape) = 0 THEN 0
  ELSE IF type.identity THEN product(type.shape) * byteWidth(type.element)
  ELSE (1 + dot([n \in DOMAIN type.shape |-> type.shape[n] - 1], type.strides)) * byteWidth(type.element)

(* byteSpan gives up on a layout that walks backwards.                     *)
spanIsKnown(type) ==
  \/ product(type.shape) = 0
  \/ type.identity
  \/ \A n \in DOMAIN type.strides : type.strides[n] >= 0

(* What each operation of a chain adds, in bytes.                          *)
shiftOf(step) ==
  IF step.op = "view" THEN step.bytes
  ELSE IF step.op = "reinterpret_cast" THEN step.offset * byteWidth(step.element)
  ELSE dot(step.offsets, rowMajor(step.source.shape)) * byteWidth(step.source.element)

(* Views are followed back to an allocation or an argument; the result of  *)
(* npuisa.const is neither.  A view that is not static stops the walk, and *)
(* so does a cast to before its base.                                      *)
analysable(v) ==
  /\ v.root.kind # "const"
  /\ \A n \in DOMAIN v.chain :
       /\ v.chain[n].op # "dynamic_view"
       /\ v.chain[n].op = "reinterpret_cast" => v.chain[n].offset >= 0

(* computeBufferRange: at most one range.                                  *)
computeBufferRange(v) ==
  IF ~spanIsKnown(v.type) \/ ~analysable(v) THEN {}
  ELSE {[base   |-> v.root,
         offset |-> total([n \in DOMAIN v.chain |-> shiftOf(v.chain[n])]),
         size   |-> byteSpan(v.type)]}

overlaps(v, w) ==
  IF computeBufferRange(v) = {} \/ computeBufferRange(w) = {} THEN "Unknown"
  ELSE IF \E r \in computeBufferRange(v), s \in computeBufferRange(w) :
            r.base = s.base /\ r.offset < s.offset + s.size /\ s.offset < r.offset + r.size
    THEN "Overlaps"
  ELSE "Disjoint"
==============================================================================
