----------------------------- MODULE ProgramFile -----------------------------
(***************************************************************************)
(* The container (Program.cpp): a program as a row of bytes and back.      *)
(* There are no tags, so writer and reader must agree on the order and the *)
(* width of every field; the reader takes a count only after comparing it  *)
(* with the cap and with the bytes that remain.                            *)
(*                                                                         *)
(* Widths are scaled down: a u32, an i32 and a float field take one byte,  *)
(* a u64 and an i64 two.                                                   *)
(***************************************************************************)
EXTENDS InstructionSet

CONSTANT MaxCount      (* kMaxCount *)

ASSUME MaxCountAssumption == MaxCount \in Nat

VARIABLES
  file,        (* the bytes                                                *)
  at,          (* Reader::cursor                                           *)
  section,     (* the section being read, 0 for the header                 *)
  expected,    (* the entries of it still to come, Unread before its count *)
  decoded,     (* the program read so far                                  *)
  reading      (* "idle", "reading", "decoded" or "malformed"              *)

fileVars == <<file, at, section, expected, decoded, reading>>

Magic == 7
Version == 2
Unread == -1

field(name, kind) == [name |-> name, kind |-> kind]

HeaderFields == <<field("scratchpadBytes", "u64"), field("dramBytes", "u64")>>

RegionFields == <<field("offset", "u64"), field("elementType", "u32"), field("shape", "vector")>>

ConstantFields == RegionFields \o <<field("data", "bytes")>>

OperandFields ==
  <<field("space", "u32"), field("elementType", "u32"), field("address", "i64"),
    field("shape", "vector"), field("strides", "vector")>>

InstructionFields ==
  <<field("opcode", "u32"), field("activation", "u32"), field("resultSpace", "u32"),
    field("resultElementType", "u32"), field("resultAddress", "i64"), field("resultShape", "vector"),
    field("resultStrides", "vector"), field("operands", "operands"), field("pads", "vector"),
    field("strides", "vector"), field("dilations", "vector"), field("kernel", "vector"),
    field("group", "i64"), field("axes", "vector"), field("scale", "u32"), field("zeroPoint", "i32"),
    field("requantMultiplier", "i32"), field("requantShift", "i32")>>

DebugFields == <<field("pc", "u32"), field("name", "name")>>

(* Mutant: an instruction is taken to need more than it does.             *)
SectionsOverCounted ==
  <<[name |-> "inputs", fields |-> RegionFields, least |-> 4],
    [name |-> "outputs", fields |-> RegionFields, least |-> 4],
    [name |-> "constants", fields |-> ConstantFields, least |-> 5],
    [name |-> "spillSlots", fields |-> RegionFields, least |-> 4],
    [name |-> "instructions", fields |-> InstructionFields, least |-> 32],
    [name |-> "debug", fields |-> DebugFields, least |-> 2]>>

(* The sections in order, with the least bytes an entry takes.             *)
Sections ==
  <<[name |-> "inputs", fields |-> RegionFields, least |-> 4],
    [name |-> "outputs", fields |-> RegionFields, least |-> 4],
    [name |-> "constants", fields |-> ConstantFields, least |-> 5],
    [name |-> "spillSlots", fields |-> RegionFields, least |-> 4],
    [name |-> "instructions", fields |-> InstructionFields, least |-> 19],
    [name |-> "debug", fields |-> DebugFields, least |-> 2]>>

-----------------------------------------------------------------------------
(* The writer.                                                             *)
widthOf(kind) == IF kind \in {"u64", "i64"} THEN 2 ELSE 1

putCount(values) == <<Len(values) % Base>>

putI64Vector(values) == putCount(values) \o FlattenSeq([n \in DOMAIN values |-> toBytes(values[n], 2)])

putSimple(kind, value) ==
  CASE kind = "vector"           -> putI64Vector(value)
    [] kind \in {"bytes", "name"} -> putCount(value) \o value
    [] OTHER                     -> toBytes(value, widthOf(kind))

putOperand(operand) ==
  FlattenSeq([n \in DOMAIN OperandFields |->
    putSimple(OperandFields[n].kind, operand[OperandFields[n].name])])

putOperands(operands) == putCount(operands) \o FlattenSeq([n \in DOMAIN operands |-> putOperand(operands[n])])

put(fields, value) ==
  FlattenSeq([n \in DOMAIN fields |->
    IF fields[n].kind = "operands" THEN putOperands(value.operands)
    ELSE putSimple(fields[n].kind, value[fields[n].name])])

putSection(s, program) ==
  LET entries == program[s.name]
  IN  putCount(entries) \o FlattenSeq([n \in DOMAIN entries |-> put(s.fields, entries[n])])

encode(program) ==
  <<Magic, Version>> \o put(HeaderFields, program)
    \o FlattenSeq([n \in DOMAIN Sections |-> putSection(Sections[n], program)])

-----------------------------------------------------------------------------
(* The reader.  What a read leaves behind is [at, value], in a set that is *)
(* empty when it failed; after the first failure nothing more is read.     *)
remainingAt(p) == Len(file) - p

readAt(p, width) ==
  IF remainingAt(p) < width THEN {} ELSE {[at |-> p + width, value |-> SubSeq(file, p + 1, p + width)]}

readNumber(p, kind) ==
  {[word EXCEPT !.value = IF kind \in {"i32", "i64"} THEN signed(@) ELSE unsigned(@)] :
     word \in readAt(p, widthOf(kind))}

(* The cap first, then the bytes the entries need at least.                *)
readCount(p, least) ==
  {count \in readNumber(p, "u32") : count.value <= MaxCount /\ count.value * least <= remainingAt(count.at)}

readI64Vector(p) ==
  {[at |-> count.at + 2 * count.value,
    value |-> [n \in 1..count.value |-> signed(SubSeq(file, count.at + 2 * n - 1, count.at + 2 * n))]] :
     count \in readCount(p, 2)}

readBytes(p, longest) ==
  UNION {readAt(count.at, count.value) : count \in {c \in readCount(p, 1) : c.value <= longest}}

readSimple(p, kind) ==
  CASE kind = "vector" -> readI64Vector(p)
    [] kind = "bytes"  -> readBytes(p, MaxCount)
    [] kind = "name"   -> readBytes(p, MaxDebugName)
    [] OTHER           -> readNumber(p, kind)

readStart(p) == {[at |-> p, value |-> << >>]}

(* One more field of a record, and one more operand of a list.             *)
readSimpleField(so_far, f) ==
  UNION {{[next EXCEPT !.value = r.value @@ (f.name :> @)] : next \in readSimple(r.at, f.kind)} : r \in so_far}

readOperand(so_far) ==
  UNION {{[operand EXCEPT !.value = Append(r.value, @)] :
            operand \in FoldLeft(readSimpleField, readStart(r.at), OperandFields)} : r \in so_far}

readOperands(p) ==
  UNION {FoldLeft(LAMBDA r, n : readOperand(r), readStart(count.at), [n \in 1..count.value |-> n]) :
           count \in readCount(p, 6)}

readField(so_far, f) ==
  IF f.kind # "operands" THEN readSimpleField(so_far, f)
  ELSE UNION {{[operands EXCEPT !.value = r.value @@ (f.name :> @)] : operands \in readOperands(r.at)} : r \in so_far}

readRecord(p, fields) == FoldLeft(readField, readStart(p), fields)

malformed ==
  /\ reading' = "malformed"
  /\ UNCHANGED <<file, at, section, expected, decoded>>

EmptyProgram ==
  [scratchpadBytes |-> 0, dramBytes |-> 0, inputs |-> << >>, outputs |-> << >>, constants |-> << >>,
   spillSlots |-> << >>, instructions |-> << >>, debug |-> << >>]

ReadHeader ==
  /\ reading = "reading" /\ section = 0
  /\ IF Len(file) < 2 \/ SubSeq(file, 1, 2) # <<Magic, Version>> \/ readRecord(2, HeaderFields) = {} THEN malformed
     ELSE \E header \in readRecord(2, HeaderFields) :
            /\ at' = header.at
            /\ section' = 1
            /\ decoded' = header.value @@ decoded
            /\ UNCHANGED <<file, expected, reading>>

ReadCount ==
  /\ reading = "reading" /\ section \in DOMAIN Sections /\ expected = Unread
  /\ IF readCount(at, Sections[section].least) = {} THEN malformed
     ELSE \E count \in readCount(at, Sections[section].least) :
            /\ at' = count.at
            /\ expected' = count.value
            /\ UNCHANGED <<file, section, decoded, reading>>

ReadEntry ==
  /\ reading = "reading" /\ section \in DOMAIN Sections /\ expected > 0
  /\ IF readRecord(at, Sections[section].fields) = {} THEN malformed
     ELSE \E entry \in readRecord(at, Sections[section].fields) :
            /\ at' = entry.at
            /\ expected' = expected - 1
            /\ decoded' = [decoded EXCEPT ![Sections[section].name] = Append(@, entry.value)]
            /\ UNCHANGED <<file, section, reading>>

EndSection ==
  /\ reading = "reading" /\ section \in DOMAIN Sections /\ expected = 0
  /\ section' = section + 1
  /\ expected' = Unread
  /\ UNCHANGED <<file, at, decoded, reading>>

(* Nothing may follow the last section.                                    *)
ReadEnd ==
  /\ reading = "reading" /\ section > Len(Sections)
  /\ IF at # Len(file) THEN malformed
     ELSE /\ reading' = "decoded"
          /\ UNCHANGED <<file, at, section, expected, decoded>>

FileInit ==
  /\ file = << >>
  /\ at = 0
  /\ section = 0
  /\ expected = Unread
  /\ decoded = EmptyProgram
  /\ reading = "idle"

ReaderNext == ReadHeader \/ ReadCount \/ ReadEntry \/ EndSection \/ ReadEnd
==============================================================================
