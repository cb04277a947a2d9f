----------------------------- MODULE StructLayout -----------------------------
(***************************************************************************)
(* StructHandle.from_ctypes: the fields of a ctypes structure become the   *)
(* elements of an LLVM literal struct, one element for every storage unit  *)
(* of bit fields, with explicit padding between.  The promoted version     *)
(* refuses units that overlap; the lab's does not look.                    *)
(***************************************************************************)
EXTENDS CompiledFunction, SequencesExt

\* Calls: [fn, fields, packed].  A field is [size, align, bits], with bits 0 for a plain one.  Packed
\* structures have no bit fields: ctypes lays those out by other rules.
CONSTANT StructDeclarations

PromotedReification == "from_ctypes"
LabReification == "reify"
Reifications == {PromotedReification, LabReification}

\* An integer is aligned to its size, an array to its element's; a bit field fits its integer.
Alignments == {1, 2, 4, 8}
IsField(f) == f.size % f.align = 0 /\ (f.bits # 0 => f.bits <= 8 * f.size /\ f.size = f.align)

\* Arrays are the promoted version's: the lab's takes integers only.
ASSUME StructDeclarationsAssumption ==
  \A c \in StructDeclarations :
    /\ c.fn \in Reifications /\ c.packed \in BOOLEAN
    /\ c.fields \in Seq([size : Nat \ {0}, align : Alignments, bits : Nat]) /\ c.fields # <<>>
    /\ \A k \in DOMAIN c.fields :
         /\ IsField(c.fields[k])
         /\ c.packed => c.fields[k].bits = 0
         /\ c.fn = LabReification => c.fields[k].size = c.fields[k].align

(***************************************************************************)
(* ctypes: where the fields lie.  A bit field goes into the unit of its    *)
(* type that holds the next free bit if all of it fits there.              *)
(***************************************************************************)
RoundUp(n, m) == ((n + m - 1) \div m) * m
Alignment(field, packed) == IF packed THEN 1 ELSE field.align

Place(next_bit, field, packed) ==
  LET unit == 8 * field.size
      fits == next_bit \div unit = (next_bit + field.bits - 1) \div unit
      start == IF field.bits = 0 THEN RoundUp(next_bit, 8 * Alignment(field, packed))
               ELSE IF fits THEN next_bit ELSE RoundUp(next_bit, unit)
      offset == IF field.bits = 0 THEN start \div 8 ELSE (start \div unit) * field.size
  IN  [offset |-> offset, size |-> field.size, align |-> field.align, bits |-> field.bits,
       bit_offset |-> start - 8 * offset, next_bit |-> start + (IF field.bits = 0 THEN unit ELSE field.bits)]

\* The placed fields of a declaration.
Descriptors(c) ==
  LET placed[k \in 0 .. Len(c.fields)] ==
        IF k = 0 THEN [next_bit |-> 0] ELSE Place(placed[k - 1].next_bit, c.fields[k], c.packed)
  IN  [k \in 1 .. Len(c.fields) |-> placed[k]]

SizeOf(c) ==
  RoundUp(RoundUp(Last(Descriptors(c)).next_bit, 8) \div 8,
          Max({Alignment(c.fields[k], c.packed) : k \in DOMAIN c.fields}))

(***************************************************************************)
(* The reification                                                         *)
(***************************************************************************)
LayoutInit ==
  \E c \in StructDeclarations :
    /\ call = c
    /\ block = "collect"
    /\ env = [field |-> 1]
    /\ memory = [storage |-> <<>>, physical |-> <<>>, current_offset |-> 0]

InLayout(label) == At(call.fn, label) /\ call.fn \in Reifications

\* The storage of a field: a plain field's own, or the one bit fields of an offset and size share.
storage_unit(d, k) ==
  [offset |-> d.offset, size |-> d.size, align |-> d.align, key |-> IF d.bits = 0 THEN k ELSE 0]

collect_field ==
  /\ InLayout("collect")
  /\ LET k == env.field
         unit == storage_unit(Descriptors(call)[k], k)
         known == \E i \in DOMAIN memory.storage : memory.storage[i] = unit
     IN  /\ k <= Len(call.fields)
         /\ memory' = IF known THEN memory ELSE [memory EXCEPT !.storage = Append(@, unit)]
         /\ env' = [env EXCEPT !.field = k + 1]
  /\ block' = block

\* Ordered by offset; units at one offset in the order of their names, which the caller chose.
sort_storage ==
  /\ InLayout("collect") /\ env.field > Len(call.fields)
  /\ \E order \in SetToSeqs(Range(memory.storage)) :
       /\ \A i \in 1 .. Len(order) - 1 : order[i].offset <= order[i + 1].offset
       /\ memory' = [memory EXCEPT !.storage = order]
  /\ GotoWith("place", [unit |-> 1])

Padding(from, to) ==
  IF to > from THEN <<[kind |-> "padding", offset |-> from, size |-> to - from, align |-> 1]>> ELSE <<>>
StorageElement(unit) == <<[kind |-> "storage", offset |-> unit.offset, size |-> unit.size, align |-> unit.align]>>

overlaps_fault ==
  call.fn = PromotedReification /\ memory.storage[env.unit].offset <= memory.current_offset
overlaps ==
  call.fn = PromotedReification /\ memory.storage[env.unit].offset < memory.current_offset

place_storage ==
  /\ InLayout("place") /\ env.unit <= Len(memory.storage) /\ ~overlaps
  /\ LET unit == memory.storage[env.unit]
     IN  memory' = [memory EXCEPT !.physical = @ \o Padding(memory.current_offset, unit.offset) \o StorageElement(unit),
                                  !.current_offset = unit.offset + unit.size]
  /\ GotoWith("place", [unit |-> env.unit + 1])
refuse_overlap ==
  /\ InLayout("place") /\ env.unit <= Len(memory.storage) /\ overlaps
  /\ Ret("ValueError") /\ UNCHANGED memory
finish_layout ==
  /\ InLayout("place") /\ env.unit > Len(memory.storage)
  /\ memory' = [memory EXCEPT !.physical = @ \o Padding(memory.current_offset, SizeOf(call))]
  /\ Ret("handle")

LayoutNext == collect_field \/ sort_storage \/ place_storage \/ refuse_overlap \/ finish_layout

LayoutTypeOK ==
  call.fn \in Reifications =>
    /\ block \in {"collect", "place", "returned"}
    /\ \A i \in DOMAIN memory.physical : memory.physical[i].kind \in {"storage", "padding"}

(***************************************************************************)
(* LLVM: where the elements of the literal struct lie.                     *)
(***************************************************************************)
ElementAlignment(e) == IF call.packed THEN 1 ELSE e.align
LlvmOffset ==
  LET at[i \in 1 .. Len(memory.physical)] ==
        RoundUp(IF i = 1 THEN 0 ELSE at[i - 1] + memory.physical[i - 1].size, ElementAlignment(memory.physical[i]))
  IN  at
LlvmSize ==
  LET n == Len(memory.physical)
  IN  RoundUp(LlvmOffset[n] + memory.physical[n].size,
              Max({ElementAlignment(memory.physical[i]) : i \in 1 .. n}))

Overlapping(d, e) ==
  /\ d.offset < e.offset + e.size /\ e.offset < d.offset + d.size
  /\ d.bits = 0 \/ e.bits = 0 \/ d.offset # e.offset \/ d.size # e.size
HasOverlap ==
  \E i, j \in 1 .. Len(call.fields) : i < j /\ Overlapping(Descriptors(call)[i], Descriptors(call)[j])

\* A handle is returned exactly when no two storage units share bytes (the lab's version: whatever
\* the units), and then every element lies where LLVM will put it and where ctypes put the field,
\* and the struct has the size ctypes gives it.
LayoutIsLlvmLayout ==
  call.fn \in Reifications /\ Returned =>
    /\ env.result = (IF HasOverlap /\ call.fn = PromotedReification THEN "ValueError" ELSE "handle")
    /\ ~HasOverlap =>
         /\ \A i \in DOMAIN memory.physical : LlvmOffset[i] = memory.physical[i].offset
         /\ LlvmSize = SizeOf(call)
         /\ \A k \in DOMAIN call.fields :
              LET d == Descriptors(call)[k]
              IN  \E i \in DOMAIN memory.physical :
                    /\ memory.physical[i].kind = "storage"
                    /\ memory.physical[i].offset = d.offset /\ memory.physical[i].size = d.size
===============================================================================
