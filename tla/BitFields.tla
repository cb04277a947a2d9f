------------------------------ MODULE BitFields ------------------------------
(***************************************************************************)
(* Bit fields that share one integer of storage, as the compiled code of a *)
(* struct view reads and writes them.  A value is a function from its bit  *)
(* numbers, least significant first, to BOOLEAN, so every width is exact.  *)
(* Two emitters are modelled: the promoted BoundBitField, which masks what *)
(* it stores, and the reification lab's, which relies on the truncation.   *)
(***************************************************************************)
EXTENDS CompiledFunction

CONSTANTS
  FieldNames,   \* the bit fields of the struct
  bit_offset,   \* FieldNames -> the field's lowest bit
  bit_width,    \* FieldNames -> its width
  StorageBits,  \* the width of the storage integer
  ValueBits     \* the widths of the values stored

Bits(n) == 0 .. n - 1
Int_(n) == [Bits(n) -> BOOLEAN]
FieldBits(f) == bit_offset[f] .. bit_offset[f] + bit_width[f] - 1

\* ctypes lays the fields out apart and within their storage.
ASSUME BitFieldAssumption ==
  /\ StorageBits \in Nat /\ ValueBits \subseteq Nat
  /\ bit_offset \in [FieldNames -> Nat]
  /\ bit_width \in [FieldNames -> Nat \ {0}]
  /\ \A f \in FieldNames : bit_offset[f] + bit_width[f] <= StorageBits
  /\ \A f, g \in FieldNames : f # g => FieldBits(f) \cap FieldBits(g) = {}

(***************************************************************************)
(* The LLVM instructions, n being a width and k a distance.                *)
(***************************************************************************)
lshr(x, n, k) == [i \in Bits(n) |-> IF i + k < n THEN x[i + k] ELSE FALSE]
shl(x, n, k) == [i \in Bits(n) |-> IF i >= k THEN x[i - k] ELSE FALSE]
trunc(x, n) == [i \in Bits(n) |-> x[i]]
zext(x, from, n) == [i \in Bits(n) |-> IF i < from THEN x[i] ELSE FALSE]
bit_and(x, y, n) == [i \in Bits(n) |-> x[i] /\ y[i]]
bit_or(x, y, n) == [i \in Bits(n) |-> x[i] \/ y[i]]

\* A value of v bits in n bits.
Resize(x, v, n) == IF v > n THEN trunc(x, n) ELSE zext(x, v, n)

(***************************************************************************)
(* load and store on a field f of the storage word                         *)
(***************************************************************************)
FieldMask_fault(f) == [i \in Bits(StorageBits) |-> i >= bit_offset[f]]
FieldMask(f) == [i \in Bits(StorageBits) |-> i \in FieldBits(f)]
Outside(f) == [i \in Bits(StorageBits) |-> ~FieldMask(f)[i]]

loaded(storage, f) == trunc(lshr(storage, StorageBits, bit_offset[f]), bit_width[f])

Positioned(value, v, f) ==
  shl(Resize(Resize(value, v, bit_width[f]), bit_width[f], StorageBits), StorageBits, bit_offset[f])

promoted_store(storage, value, v, f) ==
  bit_or(bit_and(storage, Outside(f), StorageBits),
         bit_and(Positioned(value, v, f), FieldMask(f), StorageBits), StorageBits)

reified_store(storage, value, v, f) ==
  bit_or(bit_and(storage, Outside(f), StorageBits), Positioned(value, v, f), StorageBits)

(***************************************************************************)
(* One call after another on the same struct.  call.last holds what was    *)
(* stored last in each field, and call.found the word the struct began as. *)
(***************************************************************************)
BitFunctions == {"field_load", "promoted_store", "reified_store"}

BitInit ==
  \E word \in Int_(StorageBits) :
    /\ call = [fn |-> "field_load", found |-> word, last |-> [f \in FieldNames |-> loaded(word, f)]]
    /\ block = "returned"
    /\ env = <<>>
    /\ memory = word

InvokeBits(fn) == call.fn \in BitFunctions /\ Returned /\ block' = block

LoadField ==
  /\ InvokeBits("field_load")
  /\ call' = [call EXCEPT !.fn = "field_load"]
  /\ \E f \in FieldNames : env' = [field |-> f, result |-> loaded(memory, f)]
  /\ UNCHANGED memory

\* Only the bits that fit the field are stored; a narrower value is zero-extended.
StoreField(fn, stored(_, _, _, _)) ==
  \E f \in FieldNames, v \in ValueBits : \E value \in Int_(v) :
    /\ InvokeBits(fn)
    /\ call' = [call EXCEPT !.fn = fn, !.last[f] = Resize(value, v, bit_width[f])]
    /\ memory' = stored(memory, value, v, f)
    /\ env' = <<>>
PromotedStore == StoreField("promoted_store", promoted_store)
ReifiedStore == StoreField("reified_store", reified_store)

BitNext == LoadField \/ PromotedStore \/ ReifiedStore
BitSpec == BitInit /\ [][BitNext]_vars

BitTypeOK ==
  call.fn \in BitFunctions =>
    /\ memory \in Int_(StorageBits)
    /\ call.found \in Int_(StorageBits)
    /\ \A f \in FieldNames : call.last[f] \in Int_(bit_width[f])

\* However stores to the fields follow each other, every field holds what was last stored in it,
\* and the bits of the storage that belong to no field are as they were found.
FieldsAreIndependent ==
  call.fn \in BitFunctions =>
    /\ \A f \in FieldNames : loaded(memory, f) = call.last[f]
    /\ \A i \in Bits(StorageBits) :
         (\A f \in FieldNames : i \notin FieldBits(f)) => memory[i] = call.found[i]
===============================================================================
