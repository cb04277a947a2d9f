-------------------------- MODULE MCCompiledHelpers --------------------------
(***************************************************************************)
(* Small calls for TLC: bytes of two bits and words of two, every short    *)
(* list and array over a few values, and structs of up to three fields.    *)
(***************************************************************************)
EXTENDS CompiledHelpers

Sequences_(S, n) == UNION {[1 .. k -> S] : k \in 0 .. n}

\* Regions apart, either side first, and a copy down onto its own tail.
Fill == [a \in Address |-> (a * 3 + a \div 4) % ByteValues]
MCCopyCalls ==
  {[fn |-> "chunked_copy", dst |-> d[1], src |-> d[2], count |-> n, bytes |-> Fill] :
     d \in {<<0, 16>>, <<16, 0>>, <<0, 8>>}, n \in 0 .. 15}

\* Regions that are equal or differ in one byte, up or down, anywhere.
Ones == [i \in 0 .. 15 |-> 1]
Altered == {Ones} \cup {[Ones EXCEPT ![i] = v] : i \in 0 .. 15, v \in {0, 3}}
MCCompareCalls ==
  {[fn |-> "chunked_compare", left |-> 0, right |-> 16, count |-> n,
    bytes |-> [a \in Address |-> IF a < 16 THEN 1 ELSE b[a - 16]]] : n \in 0 .. 16, b \in Altered}

MCWalkCalls ==
  {[fn |-> "count_nodes", values |-> l] : l \in Sequences_({1, 2}, 3)}
  \cup {[fn |-> "index_of_value", values |-> l, needle |-> v] : l \in Sequences_(1 .. 3, 3), v \in 1 .. 3}

MCThresholdCalls ==
  {[fn |-> f, values |-> l, threshold |-> t] : f \in Threshold, l \in Sequences_(-1 .. 1, 3), t \in -1 .. 2}
MCStagedCalls ==
  {[fn |-> Staged, records |-> r, length |-> 1, value |-> 1] :
     r \in Sequences_([hidden : BOOLEAN, length : {0, 1}, value : {0, 1}], 2)}

\* Two neighbours and a bit of the storage that is nobody's.
MCFieldNames == {"low", "high"}
MCBitOffset == [f \in MCFieldNames |-> IF f = "low" THEN 0 ELSE 1]
MCBitWidth == [f \in MCFieldNames |-> IF f = "low" THEN 1 ELSE 2]

PlainFields == {[size |-> s, align |-> s, bits |-> 0] : s \in {1, 2, 4}}
ArrayFields == {[size |-> 3, align |-> 1, bits |-> 0], [size |-> 4, align |-> 2, bits |-> 0]}
SharedFields ==
  {[size |-> s[1], align |-> s[1], bits |-> s[2]] : s \in {<<1, 1>>, <<1, 7>>, <<2, 3>>, <<2, 9>>, <<4, 20>>}}
MCStructDeclarations ==
  LET Calls(f, fields, packed) ==
        {[fn |-> f, fields |-> d, packed |-> packed] : d \in Sequences_(fields, 3) \ {<<>>}}
  IN  Calls(PromotedReification, PlainFields \cup ArrayFields \cup SharedFields, FALSE)
      \cup Calls(PromotedReification, PlainFields \cup ArrayFields, TRUE)
      \cup Calls(LabReification, PlainFields \cup SharedFields, FALSE)
      \cup Calls(LabReification, PlainFields, TRUE)

MCMergeCalls ==
  {[fn |-> f, x |-> x, y |-> y, tos |-> 1] : f \in MergeFns, x \in Word, y \in {0, 1}}

MCRegionCalls ==
  {[fn |-> "regions_equal", left |-> <<1, 2, 1>>, right |-> r, byte_length |-> n] :
     r \in [1 .. 3 -> {1, 2}], n \in 0 .. 12}
===============================================================================
