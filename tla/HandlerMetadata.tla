--------------------------- MODULE HandlerMetadata ---------------------------
(***************************************************************************)
(* What the compiler and the loop of handler-requirements-python-loop      *)
(* share: instruction ids, the package's declared requirements and the     *)
(* resources they turn into, stack values, and counted payloads packed     *)
(* into cells.  Cells are Python ints, without a width.                    *)
(***************************************************************************)
EXTENDS Integers, Sequences, FiniteSetsExt

CONSTANTS
  StackLimit,   \* LoopState.stack_limit, 8
  ByteValues    \* 256, the values of one byte of a packed payload

ASSUME StackLimitAssumption == StackLimit \in Nat
ASSUME ByteAssumption == ByteValues \in Nat \ {0, 1}

\* PrimitiveInstruction, the ids with a handler in HANDLERS; all of 1 .. 77 are described.
ADD == 15
EXIT == 35
LIT == 72
BRANCH == 73
ZBRANCH == 74
LITSTRING == 75
DOCOL == 76
Described == 1 .. 77
HANDLERS == {LIT, LITSTRING, ADD, BRANCH, ZBRANCH, DOCOL, EXIT}

Req(data_in, data_out, needs) ==
  [data_in |-> data_in, data_out |-> data_out, needs |-> needs \cup {"error_exit"}]

Requirements_fault(h) ==
  CASE h = ADD -> Req(2, 1, {})
    [] h = EXIT -> Req(0, 0, {"return_stack", "execution_control"})
    [] h \in {LIT, LITSTRING} -> Req(0, 1, {"thread_cursor"})
    [] h = BRANCH -> Req(0, 0, {"thread_cursor", "thread_jump"})
    [] h = ZBRANCH -> Req(1, 0, {"thread_cursor", "thread_jump"})
    [] h = DOCOL -> Req(0, 0, {"code_field_execution", "return_stack", "execution_control"})

\* HandlerRequirements of the handled instructions.
Requirements(h) ==
  CASE h = ADD -> Req(2, 1, {})
    [] h = EXIT -> Req(0, 0, {"return_stack", "execution_control"})
    [] h = LIT -> Req(0, 1, {"thread_cursor"})
    [] h = LITSTRING -> Req(0, 2, {"thread_cursor"})
    [] h = BRANCH -> Req(0, 0, {"thread_cursor", "thread_jump"})
    [] h = ZBRANCH -> Req(1, 0, {"thread_cursor", "thread_jump"})
    [] h = DOCOL -> Req(0, 0, {"code_field_execution", "return_stack", "execution_control"})

\* injected_resources: the keyword arguments the requirements turn into.
Injected(h) ==
  LET r == Requirements(h)
      given == [data_stack |-> r.data_in > 0 \/ r.data_out > 0,
                thread_cursor |-> "thread_cursor" \in r.needs,
                thread_jump |-> "thread_jump" \in r.needs,
                current_word_thread |-> "current_xt" \in r.needs,
                control |-> r.needs \cap {"execution_control", "return_stack"} # {},
                err |-> "error_exit" \in r.needs]
  IN  {name \in DOMAIN given : given[name]}

\* The keyword-only parameters of the handler functions.
Parameters(h) ==
  CASE h = ADD -> {"data_stack", "err"}
    [] h \in {LIT, LITSTRING} -> {"data_stack", "thread_cursor", "err"}
    [] h = BRANCH -> {"thread_cursor", "thread_jump", "err"}
    [] h = ZBRANCH -> {"data_stack", "thread_cursor", "thread_jump", "err"}
    [] h = DOCOL -> {"current_word_thread", "control", "err"}
    [] h = EXIT -> {"control", "err"}

\* What the loop's stack holds: an int, or an opaque reference to a counted payload.
IntValue(n) == [kind |-> "int", value |-> n, octets |-> <<>>]
InlineStringRef(octets) == [kind |-> "ref", value |-> 0, octets |-> octets]
StackValue == [kind : {"int", "ref"}, value : Int, octets : Seq(0 .. ByteValues - 1)]

(***************************************************************************)
(* Python's indexing and slicing.                                          *)
(***************************************************************************)
Index(s, i) == IF i >= 0 THEN i + 1 ELSE Len(s) + i + 1

Slice(s, from, to) ==
  LET clip(i) == IF i < 0 THEN Max({0, i + Len(s)}) ELSE Min({i, Len(s)})
  IN  SubSeq(s, clip(from) + 1, clip(to))

litstring_payload_cells(length) == (length + 3) \div 4

Representable(cell) ==
  cell \in 0 .. ByteValues * (ByteValues * (ByteValues * ByteValues)) - 1

\* Octet k of a cell, counted from the low end.
Byte(cell, k) ==
  LET place == <<1, ByteValues, ByteValues * ByteValues, ByteValues * ByteValues * ByteValues>>
  IN  (cell \div place[k + 1]) % ByteValues

\* unpack_inline_payload: the octets in little-endian cells, cut at the counted length.
unpack_inline_payload(cells, length) ==
  LET raw == [i \in 1 .. 4 * Len(cells) |-> Byte(cells[(i - 1) \div 4 + 1], (i - 1) % 4)]
  IN  Slice(raw, 0, length)

\* pack_inline_payload: four octets to a cell, little-endian, zero padded.
pack_inline_payload(octets) ==
  LET octet(i) == IF i <= Len(octets) THEN octets[i] ELSE 0
  IN  [c \in 1 .. litstring_payload_cells(Len(octets)) |->
         octet(4 * c - 3) + ByteValues * (octet(4 * c - 2)
           + ByteValues * (octet(4 * c - 1) + ByteValues * octet(4 * c)))]
=============================================================================
