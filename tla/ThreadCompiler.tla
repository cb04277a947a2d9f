---------------------------- MODULE ThreadCompiler ----------------------------
(***************************************************************************)
(* compile_source_to_thread of handler-requirements-python-loop: one pass  *)
(* over the source, emitting cells, with a stack of operand cells that IF  *)
(* reserves and THEN patches.                                              *)
(***************************************************************************)
EXTENDS HandlerMetadata, SourceText

CONSTANT Sources  \* the sources that are compiled

\* Sources are sequences of lexemes, and a stretch of one has a text, of encoded octets.
ASSUME SourcesAssumption ==
  \A s \in Sources :
    /\ s \in Seq([kind : STRING, value : Int, octets : Seq(0 .. ByteValues - 1)])
    /\ \A p, q \in 1 .. Len(s) : p <= q => Text(s, p, q) \in Seq(0 .. ByteValues - 1)

VARIABLES
  source,          \* the lexemes
  cursor,          \* SourceCursor.position: the next lexeme
  emitted,         \* ThreadEmitter.emitted
  slots,           \* PatchStack.slots: positions in the thread, counted from 0
  compile_outcome  \* "compiling", "compiled", or how the compilation failed

compiler_vars == <<source, cursor, emitted, slots, compile_outcome>>

InitCompiler ==
  /\ source \in Sources
  /\ cursor = 1
  /\ emitted = <<>>
  /\ slots = <<>>
  /\ compile_outcome = "compiling"

\* The next token of the source is of this kind.
Token(kind) ==
  /\ compile_outcome = "compiling"
  /\ cursor <= Len(source)
  /\ source[cursor].kind = kind

Emit(next_cursor, cells) ==
  /\ cursor' = next_cursor
  /\ emitted' = emitted \o cells

\* The end of the compilation, and how it ended.
EndWith(why) ==
  /\ compile_outcome' = why
  /\ UNCHANGED <<source, cursor, emitted, slots>>

compile_lit ==
  /\ Token("LIT")
  /\ IF cursor = Len(source)
       THEN EndWith("compile-parse-error")
     ELSE IF source[cursor + 1].kind # "number"
       THEN EndWith("ValueError")
       ELSE /\ Emit(cursor + 2, <<LIT, source[cursor + 1].value>>)
            /\ UNCHANGED <<source, slots, compile_outcome>>

compile_plus ==
  /\ Token("+")
  /\ Emit(cursor + 1, <<ADD>>)
  /\ UNCHANGED <<source, slots, compile_outcome>>

compile_exit ==
  /\ Token("EXIT")
  /\ Emit(cursor + 1, <<EXIT>>)
  /\ UNCHANGED <<source, slots, compile_outcome>>

StringCells_fault(text) ==
  <<LITSTRING, Len(text)>> \o SubSeq(pack_inline_payload(text), 1, Len(text) \div 4)

\* What S" lays down for a text.
StringCells(text) == <<LITSTRING, Len(text)>> \o pack_inline_payload(text)

\* SourceCursor.read_until_quote takes everything up to the next quote.
handle_s_quote ==
  /\ Token("S\"")
  /\ LET closing == Closing(source, cursor + 1)
     IN  IF closing = 0
           THEN EndWith("compile-parse-error")
           ELSE /\ Emit(closing + 1, StringCells(Text(source, cursor + 1, closing)))
                /\ UNCHANGED <<source, slots, compile_outcome>>

\* reserve_cell emits a zero and names its position.
handle_if ==
  /\ Token("IF")
  /\ Emit(cursor + 1, <<ZBRANCH, 0>>)
  /\ slots' = Append(slots, Len(emitted) + 1)
  /\ UNCHANGED <<source, compile_outcome>>

\* patch_cell: the operand is overwritten, and these slots stay open.
Patch(operand_index, offset, open) ==
  /\ emitted' = [emitted EXCEPT ![operand_index + 1] = offset]
  /\ slots' = open
  /\ cursor' = cursor + 1
  /\ UNCHANGED <<source, compile_outcome>>

handle_then_fault_fifo ==
  /\ Token("THEN")
  /\ IF slots = <<>> THEN EndWith("compile-parse-error")
     ELSE Patch(slots[1], Len(emitted) - slots[1] - 1, Tail(slots))

handle_then_fault_sign ==
  /\ Token("THEN")
  /\ IF slots = <<>> THEN EndWith("compile-parse-error")
     ELSE Patch(Last(slots), Last(slots) - Len(emitted) - 1, Front(slots))

handle_then_fault_keeps_slot ==
  /\ Token("THEN")
  /\ IF slots = <<>> THEN EndWith("compile-parse-error")
     ELSE Patch(Last(slots), Len(emitted) - Last(slots) - 1, slots)

\* The offset counts from the cell after the operand.
handle_then ==
  /\ Token("THEN")
  /\ IF slots = <<>> THEN EndWith("compile-parse-error")
     ELSE Patch(Last(slots), Len(emitted) - Last(slots) - 1, Front(slots))

unknown_token ==
  /\ compile_outcome = "compiling"
  /\ cursor <= Len(source)
  /\ source[cursor].kind \notin Keywords
  /\ EndWith("compile-parse-error")

finish_fault ==
  /\ compile_outcome = "compiling"
  /\ cursor > Len(source)
  /\ EndWith("compiled")

\* The end of the source: an IF still open is an error.
finish ==
  /\ compile_outcome = "compiling"
  /\ cursor > Len(source)
  /\ EndWith(IF slots = <<>> THEN "compiled" ELSE "compile-parse-error")

compile_source_to_thread ==
  \/ compile_lit
  \/ compile_plus
  \/ compile_exit
  \/ handle_s_quote
  \/ handle_if
  \/ handle_then
  \/ unknown_token
  \/ finish

CompilerSpec == InitCompiler /\ [][compile_source_to_thread]_compiler_vars

-----------------------------------------------------------------------------
\* Type invariant of the compiler.
CompilerTypeOK ==
  /\ cursor \in Nat \ {0}
  /\ emitted \in Seq(Int)
  /\ slots \in Seq(Nat)
  /\ compile_outcome \in {"compiling", "compiled", "compile-parse-error", "ValueError"}

\* The open slots are distinct reserved operands, inner ones later: each names
\* a cell that is still zero, right after the 0BRANCH its IF emitted.  THEN
\* patches whatever cell the slot names, so one wrong slot overwrites code.
SlotsReserved ==
  /\ \A i \in 1 .. Len(slots) :
       /\ slots[i] \in 1 .. Len(emitted) - 1
       /\ emitted[slots[i]] = ZBRANCH
       /\ emitted[slots[i] + 1] = 0
  /\ \A i, j \in 1 .. Len(slots) : i < j => slots[i] + 1 < slots[j]

\* compile_source_to_thread accepts the well-formed sources and no others,
\* whatever stands inside strings and however IF and THEN nest.
AcceptsExactlyWellFormed ==
  /\ compile_outcome = "compiled" => WellFormed(source)
  /\ compile_outcome \in {"compile-parse-error", "ValueError"} => ~WellFormed(source)
=============================================================================
