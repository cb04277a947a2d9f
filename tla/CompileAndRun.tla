---------------------------- MODULE CompileAndRun ----------------------------
(***************************************************************************)
(* execute_scenario of handler-requirements-python-loop for a scenario     *)
(* with a compile_source: the source is compiled, and what was emitted is  *)
(* executed by the loop, until it halts or fails.  The composition         *)
(* implements SourceMachine, which says what the source does without ever  *)
(* laying out a thread.                                                    *)
(***************************************************************************)
EXTENDS ThreadCompiler, HandlerLoop

vars == <<compiler_vars, loop_vars>>

Init ==
  /\ InitCompiler
  /\ thread = <<>>
  /\ words = build_word_registry(<<>>)
  /\ ip = 0
  /\ data_stack = <<>>
  /\ outcome = "idle"  \* the loop has not started

Compile == compile_source_to_thread /\ UNCHANGED loop_vars

\* A compiled thread becomes the current thread of a fresh LoopState.
Start ==
  /\ compile_outcome = "compiled"
  /\ outcome = "idle"
  /\ thread' = emitted
  /\ outcome' = "running"
  /\ UNCHANGED <<compiler_vars, words, ip, data_stack>>

Step == step_once /\ UNCHANGED compiler_vars

Next == Compile \/ Start \/ Step

\* execute_scenario is one thread of control: it goes on until it returns.
Spec == Init /\ [][Next]_vars /\ WF_vars(Next)

-----------------------------------------------------------------------------
(***************************************************************************)
(* The refinement of SourceMachine: a position of the thread stands for    *)
(* the last place of the source, past any THEN, compiled up to it.         *)
(***************************************************************************)
Cells(s, p) ==
  CASE s[p].kind \in {"LIT", "IF"} -> 2
    [] s[p].kind = "S\"" ->
         2 + litstring_payload_cells(Len(Text(s, p + 1, Closing(s, p + 1))))
    [] s[p].kind = "THEN" -> 0
    [] OTHER -> 1

\* The cells laid down for the words before q, one pair for each.
CellsUpTo(s, q) ==
  UNION {{p} \X (1 .. Cells(s, p)) : p \in {w \in WordPositions(s) : w < q}}

CellsBefore(s, q) == Cardinality(CellsUpTo(s, q))

Places(s, cell) == {q \in WordPositions(s) \cup {Len(s) + 1} : CellsBefore(s, q) = cell}

Started == outcome # "idle"

position == IF Started THEN Max(Places(source, ip)) ELSE 1

source_outcome ==
  CASE compile_outcome \in {"compile-parse-error", "ValueError"} -> "rejected"
    [] Started -> outcome
    [] OTHER -> "running"

Source == INSTANCE SourceMachine
            WITH stack <- data_stack, outcome <- source_outcome

-----------------------------------------------------------------------------
\* In compiled code the loop only ever stands where an instruction starts or
\* at the end: never on an operand or inside a packed string, which would run
\* as words (the offsets THEN patches, the cells S" emits and the cells
\* LITSTRING skips have to agree).  So compiled words are all known and
\* complete: the only faults at run time are the stack's and a missing EXIT,
\* and the only exception ADD on a string.
OnInstruction ==
  Started =>
    /\ Places(source, ip) # {}
    /\ outcome \in {"running", "halted", "missing-exit",
                    "stack-underflow", "stack-overflow", "TypeError"}

\* Compiling and running a source does what SourceMachine says the source does:
\* the same stacks, the same halt, the same failures, and no source is
\* executed that is not well formed.
ImplementsSource == Source!Spec

\* Every compiled source has been executed to an end: its branches only go
\* forward, so no IF can loop, and no compilation goes on for ever.
Terminates == <>(source_outcome # "running")
=============================================================================
