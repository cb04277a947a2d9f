--------------------------- MODULE InnerInterpreter ---------------------------
(***************************************************************************)
(* The lowered inner interpreter of the seam lab (explorations/lab/        *)
(* lowered-handler-python-loop-seam) over the promoted helpers of          *)
(* src/fythvm/codegen and dictionary/current_word.py: compiled code that   *)
(* fetches an xt, resolves it through the dictionary, performs its handler *)
(* and follows the continuation its descriptor names.                      *)
(*                                                                         *)
(* Python drives it in one of two modes.  "step": Python checks the        *)
(* handler's requirements, calls lowered_step for one word, looks at the   *)
(* state, and again.  "run": lowered_run does the whole program with no    *)
(* check at all.  A program may first run one word by its xt.              *)
(*                                                                         *)
(* Data stack and return frames are sequences here; an access outside one  *)
(* of the arrays, whose result is whatever lies next to it, ends the       *)
(* behaviour as "overrun".  A definition X_fault is a plausible slip in    *)
(* the code X models; it shows that the properties would notice it.        *)
(***************************************************************************)
EXTENDS ThreadCode

CONSTANT Modes   \* a subset of {"step", "run"}

ASSUME InterpreterAssumption ==
  /\ StackCapacity \in Nat
  /\ ReturnCapacity \in Nat
  /\ Modes \subseteq {"step", "run"}

\* What create_word and the cells array make of a scenario: xts are cell indexes
\* behind a link cell, and every thread is an array of words, as the int32 array
\* stores them.
ASSUME ThreadsAssumption ==
  \A s \in Scenarios :
    LET word_xts == Xts(s)
        laid_out == Threads(s)
    IN  /\ s.direct \in 0 .. Len(s.words)
        /\ \A k \in 1 .. Len(s.words) : word_xts[k] \in LiteralValues \ {0}
        /\ \A t \in 0 .. Len(s.words) :
             /\ IsFiniteSet(DOMAIN laid_out[t])
             /\ laid_out[t] \in [0 .. Cardinality(DOMAIN laid_out[t]) - 1 -> Word]

VARIABLES
  scenario,         \* the program, as prepare_scenario_execution was given it
  xts,              \* the xt of each of its words
  threads,          \* the cells of its entry thread and of each word's thread
  mode,             \* how Python drives it
  entrypoint,       \* the compiled function called last, "none" at first
  thread_cells,     \* state.thread_cells: ENTRY or a dictionary cell index
  thread_length,    \* state.thread_length
  ip,               \* state.ip, the only record of the position in the thread
  current_xt,       \* state.current_xt
  stack,            \* state.stack from its end down to sp
  frames,           \* the return frames, outermost first
  halt_requested,   \* state.halt_requested
  executed,         \* whether EXECUTE installed current_xt
  at,               \* "fetch", "dispatch", "after" a call, or "stopped"
  outcome           \* how it stopped, "none" before

program == <<scenario, xts, threads, mode>>
vars == <<scenario, xts, threads, mode, entrypoint, thread_cells, thread_length, ip, current_xt,
          stack, frames, halt_requested, executed, at, outcome>>

ENTRY == 0

(***************************************************************************)
(* Threads.                                                                *)
(***************************************************************************)

\* The thread a pointer points to, -1 when it is not the start of one.
ThreadAt(cells_ptr) ==
  IF cells_ptr = ENTRY THEN 0
  ELSE LET k == WordOfXt(xts, cells_ptr - 1) IN IF k = 0 THEN -1 ELSE k

\* The number of cells of a thread: what its word's code field says, or 0.
ExtentAt(cells_ptr) ==
  LET t == ThreadAt(cells_ptr) IN IF t = -1 THEN 0 ELSE Cardinality(DOMAIN threads[t])

Readable(cells_ptr, i) == i \in 0 .. ExtentAt(cells_ptr) - 1
\* 0 stands for whatever lies outside a thread; no program gets to see it.
CellOf(cells_ptr, i) == IF Readable(cells_ptr, i) THEN threads[ThreadAt(cells_ptr)][i] ELSE 0

Cell(i) == CellOf(thread_cells, i)

depth == Len(stack)

\* CurrentWordIR: the handler and data of the current word's code field, or the
\* xt itself and no data when it is no word's code field.
resolved_handler_id == HandlerOfXt(scenario, xts, current_xt)
resolved_code_field_data == ExtentAt(current_xt + 1)

\* Where a handler may run without reaching outside the arrays.
Sound(h) ==
  /\ Meets(h, depth, Len(frames))
  /\ h \in InlineOperand => Readable(thread_cells, ip + 1)

(***************************************************************************)
(* The preflight of the stepping driver.                                   *)
(***************************************************************************)
NotStarted == entrypoint = "none"
Direct == NotStarted /\ scenario.direct # 0

Preflight_fault(xt) ==
  LET h == HandlerOfXt(scenario, xts, xt)
  IN  h \in Described /\ Meets(h, depth, 1)
Preflight(xt) ==
  LET h == HandlerOfXt(scenario, xts, xt)
  IN  h \in Described /\ Meets(h, depth, Len(frames))

StepAllowed ==
  /\ ThreadAt(thread_cells) # -1
  /\ ip < ExtentAt(thread_cells)
  /\ Preflight(Cell(ip))
  /\ HandlerOfXt(scenario, xts, Cell(ip)) \in Lowered

Init ==
  /\ scenario \in Scenarios
  /\ xts = Xts(scenario)
  /\ threads = Threads(scenario)
  /\ mode \in Modes
  /\ entrypoint = "none"
  /\ thread_cells = ENTRY
  /\ thread_length = ExtentAt(ENTRY)
  /\ ip = IF scenario.direct = 0 THEN 0 ELSE -1
  /\ current_xt = 0
  /\ stack = <<>>
  /\ frames = <<>>
  /\ halt_requested = FALSE
  /\ executed = FALSE
  /\ at = "fetch"
  /\ outcome = "none"

Call(function, xt) ==
  /\ entrypoint' = function
  /\ current_xt' = xt
  /\ at' = "dispatch"
  /\ executed' = FALSE
  /\ UNCHANGED <<program, thread_cells, thread_length, ip, stack, frames,
                 halt_requested, outcome>>

End(o) ==
  /\ at' = "stopped"
  /\ outcome' = o
  /\ executed' = FALSE

Untouched == UNCHANGED <<program, entrypoint>>

Machine == <<thread_cells, thread_length, ip, current_xt, stack, frames, halt_requested>>

(***************************************************************************)
(* Entry points.                                                           *)
(***************************************************************************)
DirectCall ==
  /\ at = "fetch"
  /\ Direct
  /\ mode = "step" => Preflight(xts[scenario.direct])
  /\ Call("lowered_step_xt", xts[scenario.direct])

StepCall ==
  /\ mode = "step"
  /\ at = "fetch"
  /\ ~Direct
  /\ StepAllowed
  /\ Call("lowered_step", Cell(ip))

\* The stepping driver raises instead of calling the compiled code.
StepRefused ==
  /\ mode = "step"
  /\ at = "fetch"
  /\ IF Direct THEN ~Preflight(xts[scenario.direct]) ELSE ~StepAllowed
  /\ End("refused")
  /\ UNCHANGED <<Machine, program, entrypoint>>

\* lowered_run fetches before it has looked at the thread's length.
RunFetch ==
  /\ mode = "run"
  /\ at = "fetch"
  /\ ~Direct
  /\ Readable(thread_cells, ip)
  /\ Call("lowered_run", Cell(ip))

RunFetchOverrun ==
  /\ mode = "run"
  /\ at = "fetch"
  /\ ~Direct
  /\ ~Readable(thread_cells, ip)
  /\ End("overrun")
  /\ UNCHANGED <<Machine, program, entrypoint>>

(***************************************************************************)
(* Continuations.  Every call but EXECUTE's re-dispatch ends in "after".   *)
(***************************************************************************)

\* refetch: the next xt is installed when the thread has one.
Resume(cells_ptr, length, new_ip) ==
  /\ thread_cells' = cells_ptr
  /\ thread_length' = length
  /\ ip' = new_ip
  /\ current_xt' = IF new_ip < length THEN CellOf(cells_ptr, new_ip) ELSE current_xt
  /\ executed' = FALSE
  /\ at' = "after"
  /\ UNCHANGED <<halt_requested, outcome>>
  /\ Untouched

advance_ip(from_ip) == Resume(thread_cells, thread_length, from_ip + 1)
exact_ip(to_ip) == Resume(thread_cells, thread_length, to_ip)

(***************************************************************************)
(* Handlers.                                                               *)
(***************************************************************************)
Dispatch(h) ==
  /\ at = "dispatch"
  /\ resolved_handler_id = h
  /\ Sound(h)

operand_ip == ip + 1
inline_operand == Cell(operand_ip)
branch_target_ip == operand_ip + inline_operand + 1

op_lit ==
  /\ Dispatch(LIT)
  /\ stack' = Append(stack, inline_operand)
  /\ advance_ip(operand_ip)
  /\ UNCHANGED frames

op_add ==
  /\ Dispatch(ADD)
  /\ stack' = Append(SubSeq(stack, 1, depth - 2), Wrap(stack[depth - 1] + stack[depth]))
  /\ advance_ip(ip)
  /\ UNCHANGED frames

op_branch ==
  /\ Dispatch(BRANCH)
  /\ exact_ip(branch_target_ip)
  /\ UNCHANGED <<stack, frames>>

op_zbranch_fault ==
  /\ Dispatch(ZBRANCH)
  /\ stack' = SubSeq(stack, 1, depth - 1)
  /\ IF stack[depth] = 0 THEN exact_ip(branch_target_ip) ELSE advance_ip(ip)
  /\ UNCHANGED frames
op_zbranch ==
  /\ Dispatch(ZBRANCH)
  /\ stack' = SubSeq(stack, 1, depth - 1)
  /\ IF stack[depth] = 0 THEN exact_ip(branch_target_ip) ELSE advance_ip(operand_ip)
  /\ UNCHANGED frames

op_docol_fault ==
  /\ Dispatch(DOCOL)
  /\ frames' = Append(frames, [cells |-> thread_cells, length |-> thread_length,
                               return_ip |-> ip])
  /\ Resume(current_xt + 1, resolved_code_field_data, 0)
  /\ UNCHANGED stack
op_docol ==
  /\ Dispatch(DOCOL)
  /\ frames' = Append(frames, [cells |-> thread_cells, length |-> thread_length,
                               return_ip |-> ip + 1])
  /\ Resume(current_xt + 1, resolved_code_field_data, 0)
  /\ UNCHANGED stack

op_exit_fault ==
  /\ Dispatch(EXIT)
  /\ LET frame == frames[Len(frames)]
     IN  Resume(frame.cells, thread_length, frame.return_ip)
  /\ frames' = SubSeq(frames, 1, Len(frames) - 1)
  /\ UNCHANGED stack
op_exit ==
  /\ Dispatch(EXIT)
  /\ LET frame == frames[Len(frames)]
     IN  Resume(frame.cells, frame.length, frame.return_ip)
  /\ frames' = SubSeq(frames, 1, Len(frames) - 1)
  /\ UNCHANGED stack

\* The popped xt is dispatched within the same call: no fetch, no preflight.
op_execute ==
  /\ Dispatch(EXECUTE)
  /\ current_xt' = stack[depth]
  /\ stack' = SubSeq(stack, 1, depth - 1)
  /\ executed' = TRUE
  /\ UNCHANGED <<thread_cells, thread_length, ip, frames, halt_requested, at, outcome>>
  /\ Untouched

\* HALT, and every handler the switch has no case for, leave ip where it is.
HaltOrUnsupported ==
  /\ at = "dispatch"
  /\ resolved_handler_id \notin Lowered \ {HALT}
  /\ halt_requested' = TRUE
  /\ at' = "after"
  /\ UNCHANGED <<thread_cells, thread_length, ip, current_xt, stack, frames, executed, outcome>>
  /\ Untouched

HandlerOverrun ==
  /\ at = "dispatch"
  /\ resolved_handler_id \in Lowered
  /\ ~Sound(resolved_handler_id)
  /\ End("overrun")
  /\ UNCHANGED <<Machine, program, entrypoint>>

(***************************************************************************)
(* The loops: lowered_run's after_step block, and Python's while loop.     *)
(***************************************************************************)
Halted ==
  /\ at = "after"
  /\ halt_requested
  /\ End("halted")
  /\ UNCHANGED <<Machine, program, entrypoint>>

RunReturns ==
  /\ at = "after"
  /\ ~halt_requested
  /\ entrypoint = "lowered_run"
  /\ ip >= thread_length
  /\ End("ran_off")
  /\ UNCHANGED <<Machine, program, entrypoint>>

\* Nothing looks at the length between lowered_step_xt and lowered_run.
NextCall ==
  /\ at = "after"
  /\ ~halt_requested
  /\ entrypoint = "lowered_run" => ip < thread_length
  /\ at' = "fetch"
  /\ UNCHANGED <<executed, outcome>>
  /\ UNCHANGED <<Machine, program, entrypoint>>

Next ==
  \/ DirectCall
  \/ StepCall
  \/ StepRefused
  \/ RunFetch
  \/ RunFetchOverrun
  \/ op_lit
  \/ op_add
  \/ op_branch
  \/ op_zbranch
  \/ op_docol
  \/ op_exit
  \/ op_execute
  \/ HaltOrUnsupported
  \/ HandlerOverrun
  \/ Halted
  \/ RunReturns
  \/ NextCall

\* One native thread runs the loop, and Python's loop calls it again.
Spec == Init /\ [][Next]_vars /\ WF_vars(Next)

(***************************************************************************)
(* Properties.                                                             *)
(***************************************************************************)

\* Every variable has its type; neither stack ever holds more than its array.
TypeOK ==
  /\ mode \in Modes
  /\ entrypoint \in {"none", "lowered_step", "lowered_step_xt", "lowered_run"}
  /\ {thread_cells, thread_length} \subseteq Nat
  /\ {ip, current_xt} \subseteq Int
  /\ stack \in Seq(Word) /\ depth <= StackCapacity
  /\ frames \in Seq([cells : Nat, length : Nat, return_ip : Nat])
  /\ Len(frames) <= ReturnCapacity
  /\ halt_requested \in BOOLEAN
  /\ executed \in BOOLEAN
  /\ at \in {"fetch", "dispatch", "after", "stopped"}
  /\ outcome \in {"none", "halted", "ran_off", "refused", "overrun"}

\* The instruction of thread t that starts at cell i; 0 just before the thread,
\* and -1 inside an instruction or outside the thread.
PcAt(t, i) ==
  LET body == Body(scenario, t)
      start == Starts(body)
      hits == {pc \in 1 .. Len(body) + 1 : start[pc] = i}
  IN  IF hits # {} THEN CHOOSE pc \in hits : TRUE ELSE IF i = -1 THEN 0 ELSE -1

Position(cells_ptr, i) ==
  [thread |-> ThreadAt(cells_ptr), pc |-> PcAt(ThreadAt(cells_ptr), i)]

ControlView ==
  Append([f \in 1 .. Len(frames) |-> Position(frames[f].cells, frames[f].return_ip)],
         Position(thread_cells, ip))

PendingView ==
  IF at = "stopped" THEN <<>>
  ELSE IF executed THEN <<current_xt>>
  ELSE IF Direct \/ (entrypoint = "lowered_step_xt" /\ (at = "dispatch" \/ halt_requested))
       THEN <<xts[scenario.direct]>>
  ELSE <<>>

Machine0 == INSTANCE ForthMachine WITH control <- ControlView, pending <- PendingView

\* Stepped or run, the interpreter does what its program's instructions say: it
\* never takes an operand for an instruction, resumes every caller right after
\* the call, EXECUTE included, and stops only where the program gives cause to.
ImplementsForthMachine == Machine0!Spec

\* The extent kept with a thread pointer is the thread's own, in the current
\* thread and in every suspended caller.
LengthsBelongToThreads ==
  /\ thread_length = ExtentAt(thread_cells)
  /\ \A f \in 1 .. Len(frames) :
       frames[f].length = ExtentAt(frames[f].cells)

\* The preflight protects the arrays: a stepped program reaches outside one only
\* in a word that EXECUTE dispatched.
OnlyExecuteOverruns ==
  [][mode = "step" /\ outcome' = "overrun" => executed]_vars

\* Between two words current_xt is the cell ip points to, so that Python reads
\* from the state the word that comes next.
FetchAgreesWithIp ==
  at = "fetch" /\ entrypoint # "none" /\ ip < thread_length => current_xt = Cell(ip)

\* What the state keeps twice agrees: each thread pointer with the length kept
\* beside it, and current_xt with the cell at ip.
StateIsConsistent == LengthsBelongToThreads /\ FetchAgreesWithIp

\* A program with no way back stops, whichever way it is driven.
NoWayBack(s) ==
  \A t \in 0 .. Len(s.words) : \A i \in 1 .. Len(Body(s, t)) :
    LET instr == Body(s, t)[i]
    IN  /\ instr.op \in {BRANCH, ZBRANCH} => instr.arg > i
        /\ instr.op \in {CALL, LITXT} /\ t # 0 => instr.arg < t

LoopFreeProgramsStop == NoWayBack(scenario) => <>(at = "stopped")

\* The preflight checks every handler that runs, so that a stepped program never
\* reaches outside a stack.
EveryHandlerIsChecked == mode = "step" => outcome # "overrun"

\* An xt is the address of a code field and of nothing else: the cell a thread
\* holds for a primitive never enters a word.
XtIsUnambiguous ==
  at = "dispatch" /\ ~executed /\ entrypoint # "lowered_step_xt" =>
    LET here == Position(thread_cells, ip)
        instr == Body(scenario, here.thread)[here.pc]
    IN  WordOfXt(xts, current_xt) # 0 => instr.op = CALL

=============================================================================
