----------------------------- MODULE HandlerLoop -----------------------------
(***************************************************************************)
(* The metadata-driven Python loop of handler-requirements-python-loop: a  *)
(* thread of cells is executed word by word, and what a word may touch is  *)
(* decided by the package's HandlerRequirements, first as a check of the   *)
(* data stack and then as the resources injected into the handler's call.  *)
(*                                                                         *)
(* Positions in a thread are the program's, counted from 0, and a negative *)
(* one counts from the end, as Python's indexing and slicing do.  The      *)
(* return stack is left out: its only writer is handle_docol, which the    *)
(* loop never manages to call (Injected), so EXIT always finds it empty    *)
(* and halts.                                                              *)
(***************************************************************************)
EXTENDS HandlerMetadata

CONSTANTS
  ValueBound,   \* bound: sums are followed up to this size
  Scenarios     \* the [thread, words] the loop is started on

ASSUME ScenariosAssumption == \A s \in Scenarios : s.thread \in Seq(Int)

(***************************************************************************)
(* The loop.                                                               *)
(***************************************************************************)
VARIABLES
  thread,      \* LoopState.current_thread
  words,       \* the word registry: handler id of every known xt
  ip,          \* LoopState.ip
  data_stack,  \* LoopState.data_stack, top last
  outcome      \* "running", "halted", a fault's code, or the exception that ends execute_scenario

loop_vars == <<thread, words, ip, data_stack, outcome>>

\* build_word_registry: every primitive under its own id, then the scenario's words.
build_word_registry(custom) ==
  [xt \in Described \cup DOMAIN custom |-> IF xt \in DOMAIN custom THEN custom[xt] ELSE xt]

Faults == {"missing-exit", "unknown-word", "unknown-handler", "missing-python-handler",
           "stack-underflow", "stack-overflow", "inline-operand-underflow"}
Exceptions == {"TypeError", "IndexError", "OverflowError"}

InitLoop ==
  \E s \in Scenarios :
    /\ thread = s.thread
    /\ words = build_word_registry(s.words)
    /\ ip = 0
    /\ data_stack = <<>>
    /\ outcome = "running"

\* The handler of the word at ip, when there is one.
Handler == words[thread[Index(thread, ip)]]

enforce_requirements(h) ==
  CASE Len(data_stack) < Requirements(h).data_in -> "stack-underflow"
    [] Len(data_stack) >= Requirements(h).data_in
         /\ StackLimit - Len(data_stack) < Requirements(h).data_out -> "stack-overflow"
    [] OTHER -> "ok"

\* step_once up to the handler's call: why the call is not made, or "ok".
Preflight ==
  IF ip >= Len(thread) THEN "missing-exit"
  ELSE IF ip < -Len(thread) THEN "IndexError"
  ELSE IF thread[Index(thread, ip)] \notin DOMAIN words THEN "unknown-word"
  ELSE IF Handler \notin Described THEN "unknown-handler"
  ELSE IF Handler \notin HANDLERS THEN "missing-python-handler"
  ELSE IF enforce_requirements(Handler) # "ok" THEN enforce_requirements(Handler)
  ELSE IF Injected(Handler) # Parameters(Handler) THEN "TypeError"
  ELSE "ok"

Ready(h) == outcome = "running" /\ Preflight = "ok" /\ Handler = h

Raise(code) == outcome' = code /\ UNCHANGED <<thread, words, ip, data_stack>>

Refuse == outcome = "running" /\ Preflight # "ok" /\ Raise(Preflight)

Continue(next_ip, stack) ==
  /\ ip' = next_ip
  /\ data_stack' = stack
  /\ UNCHANGED <<thread, words, outcome>>

Depth == Len(data_stack)
Top == data_stack[Depth]
Dropped(n) == SubSeq(data_stack, 1, Depth - n)

\* ThreadCursor.read_inline_cell
OperandMissing == ip + 1 >= Len(thread)
Operand == thread[Index(thread, ip + 1)]

handle_lit ==
  /\ Ready(LIT)
  /\ IF OperandMissing
       THEN Raise("inline-operand-underflow")
       ELSE Continue(ip + 2, Append(data_stack, IntValue(Operand)))

\* ThreadCursor.read_counted_payload: the length cell, then the cells it counts.
PayloadEnd == ip + 2 + litstring_payload_cells(Operand)
PayloadCells == Slice(thread, ip + 2, PayloadEnd)

handle_litstring ==
  /\ Ready(LITSTRING)
  /\ IF OperandMissing \/ (~OperandMissing /\ PayloadEnd > Len(thread))
       THEN Raise("inline-operand-underflow")
     ELSE IF \E i \in 1 .. Len(PayloadCells) : ~Representable(PayloadCells[i])
       THEN Raise("OverflowError")
       ELSE LET octets == unpack_inline_payload(PayloadCells, Operand)
            IN  Continue(PayloadEnd,
                         data_stack \o <<InlineStringRef(octets), IntValue(Len(octets))>>)

handle_add ==
  /\ Ready(ADD)
  /\ LET lhs == data_stack[Depth - 1]
         sum == lhs.value + Top.value
     IN  IF lhs.kind = "int" /\ Top.kind = "int"
           THEN /\ sum \in -ValueBound .. ValueBound
                /\ Continue(ip + 1, Append(Dropped(2), IntValue(sum)))
           ELSE /\ data_stack' = Dropped(2)
                /\ outcome' = "TypeError"
                /\ UNCHANGED <<thread, words, ip>>

\* branch_relative moves ip from the operand's cell, and the step then past it.
handle_branch ==
  /\ Ready(BRANCH)
  /\ IF OperandMissing
       THEN Raise("inline-operand-underflow")
       ELSE Continue(ip + 1 + Operand + 1, data_stack)

handle_zero_branch_fault ==
  /\ Ready(ZBRANCH)
  /\ IF OperandMissing
       THEN /\ data_stack' = Dropped(1)
            /\ outcome' = "inline-operand-underflow"
            /\ UNCHANGED <<thread, words, ip>>
       ELSE Continue(ip + 2 + (IF Top = IntValue(0) THEN Operand ELSE 0), Dropped(1))

handle_zero_branch ==
  /\ Ready(ZBRANCH)
  /\ IF OperandMissing
       THEN Raise("inline-operand-underflow")
       ELSE Continue(ip + 2 + (IF Top = IntValue(0) THEN Operand ELSE 0), Dropped(1))

handle_exit ==
  /\ Ready(EXIT)
  /\ Raise("halted")

step_once ==
  \/ Refuse
  \/ handle_lit
  \/ handle_litstring
  \/ handle_add
  \/ handle_branch
  \/ handle_zero_branch
  \/ handle_exit

LoopSpec == InitLoop /\ [][step_once]_loop_vars

-----------------------------------------------------------------------------
\* Type invariant of the loop: cells are integers, the stack holds integers
\* and payload references, and the loop has stopped or not for a named reason.
LoopTypeOK ==
  /\ thread \in Seq(Int)
  /\ ip \in Int
  /\ data_stack \in Seq(StackValue)
  /\ outcome \in {"running", "halted"} \cup Faults \cup Exceptions

\* No handler pushes without a limit of its own: the declared egress space is
\* the only thing that keeps the data stack within stack_limit, whatever the
\* thread does (enforce_requirements against what the handlers really push).
StackWithinLimit == Len(data_stack) <= StackLimit

\* An ExecutionFault leaves ip and the data stack as the faulting word found
\* them, which is what the lab reports as final ip and final stack: operands
\* are read, and refused, before anything is popped or moved.
FaultKeepsState ==
  [][outcome' \in Faults => UNCHANGED <<ip, data_stack>>]_loop_vars

\* Every handler is called with the resources it is written for: the lab's
\* README and its docol-call scenario say a colon-thread word gets
\* current_word_thread, control and err, and runs.
CallsMatchMetadata == outcome = "running" => Preflight # "TypeError"
=============================================================================
