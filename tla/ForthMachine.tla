----------------------------- MODULE ForthMachine -----------------------------
(***************************************************************************)
(* What running a threaded program means to its author: a machine over     *)
(* instructions, with a stack of values and a stack of positions whose     *)
(* last is where the program is.  Cells, instruction pointers and thread   *)
(* pointers do not appear, nor does the way the program is driven.         *)
(***************************************************************************)
EXTENDS ThreadCode

VARIABLES
  scenario,   \* the program being run
  xts,        \* the xt of each of its words
  stack,      \* the values, bottom first
  control,    \* <<thread, pc>> positions, innermost last; the outer ones resume at pc
  pending,    \* <<xt>> when EXECUTE took xt off the stack or xt is to run first, else <<>>
  outcome     \* "none" while the program runs

vars == <<scenario, xts, stack, control, pending, outcome>>

Depth == Len(stack)
Outer == SubSeq(control, 1, Len(control) - 1)
Here == control[Len(control)]
Instruction == Body(scenario, Here.thread)[Here.pc]
AtEnd == pending = <<>> /\ Here.pc = Len(Body(scenario, Here.thread)) + 1

Handler ==
  IF pending # <<>> THEN HandlerOfXt(scenario, xts, pending[1])
  ELSE IF Instruction.op = CALL THEN scenario.words[Instruction.arg].handler
  ELSE IF Instruction.op = LITXT THEN LIT
  ELSE Instruction.op

\* The word whose thread DOCOL enters; 0 for DOCOL itself, which has none.
Callee ==
  IF pending # <<>> THEN WordOfXt(xts, pending[1])
  ELSE IF Instruction.op = CALL THEN Instruction.arg ELSE 0

Literal ==
  IF Instruction.op = LITXT THEN xts[Instruction.arg] ELSE Instruction.arg

Executable == Meets(Handler, Depth, Len(control) - 1)

\* Any program may be run; the machine does not choose it.
Init ==
  /\ xts = Xts(scenario)
  /\ stack = <<>>
  /\ control = <<[thread |-> 0, pc |-> IF scenario.direct = 0 THEN 1 ELSE 0]>>
  /\ pending = IF scenario.direct = 0 THEN <<>> ELSE <<xts[scenario.direct]>>
  /\ outcome = "none"

Perform(h) ==
  /\ outcome = "none"
  /\ ~AtEnd
  /\ Handler = h
  /\ Executable
  /\ pending' = <<>>
  /\ UNCHANGED <<scenario, xts, outcome>>

GoTo(pc) == control' = Append(Outer, [Here EXCEPT !.pc = pc])

Lit ==
  /\ Perform(LIT)
  /\ stack' = Append(stack, Literal)
  /\ GoTo(Here.pc + 1)

Add ==
  /\ Perform(ADD)
  /\ stack' = Append(SubSeq(stack, 1, Depth - 2), Wrap(stack[Depth - 1] + stack[Depth]))
  /\ GoTo(Here.pc + 1)

Branch ==
  /\ Perform(BRANCH)
  /\ GoTo(Instruction.arg)
  /\ UNCHANGED stack

ZBranch ==
  /\ Perform(ZBRANCH)
  /\ stack' = SubSeq(stack, 1, Depth - 1)
  /\ GoTo(IF stack[Depth] = 0 THEN Instruction.arg ELSE Here.pc + 1)

\* Entering a word: the caller will resume at the instruction after the call.
Docol ==
  /\ Perform(DOCOL)
  /\ control' = Outer \o << [Here EXCEPT !.pc = @ + 1],
                            [thread |-> IF Callee = 0 THEN -1 ELSE Callee, pc |-> 1] >>
  /\ UNCHANGED stack

Exit ==
  /\ Perform(EXIT)
  /\ control' = Outer
  /\ UNCHANGED stack

Execute ==
  /\ outcome = "none"
  /\ ~AtEnd
  /\ Handler = EXECUTE
  /\ Executable
  /\ pending' = <<stack[Depth]>>
  /\ stack' = SubSeq(stack, 1, Depth - 1)
  /\ UNCHANGED <<scenario, xts, control, outcome>>

\* The program is over: it halted, reached the end of a thread, was refused
\* before doing harm, or reached outside a stack.
MayStop(o) ==
  \/ o = "halted" /\ ~AtEnd /\ Handler \notin Lowered \ {HALT}
  \/ o = "ran_off" /\ AtEnd
  \/ o = "refused" /\ (AtEnd \/ Handler \notin Lowered \/ ~Executable)
  \/ o = "overrun" /\ (AtEnd \/ ~Executable)

Stop(o) ==
  /\ outcome = "none"
  /\ MayStop(o)
  /\ outcome' = o
  /\ pending' = <<>>
  /\ UNCHANGED <<scenario, xts, stack, control>>

Next ==
  \/ Lit
  \/ Add
  \/ Branch
  \/ ZBranch
  \/ Docol
  \/ Exit
  \/ Execute
  \/ \E o \in {"halted", "ran_off", "refused", "overrun"} : Stop(o)

Spec == Init /\ [][Next]_vars

=============================================================================
