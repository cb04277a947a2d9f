-------------------------------- MODULE Rpn16 --------------------------------
(***************************************************************************)
(* The compiled RPN calculator of src/src/fythvm/rpn16.py: one native      *)
(* function that walks an array of tagged cells with an instruction        *)
(* pointer, over a CalcContext whose stack array grows downward from       *)
(* sp = StackSize (empty) to sp = 0 (full).  The caller may pass the same  *)
(* context to several calls; the array is never cleared, only sp is reset. *)
(*                                                                         *)
(* A call's cells are chosen as the loop reads them: ip only grows, so     *)
(* each cell is read once and choosing it late loses no behaviour.         *)
(*                                                                         *)
(* A definition X_fault is a plausible slip in the code X models; it stands *)
(* here to show that the properties would notice, and is used by nothing.  *)
(***************************************************************************)
EXTENDS WordArith, Sequences

CONSTANTS
  StackSize,    \* STACK_SIZE, 8 in the program
  Literals,     \* the literal values the callers' programs use
  Opcodes,      \* the opcode cells they use, known or not
  MaxCells,     \* bound on the length of a program
  Contexts      \* which context a call may get: a subset of {"fresh", "reused"}

ASSUME Rpn16Assumption ==
  /\ StackSize \in Nat /\ StackSize >= 2
  /\ Literals \subseteq LiteralValues
  /\ BinaryOps \cup {"="} \subseteq Opcodes
  /\ MaxCells \in Nat \ {0}
  /\ Contexts \subseteq {"fresh", "reused"}

VARIABLES
  stack,        \* ctx.stack
  sp,           \* ctx.sp
  ip,           \* the loop parameter ip
  cell_count,   \* the length of the program being evaluated
  cells,        \* the cells read by this call so far (for the properties)
  status,       \* the status the last call returned, "none" while it runs
  result,       \* the caller's result cell, new in every call
  phase         \* "idle" between calls, "trapped" once the process was killed

vars == <<stack, sp, ip, cell_count, cells, status, result, phase>>

Slots == 0 .. StackSize - 1

Lit(v) == [kind |-> "lit", value |-> v]
Op(o) == [kind |-> "op", value |-> o]

(***************************************************************************)
(* Stack access (codegen/stack.py).                                        *)
(***************************************************************************)
has_room_fault == sp >= 0
has_room == sp # 0

has_at_least(count) == sp <= StackSize - count

has_exactly_fault(count) == sp <= StackSize - count
has_exactly(count) == sp = StackSize - count

\* pop2 only reads: the caller stores the result and moves sp afterwards.
pop2 == [lhs |-> stack[sp + 1], rhs |-> stack[sp], result_index |-> sp + 1]

peek == stack[sp]

push(v) ==
  /\ sp' = sp - 1
  /\ stack' = [stack EXCEPT ![sp - 1] = v]

\* The Python view of a context: its live values, bottom first.
logical_stack == [i \in 1 .. StackSize - sp |-> stack[StackSize - i]]

(***************************************************************************)
(* The evaluation loop.                                                    *)
(***************************************************************************)
reached_end == ip >= cell_count

Fetch(cell) ==
  /\ phase = "running"
  /\ ~reached_end
  /\ cells' = Append(cells, cell)
  /\ ip' = ip + 1
  /\ UNCHANGED cell_count

Continue == UNCHANGED <<status, result, phase>>

\* An error block or the exit handler: write result and status and return.
Return(s, r) ==
  /\ status' = s
  /\ result' = r
  /\ phase' = "idle"

Fail(s) == Return(s, 0) /\ UNCHANGED <<stack, sp>>

Init ==
  /\ stack = [i \in Slots |-> 0]
  /\ sp = 0
  /\ ip = 0
  /\ cell_count = 0
  /\ cells = <<>>
  /\ status = "none"
  /\ result = 0
  /\ phase = "idle"

reset_fault == sp' = sp
reset == sp' = StackSize

\* evaluate() with a program of n cells, on a new or on the caller's context.
Evaluate(n, ctx) ==
  /\ phase = "idle"
  /\ stack' = IF ctx = "fresh" THEN [i \in Slots |-> 0] ELSE stack
  /\ reset
  /\ ip' = 0
  /\ cell_count' = n
  /\ cells' = <<>>
  /\ phase' = "running"
  /\ status' = "none"
  /\ result' = 0

MissingExit ==
  /\ phase = "running"
  /\ reached_end
  /\ Fail("MISSING_EXIT")
  /\ UNCHANGED <<ip, cell_count, cells>>

Literal(v) ==
  /\ Fetch(Lit(v))
  /\ has_room
  /\ push(v)
  /\ Continue

LiteralOverflow(v) ==
  /\ Fetch(Lit(v))
  /\ ~has_room
  /\ Fail("STACK_OVERFLOW")

Binary(op) ==
  /\ Fetch(Op(op))
  /\ has_at_least(2)
  /\ op \in zero_sensitive => pop2.rhs # 0
  /\ stack' = [stack EXCEPT ![pop2.result_index] = Apply(op, pop2.lhs, pop2.rhs)]
  /\ sp' = pop2.result_index
  /\ Continue

BinaryUnderflow(op) ==
  /\ Fetch(Op(op))
  /\ ~has_at_least(2)
  /\ Fail("STACK_UNDERFLOW")

BinaryByZero(op) ==
  /\ Fetch(Op(op))
  /\ has_at_least(2)
  /\ op \in zero_sensitive
  /\ pop2.rhs = 0
  /\ Fail("DIVIDE_BY_ZERO")

\* The undefined division, on a build where the instruction traps.
BinaryTrap(op) ==
  /\ Fetch(Op(op))
  /\ has_at_least(2)
  /\ Undefined(op, pop2.lhs, pop2.rhs)
  /\ phase' = "trapped"
  /\ UNCHANGED <<stack, sp, status, result>>

\* "=" returns the single value and does not pop it.
ExitSingleton ==
  /\ Fetch(Op("="))
  /\ has_exactly(1)
  /\ Return("OK", peek)
  /\ UNCHANGED <<stack, sp>>

ExitNotSingleton ==
  /\ Fetch(Op("="))
  /\ ~has_exactly(1)
  /\ Fail("STACK_NOT_SINGLETON")

BadOpcode(o) ==
  /\ o \notin BinaryOps \cup {"="}
  /\ Fetch(Op(o))
  /\ Fail("BAD_OPCODE")

Next ==
  \/ \E n \in 1 .. MaxCells, ctx \in Contexts : Evaluate(n, ctx)
  \/ MissingExit
  \/ \E v \in Literals : Literal(v)
  \/ \E v \in Literals : LiteralOverflow(v)
  \/ \E op \in BinaryOps : Binary(op)
  \/ \E op \in BinaryOps : BinaryUnderflow(op)
  \/ \E op \in BinaryOps : BinaryByZero(op)
  \/ \E op \in BinaryOps : BinaryTrap(op)
  \/ ExitSingleton
  \/ ExitNotSingleton
  \/ \E o \in Opcodes : BadOpcode(o)

Spec == Init /\ [][Next]_vars

(***************************************************************************)
(* A stack-free reading of the source: the postfix expression that ends at *)
(* cell i starts at start[i] (0 when no expression ends there) and has the *)
(* value val[i]; tiling[i] is the sequence of values of the expressions    *)
(* that end with cell i and lie next to each other.                        *)
(***************************************************************************)
ExpressionStart(code) ==
  LET start[i \in 0 .. Len(code)] ==
        IF i = 0 THEN 0
        ELSE IF code[i].kind = "lit" THEN i
        ELSE IF code[i].value \in BinaryOps /\ start[i - 1] > 1
             THEN start[start[i - 1] - 1]
             ELSE 0
  IN  start

ExpressionValue(code) ==
  LET start == ExpressionStart(code)
      val[i \in 0 .. Len(code)] ==
        IF start[i] = 0 THEN 0
        ELSE IF code[i].kind = "lit" THEN code[i].value
        ELSE Apply(code[i].value, val[start[i - 1] - 1], val[i - 1])
  IN  val

Tiling(code) ==
  LET start == ExpressionStart(code)
      val == ExpressionValue(code)
      tiling[i \in 0 .. Len(code)] ==
        IF start[i] = 0 THEN <<>> ELSE Append(tiling[start[i] - 1], val[i])
  IN  tiling[Len(code)]

IsExpression(code) == code # <<>> /\ ExpressionStart(code)[Len(code)] = 1

(***************************************************************************)
(* Properties.                                                             *)
(***************************************************************************)

\* Every variable has its type; in particular sp is always a stack position,
\* so that no push or pop of a call reaches a cell outside ctx.stack.
TypeOK ==
  /\ stack \in [Slots -> Word]
  /\ sp \in 0 .. StackSize
  /\ ip \in Nat
  /\ cell_count \in Nat
  /\ cells \in Seq([kind : {"lit"}, value : LiteralValues] \cup [kind : {"op"}, value : Opcodes])
  /\ status \in {"none", "OK", "STACK_UNDERFLOW", "DIVIDE_BY_ZERO", "BAD_OPCODE",
                 "MISSING_EXIT", "STACK_NOT_SINGLETON", "STACK_OVERFLOW"}
  /\ result \in Word
  /\ phase \in {"idle", "running", "trapped"}

\* While a call runs, the live part of the array holds the values of the
\* expressions that the cells read so far consist of, in source order: no
\* operand is swapped, lost, or left over from the context's earlier calls.
StackMatchesSource == phase = "running" => logical_stack = Tiling(cells)

\* A call returns OK exactly when it read one complete postfix expression and
\* "=", and then its result is that expression's value; otherwise it is 0.
ResultIsExpression ==
  phase = "idle" /\ cells # <<>> =>
    LET body == SubSeq(cells, 1, Len(cells) - 1)
        complete == cells[Len(cells)] = Op("=") /\ IsExpression(body)
    IN  /\ status = "OK" <=> complete
        /\ result = IF complete THEN ExpressionValue(body)[Len(body)] ELSE 0

\* The values of a call are its source's: those on the stack while it runs and
\* the one it returns.
ValuesMatchSource == StackMatchesSource /\ ResultIsExpression

\* The calculator implements the sequence machine of RpnStack when a context
\* is read through logical_stack, the view evaluate() returns to its caller.
Abstract == INSTANCE RpnStack WITH stk <- logical_stack

ImplementsRpnStack == Abstract!Spec

=============================================================================
