------------------------------- MODULE RpnStack -------------------------------
(***************************************************************************)
(* What one evaluate() call of the RPN calculator promises, over a plain   *)
(* sequence of words: the last element is the top of the stack.  Nothing   *)
(* is said here of cells, instruction pointers, arrays or stack pointers.  *)
(***************************************************************************)
EXTENDS WordArith, Sequences

CONSTANT StackSize   \* The largest number of values the stack may hold.

Phases == {"idle", "running", "trapped"}

Statuses == {"none", "OK", "STACK_UNDERFLOW", "DIVIDE_BY_ZERO", "BAD_OPCODE",
             "MISSING_EXIT", "STACK_NOT_SINGLETON", "STACK_OVERFLOW"}

VARIABLES
  stk,      \* the values of the stack, bottom first
  status,   \* the status the last call returned
  result,   \* the result it stored, 0 until then
  phase     \* "idle" between calls, "trapped" once the process was killed

vars == <<stk, status, result, phase>>

Depth == Len(stk)
Top == stk[Depth]
Second == stk[Depth - 1]

\* CalcContext() is all zeros: sp = 0 reads as a full stack until a call resets it.
Init ==
  /\ stk = [i \in 1 .. StackSize |-> 0]
  /\ status = "none"
  /\ result = 0
  /\ phase = "idle"

\* A call starts from an empty stack, whatever the caller's context held.
Begin ==
  /\ phase = "idle"
  /\ stk' = <<>>
  /\ phase' = "running"
  /\ status' = "none"
  /\ result' = 0

Push(v) ==
  /\ phase = "running"
  /\ Depth < StackSize
  /\ stk' = Append(stk, v)
  /\ UNCHANGED <<status, result, phase>>

\* The top two values give way to the operation's result.
Reduce(op) ==
  /\ phase = "running"
  /\ Depth >= 2
  /\ op \in zero_sensitive => Top # 0
  /\ stk' = Append(SubSeq(stk, 1, Depth - 2), Apply(op, Second, Top))
  /\ UNCHANGED <<status, result, phase>>

\* A call that fails leaves the stack as the failing cell found it.
FailureHolds(s) ==
  \/ s = "STACK_UNDERFLOW" /\ Depth < 2
  \/ s = "STACK_OVERFLOW" /\ Depth = StackSize
  \/ s = "DIVIDE_BY_ZERO" /\ Depth >= 2 /\ Top = 0
  \/ s = "STACK_NOT_SINGLETON" /\ Depth # 1
  \/ s \in {"BAD_OPCODE", "MISSING_EXIT"}

Fail(s) ==
  /\ phase = "running"
  /\ FailureHolds(s)
  /\ status' = s
  /\ result' = 0
  /\ phase' = "idle"
  /\ UNCHANGED stk

\* Success needs exactly one value, which is the result and stays in place.
Succeed ==
  /\ phase = "running"
  /\ Depth = 1
  /\ status' = "OK"
  /\ result' = Top
  /\ phase' = "idle"
  /\ UNCHANGED stk

\* The one undefined division may kill the process instead of returning.
Trap(op) ==
  /\ phase = "running"
  /\ Depth >= 2
  /\ Undefined(op, Second, Top)
  /\ phase' = "trapped"
  /\ UNCHANGED <<stk, status, result>>

Next ==
  \/ Begin
  \/ \E v \in LiteralValues : Push(v)
  \/ \E op \in BinaryOps : Reduce(op)
  \/ \E s \in Statuses : Fail(s)
  \/ Succeed
  \/ \E op \in BinaryOps : Trap(op)

Spec == Init /\ [][Next]_vars

=============================================================================
